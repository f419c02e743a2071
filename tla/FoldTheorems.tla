---------------------------- MODULE FoldTheorems ----------------------------
(* Facts about minimal elements and folds that the proofs of the components *)
(* share.  Induction is stated over sets: what holds is a set of the things *)
(* it holds of, so that the provers can use the statement.                  *)
EXTENDS Integers, FiniteSetsExt, FiniteSetTheorems, TLAPS

\* A non-empty family of finite sets has a member that includes no other member.
LEMMA MinimalFamily ==
    ASSUME NEW F, F # {}, \A X \in F : IsFiniteSet(X)
    PROVE  \E X \in F : \A Y \in F : Y \subseteq X => Y = X
  <1>. DEFINE S == UNION F
              R == StrictSubsetOrdering(S)
              D == FiniteSubsetsOf(S)
  <1>1. F \subseteq D
    BY DEF FiniteSubsetsOf
  <1>2. IsWellFoundedOn(R, D)
    BY FS_StrictSubsetOrderingWellFounded
  <1>. HIDE DEF R, D
  <1>3. \E X \in F : \A Y \in F : ~(<<Y, X>> \in R)
    BY <1>1, <1>2, WFMin
  <1>4. \A X \in F, Y \in F : Y \subseteq X /\ Y # X => <<Y, X>> \in R
    BY DEF R, StrictSubsetOrdering
  <1>. QED  BY <1>3, <1>4

\* A non-empty set of natural numbers has a least element.
LEMMA LeastElement ==
    ASSUME NEW T \in SUBSET Nat, T # {}
    PROVE  \E n \in T : \A m \in T : n <= m
  <1>. DEFINE F == {0..n : n \in T}
  <1>1. \A n \in T : 0..n \subseteq Nat /\ IsFiniteSet(0..n)
    BY FS_Interval
  <1>2. F # {} /\ \A X \in F : IsFiniteSet(X)
    BY <1>1
  <1>3. PICK X \in F : \A Y \in F : Y \subseteq X => Y = X
    <2>. HIDE DEF F
    <2>. QED  BY <1>2, MinimalFamily
  <1>4. PICK n \in T : X = 0..n
    OBVIOUS
  <1>5. ASSUME NEW m \in T, ~(n <= m)
        PROVE  FALSE
    <2>1. 0..m \in F /\ 0..m \subseteq 0..n /\ n \in 0..n /\ n \notin 0..m
      BY <1>5
    <2>. QED  BY <1>3, <1>4, <2>1
  <1>. QED  BY <1>5

LEMMA NatSetInduction ==
    ASSUME NEW T, 0 \in T, \A n \in Nat : n \in T => n + 1 \in T
    PROVE  Nat \subseteq T
  <1>1. SUFFICES ASSUME Nat \ T # {} PROVE FALSE
    OBVIOUS
  <1>2. PICK n \in Nat \ T : \A m \in Nat \ T : n <= m
    BY <1>1, LeastElement
  <1>3. n # 0
    BY <1>2
  <1>4. n - 1 \in Nat /\ n - 1 \notin Nat \ T
    BY <1>2, <1>3
  <1>. QED  BY <1>4

LEMMA ImageFinite ==
    ASSUME NEW S, IsFiniteSet(S), NEW f
    PROVE  IsFiniteSet({f[x] : x \in S})
  <1>. DEFINE T == {f[x] : x \in S}
              g == [x \in S |-> f[x]]
  <1>1. g \in Surjection(S, T)
    BY DEF Surjection
  <1>. HIDE DEF T, g
  <1>2. IsFiniteSet(T)
    BY <1>1, FS_Surjection DEF ExistsSurjection
  <1>. QED  BY <1>2 DEF T

\* A finite, non-empty set of integers has a greatest element and a least one.
LEMMA MaxOf ==
    ASSUME NEW S \in SUBSET Int, IsFiniteSet(S), S # {}
    PROVE  Max(S) \in S /\ \A y \in S : Max(S) >= y
  <1>. DEFINE Tops(X) == {x \in X : \A y \in X : x >= y}
              F == {X \in SUBSET S : X # {} /\ Tops(X) = {}}
  <1>1. F = {}
    <2>. SUFFICES ASSUME F # {} PROVE FALSE
      OBVIOUS
    <2>1. \A X \in F : IsFiniteSet(X)
      BY FS_Subset
    <2>2. PICK X \in F : \A Y \in F : Y \subseteq X => Y = X
      <3>. HIDE DEF F
      <3>. QED  BY <2>1, MinimalFamily
    <2>3. PICK x \in X : TRUE
      BY <2>2
    <2>4. X \ {x} \notin F /\ X \ {x} \in SUBSET S
      BY <2>2, <2>3
    <2>5. CASE X \ {x} = {}
      <3>1. x \in Tops(X)
        BY <2>3, <2>5
      <3>. QED  BY <2>2, <3>1
    <2>6. CASE X \ {x} # {}
      <3>1. PICK m \in X \ {x} : \A y \in X \ {x} : m >= y
        BY <2>4, <2>6
      <3>2. m \in Int /\ x \in Int /\ \A y \in X : y \in Int
        BY <2>2, <3>1
      <3>3. x \in Tops(X) \/ m \in Tops(X)
        BY <2>3, <3>1, <3>2
      <3>. QED  BY <2>2, <3>3
    <2>. QED  BY <2>5, <2>6
  <1>2. \E x \in S : \A y \in S : x >= y
    BY <1>1
  <1>. QED  BY <1>2 DEF Max

LEMMA MinOf ==
    ASSUME NEW S \in SUBSET Int, IsFiniteSet(S), S # {}
    PROVE  Min(S) \in S /\ \A y \in S : Min(S) <= y
  <1>. DEFINE N == {0 - x : x \in S}
              f == [x \in S |-> 0 - x]
  <1>1. N \in SUBSET Int /\ N # {}
    <2>1. PICK x \in S : TRUE
      OBVIOUS
    <2>2. 0 - x \in N
      BY <2>1
    <2>3. ASSUME NEW n \in N PROVE n \in Int
      <3>1. PICK y \in S : n = 0 - y
        OBVIOUS
      <3>. QED  BY <3>1
    <2>. HIDE DEF N
    <2>. QED  BY <2>2, <2>3
  <1>2. IsFiniteSet(N)
    <2>1. N = {f[x] : x \in S}
      OBVIOUS
    <2>. HIDE DEF f, N
    <2>. QED  BY <2>1, ImageFinite
  <1>3. PICK m \in N : \A y \in N : m >= y
    <2>. HIDE DEF N
    <2>. QED  BY <1>1, <1>2, MaxOf
  <1>4. PICK x \in S : m = 0 - x
    OBVIOUS
  <1>5. \A y \in S : x <= y
    <2>. SUFFICES ASSUME NEW y \in S PROVE x <= y
      OBVIOUS
    <2>1. 0 - y \in N
      OBVIOUS
    <2>. QED  BY <1>3, <1>4, <2>1
  <1>. QED  BY <1>4, <1>5 DEF Min

LEMMA MaxBelow ==
    ASSUME NEW S \in SUBSET Int, IsFiniteSet(S), S # {}
    PROVE  Max(S) \in Int /\ \A x \in Int : Max(S) <= x <=> \A y \in S : y <= x
  <1>1. Max(S) \in S /\ \A y \in S : Max(S) >= y
    BY MaxOf
  <1>. DEFINE m == Max(S)
  <1>2. m \in Int /\ m \in S /\ \A y \in S : y \in Int /\ y <= m
    BY <1>1
  <1>. HIDE DEF m
  <1>3. \A x \in Int : m <= x <=> \A y \in S : y <= x
    BY <1>2
  <1>. QED  BY <1>2, <1>3 DEF m

LEMMA MinAbove ==
    ASSUME NEW S \in SUBSET Int, IsFiniteSet(S), S # {}
    PROVE  Min(S) \in Int /\ \A x \in Int : x <= Min(S) <=> \A y \in S : x <= y
  <1>1. Min(S) \in S /\ \A y \in S : Min(S) <= y
    BY MinOf
  <1>. DEFINE m == Min(S)
  <1>2. m \in Int /\ m \in S /\ \A y \in S : y \in Int /\ m <= y
    BY <1>1
  <1>. HIDE DEF m
  <1>3. \A x \in Int : x <= m <=> \A y \in S : x <= y
    BY <1>2
  <1>. QED  BY <1>2, <1>3 DEF m

-----------------------------------------------------------------------------
(* Folds over finite sets *)

Foldable(S, V, base, pick, step) ==
    /\ IsFiniteSet(S) /\ base \in V
    /\ \A s \in SUBSET S : s # {} => pick[s] \in s
    /\ \A x \in S, v \in V : step[<<x, v>>] \in V

Accumulates(g, S, base, pick, step) == \A s \in SUBSET S :
    g[s] = IF s = {} THEN base ELSE step[<<pick[s], g[s \ {pick[s]}]>>]

\* The recursive function behind a fold exists: one element at a time is picked from a
\* finite set, and every step stays within V.
LEMMA FoldExists ==
    ASSUME NEW S, NEW V, NEW base, NEW pick, NEW step, Foldable(S, V, base, pick, step)
    PROVE  \E g \in [SUBSET S -> V] : Accumulates(g, S, base, pick, step)
  <1>. USE DEF Foldable
  <1>. DEFINE Rhs(g, s) == IF s = {} THEN base ELSE step[<<pick[s], g[s \ {pick[s]}]>>]
              Upto(g, n) == \A s \in SUBSET S : Cardinality(s) <= n => g[s] = Rhs(g, s)
              T == {n \in Nat : \E g \in [SUBSET S -> V] : Upto(g, n)}
  <1>1. \A s \in SUBSET S : IsFiniteSet(s) /\ Cardinality(s) \in Nat
    BY FS_Subset, FS_CardinalityType
  <1>2. 0 \in T
    <2>. DEFINE g == [s \in SUBSET S |-> base]
    <2>1. g \in [SUBSET S -> V]
      OBVIOUS
    <2>2. \A s \in SUBSET S : Cardinality(s) <= 0 => s = {}
      BY <1>1, FS_EmptySet
    <2>3. Upto(g, 0)
      BY <2>2
    <2>. HIDE DEF g, Upto
    <2>. QED  BY <2>1, <2>3
  <1>3. ASSUME NEW n \in Nat, n \in T
        PROVE  n + 1 \in T
    <2>1. PICK g \in [SUBSET S -> V] : Upto(g, n)
      BY <1>3
    <2>. DEFINE h == [s \in SUBSET S |-> Rhs(g, s)]
    <2>2. h \in [SUBSET S -> V]
      <3>1. ASSUME NEW s \in SUBSET S PROVE Rhs(g, s) \in V
        <4>1. CASE s = {}
          BY <4>1
        <4>2. CASE s # {}
          <5>1. pick[s] \in S /\ s \ {pick[s]} \in SUBSET S
            BY <4>2
          <5>. QED  BY <4>2, <5>1
        <4>. QED  BY <4>1, <4>2
      <3>. HIDE DEF Rhs
      <3>. QED  BY <3>1
    <2>3. ASSUME NEW s \in SUBSET S, Cardinality(s) <= n + 1
          PROVE  h[s] = Rhs(h, s)
      <3>1. CASE s = {}
        BY <3>1
      <3>2. CASE s # {}
        <4>. DEFINE t == s \ {pick[s]}
        <4>1. t \in SUBSET S /\ Cardinality(t) <= n
          BY <1>1, <2>3, <3>2, FS_RemoveElement
        <4>2. g[t] = h[t]
          <5>1. g[t] = Rhs(g, t)
            <6>. HIDE DEF t, Rhs
            <6>. QED  BY <2>1, <4>1
          <5>. HIDE DEF t, Rhs
          <5>. QED  BY <4>1, <5>1
        <4>3. h[s] = Rhs(g, s)
          OBVIOUS
        <4>. HIDE DEF h
        <4>. QED  BY <3>2, <4>2, <4>3
      <3>. QED  BY <3>1, <3>2
    <2>. HIDE DEF h, Rhs
    <2>4. Upto(h, n + 1)
      BY <2>3
    <2>. HIDE DEF Upto
    <2>. QED  BY <2>2, <2>4
  <1>4. Cardinality(S) \in T
    <2>. HIDE DEF T
    <2>. QED  BY <1>1, <1>2, <1>3, NatSetInduction
  <1>5. PICK g \in [SUBSET S -> V] : Upto(g, Cardinality(S))
    BY <1>4
  <1>6. \A s \in SUBSET S : Cardinality(s) <= Cardinality(S)
    BY FS_Subset
  <1>. HIDE DEF Rhs
  <1>7. \A s \in SUBSET S : g[s] = Rhs(g, s)
    BY <1>5, <1>6
  <1>. QED  BY <1>7 DEF Rhs, Accumulates

-----------------------------------------------------------------------------
(* Sums *)

SumOf(f, S) == MapThenSumSet(LAMBDA x : f[x], S)

\* g is the running sum of f over the subsets of S.
Sums(g, f, S) == \A s \in SUBSET S :
    g[s] = IF s = {} THEN 0
           ELSE f[CHOOSE x \in s : TRUE] + g[s \ {CHOOSE x \in s : TRUE}]

\* Running sums of values that agree, agree.
LEMMA SumsUnique ==
    ASSUME NEW S, IsFiniteSet(S), NEW f, NEW h, \A x \in S : h[x] = f[x],
           NEW g, NEW k, Sums(g, f, S), Sums(k, h, S)
    PROVE  k[S] = g[S]
  <1>. DEFINE F == {X \in SUBSET S : k[X] # g[X]}
  <1>1. SUFFICES ASSUME F # {} PROVE FALSE
    OBVIOUS
  <1>2. \A X \in F : IsFiniteSet(X)
    BY FS_Subset
  <1>3. PICK X \in F : \A Y \in F : Y \subseteq X => Y = X
    <2>. HIDE DEF F
    <2>. QED  BY <1>1, <1>2, MinimalFamily
  <1>4. X # {}
    BY <1>3 DEF Sums
  <1>. DEFINE c == CHOOSE z \in X : TRUE
  <1>5. c \in X /\ g[X] = f[c] + g[X \ {c}] /\ k[X] = h[c] + k[X \ {c}]
    BY <1>3, <1>4 DEF Sums
  <1>. HIDE DEF c
  <1>6. X \ {c} \in SUBSET S /\ X \ {c} # X /\ X \ {c} \notin F
    BY <1>3, <1>5
  <1>. QED  BY <1>3, <1>5, <1>6

LEMMA SumsExist ==
    ASSUME NEW S, IsFiniteSet(S), NEW f, \A x \in S : f[x] \in Nat
    PROVE  \E g \in [SUBSET S -> Nat] : Sums(g, f, S) /\ SumOf(f, S) = g[S]
  <1>. DEFINE pick == [s \in SUBSET S |-> CHOOSE x \in s : TRUE]
              step == [p \in S \X Nat |-> f[p[1]] + p[2]]
  <1>1. \A s \in SUBSET S : pick[s] = CHOOSE x \in s : TRUE
    OBVIOUS
  <1>2. \A x \in S, v \in Nat : step[<<x, v>>] = f[x] + v
    OBVIOUS
  <1>3. \A s \in SUBSET S : s # {} => pick[s] \in s
    BY <1>1
  <1>. HIDE DEF pick, step
  <1>4. PICK g \in [SUBSET S -> Nat] : Accumulates(g, S, 0, pick, step)
    <2>1. Foldable(S, Nat, 0, pick, step)
      BY <1>2, <1>3 DEF Foldable
    <2>. QED  BY <2>1, FoldExists
  <1>5. ASSUME NEW s \in SUBSET S
        PROVE  g[s] = IF s = {} THEN 0 ELSE f[pick[s]] + g[s \ {pick[s]}]
    <2>1. CASE s = {}
      BY <1>4, <2>1 DEF Accumulates
    <2>2. CASE s # {}
      <3>1. pick[s] \in S /\ s \ {pick[s]} \in SUBSET S /\ g[s \ {pick[s]}] \in Nat
        BY <1>3, <2>2
      <3>. QED  BY <1>2, <1>4, <2>2, <3>1 DEF Accumulates
    <2>. QED  BY <2>1, <2>2
  <1>6. Sums(g, f, S)
    BY <1>1, <1>5 DEF Sums
  <1>. DEFINE Eqn(h) == h = [s \in SUBSET S |-> IF s = {} THEN 0 ELSE
                       f[CHOOSE x \in s : TRUE] + h[s \ {CHOOSE x \in s : TRUE}]]
              iter == CHOOSE h : Eqn(h)
  <1>7. SumOf(f, S) = iter[S]
    BY DEF SumOf, MapThenSumSet, MapThenFoldSet
  <1>8. Eqn(g)
    <2>1. \A s \in SUBSET S : g[s] = IF s = {} THEN 0 ELSE
                       f[CHOOSE x \in s : TRUE] + g[s \ {CHOOSE x \in s : TRUE}]
      BY <1>6 DEF Sums
    <2>. QED  BY <2>1
  <1>9. Eqn(iter)
    <2>. HIDE DEF Eqn
    <2>. QED  BY <1>8
  <1>. HIDE DEF Eqn, iter
  <1>10. \A s \in SUBSET S : iter[s] = IF s = {} THEN 0 ELSE
                       f[CHOOSE x \in s : TRUE] + iter[s \ {CHOOSE x \in s : TRUE}]
    BY <1>9 DEF Eqn
  <1>11. Sums(iter, f, S)
    BY <1>10 DEF Sums
  <1>12. iter[S] = g[S]
    BY <1>6, <1>11, SumsUnique
  <1>. QED  BY <1>6, <1>7, <1>12

AnyOrder(g, f, S) == \A X \in SUBSET S : \A x \in X : g[X] = f[x] + g[X \ {x}]

\* A sum is added up in whatever order the elements are picked.
LEMMA SumsSplit ==
    ASSUME NEW S, IsFiniteSet(S), NEW f, \A x \in S : f[x] \in Nat,
           NEW g \in [SUBSET S -> Nat], Sums(g, f, S)
    PROVE  AnyOrder(g, f, S)
  <1>. DEFINE F == {Y \in SUBSET S : \E y \in Y : g[Y] # f[y] + g[Y \ {y}]}
  <1>1. SUFFICES ASSUME F # {} PROVE FALSE
    BY DEF AnyOrder
  <1>2. \A Y \in F : IsFiniteSet(Y)
    BY FS_Subset
  <1>3. PICK Y \in F : \A Z \in F : Z \subseteq Y => Z = Y
    <2>. HIDE DEF F
    <2>. QED  BY <1>1, <1>2, MinimalFamily
  <1>4. PICK y \in Y : g[Y] # f[y] + g[Y \ {y}]
    BY <1>3
  <1>. DEFINE c == CHOOSE z \in Y : TRUE
  <1>5. c \in Y /\ g[Y] = f[c] + g[Y \ {c}]
    BY <1>3, <1>4 DEF Sums
  <1>. HIDE DEF c
  <1>6. c # y
    BY <1>4, <1>5
  <1>7. g[Y \ {c}] = f[y] + g[(Y \ {c}) \ {y}]
    <2>1. Y \ {c} \in SUBSET S /\ Y \ {c} # Y /\ y \in Y \ {c} /\ Y \ {c} \notin F
      BY <1>3, <1>5, <1>6
    <2>. QED  BY <2>1
  <1>8. g[Y \ {y}] = f[c] + g[(Y \ {y}) \ {c}]
    <2>1. Y \ {y} \in SUBSET S /\ Y \ {y} # Y /\ c \in Y \ {y} /\ Y \ {y} \notin F
      BY <1>3, <1>5, <1>6
    <2>. QED  BY <2>1
  <1>9. (Y \ {y}) \ {c} = (Y \ {c}) \ {y}
    OBVIOUS
  <1>10. f[c] \in Nat /\ f[y] \in Nat /\ g[(Y \ {y}) \ {c}] \in Nat
    BY <1>3, <1>5
  <1>. DEFINE rest == g[(Y \ {y}) \ {c}]
  <1>11. g[Y] = f[c] + (f[y] + rest) /\ g[Y \ {y}] = f[c] + rest
    BY <1>5, <1>7, <1>8, <1>9
  <1>12. f[c] + (f[y] + rest) = f[y] + (f[c] + rest)
    <2>. HIDE DEF rest
    <2>. QED  BY <1>10 DEF rest
  <1>. QED  BY <1>4, <1>11, <1>12

LEMMA SumEmpty ==
    ASSUME NEW f
    PROVE  SumOf(f, {}) = 0
  <1>1. PICK g \in [SUBSET {} -> Nat] : Sums(g, f, {}) /\ SumOf(f, {}) = g[{}]
    BY SumsExist, FS_EmptySet
  <1>. QED  BY <1>1 DEF Sums

LEMMA SumNat ==
    ASSUME NEW S, IsFiniteSet(S), NEW f, \A x \in S : f[x] \in Nat
    PROVE  SumOf(f, S) \in Nat
  <1>1. PICK g \in [SUBSET S -> Nat] : SumOf(f, S) = g[S]
    BY SumsExist
  <1>. QED  BY <1>1

\* The sum over a set depends on the values on the set alone.
LEMMA SumSame ==
    ASSUME NEW S, IsFiniteSet(S), NEW f, NEW h, \A x \in S : f[x] \in Nat /\ h[x] = f[x]
    PROVE  SumOf(h, S) = SumOf(f, S)
  <1>1. PICK g \in [SUBSET S -> Nat] : Sums(g, f, S) /\ SumOf(f, S) = g[S]
    BY SumsExist
  <1>2. PICK k \in [SUBSET S -> Nat] : Sums(k, h, S) /\ SumOf(h, S) = k[S]
    BY SumsExist
  <1>3. k[S] = g[S]
    BY <1>1, <1>2, SumsUnique
  <1>. QED  BY <1>1, <1>2, <1>3

LEMMA SumRemove ==
    ASSUME NEW S, IsFiniteSet(S), NEW f, \A x \in S : f[x] \in Nat, NEW x \in S
    PROVE  SumOf(f, S) = f[x] + SumOf(f, S \ {x})
  <1>. DEFINE R == S \ {x}
  <1>1. PICK g \in [SUBSET S -> Nat] : Sums(g, f, S) /\ SumOf(f, S) = g[S]
    BY SumsExist
  <1>2. IsFiniteSet(R)
    BY FS_RemoveElement
  <1>3. PICK k \in [SUBSET R -> Nat] : Sums(k, f, R) /\ SumOf(f, R) = k[R]
    BY <1>2, SumsExist
  <1>4. Sums(g, f, R)
    BY <1>1 DEF Sums
  <1>5. k[R] = g[R]
    <2>. HIDE DEF R
    <2>. QED  BY <1>2, <1>3, <1>4, SumsUnique
  <1>6. g[S] = f[x] + g[S \ {x}]
    <2>1. AnyOrder(g, f, S)
      BY <1>1, SumsSplit
    <2>. QED  BY <2>1 DEF AnyOrder
  <1>. QED  BY <1>1, <1>3, <1>5, <1>6
=============================================================================
