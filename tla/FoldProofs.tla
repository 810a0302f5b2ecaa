----------------------------- MODULE FoldProofs -----------------------------
(***************************************************************************)
(* Lemmas about the folds and recursive functions the models are built     *)
(* from, each argued from a least counterexample: a non-empty set of       *)
(* naturals has a least element, a non-empty family of finite sets one     *)
(* that contains no other.                                                 *)
(***************************************************************************)
EXTENDS FiniteSetsExt, FiniteSetTheorems, TLAPS

LEMMA MinimalSet ==
  ASSUME NEW S, IsFiniteSet(S), NEW B, B \subseteq SUBSET S, B # {}
  PROVE  \E T \in B : \A U \in B : U \subseteq T => U = T
<1> DEFINE R == StrictSubsetOrdering(S)
<1>1. IsWellFoundedOn(R, SUBSET S)
  BY FS_StrictSubsetOrderingWellFounded, FS_FiniteSubsetsOfFinite
<1> HIDE DEF R
<1>2. \E T \in B : \A U \in B : ~ (<<U, T>> \in R)
  BY <1>1, WFMin
<1> QED
  BY <1>2 DEF R, StrictSubsetOrdering

LEMMA LeastNumber ==
  ASSUME NEW B, B \subseteq Nat, B # {}
  PROVE  \E m \in B : \A n \in B : m <= n
<1>1. PICK b \in B : TRUE
  OBVIOUS
<1> DEFINE F == {1..n : n \in {k \in B : k <= b}}
<1>0. PICK D : D = 1..b
  OBVIOUS
<1>2. IsFiniteSet(D)
  BY <1>0, FS_Interval
<1>3. F \subseteq SUBSET D /\ F # {}
  <2>1. \A n \in Nat : n <= b => 1..n \subseteq 1..b
    OBVIOUS
  <2> QED
    BY <1>0, <2>1
<1> HIDE DEF F
<1>4. PICK T \in F : \A U \in F : U \subseteq T => U = T
  BY <1>2, <1>3, MinimalSet
<1> USE DEF F
<1>5. PICK m \in B : m <= b /\ T = 1..m
  BY <1>4
<1>6. ASSUME NEW n \in B, n < m PROVE FALSE
  <2>1. 1..n \in F /\ 1..n \subseteq T
    BY <1>5, <1>6
  <2>2. 1..n = 1..m
    BY <1>4, <1>5, <2>1
  <2>3. m \in 1..m /\ m \notin 1..n
    BY <1>5, <1>6
  <2> QED
    BY <2>2, <2>3
<1> QED
  BY <1>5, <1>6

\* Step by step up to n.
LEMMA UpTo ==
  ASSUME NEW n \in Nat, NEW good, 0 \in good,
         \A i \in 1..n : i - 1 \in good => i \in good
  PROVE  \A i \in 0..n : i \in good
<1> DEFINE B == {i \in 0..n : i \notin good}
<1> SUFFICES ASSUME B # {} PROVE FALSE
  OBVIOUS
<1>0. B \subseteq Nat
  OBVIOUS
<1> HIDE DEF B
<1>1. PICK k \in B : \A j \in B : k <= j
  BY <1>0, LeastNumber
<1>2. k \in 0..n /\ k \notin good
  BY <1>1 DEF B
<1>3. k # 0
  BY <1>2
<1>4. k \in 1..n /\ k - 1 \in 0..n /\ k - 1 \notin B
  BY <1>0, <1>1, <1>2, <1>3
<1> QED
  BY <1>2, <1>4 DEF B

----------------------------------------------------------------------------
(***************************************************************************)
(* Recursion over the subsets of a finite set, as the folds do it: an      *)
(* element pick[s] of s is taken out, and combined with what the rest      *)
(* gives.                                                                  *)
(***************************************************************************)
Recursion(g, T, base, pick, step) ==
  \A s \in SUBSET T :
    g[s] = IF s = {} THEN base ELSE step[<<pick[s], g[s \ {pick[s]}]>>]

Picks(pick, S) == \A s \in SUBSET S : s # {} => pick[s] \in s

Solution(g, T, S, base, pick, step) ==
  /\ IsFiniteSet(S) /\ T \subseteq S /\ Picks(pick, S)
  /\ Recursion(g, T, base, pick, step)

LEMMA SolutionUnique ==
  ASSUME NEW S, NEW T, NEW U, NEW base, NEW pick, NEW step, NEW g, NEW h,
         Solution(g, T, S, base, pick, step), Solution(h, U, S, base, pick, step)
  PROVE  \A s \in SUBSET T : s \subseteq U => g[s] = h[s]
<1> USE DEF Solution
<1> DEFINE B == {r \in SUBSET S : r \subseteq T /\ r \subseteq U /\ g[r] # h[r]}
<1> SUFFICES ASSUME B # {} PROVE FALSE
  OBVIOUS
<1>0. B \subseteq SUBSET S
  OBVIOUS
<1> HIDE DEF B
<1>1. PICK r \in B : \A q \in B : q \subseteq r => q = r
  BY <1>0, MinimalSet
<1>2. r \in SUBSET S /\ r \subseteq T /\ r \subseteq U /\ g[r] # h[r]
  BY <1>1 DEF B
<1>3. r # {}
  BY <1>2 DEF Recursion
<1> DEFINE q == r \ {pick[r]}
<1>4. pick[r] \in r
  BY <1>2, <1>3 DEF Picks
<1>5. g[q] = h[q]
  BY <1>1, <1>2, <1>4 DEF B
<1>6. /\ g[r] = step[<<pick[r], g[q]>>]
      /\ h[r] = step[<<pick[r], h[q]>>]
  BY <1>2, <1>3 DEF Recursion
<1> QED
  BY <1>2, <1>5, <1>6

LEMMA RecursionExists ==
  ASSUME NEW S, IsFiniteSet(S), NEW V, NEW base \in V, NEW pick, Picks(pick, S),
         NEW step \in [S \X V -> V]
  PROVE  \E g \in [SUBSET S -> V] : Recursion(g, S, base, pick, step)
<1> DEFINE Solves(g, T) == g \in [SUBSET T -> V] /\ Recursion(g, T, base, pick, step)
           B == {T \in SUBSET S : ~\E g : Solves(g, T)}
<1> SUFFICES ASSUME B # {} PROVE FALSE
  BY DEF B
<1>0. B \subseteq SUBSET S
  OBVIOUS
<1> HIDE DEF B, Solves
<1>1. PICK T \in B : \A U \in B : U \subseteq T => U = T
  BY <1>0, MinimalSet
<1>2. T \in SUBSET S /\ ~\E g : Solves(g, T)
  BY <1>1 DEF B
<1> DEFINE G(U) == CHOOSE g : Solves(g, U)
<1>3. \A U \in SUBSET T : U # T => Solves(G(U), U)
  <2> SUFFICES ASSUME NEW U \in SUBSET T, U # T PROVE Solves(G(U), U)
    OBVIOUS
  <2>1. \E g : Solves(g, U)
    BY <1>1, <1>2 DEF B
  <2> QED
    BY <2>1
<1> HIDE DEF G
<1>4. \A U \in SUBSET T : U # T =>
         /\ \A s \in SUBSET U : G(U)[s] \in V
         /\ Recursion(G(U), U, base, pick, step)
  BY <1>3 DEF Solves
<1> DEFINE rest == T \ {pick[T]}
           h == [s \in SUBSET T |->
                   IF s = {} THEN base
                   ELSE IF s = T THEN step[<<pick[T], G(rest)[rest]>>]
                   ELSE G(s)[s]]
<1>5. T # {} => pick[T] \in T /\ rest \in SUBSET T /\ rest # T
  BY <1>2 DEF Picks
<1>6. \A s \in SUBSET T : h[s] \in V
  <2> SUFFICES ASSUME NEW s \in SUBSET T PROVE h[s] \in V
    OBVIOUS
  <2>1. CASE s = {}
    BY <2>1
  <2>2. CASE s # {} /\ s = T
    <3>1. G(rest)[rest] \in V /\ pick[T] \in S
      BY <1>2, <1>4, <1>5, <2>2
    <3> HIDE DEF rest
    <3>2. h[s] = step[<<pick[T], G(rest)[rest]>>]
      BY <2>2
    <3> QED
      BY <3>1, <3>2
  <2>3. CASE s # {} /\ s # T
    <3>1. G(s)[s] \in V
      BY <1>4, <2>3
    <3> QED
      BY <2>3, <3>1
  <2> QED
    BY <2>1, <2>2, <2>3
<1>7. Recursion(h, T, base, pick, step)
  <2> SUFFICES ASSUME NEW s \in SUBSET T, s # {}
               PROVE  h[s] = step[<<pick[s], h[s \ {pick[s]}]>>]
    BY DEF Recursion
  <2> DEFINE r == s \ {pick[s]}
  <2>1. pick[s] \in s /\ r \in SUBSET T /\ r # T /\ r # s /\ r \subseteq s
    BY <1>2 DEF Picks
  <2>2. h[r] = G(r)[r]
    <3>1. CASE r = {}
      <4>1. G(r)[r] = base
        BY <1>4, <2>1, <3>1 DEF Recursion
      <4> QED
        BY <2>1, <3>1, <4>1
    <3>2. CASE r # {}
      BY <2>1, <3>2
    <3> QED
      BY <3>1, <3>2
  <2>3. CASE s = T
    BY <2>2, <2>3
  <2>4. CASE s # T
    <3>1. G(s)[s] = step[<<pick[s], G(s)[r]>>]
      BY <1>4, <2>4 DEF Recursion
    <3>2. G(s)[r] = G(r)[r]
      <4>1. PICK g, f : g = G(s) /\ f = G(r)
        OBVIOUS
      <4>2. /\ Recursion(g, s, base, pick, step)
            /\ Recursion(f, r, base, pick, step)
        BY <1>4, <2>1, <2>4, <4>1
      <4> HIDE DEF r, h
      <4>3. /\ Solution(g, s, S, base, pick, step)
            /\ Solution(f, r, S, base, pick, step)
        BY <1>2, <2>1, <4>2 DEF Solution
      <4>4. \A q \in SUBSET s : q \subseteq r => g[q] = f[q]
        BY <4>3, SolutionUnique
      <4> QED
        BY <2>1, <4>1, <4>4
    <3> HIDE DEF r
    <3>3. h[s] = G(s)[s]
      BY <2>4
    <3> QED
      BY <2>2, <3>1, <3>2, <3>3 DEF r
  <2> QED
    BY <2>3, <2>4
<1>8. h \in [SUBSET T -> V]
  BY <1>6
<1> HIDE DEF h
<1>9. Solves(h, T)
  BY <1>7, <1>8 DEF Solves
<1> QED
  BY <1>2, <1>9

(***************************************************************************)
(* Recursion over the numbers up to N.                                     *)
(***************************************************************************)
Iterates(g, n, base, step) ==
  g[0] = base /\ \A k \in 1..n : g[k] = step[g[k - 1]]

LEMMA IterationExists ==
  ASSUME NEW N \in Nat, NEW V, NEW base \in V, NEW step \in [V -> V]
  PROVE  \E g \in [0..N -> V] : Iterates(g, N, base, step)
<1> DEFINE Solves(g, n) == g \in [0..n -> V] /\ Iterates(g, n, base, step)
           B == {n \in Nat : ~\E g : Solves(g, n)}
<1> SUFFICES ASSUME B # {} PROVE FALSE
  BY DEF B
<1>0. B \subseteq Nat
  OBVIOUS
<1> HIDE DEF B, Solves
<1>1. PICK n \in B : \A m \in B : n <= m
  BY <1>0, LeastNumber
<1>2. n \in Nat /\ ~\E g : Solves(g, n)
  BY <1>1 DEF B
<1>3. CASE n = 0
  <2> DEFINE g == [k \in 0..0 |-> base]
  <2>1. g \in [0..0 -> V] /\ Iterates(g, 0, base, step)
    BY DEF Iterates
  <2> QED
    BY <1>2, <1>3, <2>1 DEF Solves
<1>4. CASE n > 0
  <2>1. n - 1 \in Nat /\ n - 1 \notin B
    BY <1>1, <1>2, <1>4
  <2>2. PICK g : Solves(g, n - 1)
    BY <2>1 DEF B
  <2>3. g \in [0..(n - 1) -> V] /\ Iterates(g, n - 1, base, step)
    BY <2>2 DEF Solves
  <2> DEFINE h == [k \in 0..n |-> IF k = n THEN step[g[n - 1]] ELSE g[k]]
  <2>4. g[n - 1] \in V
    BY <1>2, <1>4, <2>3
  <2>5. h \in [0..n -> V]
    BY <1>2, <1>4, <2>3, <2>4
  <2>6. Iterates(h, n, base, step)
    BY <1>2, <1>4, <2>3 DEF Iterates
  <2> HIDE DEF h
  <2>7. Solves(h, n)
    BY <2>5, <2>6 DEF Solves
  <2> QED
    BY <1>2, <2>7
<1> QED
  BY <1>2, <1>3, <1>4

----------------------------------------------------------------------------
(***************************************************************************)
(* Sums of a function's values over a finite set do not depend on the      *)
(* order in which the fold takes the elements.                             *)
(***************************************************************************)
SumRecursion(g, v, S) ==
  \A s \in SUBSET S :
    g[s] = IF s = {} THEN 0
           ELSE v[CHOOSE x \in s : TRUE] + g[s \ {CHOOSE x \in s : TRUE}]

Sums(g, v, S) ==
  /\ \A x \in S : v[x] \in Int
  /\ g \in [SUBSET S -> Int] /\ SumRecursion(g, v, S)

LEMMA SumUnique ==
  ASSUME NEW S, IsFiniteSet(S), NEW T, NEW v, NEW w, NEW g, NEW h,
         SumRecursion(g, v, S), SumRecursion(h, w, T),
         \A x \in S \cap T : v[x] = w[x]
  PROVE  \A s \in SUBSET S : s \subseteq T => g[s] = h[s]
<1> DEFINE B == {s \in SUBSET S : s \subseteq T /\ g[s] # h[s]}
<1> SUFFICES ASSUME B # {} PROVE FALSE
  OBVIOUS
<1>0. B \subseteq SUBSET S
  OBVIOUS
<1> HIDE DEF B
<1>1. PICK s \in B : \A q \in B : q \subseteq s => q = s
  BY <1>0, MinimalSet
<1>2. s \in SUBSET S /\ s \subseteq T /\ g[s] # h[s]
  BY <1>1 DEF B
<1>3. s # {}
  BY <1>2 DEF SumRecursion
<1> DEFINE c == CHOOSE x \in s : TRUE
           q == s \ {c}
<1>4. c \in s
  BY <1>3
<1>5. g[q] = h[q]
  BY <1>1, <1>2, <1>4 DEF B
<1>6. g[s] = v[c] + g[q] /\ h[s] = w[c] + h[q]
  BY <1>2, <1>3 DEF SumRecursion
<1>7. v[c] = w[c]
  BY <1>2, <1>4
<1> QED
  BY <1>2, <1>5, <1>6, <1>7

LEMMA SumDefined ==
  ASSUME NEW S, IsFiniteSet(S), NEW v, \A x \in S : v[x] \in Int
  PROVE  \E g \in [SUBSET S -> Int] :
           SumRecursion(g, v, S) /\ SumFunctionOnSet(v, S) = g[S]
<1> DEFINE pick == [s \in SUBSET S |-> CHOOSE x \in s : TRUE]
           step == [p \in S \X Int |-> v[p[1]] + p[2]]
           Sum(f) == [s \in SUBSET S |->
                        IF s = {} THEN 0
                        ELSE v[CHOOSE x \in s : TRUE]
                               + f[s \ {CHOOSE x \in s : TRUE}]]
           iter == CHOOSE f : f = Sum(f)
<1>1. Picks(pick, S)
  BY DEF Picks
<1>2. step \in [S \X Int -> Int]
  OBVIOUS
<1>3. 0 \in Int
  OBVIOUS
<1> HIDE DEF pick, step
<1>4. PICK g \in [SUBSET S -> Int] : Recursion(g, S, 0, pick, step)
  BY <1>1, <1>2, <1>3, RecursionExists
<1>5. \A s \in SUBSET S : s # {} =>
        g[s] = v[CHOOSE x \in s : TRUE] + g[s \ {CHOOSE x \in s : TRUE}]
  <2> SUFFICES ASSUME NEW s \in SUBSET S, s # {}
               PROVE  g[s] = v[CHOOSE x \in s : TRUE]
                               + g[s \ {CHOOSE x \in s : TRUE}]
    OBVIOUS
  <2> DEFINE c == CHOOSE x \in s : TRUE
  <2>1. c \in s /\ pick[s] = c
    BY DEF pick
  <2> HIDE DEF c
  <2>2. g[s \ {c}] \in Int /\ c \in S
    BY <2>1
  <2>3. g[s] = step[<<c, g[s \ {c}]>>]
    BY <1>4, <2>1 DEF Recursion
  <2>4. g[s] = v[c] + g[s \ {c}]
    BY <2>2, <2>3 DEF step
  <2> QED
    BY <2>4 DEF c
<1>6. g[{}] = 0
  BY <1>4 DEF Recursion
<1>7. SumRecursion(g, v, S)
  BY <1>5, <1>6 DEF SumRecursion
<1>8. g = Sum(g)
  BY <1>7 DEF SumRecursion
<1>9. iter = Sum(iter)
  <2> HIDE DEF Sum
  <2> QED
    BY <1>8
<1>10. SumRecursion(iter, v, S)
  <2> HIDE DEF iter
  <2>1. \A s \in SUBSET S : Sum(iter)[s] =
          IF s = {} THEN 0
          ELSE v[CHOOSE x \in s : TRUE] + iter[s \ {CHOOSE x \in s : TRUE}]
    OBVIOUS
  <2> HIDE DEF Sum
  <2>2. \A s \in SUBSET S : iter[s] = Sum(iter)[s]
    BY <1>9
  <2> QED
    BY <2>1, <2>2 DEF SumRecursion
<1>11. SumFunctionOnSet(v, S) = iter[S]
  BY DEF SumFunctionOnSet, FoldFunctionOnSet, MapThenFoldSet
<1> HIDE DEF iter
<1>12. \A s \in SUBSET S : s \subseteq S => iter[s] = g[s]
  BY <1>7, <1>10, SumUnique
<1> QED
  BY <1>7, <1>11, <1>12

\* Whichever element comes first.
LEMMA SumSplit ==
  ASSUME NEW S, IsFiniteSet(S), NEW v, NEW g, Sums(g, v, S), NEW z \in S
  PROVE  g[S] = v[z] + g[S \ {z}]
<1> USE DEF Sums
<1> DEFINE B == {s \in SUBSET S : \E x \in s : g[s] # v[x] + g[s \ {x}]}
<1> SUFFICES ASSUME B # {} PROVE FALSE
  OBVIOUS
<1>0. B \subseteq SUBSET S
  OBVIOUS
<1> HIDE DEF B
<1>1. PICK s \in B : \A q \in B : q \subseteq s => q = s
  BY <1>0, MinimalSet
<1>2. PICK x \in s : g[s] # v[x] + g[s \ {x}]
  BY <1>1 DEF B
<1>3. s \in SUBSET S
  BY <1>0, <1>1
<1>4. PICK c \in s : c = CHOOSE y \in s : TRUE
  BY <1>2
<1>5. g[s] = v[c] + g[s \ {c}]
  BY <1>3, <1>4 DEF SumRecursion
<1>6. x # c
  BY <1>2, <1>5
<1> DEFINE both == s \ {x, c}
<1>7. /\ (s \ {c}) \ {x} = both /\ (s \ {x}) \ {c} = both
      /\ x \in s \ {c} /\ c \in s \ {x}
  BY <1>6
<1>8. \A q \in SUBSET s : q # s => \A y \in q : g[q] = v[y] + g[q \ {y}]
  BY <1>1, <1>3 DEF B
<1>9. s \ {c} \in SUBSET s /\ s \ {c} # s /\ s \ {x} \in SUBSET s /\ s \ {x} # s
  OBVIOUS
<1>10. g[s \ {c}] = v[x] + g[both] /\ g[s \ {x}] = v[c] + g[both]
  BY <1>7, <1>8, <1>9
<1>11. v[x] \in Int /\ v[c] \in Int /\ g[both] \in Int
  BY <1>3
<1> QED
  BY <1>2, <1>5, <1>10, <1>11

LEMMA SumEmpty ==
  ASSUME NEW v
  PROVE  SumFunctionOnSet(v, {}) = 0
<1>1. IsFiniteSet({}) /\ \A x \in {} : v[x] \in Int
  BY FS_EmptySet
<1>2. PICK g \in [SUBSET {} -> Int] :
        SumRecursion(g, v, {}) /\ SumFunctionOnSet(v, {}) = g[{}]
  BY <1>1, SumDefined
<1> QED
  BY <1>2 DEF SumRecursion

LEMMA SumInt ==
  ASSUME NEW S, IsFiniteSet(S), NEW v, \A x \in S : v[x] \in Int
  PROVE  SumFunctionOnSet(v, S) \in Int
<1>1. PICK g \in [SUBSET S -> Int] : SumFunctionOnSet(v, S) = g[S]
  BY SumDefined
<1> QED
  BY <1>1

\* The sum depends on the values over the set alone.
LEMMA SumSame ==
  ASSUME NEW S, IsFiniteSet(S), NEW v, \A x \in S : v[x] \in Int,
         NEW w, \A x \in S : w[x] = v[x]
  PROVE  SumFunctionOnSet(w, S) = SumFunctionOnSet(v, S)
<1>1. PICK g \in [SUBSET S -> Int] :
        SumRecursion(g, v, S) /\ SumFunctionOnSet(v, S) = g[S]
  BY SumDefined
<1>0. \A x \in S : w[x] \in Int
  OBVIOUS
<1>2. PICK h \in [SUBSET S -> Int] :
        SumRecursion(h, w, S) /\ SumFunctionOnSet(w, S) = h[S]
  BY <1>0, SumDefined
<1>3. \A x \in S \cap S : v[x] = w[x]
  OBVIOUS
<1>4. \A s \in SUBSET S : s \subseteq S => g[s] = h[s]
  BY <1>1, <1>2, <1>3, SumUnique
<1> QED
  BY <1>1, <1>2, <1>4

LEMMA SumAdd ==
  ASSUME NEW S, IsFiniteSet(S), NEW x, x \notin S,
         NEW v, \A y \in S \cup {x} : v[y] \in Int
  PROVE  SumFunctionOnSet(v, S \cup {x}) = SumFunctionOnSet(v, S) + v[x]
<1> DEFINE T == S \cup {x}
<1>1. IsFiniteSet(T) /\ \A y \in T : v[y] \in Int
  BY FS_AddElement
<1>2. S \subseteq T /\ x \in T /\ T \ {x} = S
  OBVIOUS
<1> HIDE DEF T
<1>3. PICK g \in [SUBSET T -> Int] :
        SumRecursion(g, v, T) /\ SumFunctionOnSet(v, T) = g[T]
  BY <1>1, SumDefined
<1>4. PICK h \in [SUBSET S -> Int] :
        SumRecursion(h, v, S) /\ SumFunctionOnSet(v, S) = h[S]
  BY <1>1, <1>2, SumDefined
<1>5. \A s \in SUBSET S : s \subseteq T => h[s] = g[s]
  BY <1>3, <1>4, SumUnique
<1>6. Sums(g, v, T) /\ x \in T
  BY <1>1, <1>2, <1>3 DEF Sums
<1>7. g[T] = v[x] + g[S]
  <2>1. g[T] = v[x] + g[T \ {x}]
    BY <1>1, <1>6, SumSplit
  <2> QED
    BY <1>2, <2>1
<1>8. v[x] \in Int /\ h[S] \in Int /\ h[S] = g[S]
  BY <1>1, <1>2, <1>5
<1> QED
  BY <1>3, <1>4, <1>7, <1>8 DEF T

\* One value changes.
LEMMA SumChange ==
  ASSUME NEW S, IsFiniteSet(S), NEW v, \A y \in S : v[y] \in Int,
         NEW x \in S, NEW w, w[x] \in Int, \A y \in S \ {x} : w[y] = v[y]
  PROVE  SumFunctionOnSet(w, S) = SumFunctionOnSet(v, S) - v[x] + w[x]
<1> DEFINE R == S \ {x}
<1>1. IsFiniteSet(R) /\ x \notin R /\ S = R \cup {x}
  BY FS_RemoveElement
<1>2. /\ \A y \in R : v[y] \in Int /\ w[y] = v[y]
      /\ \A y \in R \cup {x} : v[y] \in Int /\ w[y] \in Int
  OBVIOUS
<1> HIDE DEF R
<1>3. /\ SumFunctionOnSet(v, R \cup {x}) = SumFunctionOnSet(v, R) + v[x]
      /\ SumFunctionOnSet(w, R \cup {x}) = SumFunctionOnSet(w, R) + w[x]
  BY <1>1, <1>2, SumAdd
<1>4. SumFunctionOnSet(w, R) = SumFunctionOnSet(v, R)
  BY <1>1, <1>2, SumSame
<1>5. SumFunctionOnSet(v, R) \in Int /\ v[x] \in Int
  BY <1>1, <1>2, SumInt
<1> QED
  BY <1>1, <1>3, <1>4, <1>5

LEMMA SumNat ==
  ASSUME NEW S, IsFiniteSet(S), NEW v, \A x \in S : v[x] \in Nat
  PROVE  SumFunctionOnSet(v, S) \in Nat
<1>a. \A x \in S : v[x] \in Int
  OBVIOUS
<1>1. PICK g \in [SUBSET S -> Int] :
        SumRecursion(g, v, S) /\ SumFunctionOnSet(v, S) = g[S]
  BY <1>a, SumDefined
<1> DEFINE B == {s \in SUBSET S : g[s] \notin Nat}
<1> SUFFICES ASSUME B # {} PROVE FALSE
  BY <1>1
<1>0. B \subseteq SUBSET S
  OBVIOUS
<1> HIDE DEF B
<1>2. PICK s \in B : \A q \in B : q \subseteq s => q = s
  BY <1>0, MinimalSet
<1>3. s \in SUBSET S /\ g[s] \notin Nat
  BY <1>2 DEF B
<1>4. s # {}
  BY <1>1, <1>3 DEF SumRecursion
<1>5. PICK c \in s : c = CHOOSE x \in s : TRUE
  BY <1>4
<1>6. g[s \ {c}] \in Nat
  BY <1>2, <1>3 DEF B
<1>7. g[s] = v[c] + g[s \ {c}]
  BY <1>1, <1>3, <1>4, <1>5 DEF SumRecursion
<1> QED
  BY <1>3, <1>6, <1>7
=============================================================================
