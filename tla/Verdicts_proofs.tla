---------------------------- MODULE Verdicts_proofs ----------------------------
(***************************************************************************)
(* The properties of Verdicts, for all files, sections, features and       *)
(* evidence.  What the algorithms compute in loops is a recursive function *)
(* here, so the proofs are by induction: on numbers, on the length of a    *)
(* list, and on the elements of a finite set.  Each kind of induction is a *)
(* lemma about sets, and each kind of loop a lemma that says the function  *)
(* exists and steps as it is written.                                      *)
(***************************************************************************)
EXTENDS Verdicts, WellFoundedInduction, FiniteSetTheorems, SequenceTheorems, TLAPS

-----------------------------------------------------------------------------
(* Induction.                                                               *)

LessThan == {ss \in Nat \X Nat : ss[1] < ss[2]}

(* A set of numbers with 0 and the successors of its elements has them all. *)
LEMMA Induction ==
    ASSUME NEW S, S \subseteq Nat, 0 \in S, \A n \in S : n + 1 \in S
    PROVE  S = Nat
<1> DEFINE T == Nat \ S
<1> SUFFICES ASSUME T # {} PROVE FALSE
  OBVIOUS
<1>1. IsWellFoundedOn(LessThan, Nat)
  BY NatLessThanWellFounded DEF OpToRel, LessThan
<1>2. PICK x \in T : \A y \in T : ~(<<y, x>> \in LessThan)
  BY <1>1, WFMin, T \subseteq Nat, Zenon
<1>3. x # 0 /\ x \in Nat /\ x - 1 \in Nat
  OBVIOUS
<1>4. <<x - 1, x>> \in LessThan
  BY <1>3 DEF LessThan
<1>5. x - 1 \in S
  BY <1>2, <1>3, <1>4
<1>6. (x - 1) + 1 = x
  BY <1>3
<1> QED BY <1>5, <1>6

(* Up to a bound it is enough to step below the bound.                      *)
LEMMA InductionUpTo ==
    ASSUME NEW n \in Nat, NEW S, 0 \in S, \A i \in 0..(n - 1) : i \in S => i + 1 \in S
    PROVE  0..n \subseteq S
<1> DEFINE T == {i \in Nat : i <= n => i \in S}
<1>1. 0 \in T
  OBVIOUS
<1>2. ASSUME NEW i \in T PROVE i + 1 \in T
  <2>1. CASE i + 1 <= n
    <3>1. i \in 0..(n - 1) /\ i \in S
      BY <2>1
    <3> QED BY <3>1
  <2>2. CASE ~(i + 1 <= n)
    BY <2>2
  <2> QED BY <2>1, <2>2
<1> HIDE DEF T
<1>3. T = Nat
  BY <1>1, <1>2, Induction DEF T
<1> QED BY <1>3 DEF T

(* Sets of subsets of a finite set: what holds of the empty set and of a    *)
(* set with an element more holds of all.                                   *)
LEMMA SetInduction ==
    ASSUME NEW U, IsFiniteSet(U), NEW Q, {} \in Q,
           \A S \in SUBSET U, x \in U : S \in Q /\ x \notin S => S \cup {x} \in Q
    PROVE  SUBSET U \subseteq Q
<1> DEFINE T == {n \in Nat : \A S \in SUBSET U : Cardinality(S) = n => S \in Q}
<1>1. 0 \in T
  BY FS_EmptySet, FS_Subset
<1>2. ASSUME NEW n \in T PROVE n + 1 \in T
  <2> SUFFICES ASSUME NEW S \in SUBSET U, Cardinality(S) = n + 1 PROVE S \in Q
    OBVIOUS
  <2> n \in Nat
    OBVIOUS
  <2>1. IsFiniteSet(S)
    BY FS_Subset
  <2>2. S # {}
    BY FS_EmptySet, 0 # n + 1
  <2>3. PICK x \in S : TRUE
    BY <2>2
  <2>4. S \ {x} \in SUBSET U /\ Cardinality(S \ {x}) = n
    <3>1. Cardinality(S \ {x}) = Cardinality(S) - 1
      BY <2>1, FS_RemoveElement
    <3> QED BY <3>1
  <2>5. S \ {x} \in Q
    BY <2>4
  <2>6. S = (S \ {x}) \cup {x}
    OBVIOUS
  <2> QED BY <2>4, <2>5, <2>6
<1> HIDE DEF T
<1>3. T = Nat
  BY <1>1, <1>2, Induction DEF T
<1>4. ASSUME NEW S \in SUBSET U PROVE S \in Q
  BY <1>3, FS_Subset, FS_CardinalityType DEF T
<1> QED BY <1>4

-----------------------------------------------------------------------------
(* Loops.                                                                   *)

(* A function of the numbers up to n, each value from the one before.       *)
Iterates(f, n, V, base, G) ==
    f \in [0..n -> V] /\ f[0] = base /\ \A i \in 1..n : f[i] = G[<<f[i - 1], i>>]

(* A function of the numbers up to n can be given step by step.             *)
LEMMA Iteration ==
    ASSUME NEW n \in Nat, NEW V, NEW base \in V, NEW G \in [V \X (1..n) -> V]
    PROVE  \E f : Iterates(f, n, V, base, G)
<1> DEFINE steps(m, f) == f[0] = base /\ \A i \in 1..m : f[i] = G[<<f[i - 1], i>>]
           T == {m \in 0..n : \E f \in [0..m -> V] : steps(m, f)}
<1>1. 0 \in T
  <2> DEFINE f == [i \in 0..0 |-> base]
  <2>1. f \in [0..0 -> V] /\ steps(0, f) /\ 0 \in 0..n
    OBVIOUS
  <2> HIDE DEF f, steps
  <2> QED BY <2>1
<1>2. ASSUME NEW m \in 0..(n - 1), m \in T PROVE m + 1 \in T
  <2>1. PICK f \in [0..m -> V] : steps(m, f)
    BY <1>2
  <2> DEFINE g == [i \in 0..(m + 1) |-> IF i <= m THEN f[i] ELSE G[<<f[m], m + 1>>]]
  <2>2. g \in [0..(m + 1) -> V]
    OBVIOUS
  <2>3. steps(m + 1, g)
    <3>1. g[0] = base
      BY <2>1
    <3>2. ASSUME NEW i \in 1..(m + 1) PROVE g[i] = G[<<g[i - 1], i>>]
      <4>1. CASE i <= m
        BY <4>1, <2>1
      <4>2. CASE i = m + 1
        BY <4>2
      <4> QED BY <4>1, <4>2
    <3> QED BY <3>1, <3>2
  <2> HIDE DEF g, steps
  <2> QED BY <2>2, <2>3
<1> HIDE DEF T
<1>3. 0..n \subseteq T
  BY <1>1, <1>2, InductionUpTo
<1> QED BY <1>3 DEF T, Iterates

(* The greatest number of a set of numbers up to n.                         *)
LEMMA MaxExists ==
    ASSUME NEW n \in Nat, NEW S \in SUBSET (0..n), S # {}
    PROVE  Max(S) \in S /\ \A x \in S : x <= Max(S)
<1> DEFINE T == {m \in 0..n : \A R \in SUBSET (0..m) : R # {} => \E x \in R : \A y \in R : x >= y}
<1>1. 0 \in T
  <2> SUFFICES ASSUME NEW R \in SUBSET (0..0), R # {}
               PROVE  \E x \in R : \A y \in R : x >= y
    OBVIOUS
  <2>1. PICK x \in R : TRUE
    OBVIOUS
  <2>2. x = 0 /\ \A y \in R : y = 0
    OBVIOUS
  <2> QED BY <2>1, <2>2
<1>2. ASSUME NEW m \in 0..(n - 1), m \in T PROVE m + 1 \in T
  <2> SUFFICES ASSUME NEW R \in SUBSET (0..(m + 1)), R # {}
               PROVE  \E x \in R : \A y \in R : x >= y
    OBVIOUS
  <2>1. CASE m + 1 \in R
    BY <2>1
  <2>2. CASE m + 1 \notin R
    <3>1. R \in SUBSET (0..m)
      BY <2>2
    <3> QED BY <3>1, <1>2
  <2> QED BY <2>1, <2>2
<1> HIDE DEF T
<1>3. 0..n \subseteq T
  BY <1>1, <1>2, InductionUpTo
<1>4. \E x \in S : \A y \in S : x >= y
  BY <1>3 DEF T
<1> QED BY <1>4 DEF Max

(* FoldLeft over a list of n items: a function of the sets of places, each  *)
(* value from the one without the greatest place.                           *)
IteratesFold(h, n, V, base, G) ==
    /\ h \in [SUBSET (1..n) -> V]
    /\ \A S \in SUBSET (1..n) : h[S] = IF S = {} THEN base ELSE G[<<h[S \ {Max(S)}], Max(S)>>]

(* So does the function of the sets of places that FoldLeft stands for.     *)
LEMMA FoldIteration ==
    ASSUME NEW n \in Nat, NEW V, NEW base \in V, NEW G \in [V \X (1..n) -> V]
    PROVE  \E h : IteratesFold(h, n, V, base, G)
<1> DEFINE step(h, S) == h[S] = IF S = {} THEN base ELSE G[<<h[S \ {Max(S)}], Max(S)>>]
           T == {m \in 0..n : \E h \in [SUBSET (1..m) -> V] : \A S \in SUBSET (1..m) : step(h, S)}
<1>1. 0 \in T
  <2> DEFINE h == [S \in SUBSET (1..0) |-> base]
  <2>1. h \in [SUBSET (1..0) -> V] /\ 0 \in 0..n
    OBVIOUS
  <2>2. \A S \in SUBSET (1..0) : S = {}
    OBVIOUS
  <2>3. \A S \in SUBSET (1..0) : step(h, S)
    BY <2>2
  <2> HIDE DEF h, step
  <2> QED BY <2>1, <2>3
<1>2. ASSUME NEW m \in 0..(n - 1), m \in T PROVE m + 1 \in T
  <2>1. PICK h \in [SUBSET (1..m) -> V] : \A S \in SUBSET (1..m) : step(h, S)
    BY <1>2
  <2> DEFINE g == [S \in SUBSET (1..(m + 1)) |->
                     IF m + 1 \in S THEN G[<<h[S \ {m + 1}], m + 1>>] ELSE h[S]]
  <2>2. \A S \in SUBSET (1..(m + 1)) : /\ m + 1 \in S => S \ {m + 1} \in SUBSET (1..m)
                                      /\ m + 1 \notin S => S \in SUBSET (1..m)
    OBVIOUS
  <2>3. g \in [SUBSET (1..(m + 1)) -> V]
    BY <2>2
  <2>4. ASSUME NEW S \in SUBSET (1..(m + 1)), S # {}
        PROVE  Max(S) \in S /\ \A x \in S : x <= Max(S)
    <3>1. m + 1 \in Nat /\ S \in SUBSET (0..(m + 1))
      OBVIOUS
    <3> QED BY <3>1, <2>4, MaxExists
  <2>5. ASSUME NEW S \in SUBSET (1..(m + 1)) PROVE step(g, S)
    <3>1. CASE m + 1 \in S
      <4>1. Max(S) = m + 1
        <5>1. Max(S) \in S /\ m + 1 <= Max(S) /\ S \subseteq 1..(m + 1)
          BY <3>1, <2>4
        <5>2. Max(S) \in 1..(m + 1)
          BY <5>1
        <5> QED BY <5>1, <5>2
      <4>2. S \ {m + 1} \in SUBSET (1..m) /\ m + 1 \notin S \ {m + 1} /\ S \ {m + 1} \in SUBSET (1..(m + 1))
        BY <2>2, <3>1
      <4>3. g[S \ {m + 1}] = h[S \ {m + 1}]
        BY <4>2
      <4> QED BY <3>1, <4>1, <4>3
    <3>2. CASE m + 1 \notin S
      <4>1. S \in SUBSET (1..m) /\ g[S] = h[S] /\ step(h, S)
        BY <3>2, <2>1, <2>2
      <4>2. CASE S = {}
        BY <4>1, <4>2
      <4>3. CASE S # {}
        <5>1. S \ {Max(S)} \in SUBSET (1..m) /\ m + 1 \notin S \ {Max(S)} /\ S \ {Max(S)} \in SUBSET (1..(m + 1))
          BY <4>1, <3>2
        <5>2. g[S \ {Max(S)}] = h[S \ {Max(S)}]
          BY <5>1
        <5> QED BY <5>2, <4>1, <4>3
      <4> QED BY <4>2, <4>3
    <3> QED BY <3>1, <3>2
  <2> HIDE DEF g, step
  <2>6. m + 1 \in 0..n
    OBVIOUS
  <2> QED BY <2>3, <2>5, <2>6
<1> HIDE DEF T
<1>3. n \in T
  BY <1>1, <1>2, InductionUpTo
<1> QED BY <1>3 DEF T, IteratesFold

-----------------------------------------------------------------------------
(* Sums.                                                                    *)

(* Sets of subsets of a finite set: what holds of a set if it holds of all  *)
(* that it properly contains holds of all.                                  *)
LEMMA SubsetInduction ==
    ASSUME NEW U, IsFiniteSet(U), NEW Q,
           \A S \in SUBSET U : (\A x \in S : SUBSET (S \ {x}) \subseteq Q) => S \in Q
    PROVE  SUBSET U \subseteq Q
<1> DEFINE T == {n \in Nat : \A S \in SUBSET U : Cardinality(S) <= n => S \in Q}
<1>1. 0 \in T
  <2> SUFFICES ASSUME NEW S \in SUBSET U, Cardinality(S) <= 0 PROVE S \in Q
    OBVIOUS
  <2>1. IsFiniteSet(S) /\ Cardinality(S) \in Nat
    BY FS_Subset, FS_CardinalityType
  <2>2. S = {}
    BY <2>1, FS_EmptySet
  <2> QED BY <2>2
<1>2. ASSUME NEW n \in T PROVE n + 1 \in T
  <2> n \in Nat
    OBVIOUS
  <2> SUFFICES ASSUME NEW S \in SUBSET U, Cardinality(S) <= n + 1 PROVE S \in Q
    OBVIOUS
  <2> SUFFICES ASSUME NEW x \in S, NEW R \in SUBSET (S \ {x}) PROVE R \in Q
    OBVIOUS
  <2>1. IsFiniteSet(S) /\ Cardinality(S) \in Nat
    BY FS_Subset, FS_CardinalityType
  <2>2. IsFiniteSet(S \ {x}) /\ Cardinality(S \ {x}) = Cardinality(S) - 1
    BY <2>1, FS_RemoveElement
  <2>3. Cardinality(R) <= Cardinality(S \ {x}) /\ Cardinality(R) \in Nat
    BY <2>2, FS_Subset, FS_CardinalityType
  <2>4. Cardinality(R) <= n /\ R \in SUBSET U
    BY <2>1, <2>2, <2>3
  <2> QED BY <2>4
<1> HIDE DEF T
<1>3. T = Nat
  BY <1>1, <1>2, Induction DEF T
<1>4. ASSUME NEW S \in SUBSET U PROVE S \in Q
  <2>1. Cardinality(S) \in Nat
    BY FS_Subset, FS_CardinalityType
  <2>2. Cardinality(S) \in T /\ Cardinality(S) <= Cardinality(S)
    BY <2>1, <1>3
  <2> QED BY <2>2 DEF T
<1> QED BY <1>4

(* The sum of the weights of a set, taken in whatever order CHOOSE gives.   *)
Adding(w, U) == CHOOSE iter : iter = [s \in SUBSET U |->
                  IF s = {} THEN 0 ELSE LET x == CHOOSE x \in s : TRUE IN w[x] + iter[s \ {x}]]

(* total is that function at the set whose weights are added.               *)
LEMMA TotalIsAdding == \A w, S : total(w, S) = Adding(w, S)[S]
BY DEF total, Adding, MapThenSumSet, MapThenFoldSet

(* Adding goes over the elements as it is written.                          *)
LEMMA AddingSteps ==
    ASSUME NEW U, IsFiniteSet(U), NEW w \in [U -> Nat]
    PROVE  /\ Adding(w, U) \in [SUBSET U -> Nat]
           /\ Adding(w, U)[{}] = 0
           /\ \A S \in SUBSET U : S # {} =>
                LET x == CHOOSE x \in S : TRUE
                IN  x \in S /\ Adding(w, U)[S] = w[x] + Adding(w, U)[S \ {x}]
<1> DEFINE pick(S) == CHOOSE x \in S : TRUE
           below(n) == {S \in SUBSET U : Cardinality(S) <= n}
           step(h, S) == h[S] = IF S = {} THEN 0 ELSE w[pick(S)] + h[S \ {pick(S)}]
           T == {n \in Nat : \E h \in [below(n) -> Nat] : \A S \in below(n) : step(h, S)}
<1>1. ASSUME NEW S \in SUBSET U
      PROVE  IsFiniteSet(S) /\ Cardinality(S) \in Nat /\ (Cardinality(S) = 0 => S = {})
  BY FS_Subset, FS_CardinalityType, FS_EmptySet
<1>2. ASSUME NEW S \in SUBSET U, S # {}
      PROVE  /\ pick(S) \in S /\ pick(S) \in U /\ S \ {pick(S)} \in SUBSET U
             /\ Cardinality(S \ {pick(S)}) = Cardinality(S) - 1
  <2>1. pick(S) \in S
    BY <1>2
  <2> HIDE DEF pick
  <2> QED BY <1>1, <2>1, FS_RemoveElement
<1> HIDE DEF pick
<1>3. 0 \in T
  <2> DEFINE h == [S \in below(0) |-> 0]
  <2>1. ASSUME NEW S \in below(0) PROVE S = {}
    <3>1. S \in SUBSET U /\ Cardinality(S) <= 0
      OBVIOUS
    <3>2. Cardinality(S) \in Nat /\ (Cardinality(S) = 0 => S = {})
      BY <1>1, <3>1
    <3> HIDE DEF below
    <3> QED BY <3>1, <3>2
  <2>2. h \in [below(0) -> Nat] /\ \A S \in below(0) : step(h, S)
    BY <2>1
  <2> HIDE DEF h, step, below
  <2> QED BY <2>2
<1>4. ASSUME NEW n \in T PROVE n + 1 \in T
  <2> n \in Nat
    OBVIOUS
  <2>1. PICK h \in [below(n) -> Nat] : \A S \in below(n) : step(h, S)
    BY <1>4
  <2> DEFINE g == [S \in below(n + 1) |-> IF S \in below(n) THEN h[S] ELSE w[pick(S)] + h[S \ {pick(S)}]]
  <2>2. ASSUME NEW S \in below(n + 1)
        PROVE  /\ S \notin below(n) => S # {}
               /\ S # {} => pick(S) \in S /\ S \ {pick(S)} \in below(n) /\ S \ {pick(S)} \in below(n + 1)
    <3>1. S \in SUBSET U /\ Cardinality(S) <= n + 1
      OBVIOUS
    <3>2. S \notin below(n) => S # {}
      <4>1. Cardinality({}) <= n
        BY FS_EmptySet
      <4> QED BY <4>1
    <3>3. ASSUME S # {} PROVE pick(S) \in S /\ S \ {pick(S)} \in below(n) /\ S \ {pick(S)} \in below(n + 1)
      <4>1. Cardinality(S \ {pick(S)}) = Cardinality(S) - 1 /\ pick(S) \in S /\ S \ {pick(S)} \in SUBSET U
        BY <1>2, <3>1, <3>3
      <4>2. Cardinality(S) \in Nat
        BY <1>1, <3>1
      <4>3. Cardinality(S \ {pick(S)}) <= n /\ Cardinality(S \ {pick(S)}) <= n + 1
        BY <4>1, <4>2, <3>1
      <4> QED BY <4>1, <4>3
    <3> QED BY <3>2, <3>3
  <2> HIDE DEF below
  <2>3. g \in [below(n + 1) -> Nat]
    <3>1. \A S \in below(n + 1) : S \notin below(n) => pick(S) \in U
      BY <2>2 DEF below
    <3> QED BY <2>2, <3>1
  <2>4. ASSUME NEW S \in below(n + 1) PROVE step(g, S)
    <3>1. CASE S = {}
      <4>1. S \in below(n)
        BY <2>2, <3>1
      <4> QED BY <4>1, <2>1, <3>1
    <3>2. CASE S # {}
      <4>1. g[S \ {pick(S)}] = h[S \ {pick(S)}]
        BY <2>2, <3>2
      <4>2. CASE S \in below(n)
        <5>1. step(h, S)
          BY <4>2, <2>1
        <5> QED BY <4>1, <4>2, <3>2, <5>1
      <4>3. CASE S \notin below(n)
        BY <4>1, <4>3, <3>2
      <4> QED BY <4>2, <4>3
    <3> QED BY <3>1, <3>2
  <2> HIDE DEF g, step
  <2> QED BY <2>3, <2>4
<1> HIDE DEF T
<1>5. Cardinality(U) \in T
  <2>1. T = Nat
    BY <1>3, <1>4, Induction DEF T
  <2> QED BY <2>1, FS_CardinalityType
<1>6. PICK h \in [below(Cardinality(U)) -> Nat] : \A S \in below(Cardinality(U)) : step(h, S)
  BY <1>5 DEF T
<1>7. below(Cardinality(U)) = SUBSET U
  BY FS_Subset
<1>8. h = [S \in SUBSET U |-> IF S = {} THEN 0 ELSE LET x == CHOOSE x \in S : TRUE IN w[x] + h[S \ {x}]]
  BY <1>6, <1>7 DEF pick
<1>9. Adding(w, U) = [S \in SUBSET U |->
        IF S = {} THEN 0 ELSE LET x == CHOOSE x \in S : TRUE IN w[x] + Adding(w, U)[S \ {x}]]
  BY <1>8 DEF Adding
<1> DEFINE f == Adding(w, U)
<1> HIDE DEF f
<1>10. \A S \in SUBSET U : f[S] = IF S = {} THEN 0 ELSE w[pick(S)] + f[S \ {pick(S)}]
  BY <1>9 DEF f, pick
<1>11. SUBSET U \subseteq {S \in SUBSET U : f[S] \in Nat}
  <2> DEFINE Q == {S \in SUBSET U : f[S] \in Nat}
  <2>1. ASSUME NEW S \in SUBSET U, \A x \in S : SUBSET (S \ {x}) \subseteq Q PROVE S \in Q
    <3>1. CASE S = {}
      BY <3>1, <1>10
    <3>2. CASE S # {}
      <4>1. pick(S) \in S /\ pick(S) \in U
        BY <3>2, <1>2
      <4>2. S \ {pick(S)} \in Q
        BY <2>1, <4>1
      <4>3. f[S \ {pick(S)}] \in Nat /\ w[pick(S)] \in Nat
        BY <4>1, <4>2
      <4>4. f[S] = w[pick(S)] + f[S \ {pick(S)}]
        BY <3>2, <1>10
      <4> QED BY <4>3, <4>4
    <3> QED BY <3>1, <3>2
  <2> HIDE DEF Q
  <2>2. SUBSET U \subseteq Q
    BY <2>1, SubsetInduction
  <2> QED BY <2>2 DEF Q
<1>12. f = [S \in SUBSET U |-> f[S]]
  BY <1>9 DEF f
<1>13. f \in [SUBSET U -> Nat]
  BY <1>11, <1>12
<1> QED BY <1>2, <1>10, <1>13 DEF f, pick

(* Two sets that contain the same part of a sum agree on it.                *)
LEMMA AddingAgrees ==
    ASSUME NEW U, IsFiniteSet(U), NEW w \in [U -> Nat], NEW S \in SUBSET U
    PROVE  total(w, S) = Adding(w, U)[S]
<1> DEFINE f == Adding(w, U)
           g == Adding(w, S)
           pick(R) == CHOOSE x \in R : TRUE
           Q == {R \in SUBSET S : f[R] = g[R]}
           v == [x \in S |-> w[x]]
<1>1. IsFiniteSet(S) /\ v \in [S -> Nat]
  BY FS_Subset
<1>2. Adding(w, S) = Adding(v, S)
  <2> DEFINE by(u, iter) == iter = [s \in SUBSET S |->
               IF s = {} THEN 0 ELSE LET x == CHOOSE x \in s : TRUE IN u[x] + iter[s \ {x}]]
  <2>1. ASSUME NEW s \in SUBSET S, s # {} PROVE w[CHOOSE x \in s : TRUE] = v[CHOOSE x \in s : TRUE]
    <3>1. (CHOOSE x \in s : TRUE) \in s
      BY <2>1
    <3>2. (CHOOSE x \in s : TRUE) \in S
      BY <3>1
    <3> QED BY <3>2
  <2>2. ASSUME NEW iter PROVE by(w, iter) <=> by(v, iter)
    <3> DEFINE value(u, s) == IF s = {} THEN 0 ELSE LET x == CHOOSE x \in s : TRUE IN u[x] + iter[s \ {x}]
    <3>1. \A s \in SUBSET S : value(w, s) = value(v, s)
      BY <2>1
    <3> HIDE DEF value
    <3>2. [s \in SUBSET S |-> value(w, s)] = [s \in SUBSET S |-> value(v, s)]
      BY <3>1
    <3> QED BY <3>2 DEF value
  <2>3. (CHOOSE iter : by(w, iter)) = (CHOOSE iter : by(v, iter))
    <3> HIDE DEF by
    <3> QED BY <2>2, Zenon
  <2> QED BY <2>3 DEF Adding
<1> HIDE DEF v
<1>3. ASSUME NEW R \in SUBSET S, R # {}
      PROVE  pick(R) \in R /\ f[R] = w[pick(R)] + f[R \ {pick(R)}] /\ g[R] = w[pick(R)] + g[R \ {pick(R)}]
  <2>1. R \in SUBSET U
    OBVIOUS
  <2>2. pick(R) \in R /\ f[R] = w[pick(R)] + f[R \ {pick(R)}]
    BY <2>1, <1>3, AddingSteps
  <2>3. g[R] = v[pick(R)] + g[R \ {pick(R)}]
    <3>1. Adding(v, S)[R] = v[pick(R)] + Adding(v, S)[R \ {pick(R)}]
      BY <1>1, <1>3, AddingSteps
    <3> QED BY <3>1, <1>2
  <2>4. pick(R) \in S
    BY <2>2
  <2>5. w[pick(R)] = v[pick(R)]
    BY <2>4 DEF v
  <2> QED BY <2>2, <2>3, <2>5
<1>4. f[{}] = g[{}]
  <2>1. f[{}] = 0
    BY AddingSteps
  <2>2. g[{}] = 0
    <3>1. Adding(v, S)[{}] = 0
      BY <1>1, AddingSteps
    <3> QED BY <3>1, <1>2
  <2> QED BY <2>1, <2>2
<1> HIDE DEF f, g, pick
<1>5. ASSUME NEW R \in SUBSET S, \A x \in R : SUBSET (R \ {x}) \subseteq Q PROVE R \in Q
  <2>1. CASE R = {}
    BY <2>1, <1>4
  <2>2. CASE R # {}
    <3>1. pick(R) \in R /\ f[R] = w[pick(R)] + f[R \ {pick(R)}] /\ g[R] = w[pick(R)] + g[R \ {pick(R)}]
      BY <1>3, <2>2
    <3>2. R \ {pick(R)} \in Q
      BY <1>5, <3>1
    <3> QED BY <3>1, <3>2
  <2> QED BY <2>1, <2>2
<1> HIDE DEF Q
<1>6. SUBSET S \subseteq Q
  BY <1>1, <1>5, SubsetInduction
<1>7. f[S] = g[S]
  BY <1>6 DEF Q
<1> QED BY <1>7, TotalIsAdding DEF f, g

(* A sum of naturals is a natural, and an element more adds its weight.     *)
LEMMA TotalAdds ==
    ASSUME NEW U, IsFiniteSet(U), NEW w \in [U -> Nat]
    PROVE  /\ total(w, {}) = 0
           /\ \A S \in SUBSET U : total(w, S) \in Nat
           /\ \A S \in SUBSET U, x \in U : x \notin S => total(w, S \cup {x}) = total(w, S) + w[x]
<1> DEFINE f == Adding(w, U)
           pick(R) == CHOOSE x \in R : TRUE
           Q == {S \in SUBSET U : \A x \in U \ S : f[S \cup {x}] = f[S] + w[x]}
<1>1. f \in [SUBSET U -> Nat] /\ f[{}] = 0
  BY AddingSteps
<1>2. \A S \in SUBSET U : S # {} => pick(S) \in S /\ f[S] = w[pick(S)] + f[S \ {pick(S)}]
  BY AddingSteps
<1>3. \A S \in SUBSET U : total(w, S) = f[S]
  BY AddingAgrees
<1> HIDE DEF f, pick
<1>4. ASSUME NEW S \in SUBSET U, \A y \in S : SUBSET (S \ {y}) \subseteq Q PROVE S \in Q
  <2> SUFFICES ASSUME NEW x \in U \ S PROVE f[S \cup {x}] = f[S] + w[x]
    OBVIOUS
  <2> DEFINE more == S \cup {x}
             y == pick(more)
  <2>1. more \in SUBSET U /\ more # {}
    OBVIOUS
  <2>2. y \in more /\ f[more] = w[y] + f[more \ {y}]
    BY <2>1, <1>2
  <2>3. CASE y = x
    <3>1. more \ {y} = S
      BY <2>3
    <3> HIDE DEF y, more
    <3>2. f[S] \in Nat /\ w[x] \in Nat
      BY <1>1
    <3>3. f[more] = w[x] + f[S]
      BY <3>1, <2>2, <2>3
    <3> QED BY <3>2, <3>3 DEF more
  <2>4. CASE y # x
    <3>1. y \in S
      BY <2>2, <2>4
    <3>2. S \ {y} \in Q /\ S \ {y} \in SUBSET U
      BY <1>4, <3>1
    <3>3. more \ {y} = (S \ {y}) \cup {x} /\ x \in U \ (S \ {y})
      BY <3>1, <2>4
    <3>4. f[more \ {y}] = f[S \ {y}] + w[x]
      BY <3>2, <3>3
    <3>5. y \in U \ (S \ {y}) /\ (S \ {y}) \cup {y} = S
      BY <3>1
    <3>6. f[S] = f[S \ {y}] + w[y]
      BY <3>2, <3>5
    <3>7. f[S \ {y}] \in Nat /\ w[x] \in Nat /\ w[y] \in Nat
      BY <3>1, <1>1
    <3> HIDE DEF y
    <3>8. f[more] = f[S] + w[x]
      <4> HIDE DEF more
      <4> QED BY <2>2, <3>4, <3>6, <3>7
    <3> QED BY <3>8
  <2> QED BY <2>3, <2>4
<1> HIDE DEF Q
<1>5. SUBSET U \subseteq Q
  BY <1>4, SubsetInduction
<1>6. ASSUME NEW S \in SUBSET U, NEW x \in U, x \notin S
      PROVE  total(w, S \cup {x}) = total(w, S) + w[x]
  <2>1. f[S \cup {x}] = f[S] + w[x]
    BY <1>5, <1>6 DEF Q
  <2>2. S \cup {x} \in SUBSET U
    BY <1>6
  <2> QED BY <2>1, <2>2, <1>3
<1> QED BY <1>1, <1>3, <1>6

(* The greater and the smaller of two numbers.                              *)
LEMMA OfTwo ==
    ASSUME NEW a \in Int, NEW b \in Int
    PROVE  /\ Max({a, b}) = IF a >= b THEN a ELSE b
           /\ Min({a, b}) = IF a <= b THEN a ELSE b
<1>1. \E x \in {a, b} : \A y \in {a, b} : x >= y
  OBVIOUS
<1>2. \E x \in {a, b} : \A y \in {a, b} : x <= y
  OBVIOUS
<1>3. Max({a, b}) \in {a, b} /\ Max({a, b}) >= a /\ Max({a, b}) >= b
  BY <1>1 DEF Max
<1>4. Min({a, b}) \in {a, b} /\ Min({a, b}) <= a /\ Min({a, b}) <= b
  BY <1>2 DEF Min
<1> QED BY <1>3, <1>4

-----------------------------------------------------------------------------
(* The knapsack.                                                            *)

IsRanking(ranked, n) ==
    /\ n \in Nat /\ Len(ranked) = n /\ DOMAIN ranked = 1..n
    /\ \A i \in 1..n : ranked[i].tokens \in Nat /\ ranked[i].priority \in Nat

(* The table is filled as it is written: a section is left out, or taken    *)
(* from what it leaves of the capacity.                                     *)
LEMMA TableSteps ==
    ASSUME NEW n, NEW ranked, IsRanking(ranked, n), NEW budget \in Nat
    PROVE  LET best == best_worth(ranked, budget)
           IN  /\ best \in [0..n -> [0..budget -> Nat]]
               /\ \A cap \in 0..budget : best[0][cap] = 0
               /\ \A i \in 1..n, cap \in 0..budget :
                    LET without_it == best[i - 1][cap]
                        with_it == best[i - 1][cap - ranked[i].tokens] + worth(ranked[i])
                    IN  IF ranked[i].tokens <= cap
                        THEN best[i][cap] \in {without_it, with_it}
                             /\ best[i][cap] >= without_it /\ best[i][cap] >= with_it
                        ELSE best[i][cap] = without_it
<1> n \in Nat /\ Len(ranked) = n /\ DOMAIN ranked = 1..n
  BY DEF IsRanking
<1> DEFINE V == [0..budget -> Nat]
           row(before, i) == [cap \in 0..budget |->
                                IF fits(ranked[i].tokens, cap)
                                THEN Max({before[cap], before[cap - ranked[i].tokens] + worth(ranked[i])})
                                ELSE before[cap]]
           none == [cap \in 0..budget |-> 0]
           G == [p \in V \X (1..n) |-> row(p[1], p[2])]
           best == best_worth(ranked, budget)
<1>1. \A i \in 1..n : ranked[i].tokens \in Nat /\ worth(ranked[i]) \in Nat
  BY DEF IsRanking, worth
<1>2. ASSUME NEW before \in V, NEW i \in 1..n, NEW cap \in 0..budget
      PROVE  LET with_it == before[cap - ranked[i].tokens] + worth(ranked[i])
             IN  /\ row(before, i)[cap] \in Nat
                 /\ IF ranked[i].tokens <= cap
                    THEN row(before, i)[cap] \in {before[cap], with_it}
                         /\ row(before, i)[cap] >= before[cap] /\ row(before, i)[cap] >= with_it
                    ELSE row(before, i)[cap] = before[cap]
  <2>1. before[cap] \in Nat
    OBVIOUS
  <2>2. CASE ranked[i].tokens <= cap
    <3> DEFINE with_it == before[cap - ranked[i].tokens] + worth(ranked[i])
    <3>1. cap - ranked[i].tokens \in 0..budget
      BY <1>1, <2>2
    <3>2. with_it \in Nat
      BY <3>1, <1>1
    <3>3. row(before, i)[cap] = Max({before[cap], with_it})
      BY <2>2 DEF fits
    <3> HIDE DEF with_it, row, V
    <3>4. /\ row(before, i)[cap] \in Nat /\ row(before, i)[cap] \in {before[cap], with_it}
          /\ row(before, i)[cap] >= before[cap] /\ row(before, i)[cap] >= with_it
      BY <2>1, <3>2, <3>3, OfTwo
    <3> QED BY <2>2, <3>4 DEF with_it
  <2>3. CASE ~(ranked[i].tokens <= cap)
    BY <2>1, <2>3 DEF fits
  <2> QED BY <2>2, <2>3
<1>3. G \in [V \X (1..n) -> V] /\ none \in V
  <2>1. \A before \in V, i \in 1..n : row(before, i) \in V
    BY <1>2
  <2> HIDE DEF row, V
  <2>2. G \in [V \X (1..n) -> V]
    BY <2>1
  <2> QED BY <2>2 DEF V
<1> HIDE DEF V, row, none
<1>4. PICK f : Iterates(f, n, V, none, G)
  <2> HIDE DEF G, best
  <2> QED BY <1>3, Iteration
<1>5. \A i \in 1..n : f[i - 1] \in V /\ f[i] = row(f[i - 1], i)
  <2>1. \A i \in 1..n : i - 1 \in 0..n
    OBVIOUS
  <2> QED BY <1>4, <2>1 DEF Iterates
<1>6. f = [i \in 0..n |-> IF i = 0 THEN none ELSE row(f[i - 1], i)]
  BY <1>4, <1>5 DEF Iterates
<1>7. best = [i \in 0..n |-> IF i = 0 THEN none ELSE row(best[i - 1], i)]
  BY <1>6 DEF best_worth, row, none
<1> HIDE DEF best
<1>8. 0..n \subseteq {i \in 0..n : best[i] \in V}
  <2> DEFINE S == {i \in 0..n : best[i] \in V}
  <2>1. 0 \in S
    BY <1>3, <1>7
  <2>2. ASSUME NEW i \in 0..(n - 1), i \in S PROVE i + 1 \in S
    <3>1. i + 1 \in 1..n /\ (i + 1) - 1 = i /\ i + 1 \in 0..n
      OBVIOUS
    <3>2. best[i + 1] = row(best[i], i + 1)
      BY <1>7, <3>1
    <3>3. row(best[i], i + 1) \in V
      BY <1>2, <2>2, <3>1 DEF row, V
    <3> QED BY <3>1, <3>2, <3>3
  <2> HIDE DEF S
  <2>3. 0..n \subseteq S
    BY <2>1, <2>2, InductionUpTo
  <2> QED BY <2>3 DEF S
<1>9. best \in [0..n -> V]
  BY <1>7, <1>8
<1>10. \A i \in 1..n : i - 1 \in 0..n /\ best[i - 1] \in V /\ best[i] = row(best[i - 1], i)
  BY <1>7, <1>8
<1>11. \A cap \in 0..budget : best[0][cap] = 0
  BY <1>7 DEF none
<1>12. ASSUME NEW i \in 1..n, NEW cap \in 0..budget
       PROVE  LET without_it == best[i - 1][cap]
                  with_it == best[i - 1][cap - ranked[i].tokens] + worth(ranked[i])
              IN  IF ranked[i].tokens <= cap
                  THEN best[i][cap] \in {without_it, with_it}
                       /\ best[i][cap] >= without_it /\ best[i][cap] >= with_it
                  ELSE best[i][cap] = without_it
  <2>1. best[i] = row(best[i - 1], i) /\ best[i - 1] \in V
    BY <1>10
  <2> DEFINE before == best[i - 1]
  <2> HIDE DEF before
  <2>2. before \in V
    BY <2>1 DEF before
  <2>3. LET with_it == before[cap - ranked[i].tokens] + worth(ranked[i])
        IN  IF ranked[i].tokens <= cap
            THEN row(before, i)[cap] \in {before[cap], with_it}
                 /\ row(before, i)[cap] >= before[cap] /\ row(before, i)[cap] >= with_it
            ELSE row(before, i)[cap] = before[cap]
    BY <1>2, <2>2
  <2> QED BY <2>1, <2>3 DEF before
<1> QED BY <1>9, <1>11, <1>12 DEF best, V

TokensOf(ranked) == [i \in DOMAIN ranked |-> ranked[i].tokens]
PrioritiesOf(ranked) == [i \in DOMAIN ranked |-> ranked[i].priority]
WorthsOf(ranked) == [i \in DOMAIN ranked |-> worth(ranked[i])]

(* Weights of n sections, with what is known of their sums.                 *)
Weights(w, n) ==
    /\ n \in Nat /\ w \in [1..n -> Nat] /\ total(w, {}) = 0
    /\ \A R \in SUBSET (1..n) : total(w, R) \in Nat
    /\ \A R \in SUBSET (1..n), x \in 1..n : x \notin R => total(w, R \cup {x}) = total(w, R) + w[x]

(* The tokens, priorities and worths of a ranking are such weights.         *)
LEMMA WeightsOf ==
    ASSUME NEW n, NEW ranked, IsRanking(ranked, n)
    PROVE  /\ Weights(TokensOf(ranked), n) /\ Weights(PrioritiesOf(ranked), n) /\ Weights(WorthsOf(ranked), n)
           /\ \A i \in 1..n : WorthsOf(ranked)[i] = 100 * PrioritiesOf(ranked)[i] + 1
<1>1. n \in Nat /\ DOMAIN ranked = 1..n /\ \A i \in 1..n : ranked[i].tokens \in Nat /\ ranked[i].priority \in Nat
  BY DEF IsRanking
<1>2. IsFiniteSet(1..n)
  BY <1>1, FS_Interval
<1>3. ASSUME NEW w \in [1..n -> Nat] PROVE Weights(w, n)
  BY <1>1, <1>2, <1>3, TotalAdds DEF Weights
<1>4. TokensOf(ranked) \in [1..n -> Nat] /\ PrioritiesOf(ranked) \in [1..n -> Nat] /\ WorthsOf(ranked) \in [1..n -> Nat]
  BY <1>1 DEF TokensOf, PrioritiesOf, WorthsOf, worth
<1>5. \A i \in 1..n : WorthsOf(ranked)[i] = 100 * PrioritiesOf(ranked)[i] + 1
  BY <1>1 DEF PrioritiesOf, WorthsOf, worth
<1> QED BY <1>3, <1>4, <1>5

IsTable(best, t, w, n, budget) ==
    /\ best \in [0..n -> [0..budget -> Nat]]
    /\ \A cap \in 0..budget : best[0][cap] = 0
    /\ \A i \in 1..n, cap \in 0..budget :
         IF t[i] <= cap THEN /\ best[i][cap] \in {best[i - 1][cap], best[i - 1][cap - t[i]] + w[i]}
                             /\ best[i][cap] >= best[i - 1][cap] /\ best[i][cap] >= best[i - 1][cap - t[i]] + w[i]
         ELSE best[i][cap] = best[i - 1][cap]

(* best_worth is such a table for the tokens and worths of the ranking.     *)
LEMMA TableOf ==
    ASSUME NEW n, NEW ranked, IsRanking(ranked, n), NEW budget \in Nat
    PROVE  IsTable(best_worth(ranked, budget), TokensOf(ranked), WorthsOf(ranked), n, budget)
<1>1. \A i \in 1..n : TokensOf(ranked)[i] = ranked[i].tokens /\ WorthsOf(ranked)[i] = worth(ranked[i])
  BY DEF IsRanking, TokensOf, WorthsOf
<1>2. /\ best_worth(ranked, budget) \in [0..n -> [0..budget -> Nat]]
      /\ \A cap \in 0..budget : best_worth(ranked, budget)[0][cap] = 0
  BY TableSteps
<1>3. ASSUME NEW i \in 1..n, NEW cap \in 0..budget
      PROVE  LET best == best_worth(ranked, budget)
                 t == TokensOf(ranked)
                 w == WorthsOf(ranked)
             IN  IF t[i] <= cap
                 THEN /\ best[i][cap] \in {best[i - 1][cap], best[i - 1][cap - t[i]] + w[i]}
                      /\ best[i][cap] >= best[i - 1][cap] /\ best[i][cap] >= best[i - 1][cap - t[i]] + w[i]
                 ELSE best[i][cap] = best[i - 1][cap]
  BY <1>1, TableSteps
<1> QED BY <1>2, <1>3 DEF IsTable

(* No choice of the first i sections that fits a capacity is worth more     *)
(* than the table says.                                                     *)
LEMMA TableBounds ==
    ASSUME NEW n, NEW ranked, IsRanking(ranked, n), NEW budget \in Nat, NEW i \in 0..n, NEW cap \in 0..budget,
           NEW S \in SUBSET (1..i), total(TokensOf(ranked), S) <= cap
    PROVE  total(WorthsOf(ranked), S) <= best_worth(ranked, budget)[i][cap]
<1> DEFINE t == TokensOf(ranked)
           w == WorthsOf(ranked)
           best == best_worth(ranked, budget)
           bounded(k) == \A c \in 0..budget, R \in SUBSET (1..k) : total(t, R) <= c => total(w, R) <= best[k][c]
           T == {k \in 0..n : bounded(k)}
<1>1. Weights(t, n) /\ Weights(w, n) /\ IsTable(best, t, w, n, budget)
  BY WeightsOf, TableOf
<1> HIDE DEF t, w, best
<1> n \in Nat
  BY <1>1 DEF Weights
<1>2. /\ best \in [0..n -> [0..budget -> Nat]]
      /\ \A c \in 0..budget : best[0][c] = 0
      /\ \A k \in 1..n, c \in 0..budget :
           IF t[k] <= c THEN /\ best[k][c] \in {best[k - 1][c], best[k - 1][c - t[k]] + w[k]}
                             /\ best[k][c] >= best[k - 1][c] /\ best[k][c] >= best[k - 1][c - t[k]] + w[k]
           ELSE best[k][c] = best[k - 1][c]
  BY <1>1 DEF IsTable
<1>3. /\ t \in [1..n -> Nat] /\ w \in [1..n -> Nat] /\ total(t, {}) = 0 /\ total(w, {}) = 0
      /\ \A R \in SUBSET (1..n) : total(t, R) \in Nat /\ total(w, R) \in Nat
      /\ \A R \in SUBSET (1..n), x \in 1..n : x \notin R =>
           total(t, R \cup {x}) = total(t, R) + t[x] /\ total(w, R \cup {x}) = total(w, R) + w[x]
  BY <1>1 DEF Weights
<1>4. 0 \in T
  <2>1. \A R \in SUBSET (1..0) : R = {}
    OBVIOUS
  <2>2. ASSUME NEW c \in 0..budget PROVE total(w, {}) <= best[0][c]
    <3>1. best[0][c] = 0 /\ total(w, {}) = 0
      BY <1>2, <1>3
    <3> QED BY <3>1
  <2>3. bounded(0)
    BY <2>1, <2>2
  <2> QED BY <2>3
<1>5. ASSUME NEW j \in 0..(n - 1), j \in T PROVE j + 1 \in T
  <2> DEFINE k == j + 1
  <2>1. k \in 1..n /\ k - 1 = j /\ bounded(j) /\ k \in 0..n /\ j \in 0..n
    BY <1>5
  <2> HIDE DEF k
  <2> SUFFICES ASSUME NEW c \in 0..budget, NEW R \in SUBSET (1..k), total(t, R) <= c
               PROVE  total(w, R) <= best[k][c]
    BY <2>1 DEF k
  <2>2. best[j][c] \in Nat /\ best[k][c] \in Nat
    BY <1>2, <2>1
  <2>3. best[k][c] >= best[j][c]
    <3>1. \/ best[k][c] >= best[k - 1][c]
          \/ best[k][c] = best[k - 1][c]
      BY <1>2, <2>1
    <3> QED BY <3>1, <2>1, <2>2
  <2>4. CASE k \in R
    <3> DEFINE rest == R \ {k}
    <3>1. rest \in SUBSET (1..j) /\ rest \in SUBSET (1..n) /\ k \notin rest /\ rest \cup {k} = R
      BY <2>1, <2>4
    <3> HIDE DEF rest
    <3>2. /\ total(t, R) = total(t, rest) + t[k] /\ total(w, R) = total(w, rest) + w[k]
          /\ total(t, rest) \in Nat /\ total(w, rest) \in Nat /\ t[k] \in Nat /\ w[k] \in Nat
      <4>1. /\ total(t, rest \cup {k}) = total(t, rest) + t[k]
            /\ total(w, rest \cup {k}) = total(w, rest) + w[k]
        BY <3>1, <2>1, <1>3
      <4>2. total(t, rest) \in Nat /\ total(w, rest) \in Nat
        BY <3>1, <1>3
      <4>3. t[k] \in Nat /\ w[k] \in Nat
        BY <2>1, <1>3
      <4> QED BY <4>1, <4>2, <4>3, <3>1
    <3>3. c - t[k] \in 0..budget /\ total(t, rest) <= c - t[k] /\ t[k] <= c
      BY <3>2
    <3>4. total(w, rest) <= best[j][c - t[k]] /\ best[j][c - t[k]] \in Nat
      <4>1. \A d \in 0..budget : total(t, rest) <= d => total(w, rest) <= best[j][d]
        BY <3>1, <2>1
      <4>2. \A d \in 0..budget : best[j][d] \in Nat
        BY <2>1, <1>2
      <4> QED BY <4>1, <4>2, <3>3
    <3>5. best[k][c] >= best[j][c - t[k]] + w[k]
      BY <3>3, <2>1, <1>2
    <3> QED BY <3>2, <3>4, <3>5, <2>2
  <2>5. CASE k \notin R
    <3>1. R \in SUBSET (1..j) /\ R \in SUBSET (1..n)
      BY <2>1, <2>5
    <3>2. total(w, R) <= best[j][c] /\ total(w, R) \in Nat
      BY <3>1, <2>1, <1>3
    <3> QED BY <3>2, <2>2, <2>3
  <2> QED BY <2>4, <2>5
<1> HIDE DEF T, bounded
<1>6. i \in T
  BY <1>4, <1>5, InductionUpTo
<1>7. bounded(i)
  BY <1>6 DEF T
<1> QED BY <1>7 DEF bounded, t, w, best

(* Reading the choice back: what is taken of the last k sections costs what *)
(* is gone of the budget, and with the table's value for the rest it is     *)
(* worth the most there is.                                                 *)
LEMMA ReadingBack ==
    ASSUME NEW n, NEW ranked, IsRanking(ranked, n), NEW budget \in Nat
    PROVE  LET chosen == chosen_sections(ranked, budget)
           IN  /\ chosen.taken \in SUBSET (1..n) /\ chosen.cap \in 0..budget
               /\ total(TokensOf(ranked), chosen.taken) + chosen.cap = budget
               /\ total(WorthsOf(ranked), chosen.taken) = best_worth(ranked, budget)[n][budget]
<1> DEFINE t == TokensOf(ranked)
           w == WorthsOf(ranked)
           best == best_worth(ranked, budget)
           V == [taken : SUBSET (1..n), cap : 0..budget]
           none == [taken |-> {}, cap |-> budget]
           back(after, k) ==
             LET i == n - k + 1
             IN  IF best[i][after.cap] = best[i - 1][after.cap] THEN after
                 ELSE [taken |-> after.taken \cup {i}, cap |-> after.cap - ranked[i].tokens]
           G == [p \in V \X (1..n) |-> back(p[1], p[2])]
<1>1. Weights(t, n) /\ Weights(w, n) /\ IsTable(best, t, w, n, budget)
  BY WeightsOf, TableOf
<1> HIDE DEF t, w, best
<1> n \in Nat
  BY <1>1 DEF Weights
<1>2. /\ best \in [0..n -> [0..budget -> Nat]]
      /\ \A c \in 0..budget : best[0][c] = 0
      /\ \A k \in 1..n, c \in 0..budget :
           IF t[k] <= c THEN /\ best[k][c] \in {best[k - 1][c], best[k - 1][c - t[k]] + w[k]}
                             /\ best[k][c] >= best[k - 1][c] /\ best[k][c] >= best[k - 1][c - t[k]] + w[k]
           ELSE best[k][c] = best[k - 1][c]
  BY <1>1 DEF IsTable
<1>3. /\ t \in [1..n -> Nat] /\ w \in [1..n -> Nat] /\ total(t, {}) = 0 /\ total(w, {}) = 0
      /\ \A R \in SUBSET (1..n) : total(t, R) \in Nat /\ total(w, R) \in Nat
      /\ \A R \in SUBSET (1..n), x \in 1..n : x \notin R =>
           total(t, R \cup {x}) = total(t, R) + t[x] /\ total(w, R \cup {x}) = total(w, R) + w[x]
  BY <1>1 DEF Weights
<1>4. Len(ranked) = n /\ \A k \in 1..n : t[k] = ranked[k].tokens
  BY DEF IsRanking, TokensOf, t
<1>5. ASSUME NEW after \in V, NEW k \in 1..n
      PROVE  LET i == n - k + 1
             IN  /\ i \in 1..n /\ back(after, k) \in V
                 /\ \/ back(after, k) = after /\ best[i][after.cap] = best[i - 1][after.cap]
                    \/ /\ back(after, k) = [taken |-> after.taken \cup {i}, cap |-> after.cap - t[i]]
                       /\ best[i][after.cap] = best[i - 1][after.cap - t[i]] + w[i] /\ t[i] <= after.cap
  <2> DEFINE i == n - k + 1
  <2>1. i \in 1..n
    OBVIOUS
  <2> HIDE DEF i
  <2>2. after.cap \in 0..budget /\ after.taken \in SUBSET (1..n) /\ t[i] \in Nat /\ t[i] = ranked[i].tokens
    BY <2>1, <1>3, <1>4
  <2>3. CASE best[i][after.cap] = best[i - 1][after.cap]
    BY <2>1, <2>3 DEF i
  <2>4. CASE best[i][after.cap] # best[i - 1][after.cap]
    <3>1. t[i] <= after.cap /\ best[i][after.cap] = best[i - 1][after.cap - t[i]] + w[i]
      BY <2>1, <2>2, <2>4, <1>2
    <3>2. after.cap - t[i] \in 0..budget /\ after.taken \cup {i} \in SUBSET (1..n)
      BY <3>1, <2>1, <2>2
    <3>3. back(after, k) = [taken |-> after.taken \cup {i}, cap |-> after.cap - t[i]]
      BY <2>2, <2>4 DEF i
    <3> HIDE DEF back
    <3>4. back(after, k) \in V
      BY <3>2, <3>3
    <3> QED BY <2>1, <3>1, <3>3, <3>4 DEF i
  <2> QED BY <2>3, <2>4
<1>6. G \in [V \X (1..n) -> V] /\ none \in V
  <2>1. \A after \in V, k \in 1..n : back(after, k) \in V
    BY <1>5
  <2>2. none \in V
    OBVIOUS
  <2> HIDE DEF back, V
  <2>3. G \in [V \X (1..n) -> V]
    BY <2>1
  <2> QED BY <2>2, <2>3
<1> HIDE DEF V, back, none
<1>7. PICK f : Iterates(f, n, V, none, G)
  <2> HIDE DEF G
  <2> QED BY <1>6, Iteration
<1>8. \A k \in 1..n : f[k - 1] \in V /\ f[k] = back(f[k - 1], k)
  <2>1. \A k \in 1..n : k - 1 \in 0..n
    OBVIOUS
  <2> QED BY <1>7, <2>1 DEF Iterates
<1>9. f = [k \in 0..n |-> IF k = 0 THEN none ELSE back(f[k - 1], k)]
  BY <1>7, <1>8 DEF Iterates
<1> DEFINE chosen == CHOOSE g : g = [k \in 0..n |-> IF k = 0 THEN none ELSE back(g[k - 1], k)]
<1>10. chosen_sections(ranked, budget) = chosen[n]
  BY <1>4 DEF chosen_sections, none, back, best
<1>11. chosen = [k \in 0..n |-> IF k = 0 THEN none ELSE back(chosen[k - 1], k)]
  BY <1>9
<1> HIDE DEF chosen, G
<1> DEFINE good(k) == /\ chosen[k] \in V /\ chosen[k].taken \subseteq (n - k + 1)..n
                      /\ total(t, chosen[k].taken) + chosen[k].cap = budget
                      /\ total(w, chosen[k].taken) + best[n - k][chosen[k].cap] = best[n][budget]
           T == {k \in 0..n : good(k)}
<1>12. 0 \in T
  <2>1. chosen[0] = none
    BY <1>11
  <2>2. none.taken = {} /\ none.cap = budget /\ none \in V
    BY <1>6 DEF none
  <2>3. best[n][budget] \in Nat
    BY <1>2
  <2>4. good(0)
    BY <2>1, <2>2, <2>3, <1>3
  <2> QED BY <2>4
<1>13. ASSUME NEW j \in 0..(n - 1), j \in T PROVE j + 1 \in T
  <2> DEFINE k == j + 1
             i == n - k + 1
             after == chosen[j]
  <2>1. k \in 1..n /\ k - 1 = j /\ good(j) /\ i = n - j /\ i - 1 = n - k /\ i \in 1..n /\ k \in 0..n
    BY <1>13
  <2>2. chosen[k] = back(after, k) /\ after \in V
    BY <2>1, <1>11
  <2>3. /\ back(after, k) \in V
        /\ \/ back(after, k) = after /\ best[i][after.cap] = best[i - 1][after.cap]
           \/ /\ back(after, k) = [taken |-> after.taken \cup {i}, cap |-> after.cap - t[i]]
              /\ best[i][after.cap] = best[i - 1][after.cap - t[i]] + w[i] /\ t[i] <= after.cap
    <3> HIDE DEF after, k
    <3> QED BY <2>1, <2>2, <1>5
  <2>4. after.cap \in 0..budget /\ after.taken \in SUBSET (1..n)
    BY <2>2 DEF V
  <2>5. /\ after.taken \subseteq (n - j + 1)..n
        /\ total(t, after.taken) + after.cap = budget
        /\ total(w, after.taken) + best[i][after.cap] = best[n][budget]
    BY <2>1
  <2> HIDE DEF after, k, i
  <2>6. CASE back(after, k) = after /\ best[i][after.cap] = best[i - 1][after.cap]
    <3>1. chosen[k] = after /\ chosen[k] \in V
      BY <2>2, <2>6
    <3>2. after.taken \subseteq (n - k + 1)..n
      BY <2>1, <2>5
    <3>3. good(k)
      BY <3>1, <3>2, <2>1, <2>5, <2>6
    <3> QED BY <3>3, <2>1 DEF k
  <2>7. CASE /\ back(after, k) = [taken |-> after.taken \cup {i}, cap |-> after.cap - t[i]]
             /\ best[i][after.cap] = best[i - 1][after.cap - t[i]] + w[i] /\ t[i] <= after.cap
    <3>1. chosen[k].taken = after.taken \cup {i} /\ chosen[k].cap = after.cap - t[i] /\ chosen[k] \in V
      BY <2>2, <2>3, <2>7
    <3>2. i \notin after.taken
      BY <2>1, <2>5
    <3>3. after.taken \cup {i} \subseteq (n - k + 1)..n
      BY <2>1, <2>5
    <3>4. /\ total(t, after.taken \cup {i}) = total(t, after.taken) + t[i]
          /\ total(w, after.taken \cup {i}) = total(w, after.taken) + w[i]
          /\ total(t, after.taken) \in Nat /\ total(w, after.taken) \in Nat /\ t[i] \in Nat /\ w[i] \in Nat
      BY <2>1, <2>4, <3>2, <1>3
    <3>5. best[i - 1][after.cap - t[i]] \in Nat
      <4>1. i - 1 \in 0..n /\ after.cap - t[i] \in 0..budget
        BY <2>1, <2>4, <2>7, <3>4
      <4> QED BY <4>1, <1>2
    <3>6. total(t, after.taken \cup {i}) + (after.cap - t[i]) = budget
      BY <2>4, <2>5, <3>4
    <3>7. total(w, after.taken \cup {i}) + best[n - k][after.cap - t[i]] = best[n][budget]
      <4>1. total(w, after.taken \cup {i}) + best[i - 1][after.cap - t[i]]
              = total(w, after.taken) + best[i][after.cap]
        BY <3>4, <3>5, <2>7
      <4> QED BY <4>1, <2>1, <2>5
    <3>8. good(k)
      BY <3>1, <3>3, <3>6, <3>7
    <3> QED BY <3>8, <2>1 DEF k
  <2> QED BY <2>3, <2>6, <2>7
<1> HIDE DEF T, good
<1>14. n \in T
  BY <1>12, <1>13, InductionUpTo
<1>15. good(n)
  BY <1>14 DEF T
<1>16. chosen[n].cap \in 0..budget /\ chosen[n].taken \in SUBSET (1..n)
  BY <1>15 DEF good, V
<1>17. best[n - n][chosen[n].cap] = 0 /\ total(w, chosen[n].taken) \in Nat
  <2>1. n - n = 0
    OBVIOUS
  <2> QED BY <1>2, <1>3, <1>16, <2>1
<1>18. total(w, chosen[n].taken) = best[n][budget]
  BY <1>15, <1>17 DEF good
<1> QED BY <1>10, <1>15, <1>16, <1>18 DEF good, t, w, best

(* A set of places among n.                                                 *)
LEMMA PlacesCount ==
    ASSUME NEW n \in Nat, NEW S \in SUBSET (1..n)
    PROVE  /\ IsFiniteSet(S) /\ IsFiniteSet(1..n) /\ Cardinality(S) \in Nat
           /\ Cardinality(S) <= n /\ (Cardinality(S) = 0 => S = {})
<1>1. IsFiniteSet(1..n) /\ Cardinality(1..n) = n
  BY FS_Interval
<1>2. IsFiniteSet(S) /\ Cardinality(S) <= n
  BY <1>1, FS_Subset
<1>3. Cardinality(S) \in Nat /\ (Cardinality(S) = 0 => S = {})
  BY <1>2, FS_CardinalityType, FS_EmptySet
<1> QED BY <1>1, <1>2, <1>3

(* The worth of a choice counts its priorities and its sections.            *)
LEMMA WorthSplits ==
    ASSUME NEW n, NEW ranked, IsRanking(ranked, n), NEW S \in SUBSET (1..n)
    PROVE  /\ total(WorthsOf(ranked), S) = 100 * total(PrioritiesOf(ranked), S) + Cardinality(S)
           /\ total(PrioritiesOf(ranked), S) \in Nat /\ Cardinality(S) \in 0..n
           /\ S = {} => total(PrioritiesOf(ranked), S) = 0
<1> DEFINE p == PrioritiesOf(ranked)
           w == WorthsOf(ranked)
           Q == {R \in SUBSET (1..n) : total(w, R) = 100 * total(p, R) + Cardinality(R)}
<1>1. Weights(p, n) /\ Weights(w, n) /\ \A i \in 1..n : w[i] = 100 * p[i] + 1
  BY WeightsOf
<1> HIDE DEF p, w
<1>2. n \in Nat /\ p \in [1..n -> Nat] /\ total(p, {}) = 0 /\ total(w, {}) = 0
  BY <1>1 DEF Weights
<1>3. /\ \A R \in SUBSET (1..n) : total(p, R) \in Nat
      /\ \A R \in SUBSET (1..n), x \in 1..n : x \notin R =>
           total(p, R \cup {x}) = total(p, R) + p[x] /\ total(w, R \cup {x}) = total(w, R) + w[x]
  BY <1>1 DEF Weights
<1>4. IsFiniteSet(1..n)
  BY <1>2, FS_Interval
<1>5. \A R \in SUBSET (1..n) : IsFiniteSet(R) /\ Cardinality(R) \in 0..n
  <2>1. ASSUME NEW R \in SUBSET (1..n) PROVE IsFiniteSet(R) /\ Cardinality(R) \in Nat /\ Cardinality(R) <= n
    BY <1>2, PlacesCount
  <2> QED BY <2>1, <1>2
<1>6. {} \in Q
  BY <1>2, FS_EmptySet
<1>7. ASSUME NEW R \in SUBSET (1..n), NEW x \in 1..n, R \in Q /\ x \notin R PROVE R \cup {x} \in Q
  <2>1. Cardinality(R \cup {x}) = Cardinality(R) + 1 /\ Cardinality(R) \in 0..n
    BY <1>5, <1>7, FS_AddElement
  <2>2. total(w, R) = 100 * total(p, R) + Cardinality(R)
    BY <1>7
  <2>3. total(p, R \cup {x}) = total(p, R) + p[x] /\ total(w, R \cup {x}) = total(w, R) + (100 * p[x] + 1)
    BY <1>1, <1>3, <1>7
  <2>4. total(p, R) \in Nat /\ p[x] \in Nat
    BY <1>2, <1>3
  <2>5. total(w, R \cup {x}) = 100 * total(p, R \cup {x}) + Cardinality(R \cup {x})
    BY <2>1, <2>2, <2>3, <2>4
  <2> QED BY <2>5
<1> HIDE DEF Q
<1>8. SUBSET (1..n) \subseteq Q
  <2>1. \A R \in SUBSET (1..n), x \in 1..n : R \in Q /\ x \notin R => R \cup {x} \in Q
    BY <1>7
  <2> DEFINE U == 1..n
  <2>2. IsFiniteSet(U) /\ \A R \in SUBSET U, x \in U : R \in Q /\ x \notin R => R \cup {x} \in Q
    BY <1>4, <2>1
  <2> HIDE DEF U
  <2>3. SUBSET U \subseteq Q
    BY <1>6, <2>2, SetInduction
  <2> QED BY <2>3 DEF U
<1> QED BY <1>2, <1>3, <1>5, <1>8 DEF Q, p, w

(* Of the choices that fit the budget none is better than the one taken.    *)
LEMMA ChosenIsBest ==
    ASSUME NEW n, NEW ranked, IsRanking(ranked, n), NEW budget \in Nat,
           NEW other \in SUBSET (1..n), total(TokensOf(ranked), other) <= budget
    PROVE  LET chosen == chosen_sections(ranked, budget).taken
               value(places) == total(PrioritiesOf(ranked), places)
           IN  /\ 100 * value(other) + Cardinality(other) <= 100 * value(chosen) + Cardinality(chosen)
               /\ n <= 100 => \/ value(other) < value(chosen)
                              \/ value(other) = value(chosen) /\ Cardinality(other) <= Cardinality(chosen)
<1> DEFINE chosen == chosen_sections(ranked, budget).taken
           a == total(PrioritiesOf(ranked), other)
           b == total(PrioritiesOf(ranked), chosen)
<1>1. n \in Nat
  BY DEF IsRanking
<1>2. chosen \in SUBSET (1..n) /\ total(WorthsOf(ranked), chosen) = best_worth(ranked, budget)[n][budget]
  BY ReadingBack
<1>3. total(WorthsOf(ranked), other) <= best_worth(ranked, budget)[n][budget]
  <2>1. n \in 0..n /\ budget \in 0..budget
    BY <1>1
  <2> QED BY <2>1, TableBounds
<1> HIDE DEF chosen
<1>4. /\ total(WorthsOf(ranked), chosen) = 100 * b + Cardinality(chosen)
      /\ b \in Nat /\ Cardinality(chosen) \in 0..n
  BY <1>2, WorthSplits
<1>5. /\ total(WorthsOf(ranked), other) = 100 * a + Cardinality(other)
      /\ a \in Nat /\ Cardinality(other) \in 0..n /\ (other = {} => a = 0)
  BY WorthSplits
<1>6. IsFiniteSet(other) /\ (Cardinality(other) = 0 => other = {})
  BY <1>1, PlacesCount
<1> HIDE DEF a, b
<1>7. 100 * a + Cardinality(other) <= 100 * b + Cardinality(chosen)
  BY <1>2, <1>3, <1>4, <1>5
<1>8. ASSUME n <= 100, ~(a < b) PROVE a = b /\ Cardinality(other) <= Cardinality(chosen)
  <2>1. a = b
    <3>1. CASE Cardinality(other) = 0
      BY <3>1, <1>4, <1>5, <1>6, <1>8
    <3>2. CASE Cardinality(other) # 0
      BY <3>2, <1>1, <1>4, <1>5, <1>7, <1>8
    <3> QED BY <3>1, <3>2
  <2> QED BY <2>1, <1>4, <1>5, <1>7
<1>9. n <= 100 => a < b \/ (a = b /\ Cardinality(other) <= Cardinality(chosen))
  BY <1>8
<1>10. /\ 100 * total(PrioritiesOf(ranked), other) + Cardinality(other)
            <= 100 * total(PrioritiesOf(ranked), chosen) + Cardinality(chosen)
       /\ n <= 100 => \/ total(PrioritiesOf(ranked), other) < total(PrioritiesOf(ranked), chosen)
                      \/ /\ total(PrioritiesOf(ranked), other) = total(PrioritiesOf(ranked), chosen)
                         /\ Cardinality(other) <= Cardinality(chosen)
  BY <1>7, <1>9 DEF a, b
<1> QED BY <1>10, Zenon DEF chosen

-----------------------------------------------------------------------------
(* Every answer is that of the algorithm to its task.                       *)

AnswerInv ==
    /\ ChangeTask \/ BudgetTask \/ RiskTask \/ ReachTask
    /\ answered("change") => result = compared(task)
    /\ answered("budget") => result = pass_budget_fitting(task.ranked, task.budget)
    /\ answered("risk") => result = judged(task)
    /\ answered("reach") => result = reached(task)

(* The task never changes, and the answer is computed from it.              *)
LEMMA AnswerInvHolds == Spec => []AnswerInv
<1> USE DEF answered, result, Answer
<1>1. Init => AnswerInv
  BY DEF Init, AnswerInv
<1>2. AnswerInv /\ [Next]_answerVars => AnswerInv'
  <2> SUFFICES ASSUME AnswerInv, [Next]_answerVars PROVE AnswerInv'
    OBVIOUS
  <2>1. task' = task
    BY DEF Next, Compare, Fit, Judge, Reach, answerVars
  <2>2. (ChangeTask \/ BudgetTask \/ RiskTask \/ ReachTask)'
    BY <2>1 DEF AnswerInv, ChangeTask, BudgetTask, RiskTask, ReachTask
  <2>3. ASSUME NEW value, answer' = <<value>> PROVE Head(answer') = value
    BY <2>3
  <2>4. CASE Compare
    BY <2>1, <2>2, <2>3, <2>4 DEF Compare, AnswerInv
  <2>5. CASE Fit
    BY <2>1, <2>2, <2>3, <2>5 DEF Fit, AnswerInv
  <2>6. CASE Judge
    BY <2>1, <2>2, <2>3, <2>6 DEF Judge, AnswerInv
  <2>7. CASE Reach
    BY <2>1, <2>2, <2>3, <2>7 DEF Reach, AnswerInv
  <2>8. CASE UNCHANGED answerVars
    BY <2>1, <2>2, <2>8 DEF answerVars, AnswerInv
  <2> QED BY <2>4, <2>5, <2>6, <2>7, <2>8 DEF Next
<1> QED BY <1>1, <1>2, PTL DEF Spec

(* For any sections and budget the selection of pass_budget_fitting fits    *)
(* the budget, costs what it says, and no other choice that fits is better: *)
(* it accounts for every section.                                           *)
THEOREM ChoiceAlwaysOptimal == Spec => []ChoiceOptimal
<1>1. ASSUME AnswerInv PROVE ChoiceOptimal
  <2> SUFFICES ASSUME answered("budget") PROVE ChoiceOptimal
    BY DEF ChoiceOptimal
  <2> DEFINE ranked == task.ranked
             budget == task.budget
             n == Len(ranked)
             chosen == chosen_sections(ranked, budget)
             ids(places) == {ranked[i].id : i \in places}
             value(places) == total(PrioritiesOf(ranked), places)
  <2>1. ranked \in lists(SectionKinds, MaxSections) /\ budget \in Nat
    <3>1. task.kind = "budget"
      BY DEF answered
    <3>2. BudgetTask
      BY <1>1, <3>1 DEF AnswerInv, ChangeTask, RiskTask, ReachTask, Evidence
    <3> QED BY <3>2, VerdictsAssumption DEF BudgetTask
  <2>2. IsRanking(ranked, n)
    <3>1. PICK k \in 0..MaxSections : ranked \in [1..k -> SectionKinds]
      BY <2>1 DEF lists
    <3>2. k \in Nat
      BY VerdictsAssumption
    <3>3. n = k /\ DOMAIN ranked = 1..n
      BY <3>1, <3>2
    <3> QED BY <3>1, <3>2, <3>3, VerdictsAssumption DEF IsRanking
  <2>3. /\ result.selected = chosen.taken /\ result.omitted = ids(DOMAIN ranked) \ ids(chosen.taken)
        /\ result.total_tokens = budget - chosen.cap
    BY <1>1 DEF AnswerInv, pass_budget_fitting
  <2>4. DOMAIN ranked = 1..n
    BY <2>2 DEF IsRanking
  <2> HIDE DEF ranked, budget, n, chosen
  <2>5. chosen.taken \in SUBSET (1..n) /\ chosen.cap \in 0..budget /\ total(TokensOf(ranked), chosen.taken) + chosen.cap = budget
    BY <2>1, <2>2, ReadingBack DEF chosen
  <2>6. total(TokensOf(ranked), chosen.taken) \in Nat
    BY <2>2, <2>5, WeightsOf DEF Weights
  <2>7. /\ total(TokensOf(ranked), chosen.taken) = result.total_tokens /\ result.total_tokens <= budget
    BY <2>1, <2>3, <2>5, <2>6
  <2>8. ASSUME NEW other \in SUBSET (1..n), total(TokensOf(ranked), other) <= budget
        PROVE  /\ 100 * value(other) + Cardinality(other) <= 100 * value(chosen.taken) + Cardinality(chosen.taken)
               /\ n <= 100 => \/ value(other) < value(chosen.taken)
                              \/ value(other) = value(chosen.taken) /\ Cardinality(other) <= Cardinality(chosen.taken)
    BY <2>1, <2>2, <2>8, ChosenIsBest DEF chosen
  <2>9. ids(1..n) = ids(chosen.taken) \cup result.omitted /\ ids(chosen.taken) \cap result.omitted = {}
    BY <2>3, <2>4, <2>5
  <2> QED BY <2>3, <2>4, <2>5, <2>7, <2>8, <2>9 DEF ChoiceOptimal, TokensOf, PrioritiesOf, ranked, budget, n
<1> QED BY <1>1, AnswerInvHolds, PTL

-----------------------------------------------------------------------------
(* The searches.                                                            *)

LongestChain == MaxChain + Cardinality(Files)

(* The numbers of files and of steps the searches count with.               *)
LEMMA CountsTyped ==
    /\ IsFiniteSet(Files) /\ File \in Files /\ MaxChain \in Nat
    /\ Cardinality(Files) \in Nat \ {0} /\ LongestChain \in Nat /\ Cardinality(Files) <= LongestChain
<1>1. IsFiniteSet(Files) /\ File \in Files /\ MaxChain \in Nat
  BY VerdictsAssumption
<1>2. Cardinality(Files) \in Nat /\ Cardinality(Files) # 0
  BY <1>1, FS_CardinalityType, FS_EmptySet
<1> QED BY <1>1, <1>2 DEF LongestChain

(* The ends of the chains from a file, one step after the other.            *)
leading(out, from) == UNION {out[v] : v \in from}

(* ends steps as it is written: each set is what the one before leads to.   *)
LEMMA EndsSteps ==
    ASSUME NEW out \in [Files -> SUBSET Files], NEW s \in Files
    PROVE  LET after == ends(out, s)
           IN  /\ after \in [0..LongestChain -> SUBSET Files] /\ after[0] = {s}
               /\ \A n \in 1..LongestChain : after[n] = leading(out, after[n - 1])
<1> DEFINE M == LongestChain
           V == SUBSET Files
           further(ss) == UNION {out[f] : f \in ss}
           G == [p \in V \X (1..M) |-> further(p[1])]
           after == ends(out, s)
<1> M \in Nat
  BY CountsTyped
<1>1. \A ss \in V : further(ss) \in V
  OBVIOUS
<1>2. {s} \in V /\ G \in [V \X (1..M) -> V]
  <2>1. {s} \in V
    OBVIOUS
  <2> HIDE DEF further, V, M
  <2> QED BY <2>1, <1>1
<1> HIDE DEF further, V, M
<1>3. PICK f : Iterates(f, M, V, {s}, G)
  <2> HIDE DEF G
  <2> QED BY <1>2, Iteration
<1>4. \A n \in 1..M : f[n - 1] \in V /\ f[n] = further(f[n - 1])
  <2>1. \A n \in 1..M : n - 1 \in 0..M
    OBVIOUS
  <2> QED BY <1>3, <2>1 DEF Iterates
<1>5. f = [n \in 0..M |-> IF n = 0 THEN {s} ELSE further(f[n - 1])]
  BY <1>3, <1>4 DEF Iterates
<1>6. after = [n \in 0..M |-> IF n = 0 THEN {s} ELSE further(after[n - 1])]
  BY <1>5 DEF ends, further, M, LongestChain
<1> HIDE DEF after
<1> DEFINE T == {n \in 0..M : after[n] \in V}
<1>7. 0 \in T
  BY <1>2, <1>6
<1>8. ASSUME NEW n \in 0..(M - 1), n \in T PROVE n + 1 \in T
  <2>1. n + 1 \in 0..M /\ n + 1 # 0 /\ (n + 1) - 1 = n
    OBVIOUS
  <2>2. after[n + 1] = further(after[n])
    BY <1>6, <2>1
  <2> QED BY <1>1, <1>8, <2>1, <2>2
<1> HIDE DEF T
<1>9. 0..M \subseteq T
  BY <1>7, <1>8, InductionUpTo
<1>10. after \in [0..M -> V]
  BY <1>6, <1>9 DEF T
<1>11. ASSUME NEW n \in 1..M PROVE after[n] = further(after[n - 1])
  <2>1. n \in 0..M /\ n # 0
    OBVIOUS
  <2> QED BY <1>6, <2>1
<1>12. after[0] = {s}
  BY <1>6
<1> QED BY <1>10, <1>11, <1>12 DEF after, further, M, V, leading

\* A set that the graph does not lead out of.
Closed(out, found) == found \subseteq Files /\ leading(out, found) \subseteq found

(* No chain leaves a closed set.                                            *)
LEMMA ChainsStay ==
    ASSUME NEW out \in [Files -> SUBSET Files], NEW found, Closed(out, found), NEW s \in found
    PROVE  \A n \in 0..LongestChain : ends(out, s)[n] \subseteq found
<1> DEFINE M == LongestChain
           T == {n \in 0..M : ends(out, s)[n] \subseteq found}
<1> s \in Files
  BY DEF Closed
<1> M \in Nat
  BY CountsTyped
<1>1. 0 \in T
  BY EndsSteps
<1>2. ASSUME NEW n \in 0..(M - 1), n \in T PROVE n + 1 \in T
  <2>1. n + 1 \in 0..M /\ n + 1 \in 1..M /\ (n + 1) - 1 = n
    OBVIOUS
  <2>2. ends(out, s)[n + 1] = leading(out, ends(out, s)[n])
    BY EndsSteps, <2>1
  <2>3. leading(out, ends(out, s)[n]) \subseteq leading(out, found)
    BY <1>2 DEF leading
  <2> QED BY <2>1, <2>2, <2>3 DEF Closed
<1> HIDE DEF T
<1>3. 0..M \subseteq T
  BY <1>1, <1>2, InductionUpTo
<1> QED BY <1>3 DEF T

(* The levels of the search: what the last one reached that was not reached *)
(* before is one further away.                                              *)
Levels == UNION {[A -> Nat] : A \in SUBSET Files}
nearest(found, d) == {u \in DOMAIN found : found[u] = d}
wider(out, found, d) ==
    LET next == leading(out, nearest(found, d - 1))
    IN  [v \in DOMAIN found \cup next |-> IF v \in DOMAIN found THEN found[v] ELSE d]

(* A level is a distance for some of the files.                             *)
LEMMA WiderTyped ==
    ASSUME NEW out \in [Files -> SUBSET Files], NEW found \in Levels, NEW d \in Nat
    PROVE  wider(out, found, d) \in Levels
<1> DEFINE next == leading(out, nearest(found, d - 1))
<1>1. PICK A \in SUBSET Files : found \in [A -> Nat]
  BY DEF Levels
<1>2. next \in SUBSET Files
  BY <1>1 DEF leading, nearest
<1>3. wider(out, found, d) = [v \in DOMAIN found \cup next |-> IF v \in DOMAIN found THEN found[v] ELSE d]
  BY DEF wider
<1> HIDE DEF next
<1>4. wider(out, found, d) \in [A \cup next -> Nat] /\ A \cup next \in SUBSET Files
  BY <1>1, <1>2, <1>3
<1> QED BY <1>4 DEF Levels

IsLevels(level, out, s) ==
    /\ distances(out, s) = level[Cardinality(Files)]
    /\ level[0] = [v \in {s} |-> 0]
    /\ \A d \in 1..Cardinality(Files) : level[d - 1] \in Levels /\ level[d] = wider(out, level[d - 1], d)

(* distances is the last of the levels, each from the one before.           *)
LEMMA LevelSteps ==
    ASSUME NEW out \in [Files -> SUBSET Files], NEW s \in Files
    PROVE  \E level : IsLevels(level, out, s)
<1> DEFINE C == Cardinality(Files)
           first == [v \in {s} |-> 0]
           grown(found, d) ==
               LET next == UNION {at(out, v) : v \in {u \in DOMAIN found : found[u] = d - 1}}
               IN  [v \in DOMAIN found \cup next |-> IF v \in DOMAIN found THEN found[v] ELSE d]
           G == [p \in Levels \X (1..C) |-> grown(p[1], p[2])]
<1> C \in Nat
  BY CountsTyped
<1>1. nodes_of(out) = Files
  BY DEF nodes_of, Range
<1>2. first \in Levels
  <2>1. first \in [{s} -> Nat]
    OBVIOUS
  <2> QED BY <2>1 DEF Levels
<1>3. ASSUME NEW found \in Levels, NEW d \in 1..C
      PROVE  grown(found, d) = wider(out, found, d) /\ grown(found, d) \in Levels
  <2>1. PICK A \in SUBSET Files : found \in [A -> Nat]
    BY DEF Levels
  <2>2. \A v \in {u \in DOMAIN found : found[u] = d - 1} : at(out, v) = out[v]
    BY <2>1 DEF at
  <2>3. UNION {at(out, v) : v \in {u \in DOMAIN found : found[u] = d - 1}} = leading(out, nearest(found, d - 1))
    BY <2>2 DEF leading, nearest
  <2>4. grown(found, d) = wider(out, found, d)
    BY <2>3 DEF wider
  <2> QED BY <2>4, WiderTyped
<1>4. G \in [Levels \X (1..C) -> Levels]
  <2> HIDE DEF grown
  <2> QED BY <1>3
<1> HIDE DEF grown, first, C
<1>5. PICK f : Iterates(f, C, Levels, first, G)
  <2> HIDE DEF G
  <2> QED BY <1>2, <1>4, Iteration
<1>6. \A d \in 1..C : f[d - 1] \in Levels /\ f[d] = grown(f[d - 1], d)
  <2>1. \A d \in 1..C : d - 1 \in 0..C
    OBVIOUS
  <2> QED BY <1>5, <2>1 DEF Iterates
<1>7. f = [d \in 0..C |-> IF d = 0 THEN first ELSE grown(f[d - 1], d)]
  BY <1>5, <1>6 DEF Iterates
<1> DEFINE level == CHOOSE g : g = [d \in 0..C |-> IF d = 0 THEN first ELSE grown(g[d - 1], d)]
<1>8. level = [d \in 0..C |-> IF d = 0 THEN first ELSE grown(level[d - 1], d)]
  BY <1>7
<1>9. distances(out, s) = level[C]
  BY <1>1 DEF distances, first, grown, C
<1> HIDE DEF level, G
<1> DEFINE T == {d \in 0..C : level[d] \in Levels}
<1>10. 0 \in T
  BY <1>2, <1>8
<1>11. ASSUME NEW d \in 0..(C - 1), d \in T PROVE d + 1 \in T
  <2>1. d + 1 \in 1..C /\ d + 1 \in 0..C /\ d + 1 # 0 /\ (d + 1) - 1 = d /\ level[d] \in Levels
    BY <1>11
  <2>2. level[d + 1] = grown(level[d], d + 1)
    BY <1>8, <2>1
  <2>3. level[d + 1] \in Levels
    BY <1>3, <2>1, <2>2
  <2> QED BY <2>1, <2>3
<1> HIDE DEF T
<1>12. 0..C \subseteq T
  BY <1>10, <1>11, InductionUpTo
<1>13. ASSUME NEW d \in 1..C PROVE level[d - 1] \in Levels /\ level[d] = wider(out, level[d - 1], d)
  <2>1. d \in 0..C /\ d - 1 \in 0..C /\ d # 0
    OBVIOUS
  <2>2. level[d - 1] \in Levels
    BY <1>12, <2>1 DEF T
  <2>3. level[d] = grown(level[d - 1], d)
    BY <1>8, <2>1
  <2> QED BY <1>3, <2>2, <2>3
<1>14. level[0] = first
  BY <1>8
<1> QED BY <1>9, <1>13, <1>14 DEF C, first, IsLevels

\* What a search has found after d levels: files at the length of the shortest chain to them,
\* all that d steps reach, and more of them at each level until nothing is left.
Nearest(found, after, d) ==
    /\ found \in Levels
    /\ \A v \in DOMAIN found : /\ found[v] \in 0..d /\ v \in after[found[v]]
                               /\ \A n \in 0..(found[v] - 1) : v \notin after[n]
    /\ \A n \in 0..d : after[n] \subseteq DOMAIN found
Grows(out, found, d) == Cardinality(DOMAIN found) >= d + 1 \/ Closed(out, DOMAIN found)

(* The start is the first level.                                            *)
LEMMA FirstLevel ==
    ASSUME NEW out \in [Files -> SUBSET Files], NEW s \in Files
    PROVE  LET first == [v \in {s} |-> 0] IN Nearest(first, ends(out, s), 0) /\ Grows(out, first, 0)
<1> DEFINE first == [v \in {s} |-> 0]
           after == ends(out, s)
<1>1. first \in Levels /\ DOMAIN first = {s} /\ first[s] = 0
  <2>1. first \in [{s} -> Nat]
    OBVIOUS
  <2> QED BY <2>1 DEF Levels
<1>2. after[0] = {s}
  BY EndsSteps
<1>3. Cardinality({s}) = 1
  BY FS_Singleton
<1> HIDE DEF first, after
<1>4. Nearest(first, after, 0)
  BY <1>1, <1>2 DEF Nearest
<1>5. Grows(out, first, 0)
  BY <1>1, <1>3 DEF Grows
<1> QED BY <1>4, <1>5 DEF first, after

(* If a level is right then the next one is.                                *)
LEMMA NextLevel ==
    ASSUME NEW out \in [Files -> SUBSET Files], NEW s \in Files, NEW d \in 1..Cardinality(Files), NEW found,
           Nearest(found, ends(out, s), d - 1), Grows(out, found, d - 1)
    PROVE  Nearest(wider(out, found, d), ends(out, s), d) /\ Grows(out, wider(out, found, d), d)
<1> DEFINE after == ends(out, s)
           next == leading(out, nearest(found, d - 1))
           more == wider(out, found, d)
<1> /\ d \in Nat /\ d - 1 \in Nat /\ d \in 1..LongestChain /\ d - 1 \in 0..LongestChain /\ d \in 0..LongestChain
    /\ Cardinality(Files) \in Nat
  BY CountsTyped
<1>1. /\ found \in Levels
      /\ \A v \in DOMAIN found : /\ found[v] \in 0..(d - 1) /\ v \in after[found[v]]
                                 /\ \A n \in 0..(found[v] - 1) : v \notin after[n]
      /\ \A n \in 0..(d - 1) : after[n] \subseteq DOMAIN found
  BY DEF Nearest
<1>2. PICK A \in SUBSET Files : found \in [A -> Nat]
  BY <1>1 DEF Levels
<1>3. DOMAIN found = A /\ A \subseteq Files
  BY <1>2
<1>4. more \in Levels
  BY <1>1, WiderTyped
<1>5. /\ DOMAIN more = DOMAIN found \cup next
      /\ \A v \in DOMAIN more : more[v] = IF v \in DOMAIN found THEN found[v] ELSE d
  BY DEF wider
<1>6. \A n \in 1..LongestChain : after[n] = leading(out, after[n - 1])
  BY EndsSteps
<1> HIDE DEF more, after
<1>7. ASSUME NEW u \in DOMAIN found, found[u] # d - 1, NEW v \in out[u] PROVE v \in DOMAIN found
  <2> DEFINE k == found[u] + 1
  <2>1. k \in 1..LongestChain /\ k \in 0..(d - 1) /\ k - 1 = found[u]
    <3>1. found[u] \in 0..(d - 1) /\ found[u] # d - 1
      BY <1>1, <1>7
    <3>2. LongestChain \in Nat
      BY CountsTyped
    <3> QED BY <3>1, <3>2
  <2> HIDE DEF k
  <2>2. u \in after[k - 1] /\ after[k] = leading(out, after[k - 1])
    BY <1>1, <1>6, <2>1
  <2>3. v \in after[k]
    BY <1>7, <2>2 DEF leading
  <2> QED BY <1>1, <2>1, <2>3
<1>8. leading(out, DOMAIN found) \subseteq DOMAIN found \cup next
  <2> SUFFICES ASSUME NEW u \in DOMAIN found, NEW v \in out[u] PROVE v \in DOMAIN found \cup next
    BY DEF leading
  <2>1. CASE found[u] # d - 1
    BY <1>7, <2>1
  <2>2. CASE found[u] = d - 1
    BY <2>2 DEF leading, nearest
  <2> QED BY <2>1, <2>2
<1>9. after[d] = leading(out, after[d - 1]) /\ after[d - 1] \subseteq DOMAIN found
  BY <1>1, <1>6
<1>10. after[d] \subseteq DOMAIN more
  <2>1. leading(out, after[d - 1]) \subseteq leading(out, DOMAIN found)
    BY <1>9 DEF leading
  <2> QED BY <1>5, <1>8, <1>9, <2>1
<1>11. ASSUME NEW n \in 0..d PROVE after[n] \subseteq DOMAIN more
  <2>1. n = d \/ n \in 0..(d - 1)
    OBVIOUS
  <2> QED BY <1>1, <1>5, <1>10, <2>1
<1>12. ASSUME NEW v \in DOMAIN more
       PROVE  more[v] \in 0..d /\ v \in after[more[v]] /\ \A n \in 0..(more[v] - 1) : v \notin after[n]
  <2>1. CASE v \in DOMAIN found
    <3>1. more[v] = found[v]
      BY <1>5, <2>1
    <3>2. found[v] \in 0..d
      BY <1>1, <2>1
    <3> QED BY <1>1, <2>1, <3>1, <3>2
  <2>2. CASE v \notin DOMAIN found
    <3>1. more[v] = d /\ v \in next
      BY <1>5, <2>2
    <3>2. PICK u \in DOMAIN found : found[u] = d - 1 /\ v \in out[u]
      BY <3>1 DEF leading, nearest
    <3>3. u \in after[d - 1]
      BY <1>1, <3>2
    <3>4. v \in after[d]
      BY <1>9, <3>2, <3>3 DEF leading
    <3>5. \A n \in 0..(d - 1) : v \notin after[n]
      BY <1>1, <2>2
    <3> QED BY <3>1, <3>4, <3>5
  <2> QED BY <2>1, <2>2
<1>13. Nearest(more, after, d)
  BY <1>4, <1>11, <1>12 DEF Nearest
<1>14. next \subseteq Files
  BY <1>2 DEF leading, nearest
<1> HIDE DEF next
<1>15. CASE next \subseteq DOMAIN found
  <2>1. DOMAIN more = DOMAIN found
    BY <1>5, <1>15
  <2>2. Closed(out, DOMAIN more)
    BY <1>3, <1>8, <1>15, <2>1 DEF Closed
  <2> QED BY <1>13, <2>2 DEF Grows, more, after
<1>16. CASE ~(next \subseteq DOMAIN found)
  <2>1. ~Closed(out, DOMAIN found)
    <3>1. next \subseteq leading(out, DOMAIN found)
      BY DEF next, leading, nearest
    <3> QED BY <1>16, <3>1 DEF Closed
  <2>2. Cardinality(DOMAIN found) >= (d - 1) + 1
    BY <2>1 DEF Grows
  <2>3. IsFiniteSet(DOMAIN more) /\ DOMAIN found \subseteq DOMAIN more /\ DOMAIN found # DOMAIN more
    <3>1. DOMAIN more \subseteq Files
      BY <1>3, <1>5, <1>14
    <3> QED BY <1>5, <1>16, <3>1, CountsTyped, FS_Subset
  <2>4. /\ Cardinality(DOMAIN found) < Cardinality(DOMAIN more)
        /\ Cardinality(DOMAIN found) \in Nat /\ Cardinality(DOMAIN more) \in Nat
    BY <2>3, FS_Subset, FS_CardinalityType
  <2>5. Cardinality(DOMAIN more) >= d + 1
    BY <2>2, <2>4
  <2> QED BY <1>13, <2>5 DEF Grows, more, after
<1> QED BY <1>15, <1>16

\* All that a file reaches, each at its distance.
Reached(dist, out, s) ==
    /\ Closed(out, DOMAIN dist) /\ s \in DOMAIN dist
    /\ \A v \in DOMAIN dist : /\ dist[v] \in 0..Cardinality(Files) /\ v \in ends(out, s)[dist[v]]
                              /\ \A n \in 0..(dist[v] - 1) : v \notin ends(out, s)[n]
    /\ \A n \in 0..LongestChain : ends(out, s)[n] \subseteq DOMAIN dist

(* The search finds all that chains of whatever length reach, each file at  *)
(* the length of the shortest chain to it.                                  *)
LEMMA SearchReaches ==
    ASSUME NEW out \in [Files -> SUBSET Files], NEW s \in Files
    PROVE  Reached(distances(out, s), out, s)
<1> DEFINE C == Cardinality(Files)
<1>1. PICK level : IsLevels(level, out, s)
  BY LevelSteps
<1> DEFINE T == {d \in 0..C : Nearest(level[d], ends(out, s), d) /\ Grows(out, level[d], d)}
<1>2. C \in Nat /\ C <= LongestChain
  BY CountsTyped
<1>3. 0 \in T
  BY <1>1, <1>2, FirstLevel DEF IsLevels
<1>4. ASSUME NEW d \in 0..(C - 1), d \in T PROVE d + 1 \in T
  <2> DEFINE e == d + 1
  <2>1. e \in 1..Cardinality(Files) /\ e \in 0..C /\ e - 1 = d
    BY <1>2
  <2> HIDE DEF e
  <2>2. level[e] = wider(out, level[d], e)
    BY <1>1, <2>1 DEF IsLevels
  <2>3. Nearest(level[d], ends(out, s), e - 1) /\ Grows(out, level[d], e - 1)
    BY <1>4, <2>1
  <2>4. Nearest(level[e], ends(out, s), e) /\ Grows(out, level[e], e)
    BY <2>1, <2>2, <2>3, NextLevel
  <2> QED BY <2>1, <2>4 DEF e
<1> HIDE DEF T
<1>5. 0..C \subseteq T
  BY <1>2, <1>3, <1>4, InductionUpTo
<1> DEFINE dist == distances(out, s)
<1>6. Nearest(dist, ends(out, s), C) /\ Grows(out, dist, C)
  <2>1. C \in T
    BY <1>2, <1>5
  <2> QED BY <1>1, <2>1 DEF T, IsLevels
<1> HIDE DEF dist
<1>7. DOMAIN dist \subseteq Files
  BY <1>6 DEF Nearest, Levels
<1>8. Closed(out, DOMAIN dist)
  <2>1. Cardinality(DOMAIN dist) <= C
    BY <1>7, CountsTyped, FS_Subset
  <2>2. Cardinality(DOMAIN dist) \in Nat
    BY <1>7, CountsTyped, FS_Subset, FS_CardinalityType
  <2> QED BY <1>2, <1>6, <2>1, <2>2 DEF Grows
<1>9. s \in DOMAIN dist
  <2>1. s \in ends(out, s)[0] /\ 0 \in 0..C
    BY <1>2, EndsSteps
  <2> QED BY <1>6, <2>1 DEF Nearest
<1>10. \A n \in 0..LongestChain : ends(out, s)[n] \subseteq DOMAIN dist
  BY <1>8, <1>9, ChainsStay
<1>11. Reached(dist, out, s)
  BY <1>6, <1>8, <1>9, <1>10 DEF Nearest, Reached
<1> QED BY <1>11 DEF dist

(* What is within a depth of what a search has found.                       *)
LEMMA WithinMeasures ==
    ASSUME NEW out \in [Files -> SUBSET Files], NEW dist, Reached(dist, out, File), NEW max \in Nat, NEW near,
           DOMAIN near = {v \in DOMAIN dist : dist[v] <= max}, \A v \in DOMAIN near : near[v] = dist[v]
    PROVE  measures(near, out, max)
<1> DEFINE after == ends(out, File)
<1> MaxChain \in Nat /\ LongestChain \in Nat /\ MaxChain <= LongestChain /\ Cardinality(Files) \in Nat
  BY CountsTyped DEF LongestChain
<1>1. ASSUME NEW v \in DOMAIN near
      PROVE  near[v] \in 0..max /\ v \in after[near[v]] /\ \A n \in 0..(near[v] - 1) : v \notin after[n]
  BY <1>1 DEF Reached
<1>2. ASSUME NEW n \in 0..Min({max, MaxChain}) PROVE after[n] \subseteq DOMAIN near
  <2>1. n \in 0..LongestChain /\ n <= max
    <3>1. Min({max, MaxChain}) = IF max <= MaxChain THEN max ELSE MaxChain
      <4>1. max \in Int /\ MaxChain \in Int
        OBVIOUS
      <4> HIDE DEF after
      <4> QED BY ONLY <4>1, OfTwo
    <3> DEFINE least == Min({max, MaxChain})
    <3>2. n \in 0..least
      OBVIOUS
    <3> HIDE DEF least
    <3>3. least \in Nat /\ least <= max /\ least <= MaxChain
      BY <3>1 DEF least
    <3> HIDE DEF after
    <3> QED BY <3>2, <3>3
  <2> SUFFICES ASSUME NEW v \in after[n] PROVE v \in DOMAIN near
    OBVIOUS
  <2>2. v \in DOMAIN dist
    BY <2>1 DEF Reached
  <2>3. dist[v] \in 0..Cardinality(Files) /\ \A m \in 0..(dist[v] - 1) : v \notin after[m]
    BY <2>2 DEF Reached
  <2>4. dist[v] <= n
    BY <2>1, <2>3
  <2> QED BY <2>1, <2>2, <2>3, <2>4
<1> QED BY <1>1, <1>2 DEF measures

(* The edges in reverse are edges between the same files.                   *)
LEMMA MirrorTyped ==
    ASSUME NEW out \in [Files -> SUBSET Files]
    PROVE  mirror(out) \in [Files -> SUBSET Files]
BY DEF mirror

(* The files a change affects, with the file itself, are those the imports  *)
(* lead to in reverse within the depth.                                     *)
LEMMA AffectedMeasures ==
    ASSUME NEW in \in [Files -> SUBSET Files], NEW max \in Nat
    PROVE  LET affected == compute_blast_radius(in, File, max).affected
           IN  measures(with(affected, File, 0), in, max) /\ File \notin DOMAIN affected
<1> DEFINE dist == distances(in, File)
           affected == compute_blast_radius(in, File, max).affected
           places == {f \in DOMAIN dist \ {File} : expanded(dist[f] - 1, max)}
<1>1. File \in Files /\ Cardinality(Files) \in Nat
  BY CountsTyped
<1>2. Reached(dist, in, File)
  BY <1>1, SearchReaches
<1>3. affected = Restrict(dist, places)
  BY DEF compute_blast_radius
<1> HIDE DEF dist, affected
<1>4. \A v \in DOMAIN dist : dist[v] \in Nat
  BY <1>1, <1>2 DEF Reached
<1>5. DOMAIN affected = {v \in DOMAIN dist \ {File} : dist[v] <= max} /\ \A v \in DOMAIN affected : affected[v] = dist[v]
  <2>1. places = {v \in DOMAIN dist \ {File} : dist[v] <= max}
    BY <1>4 DEF expanded
  <2> HIDE DEF places
  <2>2. DOMAIN affected = places /\ \A v \in places : affected[v] = dist[v]
    BY <1>3 DEF Restrict
  <2> QED BY <2>1, <2>2
<1>6. File \in DOMAIN dist /\ dist[File] = 0
  <2>1. File \in DOMAIN dist /\ \A n \in 0..(dist[File] - 1) : File \notin ends(in, File)[n]
    BY <1>2 DEF Reached
  <2>2. File \in ends(in, File)[0]
    BY <1>1, EndsSteps
  <2> QED BY <1>4, <2>1, <2>2
<1> DEFINE near == with(affected, File, 0)
<1>7. DOMAIN near = {v \in DOMAIN dist : dist[v] <= max} /\ \A v \in DOMAIN near : near[v] = dist[v]
  BY <1>5, <1>6 DEF with
<1>8. File \notin DOMAIN affected
  BY <1>5
<1> HIDE DEF near
<1>9. measures(near, in, max)
  BY <1>2, <1>7, WithinMeasures
<1> QED BY <1>8, <1>9 DEF affected, near

(* The files the compiler keeps are those edges lead to within the depth,   *)
(* in whatever direction.                                                   *)
LEMMA RelevantMeasures ==
    ASSUME NEW out \in [Files -> SUBSET Files], NEW max \in Nat
    PROVE  LET either == [f \in Files |-> out[f] \cup mirror(out)[f]]
           IN  measures(relevant_files([out |-> out, in |-> mirror(out)], File, max), either, max)
<1> DEFINE g == [out |-> out, in |-> mirror(out)]
           either == [f \in Files |-> out[f] \cup mirror(out)[f]]
           both == [f \in nodes_of(g.out) \cup {File} |-> related_files(g, f)]
           dist == distances(either, File)
           near == relevant_files(g, File, max)
<1>1. File \in Files
  BY CountsTyped
<1>2. either \in [Files -> SUBSET Files]
  BY MirrorTyped
<1>3. nodes_of(g.out) \cup {File} = Files
  BY <1>1 DEF nodes_of, Range
<1>4. \A f \in Files : related_files(g, f) = out[f] \cup mirror(out)[f]
  BY MirrorTyped DEF related_files, at
<1>5. both = either
  BY <1>3, <1>4
<1>6. near = Restrict(dist, {f \in DOMAIN dist : dist[f] <= max})
  BY <1>5 DEF relevant_files
<1>7. Reached(dist, either, File)
  BY <1>1, <1>2, SearchReaches
<1> HIDE DEF dist, near, either
<1>8. DOMAIN near = {v \in DOMAIN dist : dist[v] <= max} /\ \A v \in DOMAIN near : near[v] = dist[v]
  BY <1>6 DEF Restrict
<1>9. measures(near, either, max)
  BY <1>2, <1>7, <1>8, WithinMeasures
<1> QED BY <1>9 DEF near, either

(* What leads from one file to another is in the search from it, and what   *)
(* leads on from there as well.                                             *)
LEMMA SearchLeads ==
    ASSUME NEW out \in [Files -> SUBSET Files], NEW s \in Files, NEW t \in Files
    PROVE  /\ t \in DOMAIN distances(out, s) <=> \E n \in 0..Cardinality(Files) : t \in ends(out, s)[n]
           /\ t \in DOMAIN distances(out, s) => DOMAIN distances(out, t) \subseteq DOMAIN distances(out, s)
<1> DEFINE from(v) == DOMAIN distances(out, v)
           C == Cardinality(Files)
<1>1. C \in Nat /\ LongestChain \in Nat /\ C <= LongestChain
  BY CountsTyped
<1>2. Reached(distances(out, s), out, s) /\ Reached(distances(out, t), out, t)
  BY SearchReaches
<1>3. t \in from(s) => \E n \in 0..C : t \in ends(out, s)[n]
  BY <1>2 DEF Reached
<1>4. ASSUME NEW n \in 0..C, t \in ends(out, s)[n] PROVE t \in from(s)
  <2>1. n \in 0..LongestChain
    BY <1>1
  <2> QED BY <1>2, <1>4, <2>1 DEF Reached
<1>5. ASSUME t \in from(s), NEW v \in from(t) PROVE v \in from(s)
  <2>1. PICK n \in 0..C : v \in ends(out, t)[n]
    BY <1>2, <1>5 DEF Reached
  <2>2. n \in 0..LongestChain /\ Closed(out, from(s))
    BY <1>1, <1>2 DEF Reached
  <2>3. ends(out, t)[n] \subseteq from(s)
    BY <1>5, <2>2, ChainsStay
  <2> QED BY <2>1, <2>3
<1> QED BY <1>3, <1>4, <1>5

(* Two files are in a circular group just when each leads to the other.     *)
LEMMA GroupsAreMutual ==
    ASSUME NEW out \in [Files -> SUBSET Files], NEW s \in Files, NEW t \in Files, s # t
    PROVE  (\E c \in circular_groups(out) : {s, t} \subseteq c)
             <=> t \in DOMAIN distances(out, s) /\ s \in DOMAIN distances(out, t)
<1> DEFINE from(v) == DOMAIN distances(out, v)
           mutual(v) == {w \in Files : w \in from(v) /\ v \in from(w)}
<1>1. nodes_of(out) = Files
  BY DEF nodes_of, Range
<1>2. circular_groups(out) = {c \in {mutual(v) : v \in Files} : Cardinality(c) > 1}
  BY <1>1 DEF circular_groups
<1>3. \A v, w \in Files : w \in from(v) => from(w) \subseteq from(v)
  BY SearchLeads
<1>4. s \in from(s)
  BY SearchReaches DEF Reached
<1> HIDE DEF from
<1>5. ASSUME NEW c \in circular_groups(out), {s, t} \subseteq c PROVE t \in from(s) /\ s \in from(t)
  <2>1. PICK v \in Files : c = mutual(v)
    BY <1>2
  <2>2. s \in from(v) /\ v \in from(s) /\ t \in from(v) /\ v \in from(t)
    BY <1>5, <2>1
  <2> QED BY <1>3, <2>2
<1>6. ASSUME t \in from(s), s \in from(t) PROVE \E c \in circular_groups(out) : {s, t} \subseteq c
  <2>1. {s, t} \subseteq mutual(s) /\ mutual(s) \subseteq Files
    BY <1>4, <1>6
  <2> HIDE DEF mutual
  <2>2. IsFiniteSet(mutual(s)) /\ Cardinality(mutual(s)) \in Nat /\ Cardinality({s, t}) <= Cardinality(mutual(s))
    BY <2>1, CountsTyped, FS_Subset, FS_CardinalityType
  <2>3. Cardinality({s, t}) = 2
    <3>1. IsFiniteSet({s}) /\ Cardinality({s}) = 1
      BY FS_Singleton
    <3>2. Cardinality({s} \cup {t}) = Cardinality({s}) + 1
      BY <3>1, FS_AddElement
    <3>3. {s, t} = {s} \cup {t}
      OBVIOUS
    <3> QED BY <3>1, <3>2, <3>3
  <2>4. mutual(s) \in circular_groups(out)
    BY <1>2, <2>2, <2>3
  <2> QED BY <2>1, <2>4
<1> QED BY <1>5, <1>6 DEF from

(* For any graph, file and depth the searches find all that chains of       *)
(* imports reach, each file at its distance, and the circular groups are    *)
(* the files chains lead to in both directions.                             *)
THEOREM ReachAlwaysExact == Spec => []ReachExact
<1>1. ASSUME AnswerInv PROVE ReachExact
  <2> SUFFICES ASSUME answered("reach") PROVE ReachExact
    BY DEF ReachExact
  <2> DEFINE out == task.out
             depth == task.depth
             either == [f \in Files |-> out[f] \cup mirror(out)[f]]
  <2>1. out \in [Files -> SUBSET Files] /\ depth \in Nat
    <3>1. task.kind = "reach"
      BY DEF answered
    <3>2. ReachTask
      BY <1>1, <3>1 DEF AnswerInv, ChangeTask, RiskTask, BudgetTask, Evidence
    <3> QED BY <3>2, VerdictsAssumption DEF ReachTask
  <2>2. result = reached(task)
    BY <1>1 DEF AnswerInv
  <2>3. /\ result.distances = distances(out, File) /\ result.groups = circular_groups(out)
        /\ result.affected = compute_blast_radius(mirror(out), File, depth).affected
        /\ result.relevant = relevant_files([out |-> out, in |-> mirror(out)], File, depth)
    BY <2>2 DEF reached
  <2> HIDE DEF out, depth
  <2>4. measures(result.distances, out, MaxChain + Cardinality(Files))
    <3>1. Reached(distances(out, File), out, File) /\ LongestChain \in Nat /\ Cardinality(Files) <= LongestChain
      BY <2>1, CountsTyped, SearchReaches
    <3> DEFINE dist == distances(out, File)
    <3> HIDE DEF dist
    <3>2. DOMAIN dist = {v \in DOMAIN dist : dist[v] <= LongestChain}
      <4>1. \A v \in DOMAIN dist : dist[v] \in 0..Cardinality(Files)
        BY <3>1 DEF Reached, dist
      <4>2. Cardinality(Files) \in Nat
        BY CountsTyped
      <4> QED BY <3>1, <4>1, <4>2
    <3>3. measures(dist, out, LongestChain)
      BY <2>1, <3>1, <3>2, WithinMeasures DEF dist
    <3> QED BY <2>3, <3>3 DEF LongestChain, dist
  <2>5. measures(with(result.affected, File, 0), mirror(out), depth) /\ File \notin DOMAIN result.affected
    BY <2>1, <2>3, MirrorTyped, AffectedMeasures
  <2>6. measures(result.relevant, either, depth)
    BY <2>1, <2>3, RelevantMeasures
  <2>7. ASSUME NEW s \in Files, NEW t \in Files, s # t
        PROVE  (\E c \in result.groups : {s, t} \subseteq c) <=>
                   /\ \E n \in 0..Cardinality(Files) : t \in ends(out, s)[n]
                   /\ \E n \in 0..Cardinality(Files) : s \in ends(out, t)[n]
    BY <2>1, <2>3, <2>7, GroupsAreMutual, SearchLeads
  <2> HIDE DEF either
  <2> QED BY <2>4, <2>5, <2>6, <2>7 DEF ReachExact, out, depth, either
<1> QED BY <1>1, AnswerInvHolds, PTL


-----------------------------------------------------------------------------
(* The risk of a file.                                                      *)

IsEvidence(t) == t.count \in Nat /\ t.changes \in Nat /\ t.breaks \in Nat /\ t.issues \in Nat
                 /\ t.zones \subseteq {"stable", "hot"}

part(count) == (35 * Min({25, count})) \div 25
ten(zones, z) == IF z \in zones THEN 10 ELSE 0
counted(condition, weight) == IF condition THEN weight ELSE 0

\* What the evidence adds up to for the warnings, and for the analyzer.
warned(t) == part(t.count) + 6 * Min({5, t.breaks}) + 4 * Min({5, t.issues})
             + ten(t.zones, "stable") + ten(t.zones, "hot")
risked(t) == dependents_weight(t.count) + counted(t.breaks > 0, 25) + counted(t.changes > 10, 15)
             + counted("stable" \in t.zones, 20) + counted(t.issues > 0, 10)

(* The least of two numbers is one of them, and grows with each of them.    *)
LEMMA LeastGrows ==
    ASSUME NEW k \in Nat, NEW a \in Nat, NEW b \in Nat, a <= b
    PROVE  /\ Min({k, a}) \in 0..k /\ Min({k, b}) \in 0..k /\ Min({k, a}) <= Min({k, b})
<1>1. k \in Int /\ a \in Int /\ b \in Int
  OBVIOUS
<1>2. Min({k, a}) = IF k <= a THEN k ELSE a
  BY ONLY <1>1, OfTwo
<1>3. Min({k, b}) = IF k <= b THEN k ELSE b
  BY ONLY <1>1, OfTwo
<1> QED BY <1>2, <1>3

(* A part of the risk is at most 35 and grows with what it is taken from.   *)
LEMMA PartGrows ==
    ASSUME NEW a \in Nat, NEW b \in Nat, a <= b
    PROVE  part(a) \in 0..35 /\ part(b) \in 0..35 /\ part(a) <= part(b)
<1> DEFINE x == Min({25, a})
           y == Min({25, b})
<1>1. x \in 0..25 /\ y \in 0..25 /\ x <= y
  BY LeastGrows
<1>2. part(a) = (35 * x) \div 25 /\ part(b) = (35 * y) \div 25
  BY DEF part
<1> HIDE DEF x, y
<1>3. (35 * x) \div 25 \in 0..35 /\ (35 * y) \div 25 \in 0..35 /\ (35 * x) \div 25 <= (35 * y) \div 25
  BY <1>1
<1> QED BY <1>2, <1>3

(* More evidence adds up to more.                                           *)
LEMMA SumsGrow ==
    ASSUME NEW t, IsEvidence(t), NEW u, IsEvidence(u), t.count <= u.count, t.changes <= u.changes,
           t.breaks <= u.breaks, t.issues <= u.issues, t.zones \subseteq u.zones
    PROVE  /\ warned(t) \in Nat /\ warned(u) \in Nat /\ warned(t) <= warned(u)
           /\ risked(t) \in Nat /\ risked(u) \in Nat /\ risked(t) <= risked(u)
<1>1. part(t.count) \in Nat /\ part(u.count) \in Nat /\ part(t.count) <= part(u.count)
  BY PartGrows DEF IsEvidence
<1>2. /\ Min({5, t.breaks}) \in Nat /\ Min({5, u.breaks}) \in Nat /\ Min({5, t.breaks}) <= Min({5, u.breaks})
      /\ Min({5, t.issues}) \in Nat /\ Min({5, u.issues}) \in Nat /\ Min({5, t.issues}) <= Min({5, u.issues})
  BY LeastGrows DEF IsEvidence
<1>3. ten(t.zones, "stable") <= ten(u.zones, "stable") /\ ten(t.zones, "hot") <= ten(u.zones, "hot")
  BY DEF ten
<1>4. \A z \in {"stable", "hot"} : ten(t.zones, z) \in Nat /\ ten(u.zones, z) \in Nat
  BY DEF ten
<1>5. warned(t) \in Nat /\ warned(u) \in Nat /\ warned(t) <= warned(u)
  BY <1>1, <1>2, <1>3, <1>4 DEF warned
<1>6. risked(t) \in Nat /\ risked(u) \in Nat /\ risked(t) <= risked(u)
  BY DEF risked, counted, dependents_weight, IsEvidence
<1> QED BY <1>5, <1>6

Band(score) == IF score < 35 THEN 1 ELSE IF score >= 75 THEN 4 ELSE IF score >= 55 THEN 3 ELSE 2
Degree(score) == IF score <= 20 THEN 1 ELSE IF score <= 40 THEN 2 ELSE IF score <= 70 THEN 3 ELSE 4

(* The analyzer and the list of the files at risk go by what adds up.       *)
LEMMA AnalyzerSays ==
    ASSUME NEW t, IsEvidence(t)
    PROVE  /\ judged(t).level = Degree(risked(t)) /\ judged(t).stability = Max({0, 100 - risked(t)})
           /\ judged(t).listed = IF risked(t) > 40 THEN {File} ELSE {}
<1> DEFINE zone(z) == IF z \in t.zones THEN {File} ELSE {}
           tables == [dependents |-> [f \in {File} |-> 1..t.count], breakage |-> IF t.breaks > 0 THEN {File} ELSE {},
                      changes |-> [f \in {File} |-> t.changes], core |-> zone("stable"),
                      issues |-> [f \in {File} |-> 1..t.issues]]
           levels == [Low |-> 1, Medium |-> 2, High |-> 3, Critical |-> 4]
           score == risked(t)
<1>1. judged(t).level = levels[assess(tables, File).level] /\ judged(t).stability = assess(tables, File).stability
      /\ judged(t).listed = get_high_risk_files(tables)
  BY DEF judged
<1>2. Cardinality(at(tables.dependents, File)) = t.count
  <2>1. Cardinality(1..t.count) = t.count
    <3>1. 1 \in Int /\ t.count \in Int /\ t.count \in Nat
      BY DEF IsEvidence
    <3>2. Cardinality(1..t.count) = IF 1 > t.count THEN 0 ELSE t.count - 1 + 1
      BY ONLY <3>1, FS_Interval
    <3> QED BY <3>1, <3>2
  <2>2. at(tables.dependents, File) = 1..t.count
    BY DEF at
  <2> QED BY <2>1, <2>2
<1>3. at(tables.issues, File) # {} <=> t.issues > 0
  BY DEF at, IsEvidence
<1>4. /\ File \in tables.breakage <=> t.breaks > 0
      /\ File \in tables.core <=> "stable" \in t.zones
      /\ File \in DOMAIN tables.changes /\ tables.changes[File] = t.changes
      /\ DOMAIN tables.dependents = {File}
  OBVIOUS
<1> HIDE DEF tables
<1>5. /\ assess(tables, File).stability = Max({0, 100 - score})
      /\ assess(tables, File).level = IF score <= 20 THEN "Low" ELSE IF score <= 40 THEN "Medium"
                                      ELSE IF score <= 70 THEN "High" ELSE "Critical"
  <2> DEFINE count == Cardinality(at(tables.dependents, File))
             changes == IF File \in DOMAIN tables.changes THEN tables.changes[File] ELSE 0
             weigh(condition, weight) == IF condition THEN weight ELSE 0
             sum == dependents_weight(count) + weigh(File \in tables.breakage, 25) + weigh(changes > 10, 15)
                    + weigh(File \in tables.core, 20) + weigh(at(tables.issues, File) # {}, 10)
  <2>1. sum = score
    BY <1>2, <1>3, <1>4 DEF risked, counted
  <2>2. assess(tables, File) = [score |-> sum, stability |-> Max({0, 100 - sum}),
            level |-> IF sum <= 20 THEN "Low" ELSE IF sum <= 40 THEN "Medium"
                      ELSE IF sum <= 70 THEN "High" ELSE "Critical"]
    BY DEF assess
  <2> HIDE DEF sum, score
  <2> QED BY <2>1, <2>2
<1>6. score \in Nat
  BY DEF risked, counted, dependents_weight, IsEvidence
<1> HIDE DEF score
<1>7. judged(t).level = Degree(score)
  BY <1>1, <1>5, <1>6 DEF Degree
<1>8. judged(t).listed = IF score > 40 THEN {File} ELSE {}
  BY <1>1, <1>4, <1>5, <1>6 DEF get_high_risk_files
<1> QED BY <1>1, <1>5, <1>7, <1>8 DEF score

(* The entries that report a break are the first ones, and those that       *)
(* report an issue the others.                                              *)
LEMMA WarnerSays ==
    ASSUME NEW t, IsEvidence(t)
    PROVE  judged(t).warning = Band(warned(t))
<1> DEFINE zone(z) == IF z \in t.zones THEN {File} ELSE {}
           entries == [i \in 1..(t.breaks + t.issues) |->
                         IF i <= t.breaks THEN entry("warning", "signature-change") ELSE entry("fact", "issue")]
           g == [in |-> [f \in {File} |-> 1..t.count]]
           warnings == [none |-> 1, caution |-> 2, review |-> 3, checkpoint |-> 4]
           about(kinds, tags) == {i \in DOMAIN entries : /\ File \in entries[i].mentions /\ entries[i].kind \in kinds
                                                        /\ entries[i].tags \cap tags # {}}
           past_breaks == about({"warning"}, {"signature-change", "test-risk"})
           known_issues == about({"warning"}, {"warning", "issue"}) \cup about({"context", "fact"}, {"issue"})
           dependents == Cardinality(at(g.in, File))
           sum == (35 * Min({25, dependents})) \div 25 + 6 * Min({5, Cardinality(past_breaks)})
                  + 4 * Min({5, Cardinality(known_issues)}) + (IF File \in zone("stable") THEN 10 ELSE 0)
                  + (IF File \in zone("hot") THEN 10 ELSE 0)
           score == warned(t)
<1>1. judged(t).warning = warnings[assess_risk(File, entries, g, zone("stable"), zone("hot"))]
  BY DEF judged
<1>2. assess_risk(File, entries, g, zone("stable"), zone("hot")) =
          IF sum < 35 THEN "none" ELSE IF sum >= 75 THEN "checkpoint" ELSE IF sum >= 55 THEN "review" ELSE "caution"
  BY DEF assess_risk
<1>3. t.breaks \in Nat /\ t.issues \in Nat /\ t.count \in Nat
  BY DEF IsEvidence
<1>4. \A i \in 1..(t.breaks + t.issues) :
         /\ i <= t.breaks => entries[i] = [mentions |-> {File}, kind |-> "warning", tags |-> {"signature-change"}]
         /\ ~(i <= t.breaks) => entries[i] = [mentions |-> {File}, kind |-> "fact", tags |-> {"issue"}]
  BY DEF entry
<1>5. DOMAIN entries = 1..(t.breaks + t.issues)
  OBVIOUS
<1> HIDE DEF entries, g
<1>6. past_breaks = 1..t.breaks
  BY <1>3, <1>4, <1>5
<1>7. known_issues = (t.breaks + 1)..(t.breaks + t.issues)
  <2>1. about({"warning"}, {"warning", "issue"}) = {}
    BY <1>3, <1>4, <1>5
  <2>2. about({"context", "fact"}, {"issue"}) = (t.breaks + 1)..(t.breaks + t.issues)
    BY <1>3, <1>4, <1>5
  <2> QED BY <2>1, <2>2
<1>8. Cardinality(1..t.breaks) = t.breaks /\ Cardinality((t.breaks + 1)..(t.breaks + t.issues)) = t.issues
  <2> DEFINE b == t.breaks
             n == t.issues
  <2>1. b \in Nat /\ n \in Nat
    BY <1>3
  <2> HIDE DEF b, n
  <2>2. 1 \in Int /\ b \in Int /\ b + 1 \in Int /\ b + n \in Int
    BY <2>1
  <2>3. Cardinality(1..b) = IF 1 > b THEN 0 ELSE b - 1 + 1
    BY ONLY <2>2, FS_Interval
  <2>4. Cardinality((b + 1)..(b + n)) = IF b + 1 > b + n THEN 0 ELSE (b + n) - (b + 1) + 1
    BY ONLY <2>2, FS_Interval
  <2>5. Cardinality(1..b) = b /\ Cardinality((b + 1)..(b + n)) = n
    BY <2>1, <2>3, <2>4
  <2> QED BY <2>5 DEF b, n
<1>9. dependents = t.count
  <2>1. 1 \in Int /\ t.count \in Int
    BY <1>3
  <2>2. Cardinality(1..t.count) = IF 1 > t.count THEN 0 ELSE t.count - 1 + 1
    BY ONLY <2>1, FS_Interval
  <2>3. at(g.in, File) = 1..t.count
    BY DEF at, g
  <2> QED BY <1>3, <2>2, <2>3
<1>10. Cardinality(past_breaks) = t.breaks /\ Cardinality(known_issues) = t.issues
  BY <1>6, <1>7, <1>8
<1> HIDE DEF past_breaks, known_issues, dependents
<1>11. sum = score
  BY <1>9, <1>10 DEF warned, part, ten
<1>12. score \in Nat
  <2>1. /\ t.count <= t.count /\ t.changes <= t.changes /\ t.breaks <= t.breaks
        /\ t.issues <= t.issues /\ t.zones \subseteq t.zones
    BY DEF IsEvidence
  <2> QED BY <2>1, SumsGrow
<1> HIDE DEF sum, score
<1> QED BY <1>1, <1>2, <1>11, <1>12 DEF Band, score

\* What a session's score takes off, for contradictions and for reverts.
charged(weight, count) == Min({255, weight * count})

(* More faults cost more.                                                   *)
LEMMA ChargesGrow ==
    ASSUME NEW w \in Nat, NEW a \in Nat, NEW b \in Nat, a <= b
    PROVE  charged(w, a) \in Nat /\ charged(w, b) \in Nat /\ charged(w, a) <= charged(w, b)
<1>1. w * a \in Nat /\ w * b \in Nat /\ w * a <= w * b
  <2>1. PICK c \in Nat : b = a + c
    <3>1. b - a \in Nat /\ b = a + (b - a)
      OBVIOUS
    <3> QED BY <3>1
  <2>2. w * b = w * a + w * c /\ w * a \in Nat /\ w * c \in Nat
    BY <2>1
  <2> QED BY <2>1, <2>2
<1> DEFINE x == w * a
           y == w * b
<1>2. x \in Nat /\ y \in Nat /\ x <= y
  BY <1>1
<1> HIDE DEF x, y
<1>3. Min({255, x}) \in 0..255 /\ Min({255, y}) \in 0..255 /\ Min({255, x}) <= Min({255, y})
  <2>1. 255 \in Nat
    OBVIOUS
  <2> QED BY ONLY <1>2, <2>1, LeastGrows
<1> QED BY <1>3 DEF charged, x, y

(* More faults do not improve a session.                                    *)
LEMMA ScoresFall ==
    ASSUME NEW t, IsEvidence(t), NEW u, IsEvidence(u), t.breaks <= u.breaks, t.changes <= u.changes
    PROVE  /\ judged(t).score.compliance >= judged(u).score.compliance
           /\ judged(t).score.penalty <= judged(u).score.penalty
<1> DEFINE left(v) == Max({0, 100 - charged(15, v.breaks)})
           compliance(v) == Max({0, left(v) - charged(5, v.changes)})
           penalty(v) == Min({255, 20 * v.breaks + 10 * v.changes})
           x == left(t)
           y == left(u)
<1>1. \A v : /\ judged(v).score = calculate_score(v.breaks, v.changes)
             /\ calculate_score(v.breaks, v.changes) = [compliance |-> compliance(v), penalty |-> penalty(v)]
  BY DEF judged, calculate_score, charged
<1>2. t.breaks \in Nat /\ u.breaks \in Nat /\ t.changes \in Nat /\ u.changes \in Nat
  BY DEF IsEvidence
<1>3. /\ charged(15, t.breaks) \in Nat /\ charged(15, u.breaks) \in Nat /\ charged(15, t.breaks) <= charged(15, u.breaks)
      /\ charged(5, t.changes) \in Nat /\ charged(5, u.changes) \in Nat /\ charged(5, t.changes) <= charged(5, u.changes)
  BY <1>2, ChargesGrow
<1>4. \A a, b \in Int : a >= b => /\ Max({0, a}) \in Int /\ Max({0, b}) \in Int /\ Max({0, a}) >= Max({0, b})
  <2> SUFFICES ASSUME NEW a \in Int, NEW b \in Int, a >= b
               PROVE  Max({0, a}) \in Int /\ Max({0, b}) \in Int /\ Max({0, a}) >= Max({0, b})
    OBVIOUS
  <2>1. 0 \in Int /\ a \in Int /\ b \in Int
    OBVIOUS
  <2>2. Max({0, a}) = IF 0 >= a THEN 0 ELSE a
    BY ONLY <2>1, OfTwo
  <2>3. Max({0, b}) = IF 0 >= b THEN 0 ELSE b
    BY ONLY <2>1, OfTwo
  <2> QED BY <2>2, <2>3
<1>5. x \in Int /\ y \in Int /\ x >= y
  <2>1. 100 - charged(15, t.breaks) \in Int /\ 100 - charged(15, u.breaks) \in Int
        /\ 100 - charged(15, t.breaks) >= 100 - charged(15, u.breaks)
    BY <1>3
  <2> QED BY <1>4, <2>1
<1> HIDE DEF x, y
<1>6. compliance(t) >= compliance(u)
  <2>1. x - charged(5, t.changes) \in Int /\ y - charged(5, u.changes) \in Int
        /\ x - charged(5, t.changes) >= y - charged(5, u.changes)
    BY <1>3, <1>5
  <2>2. Max({0, x - charged(5, t.changes)}) >= Max({0, y - charged(5, u.changes)})
    BY <1>4, <2>1
  <2> QED BY <2>2 DEF x, y
<1>7. penalty(t) <= penalty(u)
  <2>1. 20 * t.breaks + 10 * t.changes \in Nat /\ 20 * u.breaks + 10 * u.changes \in Nat
        /\ 20 * t.breaks + 10 * t.changes <= 20 * u.breaks + 10 * u.changes
    BY <1>2
  <2> QED BY <2>1, LeastGrows
<1>8. /\ judged(t).score.compliance = compliance(t) /\ judged(t).score.penalty = penalty(t)
      /\ judged(u).score.compliance = compliance(u) /\ judged(u).score.penalty = penalty(u)
  <2> HIDE DEF compliance, penalty
  <2>1. /\ judged(t).score = [compliance |-> compliance(t), penalty |-> penalty(t)]
        /\ judged(u).score = [compliance |-> compliance(u), penalty |-> penalty(u)]
    BY <1>1
  <2> QED BY <2>1
<1> HIDE DEF compliance, penalty
<1> QED BY <1>6, <1>7, <1>8

(* For any evidence more of it never makes a file look safer or a session   *)
(* better, and dependents alone never ask for a review.                     *)
THEOREM RiskAlwaysAdds == Spec => []RiskAdds
<1>1. ASSUME AnswerInv PROVE RiskAdds
  <2> SUFFICES ASSUME answered("risk") PROVE RiskAdds
    BY DEF RiskAdds
  <2>1. task \in Evidence
    <3>1. task.kind = "risk"
      BY DEF answered
    <3> QED BY <1>1, <3>1 DEF AnswerInv, ChangeTask, BudgetTask, ReachTask, RiskTask
  <2>2. Counts \subseteq Nat
    BY VerdictsAssumption
  <2>3. IsEvidence(task)
    BY <2>1, <2>2 DEF Evidence, IsEvidence
  <2>4. result = judged(task)
    BY <1>1 DEF AnswerInv
  <2>5. ASSUME NEW t \in lesser(task)
        PROVE  LET before == judged(t)
               IN  /\ before.level <= result.level /\ before.warning <= result.warning
                   /\ before.stability >= result.stability /\ before.listed \subseteq result.listed
                   /\ before.score.compliance >= result.score.compliance
                   /\ before.score.penalty <= result.score.penalty
    <3>1. IsEvidence(t)
      <4>1. PICK c \in Counts, z \in SUBSET {"stable", "hot"} :
                t \in {[task EXCEPT !.count = c], [task EXCEPT !.changes = c], [task EXCEPT !.breaks = c],
                       [task EXCEPT !.issues = c], [task EXCEPT !.zones = z]}
        BY <2>5 DEF lesser
      <4>2. t \in Evidence
        BY <2>1, <4>1 DEF Evidence
      <4> QED BY <2>2, <4>2 DEF Evidence, IsEvidence
    <3>2. /\ t.count <= task.count /\ t.changes <= task.changes /\ t.breaks <= task.breaks
           /\ t.issues <= task.issues /\ t.zones \subseteq task.zones
      BY <2>5 DEF lesser
    <3>3. /\ warned(t) \in Nat /\ warned(task) \in Nat /\ warned(t) <= warned(task)
          /\ risked(t) \in Nat /\ risked(task) \in Nat /\ risked(t) <= risked(task)
      BY <2>3, <3>1, <3>2, SumsGrow
    <3>4. judged(t).warning = Band(warned(t)) /\ judged(task).warning = Band(warned(task))
      BY <2>3, <3>1, WarnerSays
    <3>5. /\ judged(t).level = Degree(risked(t)) /\ judged(t).stability = Max({0, 100 - risked(t)})
          /\ judged(t).listed = IF risked(t) > 40 THEN {File} ELSE {}
          /\ judged(task).level = Degree(risked(task)) /\ judged(task).stability = Max({0, 100 - risked(task)})
          /\ judged(task).listed = IF risked(task) > 40 THEN {File} ELSE {}
      BY <2>3, <3>1, AnalyzerSays
    <3>6. Band(warned(t)) <= Band(warned(task))
      BY <3>3 DEF Band
    <3>7. Degree(risked(t)) <= Degree(risked(task))
      BY <3>3 DEF Degree
    <3>8. Max({0, 100 - risked(t)}) >= Max({0, 100 - risked(task)})
      <4> DEFINE a == 100 - risked(t)
                 b == 100 - risked(task)
      <4>1. a >= b /\ 0 \in Int /\ a \in Int /\ b \in Int
        BY <3>3
      <4> HIDE DEF a, b
      <4>2. Max({0, a}) = IF 0 >= a THEN 0 ELSE a
        BY ONLY <4>1, OfTwo
      <4>3. Max({0, b}) = IF 0 >= b THEN 0 ELSE b
        BY ONLY <4>1, OfTwo
      <4>4. Max({0, a}) >= Max({0, b})
        BY <4>1, <4>2, <4>3
      <4> QED BY <4>4 DEF a, b
    <3>9. judged(t).listed \subseteq judged(task).listed
      BY <3>3, <3>5
    <3>10. /\ judged(t).score.compliance >= judged(task).score.compliance
          /\ judged(t).score.penalty <= judged(task).score.penalty
      BY <2>3, <3>1, <3>2, ScoresFall
    <3> QED BY <2>4, <3>4, <3>5, <3>6, <3>7, <3>8, <3>9, <3>10
  <2>6. ASSUME task.breaks + task.issues = 0, task.zones = {} PROVE result.warning <= 2
    <3>1. task.breaks = 0 /\ task.issues = 0 /\ task.count \in Nat
      BY <2>3, <2>6 DEF IsEvidence
    <3>2. part(task.count) \in 0..35
      <4>1. task.count <= task.count
        BY <3>1
      <4> QED BY <3>1, <4>1, PartGrows
    <3>3. Min({5, 0}) = 0
      <4>1. 5 \in Int /\ 0 \in Int
        OBVIOUS
      <4>2. Min({5, 0}) = IF 5 <= 0 THEN 5 ELSE 0
        BY ONLY <4>1, OfTwo
      <4> QED BY <4>2
    <3>4. warned(task) = part(task.count)
      BY <2>6, <3>1, <3>2, <3>3 DEF warned, ten
    <3>5. result.warning = Band(warned(task))
      BY <2>3, <2>4, WarnerSays
    <3> QED BY <3>2, <3>4, <3>5 DEF Band
  <2> QED BY <2>5, <2>6 DEF RiskAdds
<1> QED BY <1>1, AnswerInvHolds, PTL

-----------------------------------------------------------------------------
(* The difference of two versions of a file.                                *)

IsList(features, n) ==
    /\ n \in Nat /\ features \in [1..n -> FeatureKinds] /\ features \in Seq(FeatureKinds)
    /\ Len(features) = n /\ DOMAIN features = 1..n

(* The versions of a file are lists of features.                            *)
LEMMA ListsAreLists ==
    ASSUME NEW features \in lists(FeatureKinds, MaxFeatures)
    PROVE  IsList(features, Len(features))
<1>1. PICK n \in 0..MaxFeatures : features \in [1..n -> FeatureKinds]
  BY DEF lists
<1>2. n \in Nat
  BY VerdictsAssumption
<1>3. features \in Seq(FeatureKinds) /\ Len(features) = n /\ DOMAIN features = 1..n
  BY <1>1, <1>2
<1> QED BY <1>1, <1>2, <1>3 DEF IsList

IsNamed(map, features, n) ==
    /\ DOMAIN map = {features[i].name : i \in 1..n}
    /\ \A name \in DOMAIN map : \E i \in 1..n : features[i].name = name /\ map[name] = features[i]

(* The map of the old features has each of their names, and one of that     *)
(* name under it.                                                           *)
LEMMA ByName ==
    ASSUME NEW features, NEW n, IsList(features, n)
    PROVE  IsNamed(by_name(features), features, n)
<1>1. n \in Nat /\ DOMAIN features = 1..n
  BY DEF IsList
<1>2. DOMAIN by_name(features) = {features[i].name : i \in 1..n}
  BY <1>1 DEF by_name
<1>3. ASSUME NEW name \in DOMAIN by_name(features)
      PROVE  \E i \in 1..n : features[i].name = name /\ by_name(features)[name] = features[i]
  <2> DEFINE places == {i \in DOMAIN features : features[i].name = name}
  <2>1. places # {} /\ places \in SUBSET (0..n) /\ places \subseteq 1..n
    BY <1>1, <1>2
  <2>2. by_name(features)[name] = features[Max(places)]
    BY <1>2 DEF by_name
  <2>3. Max(places) \in places
    <3> HIDE DEF places
    <3> QED BY <1>1, <2>1, MaxExists
  <2> QED BY <2>1, <2>2, <2>3
<1> QED BY <1>2, <1>3 DEF IsNamed

(* The greatest of the numbers up to k is k.                                *)
LEMMA MaxOfInterval ==
    ASSUME NEW k \in Nat \ {0}
    PROVE  Max(1..k) = k
<1> DEFINE places == 1..k
<1>1. places # {} /\ places \in SUBSET (0..k) /\ k \in places /\ \A i \in places : i \in Int /\ i <= k
  OBVIOUS
<1> HIDE DEF places
<1>2. Max(places) \in places /\ k <= Max(places)
  BY <1>1, MaxExists
<1>3. Max(places) \in Int /\ Max(places) <= k /\ k \in Int
  BY <1>1, <1>2
<1> QED BY <1>2, <1>3 DEF places

\* Compared so far: the old features no new one has the name of, and the new ones that were
\* added and modified.
FeatureNames == {f.name : f \in FeatureKinds}
Comparisons == [old : UNION {[N -> FeatureKinds] : N \in SUBSET FeatureNames}, added : Seq(FeatureKinds), modified : Seq(FeatureKinds)]
uncompared(old) == [old |-> by_name(old), added |-> <<>>, modified |-> <<>>]
absorbed(d, f) ==
    IF f.name \notin DOMAIN d.old THEN [d EXCEPT !.added = Append(@, f)]
    ELSE [d EXCEPT !.old = taken(@, f.name),
                   !.modified = IF d.old[f.name].body # f.body THEN Append(@, f) ELSE @]

(* Comparing one more feature gives a comparison.                           *)
LEMMA AbsorbedTyped ==
    ASSUME NEW d \in Comparisons, NEW f \in FeatureKinds
    PROVE  absorbed(d, f) \in Comparisons
<1>1. PICK N \in SUBSET FeatureNames : d.old \in [N -> FeatureKinds]
  BY DEF Comparisons
<1>2. d.added \in Seq(FeatureKinds) /\ d.modified \in Seq(FeatureKinds)
  BY DEF Comparisons
<1>3. Append(d.added, f) \in Seq(FeatureKinds) /\ Append(d.modified, f) \in Seq(FeatureKinds)
  BY <1>2
<1>4. CASE f.name \notin DOMAIN d.old
  BY <1>3, <1>4 DEF absorbed, Comparisons
<1>5. CASE f.name \in DOMAIN d.old
  <2>1. taken(d.old, f.name) \in [N \ {f.name} -> FeatureKinds] /\ N \ {f.name} \in SUBSET FeatureNames
    BY <1>1 DEF taken, without
  <2> QED BY <1>2, <1>3, <1>5, <2>1 DEF absorbed, Comparisons
<1> QED BY <1>4, <1>5

IsComparison(h, old, new, n) ==
    /\ h[0] = uncompared(old) /\ \A k \in 0..n : h[k] \in Comparisons
    /\ \A k \in 1..n : h[k] = absorbed(h[k - 1], new[k])
    /\ compute_diff(old, new) = [added |-> h[n].added, modified |-> h[n].modified, removed |-> Range(h[n].old)]

(* The difference is what comparing the new features one by one leaves.     *)
LEMMA DiffSteps ==
    ASSUME NEW old, NEW m, IsList(old, m), NEW new, NEW n, IsList(new, n)
    PROVE  \E h : IsComparison(h, old, new, n)
<1> DEFINE base == uncompared(old)
           V == Comparisons
           G == [p \in V \X (1..n) |-> absorbed(p[1], new[p[2]])]
<1>1. n \in Nat /\ DOMAIN new = 1..n /\ \A k \in 1..n : new[k] \in FeatureKinds
  BY DEF IsList
<1>2. base \in V
  <2>1. by_name(old) \in [DOMAIN by_name(old) -> FeatureKinds] /\ DOMAIN by_name(old) \subseteq FeatureNames
    <3>1. \A i \in 1..m : old[i] \in FeatureKinds
      BY DEF IsList
    <3>2. \A name \in DOMAIN by_name(old) : by_name(old)[name] \in FeatureKinds
      <4>1. IsNamed(by_name(old), old, m)
        BY ByName
      <4> DEFINE map == by_name(old)
      <4> HIDE DEF map
      <4>2. \A name \in DOMAIN map : map[name] \in FeatureKinds
        BY <3>1, <4>1 DEF IsNamed, map
      <4> QED BY <4>2 DEF map
    <3>3. by_name(old) = [name \in DOMAIN by_name(old) |-> by_name(old)[name]]
      BY DEF by_name
    <3>4. DOMAIN by_name(old) \subseteq FeatureNames
      <4>1. DOMAIN by_name(old) = {old[i].name : i \in 1..m}
        BY ByName DEF IsNamed
      <4> QED BY <3>1, <4>1 DEF FeatureNames
    <3> QED BY <3>2, <3>3, <3>4
  <2> QED BY <2>1 DEF Comparisons, uncompared
<1>3. G \in [V \X (1..n) -> V]
  <2>1. \A d \in V, k \in 1..n : absorbed(d, new[k]) \in V
    BY <1>1, AbsorbedTyped
  <2> HIDE DEF V
  <2> QED BY <2>1
<1> HIDE DEF V, base
<1>4. PICK f : IteratesFold(f, n, V, base, G)
  <2> HIDE DEF G
  <2> QED BY <1>1, <1>2, <1>3, FoldIteration
<1>5. ASSUME NEW S \in SUBSET (1..n)
      PROVE  f[S] = IF S = {} THEN base ELSE absorbed(f[S \ {Max(S)}], new[Max(S)])
  <2>1. CASE S = {}
    BY <1>4, <2>1 DEF IteratesFold
  <2>2. CASE S # {}
    <3>1. n \in Nat /\ S \in SUBSET (0..n)
      BY <1>1
    <3>2. Max(S) \in 1..n
      <4>1. Max(S) \in S
        BY <2>2, <3>1, MaxExists
      <4> QED BY <4>1
    <3>3. f[S \ {Max(S)}] \in V
      BY <1>4 DEF IteratesFold
    <3>4. f[S] = G[<<f[S \ {Max(S)}], Max(S)>>]
      BY <1>4, <2>2 DEF IteratesFold
    <3> QED BY <2>2, <3>2, <3>3, <3>4
  <2> QED BY <2>1, <2>2
<1> DEFINE iter == CHOOSE g : g = [S \in SUBSET DOMAIN new |->
                     IF S = {} THEN base ELSE LET x == Max(S) IN absorbed(g[S \ {x}], new[x])]
<1>6. iter = [S \in SUBSET DOMAIN new |-> IF S = {} THEN base ELSE absorbed(iter[S \ {Max(S)}], new[Max(S)])]
  <2>1. f = [S \in SUBSET (1..n) |-> f[S]]
    BY <1>4 DEF IteratesFold
  <2>2. f = [S \in SUBSET DOMAIN new |-> IF S = {} THEN base ELSE absorbed(f[S \ {Max(S)}], new[Max(S)])]
    BY <1>1, <1>5, <2>1
  <2> HIDE DEF G, V
  <2> QED BY <2>2
<1>7. compute_diff(old, new) = [added |-> iter[1..n].added, modified |-> iter[1..n].modified, removed |-> Range(iter[1..n].old)]
  BY <1>1 DEF compute_diff, FoldLeft, MapThenFoldSet, absorbed, base, uncompared
<1> HIDE DEF iter, G
<1> DEFINE h == [k \in 0..n |-> iter[1..k]]
<1>8. /\ iter[1..0] = base
      /\ \A k \in 1..n : iter[1..k] = absorbed(iter[1..(k - 1)], new[k])
  <2>1. iter[1..0] = base
    <3>1. 1..0 = {} /\ {} \in SUBSET (1..n)
      OBVIOUS
    <3>2. iter[{}] = base
      BY <1>1, <1>6, <3>1
    <3> QED BY <3>1, <3>2
  <2>2. ASSUME NEW k \in 1..n PROVE iter[1..k] = absorbed(iter[1..(k - 1)], new[k])
    <3> DEFINE places == 1..k
    <3>1. places \in SUBSET (1..n) /\ places # {} /\ places \ {k} = 1..(k - 1)
      <4>1. n \in Nat /\ k \in 1..n
        BY <1>1
      <4> QED BY ONLY <4>1
    <3>2. Max(places) = k
      BY <1>1, MaxOfInterval
    <3> HIDE DEF places
    <3>3. iter[places] = absorbed(iter[places \ {Max(places)}], new[Max(places)])
      BY <1>1, <1>6, <3>1
    <3> QED BY <3>1, <3>2, <3>3 DEF places
  <2> QED BY <2>1, <2>2
<1> DEFINE T == {k \in 0..n : h[k] \in V}
<1>9. 0 \in T
  BY <1>1, <1>2, <1>8
<1>10. ASSUME NEW k \in 0..(n - 1), k \in T PROVE k + 1 \in T
  <2>1. k + 1 \in 1..n /\ k + 1 \in 0..n /\ (k + 1) - 1 = k
    BY <1>1
  <2>2. iter[1..(k + 1)] = absorbed(iter[1..k], new[k + 1])
    BY <1>8, <2>1
  <2>3. absorbed(iter[1..k], new[k + 1]) \in V
    BY <1>1, <1>10, <2>1, AbsorbedTyped DEF V
  <2> QED BY <2>1, <2>2, <2>3
<1> HIDE DEF T
<1>11. 0..n \subseteq T
  BY <1>1, <1>9, <1>10, InductionUpTo
<1>12. \A k \in 0..n : h[k] \in V
  BY <1>11 DEF T
<1>13. \A k \in 1..n : h[k] = absorbed(h[k - 1], new[k])
  <2>1. \A k \in 1..n : k \in 0..n /\ k - 1 \in 0..n
    BY <1>1
  <2> QED BY <1>8, <2>1
<1>14. h[0] = base /\ h[n] = iter[1..n]
  BY <1>1, <1>8
<1> HIDE DEF h
<1>15. IsComparison(h, old, new, n)
  BY <1>7, <1>12, <1>13, <1>14 DEF IsComparison, base, V
<1> QED BY <1>15

\* What one more feature does to the comparison: it is added, or known and perhaps modified.
Absorbs(d, e, f) ==
    \/ /\ f.name \notin DOMAIN d.old /\ e.old = d.old /\ e.modified = d.modified
       /\ Range(e.added) = Range(d.added) \cup {f}
    \/ /\ f.name \in DOMAIN d.old /\ DOMAIN e.old = DOMAIN d.old \ {f.name}
       /\ \A name \in DOMAIN e.old : e.old[name] = d.old[name]
       /\ e.added = d.added
       /\ \/ d.old[f.name].body # f.body /\ Range(e.modified) = Range(d.modified) \cup {f}
          \/ d.old[f.name].body = f.body /\ e.modified = d.modified

(* What is appended to a list is the one element more it has.               *)
LEMMA RangeOfAppend ==
    ASSUME NEW s \in Seq(FeatureKinds), NEW f \in FeatureKinds
    PROVE  Range(Append(s, f)) = Range(s) \cup {f}
<1> DEFINE r == Append(s, f)
<1>1. DOMAIN s = 1..Len(s) /\ Len(s) \in Nat
  OBVIOUS
<1>2. DOMAIN r = 1..(Len(s) + 1) /\ r[Len(s) + 1] = f /\ \A i \in 1..Len(s) : r[i] = s[i]
  BY <1>1
<1> HIDE DEF r
<1>3. \A i \in 1..(Len(s) + 1) : i = Len(s) + 1 \/ i \in 1..Len(s)
  BY <1>1
<1>4. \A i \in 1..Len(s) : i \in 1..(Len(s) + 1)
  BY <1>1
<1>5. Len(s) + 1 \in 1..(Len(s) + 1)
  BY <1>1
<1>6. Range(r) = {r[i] : i \in 1..(Len(s) + 1)} /\ Range(s) = {s[i] : i \in 1..Len(s)}
  BY <1>1, <1>2 DEF Range
<1>7. Range(r) = Range(s) \cup {f}
  BY <1>2, <1>3, <1>4, <1>5, <1>6
<1> QED BY <1>7 DEF r

(* That is what absorbed does.                                              *)
LEMMA AbsorbedParts ==
    ASSUME NEW d \in Comparisons, NEW f \in FeatureKinds
    PROVE  Absorbs(d, absorbed(d, f), f)
<1> DEFINE e == absorbed(d, f)
<1>1. /\ d = [old |-> d.old, added |-> d.added, modified |-> d.modified]
      /\ d.added \in Seq(FeatureKinds) /\ d.modified \in Seq(FeatureKinds)
  BY DEF Comparisons
<1>2. CASE f.name \notin DOMAIN d.old
  <2>1. e.old = d.old /\ e.modified = d.modified /\ e.added = Append(d.added, f)
    BY <1>1, <1>2 DEF absorbed
  <2> HIDE DEF e
  <2>2. Range(e.added) = Range(d.added) \cup {f}
    BY <1>1, <2>1, RangeOfAppend
  <2> QED BY <1>2, <2>1, <2>2 DEF Absorbs, e
<1>3. CASE f.name \in DOMAIN d.old
  <2>1. /\ e.old = without(d.old, {f.name}) /\ e.added = d.added
        /\ e.modified = IF d.old[f.name].body # f.body THEN Append(d.modified, f) ELSE d.modified
    BY <1>1, <1>3 DEF absorbed, taken
  <2> HIDE DEF e
  <2>2. DOMAIN e.old = DOMAIN d.old \ {f.name} /\ \A name \in DOMAIN e.old : e.old[name] = d.old[name]
    BY <2>1 DEF without
  <2>3. CASE d.old[f.name].body # f.body
    <3>1. Range(e.modified) = Range(d.modified) \cup {f}
      BY <1>1, <2>1, <2>3, RangeOfAppend
    <3> QED BY <1>3, <2>1, <2>2, <2>3, <3>1 DEF Absorbs, e
  <2>4. CASE d.old[f.name].body = f.body
    BY <1>3, <2>1, <2>2, <2>4 DEF Absorbs, e
  <2> QED BY <2>3, <2>4
<1> QED BY <1>2, <1>3

\* What is known once k of the new features are compared.
Parted(d, old, new, k) ==
    LET map == by_name(old)
    IN  /\ DOMAIN d.old = DOMAIN map \ {new[i].name : i \in 1..k}
        /\ \A name \in DOMAIN d.old : d.old[name] = map[name]
        /\ \A f \in Range(d.modified) : f.name \in DOMAIN map /\ \E i \in 1..k : f = new[i]
        /\ \A i \in 1..k : \/ new[i] \in Range(d.added) \cup Range(d.modified)
                           \/ new[i].name \in DOMAIN map /\ map[new[i].name].body = new[i].body

(* One more feature keeps what is known.                                    *)
LEMMA PartedSteps ==
    ASSUME NEW old, NEW new, NEW n, IsList(new, n), NEW k \in 1..n,
           NEW d, NEW e, Parted(d, old, new, k - 1), Absorbs(d, e, new[k])
    PROVE  Parted(e, old, new, k)
<1> DEFINE map == by_name(old)
           f == new[k]
<1>1. n \in Nat /\ k \in Nat /\ \A i \in 1..k : i = k \/ i \in 1..(k - 1)
  BY DEF IsList
<1>2. \A i \in 1..(k - 1) : i \in 1..k
  BY <1>1
<1>3. k \in 1..k
  BY <1>1
<1>4. {new[i].name : i \in 1..k} = {new[i].name : i \in 1..(k - 1)} \cup {f.name}
  BY <1>1, <1>2, <1>3
<1> HIDE DEF map, f
<1>5. /\ DOMAIN d.old = DOMAIN map \ {new[i].name : i \in 1..(k - 1)}
      /\ \A name \in DOMAIN d.old : d.old[name] = map[name]
      /\ \A g \in Range(d.modified) : g.name \in DOMAIN map /\ \E i \in 1..(k - 1) : g = new[i]
      /\ \A i \in 1..(k - 1) : \/ new[i] \in Range(d.added) \cup Range(d.modified)
                               \/ new[i].name \in DOMAIN map /\ map[new[i].name].body = new[i].body
  BY DEF Parted, map
<1>6. Absorbs(d, e, f)
  BY DEF f
<1>7. DOMAIN e.old = DOMAIN map \ {new[i].name : i \in 1..k}
  BY <1>4, <1>5, <1>6 DEF Absorbs
<1>8. \A name \in DOMAIN e.old : e.old[name] = map[name]
  BY <1>5, <1>6 DEF Absorbs
<1>9. ASSUME NEW g \in Range(e.modified) PROVE g.name \in DOMAIN map /\ \E i \in 1..k : g = new[i]
  <2>1. CASE g \in Range(d.modified)
    BY <1>2, <1>5, <2>1
  <2>2. CASE g \notin Range(d.modified)
    <3>1. g = f /\ f.name \in DOMAIN d.old
      BY <1>6, <1>9, <2>2 DEF Absorbs
    <3> QED BY <1>3, <1>5, <3>1 DEF f
  <2> QED BY <2>1, <2>2
<1>10. Range(d.added) \cup Range(d.modified) \subseteq Range(e.added) \cup Range(e.modified)
  BY <1>6 DEF Absorbs
<1>11. \/ f \in Range(e.added) \cup Range(e.modified)
       \/ f.name \in DOMAIN map /\ map[f.name].body = f.body
  BY <1>5, <1>6 DEF Absorbs
<1>12. ASSUME NEW i \in 1..k PROVE \/ new[i] \in Range(e.added) \cup Range(e.modified)
                                   \/ new[i].name \in DOMAIN map /\ map[new[i].name].body = new[i].body
  <2>1. CASE i = k
    BY <1>11, <2>1 DEF f
  <2>2. CASE i \in 1..(k - 1)
    BY <1>5, <1>10, <2>2
  <2> QED BY <1>1, <2>1, <2>2
<1> QED BY <1>7, <1>8, <1>9, <1>12 DEF Parted, map

(* So it holds of every place of the new list.                              *)
LEMMA PartedHolds ==
    ASSUME NEW old, NEW m, IsList(old, m), NEW new, NEW n, IsList(new, n), NEW h, IsComparison(h, old, new, n)
    PROVE  \A k \in 0..n : Parted(h[k], old, new, k)
<1> DEFINE map == by_name(old)
           T == {k \in 0..n : Parted(h[k], old, new, k)}
<1>1. n \in Nat /\ \A k \in 1..n : new[k] \in FeatureKinds
  BY DEF IsList
<1>2. 0 \in T
  <2>1. h[0] = [old |-> map, added |-> <<>>, modified |-> <<>>]
    BY DEF IsComparison, uncompared
  <2>2. Range(h[0].modified) = {} /\ h[0].old = map
    BY <2>1 DEF Range
  <2>3. 1..0 = {}
    OBVIOUS
  <2>4. Parted(h[0], old, new, 0)
    <3> HIDE DEF map
    <3> QED BY <2>2, <2>3 DEF Parted, map
  <2> QED BY <1>1, <2>4
<1>3. ASSUME NEW j \in 0..(n - 1), j \in T PROVE j + 1 \in T
  <2> DEFINE k == j + 1
  <2>1. k \in 1..n /\ k - 1 = j /\ k \in 0..n /\ k - 1 \in 0..n
    BY <1>1
  <2> HIDE DEF k
  <2>2. h[k] = absorbed(h[k - 1], new[k]) /\ h[k - 1] \in Comparisons
    BY <2>1 DEF IsComparison
  <2>3. Absorbs(h[k - 1], h[k], new[k])
    BY <1>1, <2>1, <2>2, AbsorbedParts
  <2>4. Parted(h[k - 1], old, new, k - 1)
    BY <1>3, <2>1
  <2>5. Parted(h[k], old, new, k)
    BY <2>1, <2>3, <2>4, PartedSteps
  <2> QED BY <2>1, <2>5 DEF k
<1> HIDE DEF T
<1>4. 0..n \subseteq T
  BY <1>1, <1>2, <1>3, InductionUpTo
<1> QED BY <1>4 DEF T

\* How the difference of two lists relates to them.
Differs(diff, old, m, new, n) ==
    LET map == by_name(old)
    IN  /\ diff = [added |-> diff.added, modified |-> diff.modified, removed |-> diff.removed]
        /\ diff.added \in Seq(FeatureKinds) /\ diff.modified \in Seq(FeatureKinds) /\ IsFiniteSet(diff.removed)
        /\ {f.name : f \in diff.removed} = {old[i].name : i \in 1..m} \ {new[i].name : i \in 1..n}
        /\ \A f \in Range(diff.modified) : f.name \in DOMAIN map /\ \E i \in 1..n : f = new[i]
        /\ \A i \in 1..n : \/ new[i] \in Range(diff.added) \cup Range(diff.modified)
                           \/ new[i].name \in DOMAIN map /\ map[new[i].name].body = new[i].body

(* Every new feature is added, modified or as it was, and what is removed   *)
(* are the names that are gone.                                             *)
LEMMA DiffDiffers ==
    ASSUME NEW old, NEW m, IsList(old, m), NEW new, NEW n, IsList(new, n)
    PROVE  Differs(compute_diff(old, new), old, m, new, n)
<1> DEFINE map == by_name(old)
           diff == compute_diff(old, new)
<1>1. PICK h : IsComparison(h, old, new, n)
  BY DiffSteps
<1>2. n \in Nat /\ m \in Nat /\ \A k \in 1..n : new[k] \in FeatureKinds
  BY DEF IsList
<1>3. IsNamed(map, old, m)
  BY ByName
<1> DEFINE d == h[n]
<1>4. Parted(d, old, new, n) /\ d \in Comparisons
  BY <1>1, <1>2, PartedHolds DEF IsComparison
<1>5. /\ diff.added = d.added /\ diff.modified = d.modified /\ diff.removed = Range(d.old)
      /\ diff = [added |-> diff.added, modified |-> diff.modified, removed |-> diff.removed]
  BY <1>1 DEF IsComparison
<1> HIDE DEF diff, d
<1>6. diff.added \in Seq(FeatureKinds) /\ diff.modified \in Seq(FeatureKinds)
  BY <1>4, <1>5 DEF Comparisons
<1>7. /\ DOMAIN d.old = {old[i].name : i \in 1..m} \ {new[i].name : i \in 1..n}
       /\ \A name \in DOMAIN d.old : d.old[name] = map[name] /\ map[name].name = name
  <2> HIDE DEF map
  <2>1. DOMAIN d.old = DOMAIN map \ {new[i].name : i \in 1..n} /\ \A name \in DOMAIN d.old : d.old[name] = map[name]
    BY <1>4 DEF Parted, map
  <2> QED BY <1>3, <2>1 DEF IsNamed
<1>8. {f.name : f \in diff.removed} = DOMAIN d.old
  <2> DEFINE left == d.old
  <2>1. \A name \in DOMAIN left : left[name].name = name
    BY <1>7
  <2>2. diff.removed = {left[name] : name \in DOMAIN left}
    BY <1>5 DEF Range
  <2> HIDE DEF left
  <2>3. {f.name : f \in diff.removed} = DOMAIN left
    BY <2>1, <2>2
  <2> QED BY <2>3 DEF left
<1>9. IsFiniteSet(diff.removed)
  <2>1. diff.removed \subseteq {old[i] : i \in 1..m}
    BY <1>3, <1>5, <1>7 DEF Range, IsNamed
  <2>2. IsFiniteSet(1..m)
    BY <1>2, FS_Interval
  <2> DEFINE items == {old[i] : i \in 1..m}
             item == [i \in 1..m |-> old[i]]
  <2>3. item \in Surjection(1..m, items)
    BY DEF Surjection
  <2> HIDE DEF items, item
  <2>4. IsFiniteSet(items)
    BY <2>2, <2>3, FS_Surjection
  <2> QED BY <2>1, <2>4, FS_Subset DEF items
<1> QED BY <1>4, <1>5, <1>6, <1>7, <1>8, <1>9 DEF Parted, Differs, diff

(* A file that did not change, and has no name twice, has no difference.    *)
LEMMA SameDiff ==
    ASSUME NEW new, NEW n, IsList(new, n), Cardinality({new[i].name : i \in 1..n}) = n
    PROVE  compute_diff(new, new) = [added |-> <<>>, modified |-> <<>>, removed |-> {}]
<1> DEFINE map == by_name(new)
           names == {new[i].name : i \in 1..n}
           called == [i \in 1..n |-> new[i].name]
<1>1. n \in Nat /\ \A k \in 1..n : new[k] \in FeatureKinds
  BY DEF IsList
<1>2. \A i, j \in 1..n : new[i].name = new[j].name => i = j
  <2>1. called \in Surjection(1..n, names)
    BY DEF Surjection
  <2>2. IsFiniteSet(1..n) /\ Cardinality(1..n) = n
    <3>1. 1 \in Int /\ n \in Int
      BY <1>1
    <3>2. IsFiniteSet(1..n) /\ Cardinality(1..n) = IF 1 > n THEN 0 ELSE n - 1 + 1
      BY ONLY <3>1, FS_Interval
    <3> QED BY <1>1, <3>2
  <2>3. Cardinality(names) = Cardinality(1..n)
    BY <2>2
  <2> HIDE DEF called, names
  <2>4. called \in Injection(1..n, names)
    BY <2>1, <2>2, <2>3, FS_Surjection
  <2>5. \A i, j \in 1..n : called[i] = called[j] => i = j
    BY <2>4 DEF Injection, IsInjective
  <2> QED BY <2>5 DEF called
<1>3. IsNamed(map, new, n)
  BY ByName
<1>4. \A k \in 1..n : new[k].name \in DOMAIN map /\ map[new[k].name] = new[k]
  <2> HIDE DEF map
  <2> QED BY <1>2, <1>3 DEF IsNamed
<1>5. PICK h : IsComparison(h, new, new, n)
  BY DiffSteps
<1>6. \A k \in 0..n : Parted(h[k], new, new, k)
  BY <1>5, PartedHolds
<1> DEFINE T == {k \in 0..n : h[k].added = <<>> /\ h[k].modified = <<>>}
<1>7. 0 \in T
  BY <1>1, <1>5 DEF IsComparison, uncompared
<1>8. ASSUME NEW j \in 0..(n - 1), j \in T PROVE j + 1 \in T
  <2> DEFINE k == j + 1
             d == h[k - 1]
             f == new[k]
  <2>1. k \in 1..n /\ k - 1 = j /\ k \in 0..n /\ k - 1 \in 0..n
    BY <1>1
  <2> HIDE DEF k
  <2>2. f.name \notin {new[i].name : i \in 1..(k - 1)}
    <3>1. \A i \in 1..(k - 1) : i \in 1..n /\ i # k
      BY <1>1, <2>1
    <3> QED BY <1>2, <2>1, <3>1
  <2>3. f.name \in DOMAIN d.old /\ d.old[f.name] = f
    <3>1. Parted(d, new, new, k - 1)
      BY <1>6, <2>1
    <3>2. f.name \in DOMAIN map /\ map[f.name] = f
      BY <1>4, <2>1
    <3> HIDE DEF d, f
    <3> QED BY <2>2, <3>1, <3>2 DEF Parted
  <2>4. h[k] = absorbed(d, f) /\ d \in Comparisons /\ d.added = <<>> /\ d.modified = <<>>
    BY <1>5, <1>8, <2>1 DEF IsComparison
  <2> HIDE DEF d, f
  <2>5. d = [old |-> d.old, added |-> d.added, modified |-> d.modified]
    BY <2>4 DEF Comparisons
  <2>6. absorbed(d, f) = [old |-> taken(d.old, f.name), added |-> d.added, modified |-> d.modified]
    BY <2>3, <2>5 DEF absorbed
  <2>7. h[k].added = <<>> /\ h[k].modified = <<>>
    BY <2>4, <2>6
  <2> QED BY <2>1, <2>7 DEF k
<1> HIDE DEF T
<1>9. 0..n \subseteq T
  BY <1>1, <1>7, <1>8, InductionUpTo
<1>10. h[n].added = <<>> /\ h[n].modified = <<>>
  BY <1>1, <1>9 DEF T
<1>11. Range(h[n].old) = {}
  <2> HIDE DEF map
  <2>1. DOMAIN h[n].old = {}
    BY <1>1, <1>3, <1>6 DEF Parted, IsNamed, map
  <2> QED BY <2>1 DEF Range
<1> QED BY <1>5, <1>10, <1>11 DEF IsComparison

(* The impact of a change with a removal less is no greater, and every      *)
(* dependent is warned of a removal.                                        *)
LEMMA ImpactFalls ==
    ASSUME NEW diff, NEW g, NEW f \in diff.removed,
           diff = [added |-> diff.added, modified |-> diff.modified, removed |-> diff.removed],
           diff.added \in Seq(FeatureKinds), diff.modified \in Seq(FeatureKinds), IsFiniteSet(diff.removed)
    PROVE  LET less == analyze_impact(g, File, [diff EXCEPT !.removed = @ \ {f}])
               impact == analyze_impact(g, File, diff)
           IN  /\ less.risk <= impact.risk /\ DOMAIN less.impacted \subseteq DOMAIN impact.impacted
               /\ DOMAIN impact.impacted = at(g.in, File)
<1> DEFINE fewer == [diff EXCEPT !.removed = @ \ {f}]
           a == Len(diff.added)
           m == Len(diff.modified)
           r == Cardinality(diff.removed)
           q == r - 1
           dependents == at(g.in, File)
           score(k) == 5 * k + 3 * m + (IF a > 0 THEN 1 ELSE 0)
           less == analyze_impact(g, File, fewer)
           impact == analyze_impact(g, File, diff)
<1>1. a \in Nat /\ m \in Nat
  OBVIOUS
<1>2. r \in Nat \ {0} /\ Cardinality(diff.removed \ {f}) = q
  <2>1. r \in Nat /\ r # 0
    BY FS_CardinalityType, FS_EmptySet
  <2>2. Cardinality(diff.removed \ {f}) = Cardinality(diff.removed) - 1
    BY FS_RemoveElement
  <2> QED BY <2>1, <2>2
<1>3. fewer.added = diff.added /\ fewer.modified = diff.modified /\ fewer.removed = diff.removed \ {f}
  OBVIOUS
<1>4. impact.risk = Min({10, score(r)}) /\ DOMAIN impact.impacted = dependents
  <2> HIDE DEF dependents
  <2>1. ~(dependents = {} /\ a = 0 /\ r = 0) /\ r + m > 0
    BY <1>1, <1>2
  <2> HIDE DEF a, m, r
  <2> QED BY <2>1 DEF analyze_impact, dependents, a, m, r
<1>5. /\ less.risk = Min({10, score(q)}) \/ less.risk = 0
      /\ DOMAIN less.impacted \subseteq dependents
  <2>1. a = Len(fewer.added) /\ m = Len(fewer.modified) /\ q = Cardinality(fewer.removed)
    BY <1>2, <1>3
  <2> HIDE DEF fewer, a, m, q
  <2>2. CASE dependents = {} /\ a = 0 /\ q = 0
    <3>1. less.risk = 0 /\ less.impacted = <<>>
      BY <2>1, <2>2 DEF analyze_impact
    <3> QED BY <3>1
  <2>3. CASE ~(dependents = {} /\ a = 0 /\ q = 0)
    <3>1. less.risk = Min({10, score(q)}) /\ DOMAIN less.impacted = IF q + m > 0 THEN dependents ELSE {}
      BY <2>1, <2>3 DEF analyze_impact
    <3> QED BY <3>1
  <2> QED BY <2>2, <2>3
<1>6. score(q) \in Nat /\ score(r) \in Nat /\ score(q) <= score(r)
  <2> HIDE DEF a, m, r
  <2> QED BY <1>1, <1>2
<1> DEFINE x == score(q)
           y == score(r)
<1>7. x \in Nat /\ y \in Nat /\ x <= y /\ 10 \in Nat
  BY <1>6
<1> HIDE DEF x, y, score
<1>8. Min({10, x}) <= Min({10, y}) /\ Min({10, y}) \in 0..10
  BY ONLY <1>7, LeastGrows
<1>9. less.risk <= impact.risk
  BY <1>4, <1>5, <1>8 DEF x, y
<1> QED BY <1>4, <1>5, <1>9

IsLonger(r, s, e, S) ==
    /\ r \in Seq(S) /\ Len(r) = Len(s) + 1 /\ r[Len(s) + 1] = e
    /\ \A i \in 1..Len(s) : r[i] = s[i]

(* What is appended comes last.                                             *)
LEMMA AppendedLast ==
    ASSUME NEW S, NEW s \in Seq(S), NEW e \in S
    PROVE  IsLonger(Append(s, e), s, e, S)
<1>1. Append(s, e) \in Seq(S)
  BY AppendProperties
<1>2. Len(Append(s, e)) = Len(s) + 1
  BY AppendProperties
<1>3. Append(s, e)[Len(s) + 1] = e
  BY AppendProperties
<1>4. \A i \in 1..Len(s) : Append(s, e)[i] = s[i]
  BY AppendProperties
<1> QED BY <1>1, <1>2, <1>3, <1>4 DEF IsLonger

(* Two changes are kept of a limit of two, and the oldest goes for a third. *)
IsPair(history, a, b, diff) ==
    DOMAIN history = {1, 2} /\ history[1] = [file |-> a, diff |-> diff] /\ history[2] = [file |-> b, diff |-> diff]

(* record_change keeps the two last changes in their order.                 *)
LEMMA HistoryKept ==
    ASSUME NEW a, NEW b, NEW diff
    PROVE  LET twice == record_change(record_change(<<>>, a, diff, 2), b, diff, 2)
           IN  IsPair(twice, a, b, diff) /\ IsPair(record_change(twice, b, diff, 2), b, b, diff)
<1> DEFINE of(file) == [file |-> file, diff |-> diff]
           S == {of(a), of(b)}
<1>1. \A history, file : record_change(history, file, diff, 2) =
          IF Len(Append(history, of(file))) > 2 THEN Tail(Append(history, of(file))) ELSE Append(history, of(file))
  BY DEF record_change
<1>2. PICK x, y : x = of(a) /\ y = of(b)
  OBVIOUS
<1>3. x \in S /\ y \in S
  BY <1>2
<1> HIDE DEF of, S
<1>4. PICK one : one = Append(<<>>, x)
  OBVIOUS
<1>5. PICK two : two = Append(one, y)
  OBVIOUS
<1>6. PICK three : three = Append(two, y)
  OBVIOUS
<1>7. PICK rest : rest = Tail(three)
  OBVIOUS
<1>8. <<>> \in Seq(S) /\ Len(<<>>) = 0
  OBVIOUS
<1>9. one \in Seq(S) /\ Len(one) = 1 /\ one[1] = x
  BY <1>3, <1>4, <1>8, AppendProperties
<1>10. two \in Seq(S) /\ Len(two) = 2 /\ two[1] = x /\ two[2] = y
  <2>1. IsLonger(two, one, y, S)
    BY <1>3, <1>5, <1>9, AppendedLast
  <2> QED BY <1>9, <2>1 DEF IsLonger
<1>11. three \in Seq(S) /\ Len(three) = 3 /\ three[2] = y /\ three[3] = y
  <2>1. IsLonger(three, two, y, S)
    BY <1>3, <1>6, <1>10, AppendedLast
  <2> QED BY <1>10, <2>1 DEF IsLonger
<1>12. rest \in Seq(S) /\ Len(rest) = 2 /\ rest[1] = y /\ rest[2] = y
  <2>1. three # <<>>
    BY <1>11
  <2>2. rest \in Seq(S) /\ Len(rest) = Len(three) - 1 /\ \A i \in 1..Len(rest) : rest[i] = three[i + 1]
    BY <1>7, <1>11, <2>1, HeadTailProperties
  <2> QED BY <1>11, <2>2
<1>13. DOMAIN two = 1..2 /\ DOMAIN rest = 1..2 /\ 1..2 = {1, 2}
  BY <1>10, <1>12
<1>14. record_change(record_change(<<>>, a, diff, 2), b, diff, 2) = two
  BY <1>1, <1>2, <1>4, <1>5, <1>9, <1>10
<1>15. record_change(two, b, diff, 2) = rest
  BY <1>1, <1>2, <1>6, <1>7, <1>11
<1> QED BY <1>2, <1>10, <1>12, <1>13, <1>14, <1>15 DEF IsPair, of

(* Two changes conflict in the names both modified, if they are of two      *)
(* files.                                                                   *)
LEMMA ConflictsOfTwo ==
    ASSUME NEW a, NEW b, NEW diff, NEW history, IsPair(history, a, b, diff)
    PROVE  LET names == {f.name : f \in Range(diff.modified)}
               conflicts == detect_conflicts(history)
           IN  /\ a # b => {c.name : c \in conflicts} = names
               /\ a = b => conflicts = {}
<1> DEFINE names == {f.name : f \in Range(diff.modified)}
           all == UNION {{f.name : f \in Range(history[i].diff.modified)} : i \in DOMAIN history}
           files(n) == {history[i].file : i \in {j \in DOMAIN history :
                           \E f \in Range(history[j].diff.modified) : f.name = n}}
           conflicts == detect_conflicts(history)
<1>1. conflicts = {[name |-> n, files |-> files(n)] : n \in {m \in all : Cardinality(files(m)) > 1}}
  BY DEF detect_conflicts
<1>2. /\ DOMAIN history = {1, 2} /\ history[1].file = a /\ history[2].file = b
      /\ history[1].diff = diff /\ history[2].diff = diff
  BY DEF IsPair
<1> HIDE DEF conflicts
<1>3. all = names
  BY <1>2
<1>4. ASSUME NEW n \in names PROVE files(n) = {a, b}
  BY <1>2
<1>5. Cardinality({a, b}) = IF a = b THEN 1 ELSE 2
  <2>1. IsFiniteSet({a}) /\ Cardinality({a}) = 1
    BY FS_Singleton
  <2>2. CASE a = b
    BY <2>1, <2>2
  <2>3. CASE a # b
    <3>1. Cardinality({a} \cup {b}) = Cardinality({a}) + 1
      BY <2>1, <2>3, FS_AddElement
    <3>2. {a, b} = {a} \cup {b}
      OBVIOUS
    <3> QED BY <2>1, <2>3, <3>1, <3>2
  <2> QED BY <2>2, <2>3
<1> HIDE DEF all, names, files
<1>6. CASE a # b
  <2>1. {m \in all : Cardinality(files(m)) > 1} = names
    BY <1>3, <1>4, <1>5, <1>6
  <2>2. conflicts = {[name |-> n, files |-> files(n)] : n \in names}
    BY <1>1, <2>1
  <2>3. \A n \in names : [name |-> n, files |-> files(n)] \in conflicts /\ [name |-> n, files |-> files(n)].name = n
    BY <2>2
  <2>4. \A c \in conflicts : c.name \in names
    BY <2>2
  <2>5. {c.name : c \in conflicts} = names
    BY <2>3, <2>4
  <2> QED BY <1>6, <2>5 DEF conflicts, names
<1>7. CASE a = b
  <2>1. {m \in all : Cardinality(files(m)) > 1} = {}
    BY <1>3, <1>4, <1>5, <1>7
  <2>2. conflicts = {}
    BY <1>1, <2>1
  <2> QED BY <1>7, <2>2 DEF conflicts
<1> QED BY <1>6, <1>7

(* For any two versions of a file no new feature escapes the difference,    *)
(* and impact, intent, warnings and conflicts follow it.                    *)
THEOREM ChangeAlwaysSound == Spec => []ChangeSound
<1>1. ASSUME AnswerInv PROVE ChangeSound
  <2> SUFFICES ASSUME answered("change") PROVE ChangeSound
    BY DEF ChangeSound
  <2> DEFINE old == task.old
             new == task.new
             m == Len(old)
             n == Len(new)
             map == by_name(old)
             d == compute_diff(old, new)
             g == [out |-> [f \in task.dependents |-> {File}], in |-> [f \in {File} |-> task.dependents]]
             pairs(features) == {<<f.name, f.body>> : f \in features}
             names(features) == {f.name : f \in features}
             fresh == pairs(Range(d.added)) \cup pairs(Range(d.modified))
             here == record_change(<<>>, File, d, 2)
             twice == record_change(here, Elsewhere, d, 2)
  <2>1. old \in lists(FeatureKinds, MaxFeatures) /\ new \in lists(FeatureKinds, MaxFeatures)
    <3>1. task.kind = "change"
      BY DEF answered
    <3>2. ChangeTask
      BY <1>1, <3>1 DEF AnswerInv, BudgetTask, RiskTask, ReachTask, Evidence
    <3> QED BY <3>2 DEF ChangeTask
  <2>2. result = compared(task)
    BY <1>1 DEF AnswerInv
  <2>3. /\ result.diff = d /\ result.impact = analyze_impact(g, File, d)
        /\ result.without_one = [f \in d.removed |-> analyze_impact(g, File, [d EXCEPT !.removed = @ \ {f}])]
        /\ result.intent = classify_with_confidence({}, d)
        /\ result.breaking = detect_breaking_signatures(old, new, Signature)
        /\ result.warned = emit_breaking_signature_warnings(old, result.breaking, Signature)
        /\ result.conflicts = detect_conflicts(twice)
        /\ result.forgotten = detect_conflicts(record_change(twice, Elsewhere, d, 2))
    BY <2>2 DEF compared
  <2> HIDE DEF old, new
  <2>4. IsList(old, m) /\ IsList(new, n)
    BY <2>1, ListsAreLists
  <2>5. m \in Nat /\ n \in Nat /\ Range(old) = {old[i] : i \in 1..m} /\ Range(new) = {new[i] : i \in 1..n}
    BY <2>4 DEF IsList, Range
  <2>6. IsNamed(map, old, m)
    BY <2>4, ByName
  <2>7. Differs(d, old, m, new, n)
    BY <2>4, DiffDiffers
  <2> HIDE DEF d, map, m, n
  <2>8. \A f \in Range(new) : \/ f \in Range(d.added) \cup Range(d.modified)
                              \/ f.name \in DOMAIN map /\ map[f.name].body = f.body
    BY <2>5, <2>7 DEF Differs, map
  <2>9. pairs(Range(new)) \ pairs(Range(old)) \subseteq fresh
    <3> SUFFICES ASSUME NEW f \in Range(new), <<f.name, f.body>> \notin fresh PROVE <<f.name, f.body>> \in pairs(Range(old))
      OBVIOUS
    <3>1. f.name \in DOMAIN map /\ map[f.name].body = f.body
      BY <2>8
    <3>2. PICK i \in 1..m : old[i].name = f.name /\ map[f.name] = old[i]
      BY <2>6, <3>1 DEF IsNamed
    <3> QED BY <2>5, <3>1, <3>2
  <2>10. names(d.removed) = names(Range(old)) \ names(Range(new))
    <3>1. names(Range(old)) = {old[i].name : i \in 1..m} /\ names(Range(new)) = {new[i].name : i \in 1..n}
      BY <2>5
    <3> QED BY <2>7, <3>1 DEF Differs
  <2>11. names(Range(d.modified)) \subseteq names(Range(old)) \cap names(Range(new))
    <3>1. \A f \in Range(d.modified) : f.name \in DOMAIN map /\ \E i \in 1..n : f = new[i]
      BY <2>7 DEF Differs, map
    <3>2. DOMAIN map = names(Range(old))
      BY <2>5, <2>6 DEF IsNamed
    <3>3. \A f \in Range(d.modified) : f \in Range(new)
      BY <2>5, <3>1
    <3> QED BY <3>1, <3>2, <3>3
  <2>12. \A f \in result.breaking : f \in Range(new) /\ f.name \in DOMAIN map /\ Signature[map[f.name].body] # Signature[f.body]
    BY <2>3 DEF detect_breaking_signatures, map
  <2>13. pairs(result.breaking) \subseteq fresh
    <3>1. \A f \in result.breaking : f \in Range(d.added) \cup Range(d.modified)
      BY <2>8, <2>12
    <3> QED BY <3>1
  <2>14. result.warned <=> result.breaking # {}
    <3>1. result.warned = (old # <<>> /\ \E f \in result.breaking : Signature[map[f.name].body] # Signature[f.body])
      BY <2>3 DEF emit_breaking_signature_warnings, map
    <3>2. ASSUME result.breaking # {} PROVE old # <<>>
      <4>1. DOMAIN map # {}
        BY <2>12, <3>2
      <4>2. m # 0
        BY <2>6, <4>1 DEF IsNamed
      <4> QED BY <4>2 DEF m
    <3> QED BY <2>12, <3>1, <3>2
  <2>15. {c.name : c \in result.conflicts} = names(Range(d.modified)) /\ result.forgotten = {}
    <3>1. File # Elsewhere
      BY VerdictsAssumption
    <3>2. IsPair(twice, File, Elsewhere, d) /\ IsPair(record_change(twice, Elsewhere, d, 2), Elsewhere, Elsewhere, d)
      BY HistoryKept
    <3> DEFINE thrice == record_change(twice, Elsewhere, d, 2)
    <3> HIDE DEF twice, thrice
    <3>3. {c.name : c \in detect_conflicts(twice)} = names(Range(d.modified))
      BY <3>1, <3>2, ConflictsOfTwo
    <3>4. detect_conflicts(thrice) = {}
      BY <3>2, ConflictsOfTwo DEF thrice
    <3> QED BY <2>3, <3>3, <3>4 DEF thrice
  <2>16. at(g.in, File) = task.dependents
    BY DEF at
  <2> HIDE DEF g
  <2>17. /\ d = [added |-> d.added, modified |-> d.modified, removed |-> d.removed]
         /\ d.added \in Seq(FeatureKinds) /\ d.modified \in Seq(FeatureKinds) /\ IsFiniteSet(d.removed)
    BY <2>7 DEF Differs
  <2>18. ASSUME NEW f \in d.removed
         PROVE  /\ result.without_one[f].risk <= result.impact.risk
                /\ DOMAIN result.without_one[f].impacted \subseteq DOMAIN result.impact.impacted
                /\ DOMAIN result.impact.impacted = task.dependents
    BY <2>3, <2>16, <2>17, ImpactFalls
  <2>19. ASSUME old = new, Cardinality(names(Range(old))) = Len(old)
         PROVE  result.impact.severity = "None" /\ result.intent = {<<"exploration", 25>>}
    <3>1. Cardinality({new[i].name : i \in 1..n}) = n
      <4>1. Len(old) = n /\ Range(old) = Range(new)
        BY <2>19 DEF n
      <4>2. names(Range(new)) = {new[i].name : i \in 1..n}
        BY <2>5
      <4> HIDE DEF names
      <4> QED BY <2>19, <4>1, <4>2
    <3>2. d = [added |-> <<>>, modified |-> <<>>, removed |-> {}]
      BY <2>4, <2>19, <3>1, SameDiff DEF d
    <3>3. d.added = <<>> /\ d.modified = <<>> /\ d.removed = {} /\ Len(<<>>) = 0 /\ Cardinality({}) = 0
      BY <3>2, FS_EmptySet
    <3>4. result.intent = {<<"exploration", 25>>}
      BY <2>3, <3>3 DEF classify_with_confidence
    <3>5. analyze_impact(g, File, d).severity = "None"
      BY <3>3 DEF analyze_impact, severity
    <3> QED BY <2>3, <3>4, <3>5
  <2> HIDE DEF pairs, names, fresh
  <2>20. ASSUME d.removed # {} PROVE DOMAIN result.impact.impacted = task.dependents
    BY <2>18, <2>20
  <2> QED BY <2>3, <2>9, <2>10, <2>11, <2>13, <2>14, <2>15, <2>18, <2>19, <2>20 DEF ChangeSound, old, new, pairs, names, fresh
<1> QED BY <1>1, AnswerInvHolds, PTL
===============================================================================
