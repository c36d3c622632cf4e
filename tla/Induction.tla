------------------------------- MODULE Induction -------------------------------
(***************************************************************************)
(* Facts about natural numbers and finite sets that the proofs share.  An  *)
(* induction is stated for a set, which every prover can instantiate.      *)
(***************************************************************************)
EXTENDS Integers, Sequences, FiniteSets, FiniteSetsExt, FiniteSetTheorems,
        SequenceTheorems, TLAPS

\* A nonempty set of natural numbers has a least element.
LEMMA LeastExists ==
    ASSUME NEW S, S \subseteq Nat, S # {}
    PROVE  \E m \in S : \A y \in S : m <= y
<1> DEFINE R == {ss \in Nat \X Nat : ss[1] < ss[2]}
<1>1. IsWellFoundedOn(R, Nat)
  BY NatLessThanWellFounded, Zenon DEF OpToRel
<1>2. PICK m \in S : \A y \in S : ~(<<y, m>> \in R)
  <2> HIDE DEF R
  <2> QED
    BY <1>1, WFMin, Zenon
<1>3. ASSUME NEW y \in S PROVE m <= y
  <2>1. m \in Nat /\ y \in Nat
    OBVIOUS
  <2>2. y < m => <<y, m>> \in R
    BY <2>1
  <2>3. ~(y < m)
    BY <1>2, <2>2
  <2> QED
    BY <2>1, <2>3
<1> QED
  BY <1>3

\* Induction over the natural numbers.
LEMMA SetInduction ==
    ASSUME NEW S, 0 \in S, \A n \in Nat : n \in S => n + 1 \in S
    PROVE  \A n \in Nat : n \in S
<1> SUFFICES ASSUME Nat \ S # {} PROVE FALSE
  OBVIOUS
<1>1. PICK m \in Nat \ S : \A y \in Nat \ S : m <= y
  BY LeastExists
<1>2. m # 0 /\ m - 1 \in Nat
  OBVIOUS
<1>3. m - 1 \in S
  BY <1>1, <1>2
<1>4. (m - 1) + 1 = m
  OBVIOUS
<1> QED
  BY <1>2, <1>3, <1>4

\* Min of FiniteSetsExt, for natural numbers.
LEMMA MinOfNat ==
    ASSUME NEW S, S \subseteq Nat, S # {}
    PROVE  Min(S) \in S /\ \A y \in S : Min(S) <= y
BY LeastExists DEF Min

\* Max of FiniteSetsExt, for natural numbers below a bound.
LEMMA MaxOfNat ==
    ASSUME NEW S, S \subseteq Nat, S # {}, NEW b \in Nat, \A y \in S : y <= b
    PROVE  Max(S) \in S /\ \A y \in S : y <= Max(S)
<1> DEFINE B == {n \in Nat : \A y \in S : y <= n}
<1>1. PICK m \in B : \A n \in B : m <= n
  BY LeastExists
<1>2. m \in S
  <2> SUFFICES ASSUME m \notin S PROVE FALSE
    OBVIOUS
  <2>1. PICK s : s \in S
    OBVIOUS
  <2>2. \A y \in S : y < m /\ y \in Nat
    OBVIOUS
  <2>3. m - 1 \in Nat
    BY <2>1, <2>2
  <2>4. \A y \in S : y <= m - 1
    BY <2>2, <2>3
  <2> QED
    BY <1>1, <2>3, <2>4
<1>3. \A y \in S : m >= y
  OBVIOUS
<1>4. Max(S) \in S /\ \A y \in S : Max(S) >= y
  BY <1>2, <1>3 DEF Max
<1> QED
  BY <1>4

\* A finite set of natural numbers has an upper bound.
LEMMA FiniteIsBounded ==
    ASSUME NEW S, S \subseteq Nat, IsFiniteSet(S)
    PROVE  \E b \in Nat : \A y \in S : y <= b
<1> DEFINE P == {n \in Nat : \A T \in SUBSET Nat :
                   (IsFiniteSet(T) /\ Cardinality(T) = n) =>
                     \E b \in Nat : \A y \in T : y <= b}
<1>1. 0 \in P
  BY FS_EmptySet
<1>2. ASSUME NEW n \in Nat, n \in P PROVE n + 1 \in P
  <2> SUFFICES ASSUME NEW T \in SUBSET Nat, IsFiniteSet(T), Cardinality(T) = n + 1
               PROVE  \E b \in Nat : \A y \in T : y <= b
    OBVIOUS
  <2>0. T # {}
    <3>1. n + 1 # 0
      OBVIOUS
    <3> HIDE DEF P
    <3> QED
      BY <3>1, FS_EmptySet
  <2>1. PICK x \in T : TRUE
    BY <2>0
  <2>2. IsFiniteSet(T \ {x}) /\ Cardinality(T \ {x}) = n
    <3>1. IsFiniteSet(T \ {x}) /\ Cardinality(T \ {x}) = Cardinality(T) - 1
      <4> HIDE DEF P
      <4> QED
        BY FS_RemoveElement
    <3> QED
      BY <3>1
  <2>3. PICK b \in Nat : \A y \in T \ {x} : y <= b
    BY <1>2, <2>2
  <2>4. b + x \in Nat /\ x \in Nat
    OBVIOUS
  <2>5. \A y \in T : y <= b + x
    BY <2>3, <2>4
  <2> QED
    BY <2>4, <2>5
<1>3. \A n \in Nat : n \in P
  <2> HIDE DEF P
  <2> QED
    BY <1>1, <1>2, SetInduction
<1>4. Cardinality(S) \in Nat
  BY FS_CardinalityType
<1> QED
  BY <1>3, <1>4

\* The image of a finite set under a function is finite and no larger.
LEMMA ImageFinite ==
    ASSUME NEW T, IsFiniteSet(T), NEW f
    PROVE  /\ IsFiniteSet({f[x] : x \in T})
           /\ Cardinality({f[x] : x \in T}) <= Cardinality(T)
<1> DEFINE I == {f[x] : x \in T}
           g == [x \in T |-> f[x]]
<1>1. g \in Surjection(T, I)
  BY DEF Surjection
<1> HIDE DEF g, I
<1>2. IsFiniteSet(I) /\ Cardinality(I) <= Cardinality(T)
  BY <1>1, FS_Surjection
<1> QED
  BY <1>2 DEF I

\* A function on 1..n is a sequence of length n.
LEMMA FunctionIsSeq ==
    ASSUME NEW T, NEW n \in Nat, NEW s \in [1..n -> T]
    PROVE  s \in Seq(T) /\ Len(s) = n
<1>1. s \in Seq(T)
  BY SeqDef
<1>2. DOMAIN s = 1..n /\ DOMAIN s = 1..Len(s) /\ Len(s) \in Nat
  BY <1>1, LenProperties
<1>3. 1..n = 1..Len(s)
  BY <1>2
<1>4. ASSUME NEW a \in Nat, NEW b \in Nat, a < b, 1..a = 1..b PROVE FALSE
  <2>1. b \in 1..b /\ b \notin 1..a
    BY <1>4
  <2> QED
    BY <1>4, <2>1
<1>5. ~(n < Len(s)) /\ ~(Len(s) < n)
  BY <1>2, <1>3, <1>4
<1> QED
  BY <1>1, <1>2, <1>5

---------------------------------------------------------------------------
(* Folds.                                                                  *)

(* ch chooses an element of every part of R, and step stays within A.      *)
Chooses(ch, R) == \A s \in SUBSET R : s # {} => ch[s] \in s

StepsWithin(step, R, A) == \A x \in R, a \in A : step[<<x, a>>] \in A

(* it is the recursion of MapThenFoldSet over R.                           *)
IsFold(it, R, base, ch, step) == \A s \in SUBSET R :
    it[s] = IF s = {} THEN base ELSE step[<<ch[s], it[s \ {ch[s]}]>>]

\* The recursion of MapThenFoldSet has a solution: for every way ch to
\* choose an element of a set and every step on A, given as functions.
LEMMA FoldExists ==
    ASSUME NEW R, IsFiniteSet(R), NEW A, NEW base \in A,
           NEW ch, Chooses(ch, R), NEW step, StepsWithin(step, R, A)
    PROVE  \E it \in [SUBSET R -> A] : IsFold(it, R, base, ch, step)
<1> USE DEF Chooses, StepsWithin, IsFold
<1> DEFINE D(n) == {s \in SUBSET R : Cardinality(s) <= n}
           Eq(it, n) == \A s \in D(n) :
             it[s] = IF s = {} THEN base ELSE step[<<ch[s], it[s \ {ch[s]}]>>]
           P == {n \in Nat : \E it \in [D(n) -> A] : Eq(it, n)}
<1>0. \A s \in SUBSET R : IsFiniteSet(s) /\ Cardinality(s) \in Nat
  BY FS_Subset, FS_CardinalityType
<1>1. 0 \in P
  <2> DEFINE it == [s \in D(0) |-> base]
  <2>1. \A s \in D(0) : s = {}
    <3> SUFFICES ASSUME NEW s \in D(0) PROVE s = {}
      OBVIOUS
    <3>1. IsFiniteSet(s) /\ Cardinality(s) = 0
      BY <1>0
    <3> QED
      BY <3>1, FS_EmptySet
  <2>2. it \in [D(0) -> A] /\ Eq(it, 0)
    BY <2>1
  <2> QED
    BY <2>2
<1>2. ASSUME NEW n \in Nat, n \in P PROVE n + 1 \in P
  <2>1. PICK it \in [D(n) -> A] : Eq(it, n)
    BY <1>2
  <2> DEFINE up == [s \in D(n + 1) |-> IF s \in D(n) THEN it[s]
                                      ELSE step[<<ch[s], it[s \ {ch[s]}]>>]]
  <2>2. ASSUME NEW s \in D(n + 1), s # {}
        PROVE  ch[s] \in s /\ s \ {ch[s]} \in D(n) /\ ch[s] \in R
    <3>1. ch[s] \in s /\ IsFiniteSet(s) /\ s \subseteq R
      BY <1>0, <2>2
    <3>2. Cardinality(s \ {ch[s]}) = Cardinality(s) - 1
      BY <3>1, FS_RemoveElement
    <3>3. Cardinality(s) \in Nat /\ Cardinality(s) <= n + 1
      BY <1>0, <3>1
    <3>4. s \ {ch[s]} \in SUBSET R /\ Cardinality(s \ {ch[s]}) <= n
      BY <3>1, <3>2, <3>3
    <3> QED
      BY <3>1, <3>4
  <2>3. \A s \in D(n) : s \in D(n + 1)
    BY <1>0
  <2>4. {} \in D(n)
    BY <1>0, FS_EmptySet
  <2> HIDE DEF D
  <2>5. up \in [D(n + 1) -> A]
    <3> SUFFICES ASSUME NEW s \in D(n + 1) PROVE up[s] \in A
      OBVIOUS
    <3>1. CASE s \in D(n)
      BY <3>1
    <3>2. CASE s \notin D(n)
      <4>1. ch[s] \in R /\ it[s \ {ch[s]}] \in A
        BY <2>2, <2>4, <3>2
      <4> QED
        BY <3>2, <4>1
    <3> QED
      BY <3>1, <3>2
  <2>6. Eq(up, n + 1)
    <3> SUFFICES ASSUME NEW s \in D(n + 1)
                 PROVE  up[s] = IF s = {} THEN base
                                ELSE step[<<ch[s], up[s \ {ch[s]}]>>]
      OBVIOUS
    <3>1. CASE s = {}
      BY <2>1, <2>4, <3>1
    <3>2. CASE s # {}
      <4>1. s \ {ch[s]} \in D(n) /\ s \ {ch[s]} \in D(n + 1)
        BY <2>2, <2>3, <3>2
      <4>2. up[s \ {ch[s]}] = it[s \ {ch[s]}]
        BY <4>1
      <4>3. up[s] = step[<<ch[s], it[s \ {ch[s]}]>>]
        BY <2>1, <3>2
      <4> QED
        BY <3>2, <4>2, <4>3
    <3> QED
      BY <3>1, <3>2
  <2>7. n + 1 \in Nat
    OBVIOUS
  <2> QED
    BY <2>5, <2>6, <2>7
<1>3. \A n \in Nat : n \in P
  <2> HIDE DEF P
  <2> QED
    BY <1>1, <1>2, SetInduction
<1>4. Cardinality(R) \in P
  BY <1>0, <1>3
<1>5. D(Cardinality(R)) = SUBSET R
  BY FS_Subset
<1> QED
  BY <1>4, <1>5

\* What holds of the fold of no element, and of the fold of some once it
\* holds of the fold of the others, holds of the fold of all.
LEMMA FoldWithin ==
    ASSUME NEW R, IsFiniteSet(R), NEW A, NEW ch, Chooses(ch, R),
           NEW it, it[{}] \in A,
           \A s \in SUBSET R : (s # {} /\ it[s \ {ch[s]}] \in A) => it[s] \in A
    PROVE  it[R] \in A
<1> DEFINE P == {n \in Nat : \A s \in SUBSET R : Cardinality(s) = n => it[s] \in A}
<1>1. \A s \in SUBSET R : IsFiniteSet(s) /\ Cardinality(s) \in Nat
  BY FS_Subset, FS_CardinalityType
<1>2. 0 \in P
  BY <1>1, FS_EmptySet
<1>3. ASSUME NEW n \in Nat, n \in P PROVE n + 1 \in P
  <2> SUFFICES ASSUME NEW s \in SUBSET R, Cardinality(s) = n + 1 PROVE it[s] \in A
    OBVIOUS
  <2>1. s # {}
    BY <1>1, FS_EmptySet
  <2>2. ch[s] \in s
    BY <2>1 DEF Chooses
  <2>3. Cardinality(s \ {ch[s]}) = Cardinality(s) - 1
    BY <1>1, <2>2, FS_RemoveElement
  <2>4. s \ {ch[s]} \in SUBSET R /\ Cardinality(s \ {ch[s]}) = n
    BY <2>3
  <2> QED
    BY <1>3, <2>1, <2>4
<1> HIDE DEF P
<1>4. \A n \in Nat : n \in P
  BY <1>2, <1>3, SetInduction
<1> QED
  BY <1>1, <1>4 DEF P

\* What a fold from the left takes next from the places 1..k.
LEMMA LastPlace ==
    ASSUME NEW k \in Nat \ {0}
    PROVE  Max(1..k) = k /\ (1..k) \ {k} = 1..(k - 1)
<1>1. 1..k \subseteq Nat /\ k \in 1..k /\ \A y \in 1..k : y <= k
  OBVIOUS
<1>2. Max(1..k) \in 1..k /\ \A y \in 1..k : y <= Max(1..k)
  BY <1>1, MaxOfNat
<1>3. Max(1..k) = k
  BY <1>1, <1>2
<1> QED
  BY <1>3

\* The largest of some places is one of them.
LEMMA LastOfSome ==
    ASSUME NEW n \in Nat, NEW s \in SUBSET (1..n), s # {}
    PROVE  Max(s) \in s
<1>1. s \subseteq Nat /\ \A y \in s : y <= n
  OBVIOUS
<1> QED
  BY <1>1, MaxOfNat

\* A set of n + 1 elements without one of them.
LEMMA OneFewer ==
    ASSUME NEW T, IsFiniteSet(T), NEW n \in Nat, Cardinality(T) = n + 1, NEW x \in T
    PROVE  Cardinality(T \ {x}) = n
<1>1. Cardinality(T \ {x}) = Cardinality(T) - 1
  BY FS_RemoveElement
<1> QED
  BY <1>1

(* s gives the sum of the weights w of every set of elements of R.         *)
IsSum(s, w, R) ==
    /\ s \in [SUBSET R -> Nat] /\ s[{}] = 0
    /\ \A T \in SUBSET R : \A x \in R \ T : s[T \cup {x}] = w[x] + s[T]

\* Every finite set with weights has such sums.
LEMMA SumExists ==
    ASSUME NEW R, IsFiniteSet(R), NEW w, \A x \in R : w[x] \in Nat
    PROVE  \E s : IsSum(s, w, R)
<1> DEFINE ch == [s \in SUBSET R |-> CHOOSE x \in s : TRUE]
           step == [p \in R \X Nat |-> w[p[1]] + p[2]]
<1>1. Chooses(ch, R) /\ 0 \in Nat
  BY DEF Chooses
<1>2. ASSUME NEW x \in R, NEW a \in Nat PROVE step[<<x, a>>] = w[x] + a
  OBVIOUS
<1>3. StepsWithin(step, R, Nat)
  <2>1. ASSUME NEW x \in R, NEW a \in Nat PROVE step[<<x, a>>] \in Nat
    <3>1. w[x] \in Nat
      OBVIOUS
    <3> HIDE DEF step
    <3> QED
      BY <1>2, <3>1
  <2> HIDE DEF step
  <2> QED
    BY <2>1 DEF StepsWithin
<1> HIDE DEF ch, step
<1>4. PICK s \in [SUBSET R -> Nat] : IsFold(s, R, 0, ch, step)
  BY <1>1, <1>3, FoldExists
<1>5. s[{}] = 0
  BY <1>4 DEF IsFold
<1>6. ASSUME NEW T \in SUBSET R, T # {}
      PROVE  ch[T] \in T /\ s[T] = w[ch[T]] + s[T \ {ch[T]}]
  <2>1. ch[T] \in T
    BY <1>1, <1>6 DEF Chooses
  <2>2. T \ {ch[T]} \in SUBSET R /\ s[T \ {ch[T]}] \in Nat /\ ch[T] \in R
    BY <1>4, <2>1
  <2>3. s[T] = step[<<ch[T], s[T \ {ch[T]}]>>]
    BY <1>4, <1>6 DEF IsFold
  <2> QED
    BY <1>2, <2>1, <2>2, <2>3
<1> DEFINE P == {n \in Nat : \A T \in SUBSET R : \A x \in R \ T :
                    Cardinality(T) = n => s[T \cup {x}] = w[x] + s[T]}
<1>7. \A T \in SUBSET R : IsFiniteSet(T) /\ Cardinality(T) \in Nat
  BY FS_Subset, FS_CardinalityType
<1>8. 0 \in P
  <2> SUFFICES ASSUME NEW T \in SUBSET R, NEW x \in R \ T, Cardinality(T) = 0
               PROVE  s[T \cup {x}] = w[x] + s[T]
    OBVIOUS
  <2>1. T = {}
    BY <1>7, FS_EmptySet
  <2>2. {x} \in SUBSET R /\ {x} # {}
    OBVIOUS
  <2>3. ch[{x}] = x /\ s[{x}] = w[ch[{x}]] + s[{x} \ {ch[{x}]}]
    BY <1>6, <2>2
  <2>4. {x} \ {x} = {} /\ T \cup {x} = {x}
    BY <2>1
  <2> QED
    BY <2>1, <2>3, <2>4
<1>9. ASSUME NEW n \in Nat, n \in P PROVE n + 1 \in P
  <2> SUFFICES ASSUME NEW T \in SUBSET R, NEW x \in R \ T, Cardinality(T) = n + 1
               PROVE  s[T \cup {x}] = w[x] + s[T]
    OBVIOUS
  <2> DEFINE U == T \cup {x}
             y == ch[U]
             V == T \ {y}
  <2>1. U \in SUBSET R /\ U # {}
    OBVIOUS
  <2>2. y \in U /\ s[U] = w[y] + s[U \ {y}]
    BY <1>6, <2>1
  <2>3. CASE y = x
    <3>1. U \ {y} = T
      BY <2>3
    <3> QED
      BY <2>2, <2>3, <3>1
  <2>4. CASE y # x
    <3>1. y \in T /\ y \in R
      BY <2>2, <2>4
    <3>2. V \in SUBSET R /\ x \in R \ V /\ y \in R \ V
      BY <3>1
    <3>3. Cardinality(V) = n
      BY <1>7, <3>1, OneFewer
    <3>4. U \ {y} = V \cup {x} /\ T = V \cup {y}
      BY <2>4, <3>1
    <3>5. s[V \cup {x}] = w[x] + s[V] /\ s[V \cup {y}] = w[y] + s[V]
      BY <1>9, <3>2, <3>3
    <3>6. w[x] \in Nat /\ w[y] \in Nat /\ s[V] \in Nat
      BY <3>2, <1>4
    <3>7. s[U] = w[y] + s[V \cup {x}] /\ s[T] = s[V \cup {y}]
      BY <2>2, <3>4
    <3> HIDE DEF V, y
    <3>8. s[U] = w[x] + s[T]
      <4> HIDE DEF U
      <4> QED
        BY <3>5, <3>6, <3>7
    <3> QED
      BY <3>8
  <2> QED
    BY <2>3, <2>4
<1>10. \A n \in Nat : n \in P
  <2> HIDE DEF P
  <2> QED
    BY <1>8, <1>9, SetInduction
<1>11. \A T \in SUBSET R : \A x \in R \ T : s[T \cup {x}] = w[x] + s[T]
  BY <1>7, <1>10
<1> QED
  BY <1>4, <1>5, <1>11 DEF IsSum

\* Sets that have no element in common add up.
LEMMA SumApart ==
    ASSUME NEW R, IsFiniteSet(R), NEW w, \A x \in R : w[x] \in Nat,
           NEW s, IsSum(s, w, R), NEW A \in SUBSET R, NEW B \in SUBSET R, A \cap B = {}
    PROVE  s[A \cup B] = s[A] + s[B]
<1> DEFINE P == {n \in Nat : \A T \in SUBSET B : Cardinality(T) = n => s[A \cup T] = s[A] + s[T]}
<1>1. \A T \in SUBSET R : IsFiniteSet(T) /\ Cardinality(T) \in Nat /\ s[T] \in Nat
  BY FS_Subset, FS_CardinalityType DEF IsSum
<1>2. 0 \in P
  <2> SUFFICES ASSUME NEW T \in SUBSET B, Cardinality(T) = 0
               PROVE  s[A \cup T] = s[A] + s[T]
    OBVIOUS
  <2>1. T = {}
    BY <1>1, FS_EmptySet
  <2>2. A \cup T = A /\ s[A] \in Nat /\ s[T] = 0
    BY <1>1, <2>1 DEF IsSum
  <2> QED
    BY <2>2
<1>3. ASSUME NEW n \in Nat, n \in P PROVE n + 1 \in P
  <2> SUFFICES ASSUME NEW T \in SUBSET B, Cardinality(T) = n + 1
               PROVE  s[A \cup T] = s[A] + s[T]
    <3>1. n + 1 \in Nat
      OBVIOUS
    <3> QED
      BY <3>1
  <2>1. T # {} /\ T \in SUBSET R
    BY <1>1, FS_EmptySet
  <2>2. PICK x : x \in T
    BY <2>1
  <2> DEFINE V == T \ {x}
  <2>3. V \in SUBSET R /\ V \in SUBSET B /\ Cardinality(V) = n
    BY <1>1, <2>1, <2>2, OneFewer
  <2>4. x \in R \ V /\ x \in R \ (A \cup V) /\ A \cup V \in SUBSET R
    BY <2>1, <2>2
  <2>5. T = V \cup {x} /\ A \cup T = (A \cup V) \cup {x}
    BY <2>2
  <2>6. s[T] = w[x] + s[V] /\ s[A \cup T] = w[x] + s[A \cup V]
    <3> HIDE DEF V
    <3> QED
      BY <2>3, <2>4, <2>5 DEF IsSum
  <2>7. s[A \cup V] = s[A] + s[V]
    BY <1>3, <2>3
  <2>8. w[x] \in Nat /\ s[A] \in Nat /\ s[V] \in Nat
    BY <1>1, <2>3, <2>4
  <2> HIDE DEF V
  <2> QED
    BY <2>6, <2>7, <2>8
<1>4. \A n \in Nat : n \in P
  <2> HIDE DEF P
  <2> QED
    BY <1>2, <1>3, SetInduction
<1> QED
  BY <1>1, <1>4

(* it is the recursion of MapThenSumSet over S.                            *)
AddsUp(it, w, S, ch) == \A T \in SUBSET S :
    it[T] = IF T = {} THEN 0 ELSE w[ch[T]] + it[T \ {ch[T]}]

\* Whatever element MapThenSumSet takes next, it computes this sum.
LEMMA SumOfFold ==
    ASSUME NEW R, IsFiniteSet(R), NEW w, \A x \in R : w[x] \in Nat,
           NEW s, IsSum(s, w, R), NEW S \in SUBSET R, NEW ch, Chooses(ch, S), NEW it,
           AddsUp(it, w, S, ch)
    PROVE  it[S] = s[S]
<1> USE DEF AddsUp
<1> DEFINE P == {n \in Nat : \A T \in SUBSET S : Cardinality(T) = n => it[T] = s[T]}
<1>1. \A T \in SUBSET R : IsFiniteSet(T) /\ Cardinality(T) \in Nat
  BY FS_Subset, FS_CardinalityType
<1>2. 0 \in P
  <2> SUFFICES ASSUME NEW T \in SUBSET S, Cardinality(T) = 0 PROVE it[T] = s[T]
    OBVIOUS
  <2>1. T = {}
    BY <1>1, FS_EmptySet
  <2> QED
    BY <2>1 DEF IsSum
<1>3. ASSUME NEW n \in Nat, n \in P PROVE n + 1 \in P
  <2> SUFFICES ASSUME NEW T \in SUBSET S, Cardinality(T) = n + 1 PROVE it[T] = s[T]
    OBVIOUS
  <2> DEFINE x == ch[T]
             V == T \ {x}
  <2>1. T # {} /\ T \in SUBSET R
    BY <1>1, FS_EmptySet
  <2>2. x \in T
    BY <2>1 DEF Chooses
  <2>3. it[T] = w[x] + it[V]
    BY <2>1
  <2> HIDE DEF x
  <2>4. V \in SUBSET S /\ V \in SUBSET R /\ Cardinality(V) = n
    BY <1>1, <2>1, <2>2, OneFewer
  <2>5. x \in R \ V /\ T = V \cup {x}
    BY <2>1, <2>2
  <2>6. it[V] = s[V]
    BY <1>3, <2>4
  <2> HIDE DEF V
  <2>7. s[V \cup {x}] = w[x] + s[V]
    BY <2>4, <2>5 DEF IsSum
  <2> QED
    BY <2>3, <2>5, <2>6, <2>7
<1>4. \A n \in Nat : n \in P
  <2> HIDE DEF P
  <2> QED
    BY <1>2, <1>3, SetInduction
<1>5. S \in SUBSET S /\ Cardinality(S) \in Nat
  BY <1>1
<1> QED
  BY <1>4, <1>5

\* f is defined on 0 .. n by what it gives for the number before.
Recurs(f, n, base, step) ==
    \A k \in 0..n : f[k] = IF k = 0 THEN base ELSE step[<<k, f[k - 1]>>]

\* There is such a function.
LEMMA RecursionExists ==
    ASSUME NEW n \in Nat, NEW A, NEW base \in A, NEW step,
           \A k \in 1..n, a \in A : step[<<k, a>>] \in A
    PROVE  \E f \in [0..n -> A] : Recurs(f, n, base, step)
<1> USE DEF Recurs
<1> DEFINE Eq(f, m) == \A k \in 0..m : f[k] = IF k = 0 THEN base ELSE step[<<k, f[k - 1]>>]
           P == {m \in Nat : m <= n => \E f \in [0..m -> A] : Eq(f, m)}
<1>1. 0 \in P
  <2> DEFINE f == [k \in 0..0 |-> base]
  <2>1. f \in [0..0 -> A] /\ Eq(f, 0)
    OBVIOUS
  <2> QED
    BY <2>1
<1>2. ASSUME NEW m \in Nat, m \in P PROVE m + 1 \in P
  <2> SUFFICES ASSUME m + 1 <= n PROVE \E f \in [0..(m + 1) -> A] : Eq(f, m + 1)
    OBVIOUS
  <2>1. PICK g \in [0..m -> A] : Eq(g, m)
    BY <1>2
  <2> DEFINE f == [k \in 0..(m + 1) |-> IF k = m + 1 THEN step[<<m + 1, g[m]>>] ELSE g[k]]
  <2>2. g[m] \in A /\ m + 1 \in 1..n
    OBVIOUS
  <2>3. step[<<m + 1, g[m]>>] \in A
    BY <2>2
  <2>4. f \in [0..(m + 1) -> A]
    BY <2>3
  <2>5. ASSUME NEW k \in 0..(m + 1)
        PROVE  f[k] = IF k = 0 THEN base ELSE step[<<k, f[k - 1]>>]
    <3>1. CASE k = m + 1
      <4>1. f[k] = step[<<m + 1, g[m]>>] /\ f[m] = g[m] /\ k # 0 /\ k - 1 = m
        BY <3>1
      <4> QED
        BY <3>1, <4>1
    <3>2. CASE k # m + 1 /\ k # 0
      <4>1. k \in 0..m /\ k - 1 \in 0..m /\ f[k] = g[k] /\ f[k - 1] = g[k - 1]
        BY <3>2
      <4> QED
        BY <2>1, <3>2, <4>1
    <3>3. CASE k = 0
      <4>1. k \in 0..m /\ f[k] = g[k]
        BY <3>3
      <4> QED
        BY <2>1, <3>3, <4>1
    <3> QED
      BY <3>1, <3>2, <3>3
  <2> HIDE DEF f
  <2> QED
    BY <2>4, <2>5
<1>3. \A m \in Nat : m \in P
  <2> HIDE DEF P
  <2> QED
    BY <1>1, <1>2, SetInduction
<1> QED
  BY <1>3

\* A finite set of natural numbers can be listed from the largest down.
LEMMA DescendingExists ==
    ASSUME NEW S, S \subseteq Nat, IsFiniteSet(S)
    PROVE  \E s \in [1..Cardinality(S) -> S] :
             \A i, j \in 1..Cardinality(S) : i < j => s[i] > s[j]
<1> DEFINE P == {n \in Nat : \A T \in SUBSET S : Cardinality(T) = n =>
                    \E s \in [1..n -> T] : \A i, j \in 1..n : i < j => s[i] > s[j]}
<1>1. \A T \in SUBSET S : IsFiniteSet(T) /\ Cardinality(T) \in Nat
  BY FS_Subset, FS_CardinalityType
<1>2. 0 \in P
  <2> SUFFICES ASSUME NEW T \in SUBSET S
               PROVE  \E s \in [1..0 -> T] : \A i, j \in 1..0 : i < j => s[i] > s[j]
    OBVIOUS
  <2>1. [i \in 1..0 |-> 0] \in [1..0 -> T]
    OBVIOUS
  <2>2. \A s, i, j : i \in 1..0 /\ j \in 1..0 => (i < j => s[i] > s[j])
    OBVIOUS
  <2> QED
    BY <2>1, <2>2
<1>3. ASSUME NEW n \in Nat, n \in P PROVE n + 1 \in P
  <2> SUFFICES ASSUME NEW T \in SUBSET S, Cardinality(T) = n + 1
               PROVE  \E s \in [1..(n + 1) -> T] :
                        \A i, j \in 1..(n + 1) : i < j => s[i] > s[j]
    OBVIOUS
  <2>1. T # {} /\ T \subseteq Nat
    BY <1>1, FS_EmptySet
  <2>2. PICK m \in T : \A y \in T : m <= y
    BY <2>1, LeastExists
  <2> DEFINE V == T \ {m}
  <2>3. V \in SUBSET S /\ Cardinality(V) = n
    BY <1>1, <2>2, FS_RemoveElement
  <2>4. PICK g \in [1..n -> V] : \A i, j \in 1..n : i < j => g[i] > g[j]
    BY <1>3, <2>3
  <2> DEFINE s == [k \in 1..(n + 1) |-> IF k = n + 1 THEN m ELSE g[k]]
  <2>5. s \in [1..(n + 1) -> T]
    OBVIOUS
  <2>6. ASSUME NEW i \in 1..(n + 1), NEW j \in 1..(n + 1), i < j PROVE s[i] > s[j]
    <3>1. i \in 1..n /\ s[i] = g[i] /\ g[i] \in V
      BY <2>6
    <3>2. CASE j = n + 1
      <4>1. s[j] = m /\ g[i] # m /\ m <= g[i] /\ m \in Nat /\ g[i] \in Nat
        BY <2>1, <2>2, <3>1, <3>2
      <4> QED
        BY <3>1, <4>1
    <3>3. CASE j # n + 1
      <4>1. j \in 1..n /\ s[j] = g[j]
        BY <3>3
      <4> QED
        BY <2>4, <2>6, <3>1, <4>1
    <3> QED
      BY <3>2, <3>3
  <2> HIDE DEF s
  <2> QED
    BY <2>5, <2>6
<1>4. \A n \in Nat : n \in P
  <2> HIDE DEF P
  <2> QED
    BY <1>2, <1>3, SetInduction
<1>5. S \in SUBSET S /\ Cardinality(S) \in Nat
  BY <1>1
<1> QED
  BY <1>4, <1>5
=============================================================================
