------------------------------ MODULE AcksProofs ------------------------------
(***************************************************************************)
(* Proofs about acknowledgement.                                           *)
(***************************************************************************)
EXTENDS Acks, Induction, FiniteSetTheorems, TLAPS

---------------------------------------------------------------------------
(* ACK frames.                                                             *)

Frame == [largest_ack : Int, first_ack_blklen : Int,
          blks : Seq([gap : Int, blklen : Int])]

(* One step of BlockLow, from the block above.                             *)
Below(fr, low, i) == low - fr.blks[i].gap - 2 - fr.blks[i].blklen

\* BlockLow satisfies the equation that defines it.
LEMMA BlockLowEquation ==
    ASSUME NEW fr \in Frame
    PROVE  BlockLow(fr) =
             [i \in 0..Len(fr.blks) |->
                IF i = 0 THEN fr.largest_ack - fr.first_ack_blklen
                ELSE Below(fr, BlockLow(fr)[i - 1], i)]
<1> DEFINE L == Len(fr.blks)
           Eq(lo, n) == lo = [i \in 0..n |->
                IF i = 0 THEN fr.largest_ack - fr.first_ack_blklen
                ELSE Below(fr, lo[i - 1], i)]
           P == {n \in Nat : \E lo : Eq(lo, n)}
<1>0. L \in Nat
  BY DEF Frame
<1>1. 0 \in P
  <2> DEFINE lo == [i \in 0..0 |-> fr.largest_ack - fr.first_ack_blklen]
  <2>1. Eq(lo, 0)
    OBVIOUS
  <2> QED
    BY <2>1
<1>2. ASSUME NEW n \in Nat, n \in P PROVE n + 1 \in P
  <2>1. PICK lo : Eq(lo, n)
    BY <1>2
  <2> DEFINE hi == [i \in 0..(n + 1) |->
                      IF i <= n THEN lo[i] ELSE Below(fr, lo[n], i)]
  <2>2. Eq(hi, n + 1)
    <3> SUFFICES ASSUME NEW i \in 0..(n + 1)
                 PROVE  hi[i] = IF i = 0 THEN fr.largest_ack - fr.first_ack_blklen
                                ELSE Below(fr, hi[i - 1], i)
      OBVIOUS
    <3>1. CASE i = 0
      BY <2>1, <3>1
    <3>2. CASE i \in 1..n
      BY <2>1, <3>2
    <3>3. CASE i = n + 1
      BY <2>1, <3>3
    <3> QED
      BY <3>1, <3>2, <3>3
  <2>3. \E h : Eq(h, n + 1)
    <3> HIDE DEF Eq, hi
    <3> QED
      BY <2>2
  <2> HIDE DEF Eq
  <2> QED
    BY <2>3
<1>3. \A n \in Nat : n \in P
  <2> HIDE DEF P
  <2> QED
    BY <1>1, <1>2, SetInduction
<1>4. \E lo : Eq(lo, L)
  BY <1>0, <1>3
<1>5. BlockLow(fr) = CHOOSE lo : Eq(lo, L)
  BY DEF BlockLow, Below
<1>6. Eq(BlockLow(fr), L)
  <2> HIDE DEF Eq, L
  <2> QED
    BY <1>4, <1>5
<1> QED
  BY <1>6


---------------------------------------------------------------------------
(* The runs of a set of packet numbers.                                    *)

Ends(S)    == {n \in S : n + 1 \notin S}
Rank(S, h) == Cardinality({g \in Ends(S) : g >= h})
Nth(S, i)  == CHOOSE h \in Ends(S) : Rank(S, h) = i
RunTo(S, h) == [hi |-> h, lo |-> Min({l \in S : (l..h) \subseteq S})]

\* The numbers between two ends are ranked without repetition, so that there
\* is one end for each rank.
LEMMA EndsRanked ==
    ASSUME NEW S, S \subseteq Nat, IsFiniteSet(S)
    PROVE  /\ IsFiniteSet(Ends(S)) /\ Cardinality(Ends(S)) \in Nat
           /\ \A h \in Ends(S) : Rank(S, h) \in 1..Cardinality(Ends(S))
           /\ \A g, h \in Ends(S) : g < h => Rank(S, h) < Rank(S, g)
           /\ \A i \in 1..Cardinality(Ends(S)) : \E h \in Ends(S) : Rank(S, h) = i
<1> DEFINE E == Ends(S)
           N == Cardinality(E)
           Up(h) == {g \in E : g >= h}
<1>1. E \subseteq Nat /\ IsFiniteSet(E) /\ N \in Nat
  <2>1. E \in SUBSET S
    BY DEF Ends
  <2> QED
    BY <2>1, FS_Subset, FS_CardinalityType
<1> HIDE DEF E
<1>2. ASSUME NEW h \in E
      PROVE  IsFiniteSet(Up(h)) /\ Cardinality(Up(h)) \in 1..N
  <2>1. Up(h) \in SUBSET E /\ h \in Up(h)
    BY <1>1
  <2>2. IsFiniteSet(Up(h)) /\ Cardinality(Up(h)) \in Nat /\ Cardinality(Up(h)) <= N
    BY <1>1, <2>1, FS_Subset, FS_CardinalityType
  <2>3. Cardinality(Up(h)) # 0
    BY <2>1, <2>2, FS_EmptySet
  <2> QED
    BY <1>1, <2>2, <2>3
<1>3. ASSUME NEW g \in E, NEW h \in E, g < h
      PROVE  Cardinality(Up(h)) < Cardinality(Up(g))
  <2>0. g \in Nat /\ h \in Nat /\ \A x \in E : x \in Nat
    BY <1>1
  <2>1a. \A x \in E : x >= h => x >= g
    BY <1>3, <2>0
  <2>1b. g >= g /\ ~(g >= h)
    BY <1>3, <2>0
  <2>1. Up(h) \in SUBSET Up(g) /\ g \in Up(g) /\ g \notin Up(h)
    BY <2>1a, <2>1b
  <2>2. /\ Cardinality(Up(h)) <= Cardinality(Up(g))
        /\ Cardinality(Up(h)) # Cardinality(Up(g))
    <3> HIDE DEF Up
    <3> QED
      BY <1>2, <2>1, FS_Subset
  <2>3. Cardinality(Up(h)) \in Nat /\ Cardinality(Up(g)) \in Nat
    BY <1>2
  <2> QED
    BY <2>2, <2>3
<1>4. ASSUME NEW i \in 1..N
      PROVE  \E h \in E : Cardinality(Up(h)) = i
  <2> DEFINE f == [h \in E |-> Cardinality(Up(h))]
  <2>1. f \in [E -> 1..N]
    BY <1>2
  <2>2. \A g, h \in E : f[g] = f[h] => g = h
    <3> SUFFICES ASSUME NEW g \in E, NEW h \in E, f[g] = f[h], g # h PROVE FALSE
      OBVIOUS
    <3>1. f[g] \in Nat /\ f[h] \in Nat /\ g \in Nat /\ h \in Nat
      BY <1>1, <1>2
    <3>2. g < h \/ h < g
      BY <3>1
    <3>3. f[g] < f[h] \/ f[h] < f[g]
      BY <1>3, <3>2
    <3> QED
      BY <3>1, <3>3
  <2>3. f \in Injection(E, 1..N)
    BY <2>1, <2>2 DEF Injection, IsInjective
  <2>4. IsFiniteSet(1..N) /\ Cardinality(1..N) = N
    BY <1>1, FS_Interval
  <2>5. f \in Surjection(E, 1..N)
    <3> HIDE DEF f
    <3> QED
      BY <2>3, <2>4, FS_Injection
  <2>6. \E h \in E : f[h] = i
    BY <2>5 DEF Surjection
  <2> QED
    BY <2>6
<1> QED
  BY <1>1, <1>2, <1>3, <1>4 DEF E, Rank


(* rs lists the runs of S, the highest first.                              *)
Covers(rs, S) ==
    /\ rs \in Seq([hi : Nat, lo : Nat]) /\ Len(rs) >= 1
    /\ \A i \in 1..Len(rs) : /\ rs[i].lo <= rs[i].hi
                             /\ (rs[i].lo .. rs[i].hi) \subseteq S
    /\ \A i, j \in 1..Len(rs) : i < j => rs[j].hi < rs[i].lo
    /\ \A x \in S : \E i \in 1..Len(rs) : x \in rs[i].lo .. rs[i].hi

\* Every number of S lies in the run of an end, and the run goes down to it.
LEMMA RunToEnd ==
    ASSUME NEW S, S \subseteq Nat, IsFiniteSet(S)
    PROVE  /\ \A h \in Ends(S) : /\ RunTo(S, h).lo \in Nat
                                 /\ RunTo(S, h).lo <= h
                                 /\ (RunTo(S, h).lo .. h) \subseteq S
           /\ \A x \in S : \E h \in Ends(S) : RunTo(S, h).lo <= x /\ x <= h
<1>1. ASSUME NEW h \in Ends(S)
      PROVE  /\ RunTo(S, h).lo \in Nat /\ RunTo(S, h).lo <= h
             /\ (RunTo(S, h).lo .. h) \subseteq S
             /\ \A l \in S : (l..h) \subseteq S => RunTo(S, h).lo <= l
  <2> DEFINE L == {l \in S : (l..h) \subseteq S}
  <2>1. h \in Nat /\ h \in S
    BY DEF Ends
  <2>2. h \in L /\ L \subseteq Nat
    <3>1. \A x \in h..h : x = h
      BY <2>1
    <3> QED
      BY <2>1, <3>1
  <2>3. Min(L) \in L /\ \A l \in L : Min(L) <= l
    BY <2>2, MinOfNat
  <2>4. RunTo(S, h).lo = Min(L)
    BY DEF RunTo
  <2>5. Min(L) \in Nat /\ Min(L) <= h
    BY <2>2, <2>3
  <2> QED
    BY <2>3, <2>4, <2>5
<1>2. ASSUME NEW x \in S
      PROVE  \E h \in Ends(S) : RunTo(S, h).lo <= x /\ x <= h
  <2> DEFINE T == {y \in Ends(S) : x <= y}
  <2>1. PICK b \in Nat : \A y \in S : y <= b
    BY FiniteIsBounded
  <2>2. Max(S) \in S /\ \A y \in S : y <= Max(S)
    BY <2>1, MaxOfNat
  <2>3. Max(S) \in T
    <3>0. Max(S) \in Nat
      BY <2>2
    <3>1. Max(S) + 1 \notin S
      <4>1. ~(Max(S) + 1 <= Max(S))
        BY <3>0
      <4> QED
        BY <2>2, <4>1
    <3> QED
      BY <2>2, <3>1 DEF Ends
  <2>4. T \subseteq Nat
    BY DEF Ends
  <2>5. PICK h \in T : \A y \in T : h <= y
    BY <2>3, <2>4, LeastExists
  <2>6. (x..h) \subseteq S
    <3> DEFINE Z == {z \in x..h : z \notin S}
    <3> SUFFICES ASSUME Z # {} PROVE FALSE
      OBVIOUS
    <3>0. x \in Nat /\ h \in Nat
      BY <2>4
    <3>1. Z \subseteq Nat
      BY <3>0
    <3>2. PICK z \in Z : \A y \in Z : z <= y
      BY <3>1, LeastExists
    <3>3. z \in Nat /\ z > x /\ z <= h /\ z \notin S
      BY <3>0
    <3>4. z - 1 \in x..h /\ z - 1 \notin Z
      BY <3>0, <3>2, <3>3
    <3>5. z - 1 \in S /\ (z - 1) + 1 = z
      BY <3>3, <3>4
    <3>6. z - 1 \in T
      BY <3>0, <3>3, <3>4, <3>5 DEF Ends
    <3> QED
      BY <2>5, <3>0, <3>3, <3>6
  <2> QED
    BY <1>1, <2>6
<1> QED
  BY <1>1, <1>2

\* Runs lists the runs of S.
LEMMA RunsCover ==
    ASSUME NEW S, S \subseteq Nat, IsFiniteSet(S), S # {}
    PROVE  Covers(Runs(S), S)
<1> DEFINE N == Cardinality(Ends(S))
           rs == Runs(S)
<1>1. rs = [i \in 1..N |-> RunTo(S, Nth(S, i))]
  BY DEF Runs, Ends, Rank, Nth, RunTo
<1>2. N \in Nat
  BY EndsRanked
<1>3. \A i \in 1..N : Nth(S, i) \in Ends(S) /\ Rank(S, Nth(S, i)) = i
  BY EndsRanked DEF Nth
<1>4. \A h \in Ends(S) : Rank(S, h) \in 1..N /\ Nth(S, Rank(S, h)) = h
  <2> SUFFICES ASSUME NEW h \in Ends(S)
               PROVE  Rank(S, h) \in 1..N /\ Nth(S, Rank(S, h)) = h
    OBVIOUS
  <2>1. Rank(S, h) \in 1..N
    BY EndsRanked
  <2> DEFINE g == Nth(S, Rank(S, h))
  <2>2. g \in Ends(S) /\ Rank(S, g) = Rank(S, h)
    BY <1>3, <2>1
  <2>3. g \in Nat /\ h \in Nat
    BY <2>2 DEF Ends
  <2>4. Rank(S, h) \in Nat
    BY <2>1
  <2>5. ~(g < h) /\ ~(h < g)
    <3>1. g < h => Rank(S, h) < Rank(S, g)
      BY <2>2, EndsRanked
    <3>2. h < g => Rank(S, g) < Rank(S, h)
      BY <2>2, EndsRanked
    <3> QED
      BY <2>2, <2>4, <3>1, <3>2
  <2> QED
    BY <2>1, <2>3, <2>5
<1>5. \A i \in 1..N : /\ rs[i].hi = Nth(S, i) /\ rs[i].hi \in S /\ rs[i].hi \in Nat
                      /\ rs[i].lo = RunTo(S, Nth(S, i)).lo
                      /\ rs[i] \in [hi : Nat, lo : Nat]
                      /\ rs[i].lo <= rs[i].hi /\ (rs[i].lo .. rs[i].hi) \subseteq S
  <2> SUFFICES ASSUME NEW i \in 1..N
               PROVE  /\ rs[i].hi = Nth(S, i) /\ rs[i].hi \in S /\ rs[i].hi \in Nat
                      /\ rs[i].lo = RunTo(S, Nth(S, i)).lo
                      /\ rs[i] \in [hi : Nat, lo : Nat]
                      /\ rs[i].lo <= rs[i].hi /\ (rs[i].lo .. rs[i].hi) \subseteq S
    OBVIOUS
  <2>1. rs[i] = RunTo(S, Nth(S, i))
    BY <1>1
  <2>2. rs[i].hi = Nth(S, i) /\ rs[i].hi \in S /\ rs[i].hi \in Nat
    <3>1. rs[i].hi = Nth(S, i)
      BY <2>1 DEF RunTo
    <3>2. Nth(S, i) \in S
      BY <1>3 DEF Ends
    <3> QED
      BY <3>1, <3>2
  <2>3. /\ rs[i].lo \in Nat /\ rs[i].lo <= rs[i].hi
        /\ (rs[i].lo .. rs[i].hi) \subseteq S
    BY <1>3, <2>1, <2>2, RunToEnd
  <2>4. rs[i] \in [hi : Nat, lo : Nat]
    BY <2>1, <2>2, <2>3 DEF RunTo
  <2> QED
    BY <2>1, <2>2, <2>3, <2>4
<1>6. N >= 1
  <2>1. PICK x \in S : TRUE
    OBVIOUS
  <2>2. Ends(S) # {}
    BY <2>1, RunToEnd
  <2> QED
    BY <1>2, <1>4, <2>2
<1>7. rs \in Seq([hi : Nat, lo : Nat]) /\ Len(rs) = N
  <2>1. rs \in [1..N -> [hi : Nat, lo : Nat]]
    BY <1>1, <1>5
  <2> HIDE DEF rs, N
  <2> QED
    BY <1>2, <2>1, FunctionIsSeq
<1>8. ASSUME NEW i \in 1..N, NEW j \in 1..N, i < j
      PROVE  rs[j].hi < rs[i].lo
  <2> DEFINE g == Nth(S, j)  h == Nth(S, i)
  <2>1. g \in Ends(S) /\ h \in Ends(S) /\ Rank(S, g) = j /\ Rank(S, h) = i
    BY <1>3
  <2>2. g \in Nat /\ h \in Nat /\ g + 1 \notin S
    BY <2>1 DEF Ends
  <2>3. g < h
    <3>1. g # h
      BY <1>8, <2>1
    <3>2. ~(h < g)
      <4>1. h < g => Rank(S, g) < Rank(S, h)
        BY <2>1, EndsRanked
      <4> QED
        BY <1>8, <2>1, <4>1
    <3> QED
      BY <2>2, <3>1, <3>2
  <2>4. rs[i].hi = h /\ rs[j].hi = g /\ rs[i].lo \in Nat
    BY <1>5
  <2>5. (rs[i].lo .. h) \subseteq S
    BY <1>5, <2>4
  <2>6. ~(rs[i].lo <= g)
    <3> HIDE DEF g, h, rs
    <3> QED
      BY <2>2, <2>3, <2>4, <2>5
  <2> QED
    BY <2>2, <2>4, <2>6
<1>9. ASSUME NEW x \in S PROVE \E i \in 1..N : x \in rs[i].lo .. rs[i].hi
  <2>1. PICK h \in Ends(S) : RunTo(S, h).lo <= x /\ x <= h
    BY RunToEnd
  <2> DEFINE i == Rank(S, h)
  <2>2. i \in 1..N /\ rs[i].hi = h /\ rs[i].lo = RunTo(S, h).lo /\ rs[i].lo \in Nat
    BY <1>4, <1>5
  <2>3. x \in rs[i].lo .. rs[i].hi
    BY <2>1, <2>2
  <2> QED
    BY <2>2, <2>3
<1> QED
  BY <1>2, <1>5, <1>6, <1>7, <1>8, <1>9 DEF Covers


---------------------------------------------------------------------------
(* What a frame lists.                                                     *)

Run == [hi : Nat, lo : Nat]

\* The elements of a sequence of runs.
LEMMA RunElements ==
    ASSUME NEW rs \in Seq(Run)
    PROVE  /\ Len(rs) \in Nat
           /\ \A i \in 1..Len(rs) : /\ rs[i] \in Run
                                    /\ rs[i].hi \in Nat /\ rs[i].lo \in Nat
                                    /\ rs[i].hi \in Int /\ rs[i].lo \in Int
<1>1. \A i \in 1..Len(rs) : rs[i] \in Run
  BY ElementOfSeq
<1>2. \A r \in Run : r.hi \in Nat /\ r.lo \in Nat /\ r.hi \in Int /\ r.lo \in Int
  BY DEF Run
<1> QED
  BY <1>1, <1>2

\* The frame that is made of runs has a block for each run after the first.
LEMMA AckFrameType ==
    ASSUME NEW rs \in Seq(Run), Len(rs) >= 1
    PROVE  /\ AckFrame(rs) \in Frame
           /\ AckFrame(rs).largest_ack = rs[1].hi
           /\ AckFrame(rs).first_ack_blklen = rs[1].hi - rs[1].lo
           /\ Len(AckFrame(rs).blks) = Len(rs) - 1
           /\ \A i \in 1..(Len(rs) - 1) :
                /\ AckFrame(rs).blks[i].gap = rs[i].lo - rs[i + 1].hi - 2
                /\ AckFrame(rs).blks[i].blklen = rs[i + 1].hi - rs[i + 1].lo
<1> DEFINE N == Len(rs)
           f == [i \in 1..(N - 1) |->
                   [gap    |-> rs[i].lo - rs[i + 1].hi - 2,
                    blklen |-> rs[i + 1].hi - rs[i + 1].lo]]
<1>1. N \in Nat /\ N - 1 \in Nat
  OBVIOUS
<1>2. \A i \in 1..N : rs[i] \in Run /\ rs[i].hi \in Int /\ rs[i].lo \in Int
  BY RunElements
<1>3. \A i \in 1..(N - 1) : i \in 1..N /\ i + 1 \in 1..N
  BY <1>1
<1>4. f \in [1..(N - 1) -> [gap : Int, blklen : Int]]
  BY <1>2, <1>3
<1>5. f \in Seq([gap : Int, blklen : Int]) /\ Len(f) = N - 1
  <2> HIDE DEF f, N
  <2> QED
    BY <1>1, <1>4, FunctionIsSeq
<1>6. AckFrame(rs) = [largest_ack |-> rs[1].hi,
                      first_ack_blklen |-> rs[1].hi - rs[1].lo, blks |-> f]
  BY DEF AckFrame
<1>7. 1 \in 1..N
  BY <1>1
<1> HIDE DEF N
<1>8. AckFrame(rs) \in Frame
  <2>1. rs[1].hi \in Int /\ rs[1].hi - rs[1].lo \in Int
    BY <1>2, <1>7
  <2> HIDE DEF f
  <2> QED
    BY <1>5, <1>6, <2>1 DEF Frame
<1>9. \A i \in 1..(N - 1) : /\ f[i].gap = rs[i].lo - rs[i + 1].hi - 2
                            /\ f[i].blklen = rs[i + 1].hi - rs[i + 1].lo
  OBVIOUS
<1> HIDE DEF f
<1> QED
  BY <1>5, <1>6, <1>8, <1>9 DEF N

\* The receiver finds each run's least number again.
LEMMA AckFrameLow ==
    ASSUME NEW rs \in Seq(Run), Len(rs) >= 1
    PROVE  /\ DOMAIN BlockLow(AckFrame(rs)) = 0..(Len(rs) - 1)
           /\ \A i \in 0..(Len(rs) - 1) : BlockLow(AckFrame(rs))[i] = rs[i + 1].lo
<1> DEFINE fr == AckFrame(rs)
           N == Len(rs)
           P == {i \in Nat : i <= N - 1 => BlockLow(fr)[i] = rs[i + 1].lo}
<1>1. N \in Nat /\ N - 1 \in Nat /\ \A i \in 1..N : rs[i].hi \in Int /\ rs[i].lo \in Int
  BY RunElements
<1>2. /\ fr \in Frame /\ fr.largest_ack = rs[1].hi
      /\ fr.first_ack_blklen = rs[1].hi - rs[1].lo
      /\ Len(fr.blks) = N - 1
      /\ \A i \in 1..(N - 1) :
           /\ fr.blks[i].gap = rs[i].lo - rs[i + 1].hi - 2
           /\ fr.blks[i].blklen = rs[i + 1].hi - rs[i + 1].lo
  BY AckFrameType
<1> HIDE DEF fr, N
<1>3. /\ DOMAIN BlockLow(fr) = 0..(N - 1)
      /\ \A i \in 0..(N - 1) :
           BlockLow(fr)[i] = IF i = 0 THEN fr.largest_ack - fr.first_ack_blklen
                             ELSE Below(fr, BlockLow(fr)[i - 1], i)
  <2> DEFINE lo == BlockLow(fr)
  <2>1. lo = [i \in 0..(N - 1) |->
                IF i = 0 THEN fr.largest_ack - fr.first_ack_blklen
                ELSE Below(fr, lo[i - 1], i)]
    BY <1>2, BlockLowEquation
  <2> HIDE DEF lo
  <2>2. /\ DOMAIN lo = 0..(N - 1)
        /\ \A i \in 0..(N - 1) :
             lo[i] = IF i = 0 THEN fr.largest_ack - fr.first_ack_blklen
                     ELSE Below(fr, lo[i - 1], i)
    BY <2>1
  <2> QED
    BY <2>2 DEF lo
<1>4. 0 \in P
  <2>1. 0 \in 0..(N - 1) /\ 1 \in 1..N /\ 0 + 1 = 1
    BY <1>1
  <2>2. BlockLow(fr)[0] = rs[1].hi - (rs[1].hi - rs[1].lo)
    BY <1>2, <1>3, <2>1
  <2>3. BlockLow(fr)[0] = rs[1].lo
    BY <1>1, <2>1, <2>2
  <2> QED
    BY <2>1, <2>3
<1>5. ASSUME NEW i \in Nat, i \in P PROVE i + 1 \in P
  <2> SUFFICES ASSUME i + 1 <= N - 1
               PROVE  BlockLow(fr)[i + 1] = rs[(i + 1) + 1].lo
    OBVIOUS
  <2>1. /\ i + 1 \in 1..(N - 1) /\ i + 1 \in 0..(N - 1) /\ i + 1 # 0
        /\ (i + 1) - 1 = i /\ i + 1 \in 1..N /\ (i + 1) + 1 \in 1..N
        /\ i <= N - 1
    BY <1>1
  <2>2. BlockLow(fr)[i] = rs[i + 1].lo
    BY <1>5, <2>1
  <2>3. BlockLow(fr)[i + 1] = Below(fr, BlockLow(fr)[i], i + 1)
    BY <1>3, <2>1
  <2>4. BlockLow(fr)[i + 1] =
          rs[i + 1].lo - (rs[i + 1].lo - rs[(i + 1) + 1].hi - 2) - 2
            - (rs[(i + 1) + 1].hi - rs[(i + 1) + 1].lo)
    BY <1>2, <2>1, <2>2, <2>3 DEF Below
  <2> QED
    BY <1>1, <2>1, <2>4
<1>6. \A i \in Nat : i \in P
  <2> HIDE DEF P
  <2> QED
    BY <1>4, <1>5, SetInduction
<1>7. \A i \in 0..(N - 1) : BlockLow(fr)[i] = rs[i + 1].lo
  BY <1>1, <1>6
<1> QED
  BY <1>3, <1>7 DEF fr, N

\* A frame lists the numbers of its runs, and is valid.
LEMMA AckFrameNumbers ==
    ASSUME NEW rs \in Seq(Run), Len(rs) >= 1
    PROVE  /\ validate_ack(AckFrame(rs))
           /\ \A x : x \in Numbers(AckFrame(rs)) <=>
                       \E i \in 1..Len(rs) : x \in rs[i].lo .. rs[i].hi
<1> DEFINE fr == AckFrame(rs)
           N == Len(rs)
<1>1. N \in Nat /\ \A i \in 1..N : rs[i].hi \in Nat /\ rs[i].lo \in Nat
  BY RunElements
<1>2. /\ fr.largest_ack = rs[1].hi /\ Len(fr.blks) = N - 1
      /\ \A i \in 1..(N - 1) : fr.blks[i].blklen = rs[i + 1].hi - rs[i + 1].lo
  BY AckFrameType
<1>3. /\ DOMAIN BlockLow(fr) = 0..(N - 1)
      /\ \A i \in 0..(N - 1) : BlockLow(fr)[i] = rs[i + 1].lo
  BY AckFrameLow
<1> HIDE DEF fr, N
<1>4. N >= 1
  BY DEF N
<1>5. validate_ack(fr)
  <2> SUFFICES ASSUME NEW i \in 0..(N - 1) PROVE BlockLow(fr)[i] >= 0
    BY <1>3 DEF validate_ack
  <2>1. i + 1 \in 1..N
    BY <1>1, <1>4
  <2>2. rs[i + 1].lo \in Nat /\ BlockLow(fr)[i] = rs[i + 1].lo
    BY <1>1, <1>3, <2>1
  <2> QED
    BY <2>2
<1>6. ASSUME NEW x
      PROVE  x \in Numbers(fr) <=> \/ x \in BlockLow(fr)[0] .. fr.largest_ack
                                   \/ \E i \in 1..Len(fr.blks) :
                                        x \in BlockLow(fr)[i] ..
                                                (BlockLow(fr)[i] + fr.blks[i].blklen)
  BY DEF Numbers
<1>7. BlockLow(fr)[0] = rs[1].lo
  BY <1>1, <1>3, <1>4
<1>8. ASSUME NEW i \in 1..(N - 1)
      PROVE  /\ i + 1 \in 1..N /\ BlockLow(fr)[i] = rs[i + 1].lo
             /\ BlockLow(fr)[i] + fr.blks[i].blklen = rs[i + 1].hi
  <2>1. i + 1 \in 1..N /\ i \in 0..(N - 1)
    BY <1>1, <1>4
  <2>2. /\ rs[i + 1].lo \in Nat /\ rs[i + 1].hi \in Nat
        /\ BlockLow(fr)[i] = rs[i + 1].lo
        /\ fr.blks[i].blklen = rs[i + 1].hi - rs[i + 1].lo
    BY <1>1, <1>2, <1>3, <2>1
  <2> QED
    BY <2>1, <2>2
<1>9. ASSUME NEW x
      PROVE  x \in Numbers(fr) <=> \E i \in 1..N : x \in rs[i].lo .. rs[i].hi
  <2>1. ASSUME x \in Numbers(fr)
        PROVE  \E i \in 1..N : x \in rs[i].lo .. rs[i].hi
    <3>1. CASE x \in BlockLow(fr)[0] .. fr.largest_ack
      <4>1. 1 \in 1..N
        BY <1>1, <1>4
      <4> QED
        BY <1>2, <1>7, <3>1, <4>1
    <3>2. CASE \E i \in 1..Len(fr.blks) :
                 x \in BlockLow(fr)[i] .. (BlockLow(fr)[i] + fr.blks[i].blklen)
      BY <1>2, <1>8, <3>2
    <3> QED
      BY <1>6, <2>1, <3>1, <3>2
  <2>2. ASSUME NEW i \in 1..N, x \in rs[i].lo .. rs[i].hi
        PROVE  x \in Numbers(fr)
    <3>1. CASE i = 1
      BY <1>2, <1>6, <1>7, <2>2, <3>1
    <3>2. CASE i # 1
      <4>1. i - 1 \in 1..(N - 1) /\ (i - 1) + 1 = i
        BY <1>1, <3>2
      <4>2. /\ BlockLow(fr)[i - 1] = rs[i].lo
            /\ BlockLow(fr)[i - 1] + fr.blks[i - 1].blklen = rs[i].hi
        BY <1>8, <4>1
      <4> QED
        BY <1>2, <1>6, <2>2, <4>1, <4>2
    <3> QED
      BY <3>1, <3>2
  <2> QED
    BY <2>1, <2>2
<1> QED
  BY <1>5, <1>9 DEF fr, N


\* decode_ack_frame cuts blocks off the end: what is left is a valid frame
\* that lists no more, and all that the blocks kept list.
LEMMA DecodedFrame ==
    ASSUME NEW fr \in Frame
    PROVE  /\ Decoded(fr) \in Frame
           /\ validate_ack(fr) => validate_ack(Decoded(fr))
           /\ Numbers(Decoded(fr)) \subseteq Numbers(fr)
           /\ Len(fr.blks) <= NGTCP2_MAX_ACK_BLKS => Decoded(fr) = fr
           /\ \A x \in Numbers(fr) :
                \/ x \in Numbers(Decoded(fr))
                \/ \E i \in (NGTCP2_MAX_ACK_BLKS + 1)..Len(fr.blks) :
                     x \in BlockLow(fr)[i] .. (BlockLow(fr)[i] + fr.blks[i].blklen)
<1> DEFINE M == NGTCP2_MAX_ACK_BLKS
           L == Len(fr.blks)
           n == Min({L, M})
           d == Decoded(fr)
           lo == BlockLow(fr)
           dlo == BlockLow(d)
           Blk == [gap : Int, blklen : Int]
<1>1. M \in Nat /\ L \in Nat /\ fr.blks \in Seq(Blk) /\ DOMAIN fr.blks = 1..L
  BY AcksAssumption DEF Frame
<1>2. n \in Nat /\ n <= L /\ n <= M /\ (n = L \/ n = M)
  <2>1. n \in {L, M} /\ \A y \in {L, M} : n <= y
    BY <1>1, MinOfNat
  <2> QED
    BY <1>1, <2>1
<1> HIDE DEF n
<1>3. /\ SubSeq(fr.blks, 1, n) \in Seq(Blk) /\ Len(SubSeq(fr.blks, 1, n)) = n
      /\ \A i \in 1..n : SubSeq(fr.blks, 1, n)[i] = fr.blks[i]
  <2>1. \A i \in 1..n : fr.blks[i] \in Blk
    <3>1. \A i \in 1..n : i \in 1..Len(fr.blks)
      BY <1>1, <1>2
    <3> QED
      BY <1>1, <3>1, ElementOfSeq
  <2>2. n \in Int /\ 1 \in Int
    BY <1>2
  <2>3. /\ SubSeq(fr.blks, 1, n) \in Seq(Blk)
        /\ Len(SubSeq(fr.blks, 1, n)) = IF 1 <= n THEN n - 1 + 1 ELSE 0
        /\ \A i \in 1..(n - 1 + 1) : SubSeq(fr.blks, 1, n)[i] = fr.blks[1 + i - 1]
    <3> HIDE DEF Blk
    <3> QED
      BY <2>1, <2>2, SubSeqProperties
  <2>4. \A i \in 1..n : 1 + i - 1 = i /\ i \in 1..(n - 1 + 1)
    BY <1>2
  <2>5. (IF 1 <= n THEN n - 1 + 1 ELSE 0) = n
    BY <1>2
  <2> HIDE DEF Blk
  <2> QED
    BY <2>3, <2>4, <2>5
<1>4. d = [fr EXCEPT !.blks = SubSeq(fr.blks, 1, n)]
  BY DEF Decoded, n
<1>5. /\ d \in Frame /\ d.blks = SubSeq(fr.blks, 1, n)
      /\ d.largest_ack = fr.largest_ack /\ d.first_ack_blklen = fr.first_ack_blklen
  BY <1>3, <1>4 DEF Frame
<1> HIDE DEF d, L
<1>6. lo = [i \in 0..L |-> IF i = 0 THEN fr.largest_ack - fr.first_ack_blklen
                          ELSE Below(fr, lo[i - 1], i)]
  BY BlockLowEquation DEF L
<1>7. dlo = [i \in 0..n |-> IF i = 0 THEN d.largest_ack - d.first_ack_blklen
                           ELSE Below(d, dlo[i - 1], i)]
  <2>1. Len(d.blks) = n
    BY <1>3, <1>5
  <2> QED
    BY <1>5, <2>1, BlockLowEquation
<1> HIDE DEF lo, dlo
<1>8. DOMAIN lo = 0..L /\ DOMAIN dlo = 0..n
  BY <1>6, <1>7
<1>9. \A i \in 0..n : dlo[i] = lo[i]
  <2> DEFINE P == {i \in Nat : i <= n => dlo[i] = lo[i]}
  <2>1. 0 \in P
    BY <1>1, <1>2, <1>5, <1>6, <1>7
  <2>2. ASSUME NEW i \in Nat, i \in P PROVE i + 1 \in P
    <3> SUFFICES ASSUME i + 1 <= n PROVE dlo[i + 1] = lo[i + 1]
      OBVIOUS
    <3>1. /\ i + 1 \in 0..n /\ i + 1 \in 0..L /\ i + 1 \in 1..n /\ i + 1 # 0
          /\ (i + 1) - 1 = i /\ i <= n
      BY <1>1, <1>2
    <3>2. dlo[i] = lo[i]
      BY <2>2, <3>1
    <3>3. dlo[i + 1] = Below(d, dlo[i], i + 1) /\ lo[i + 1] = Below(fr, lo[i], i + 1)
      BY <1>6, <1>7, <3>1
    <3>4. d.blks[i + 1] = fr.blks[i + 1]
      BY <1>3, <1>5, <3>1
    <3> QED
      BY <3>2, <3>3, <3>4 DEF Below
  <2>3. \A i \in Nat : i \in P
    <3> HIDE DEF P
    <3> QED
      BY <2>1, <2>2, SetInduction
  <2> QED
    BY <2>3
<1>10. ASSUME NEW x
       PROVE  /\ x \in Numbers(fr) <=> \/ x \in lo[0] .. fr.largest_ack
                                       \/ \E i \in 1..L :
                                            x \in lo[i] .. (lo[i] + fr.blks[i].blklen)
              /\ x \in Numbers(d) <=> \/ x \in lo[0] .. fr.largest_ack
                                      \/ \E i \in 1..n :
                                           x \in lo[i] .. (lo[i] + fr.blks[i].blklen)
  <2>1. x \in Numbers(fr) <=> \/ x \in lo[0] .. fr.largest_ack
                              \/ \E i \in 1..L :
                                   x \in lo[i] .. (lo[i] + fr.blks[i].blklen)
    BY DEF Numbers, lo, L
  <2>2. x \in Numbers(d) <=> \/ x \in dlo[0] .. d.largest_ack
                             \/ \E i \in 1..Len(d.blks) :
                                  x \in dlo[i] .. (dlo[i] + d.blks[i].blklen)
    BY DEF Numbers, dlo
  <2>3. /\ dlo[0] = lo[0] /\ d.largest_ack = fr.largest_ack /\ Len(d.blks) = n
        /\ \A i \in 1..n : dlo[i] = lo[i] /\ d.blks[i] = fr.blks[i]
    BY <1>2, <1>3, <1>5, <1>9
  <2> QED
    BY <2>1, <2>2, <2>3
<1>11. \A i \in 1..n : i \in 1..L
  BY <1>1, <1>2
<1>12. Numbers(d) \subseteq Numbers(fr)
  BY <1>10, <1>11
<1>13. validate_ack(fr) => validate_ack(d)
  <2>1. \A i \in 0..n : i \in 0..L
    BY <1>1, <1>2
  <2> QED
    BY <1>8, <1>9, <2>1 DEF validate_ack, lo, dlo
<1>14. L <= M => d = fr
  <2> SUFFICES ASSUME L <= M PROVE d = fr
    OBVIOUS
  <2>1. n = L
    BY <1>1, <1>2
  <2>2. SubSeq(fr.blks, 1, L) = fr.blks
    BY <1>1, SubSeqFull DEF L
  <2> QED
    BY <1>4, <2>1, <2>2 DEF Frame
<1>15. ASSUME NEW x \in Numbers(fr)
       PROVE  \/ x \in Numbers(d)
              \/ \E i \in (M + 1)..L : x \in lo[i] .. (lo[i] + fr.blks[i].blklen)
  <2>1. \A i \in 1..L : i \in 1..n \/ i \in (M + 1)..L
    BY <1>1, <1>2
  <2> QED
    BY <1>10, <2>1
<1> QED
  BY <1>5, <1>12, <1>13, <1>14, <1>15 DEF d, L, lo

---------------------------------------------------------------------------
(* Types.                                                                  *)

Kinds == {"hs", "0rtt", "short"}
Entry == [pn : Nat, un : BOOLEAN]
Sent  == [pn : Nat, fr : Frame, un : BOOLEAN]

Conn == [ent : SUBSET Entry, acks : Seq(Sent), active_ack : BOOLEAN,
         next_ack_expiry : BOOLEAN, immediate_ack : BOOLEAN, last_tx : Nat,
         largest_acked : Nat, max_rx : Nat, rtb : SUBSET Entry, post : BOOLEAN,
         err : BOOLEAN, budget : Nat]

Listable(c, unprotected) == {x.pn : x \in {y \in c.ent : unprotected => y.un}}

\* conn_create_ack_frame lists entries of the tracker only, and all of those
\* it may list but the ones it forgets; what decode_ack_frame cuts off is
\* forgotten as well.
LEMMA CreateAckFrame ==
    ASSUME NEW c \in Conn, IsFiniteSet(c.ent), NEW unprotected \in BOOLEAN
    PROVE  LET r == conn_create_ack_frame(c, unprotected)
               S == Listable(c, unprotected)
           IN  \/ /\ r.fr = {} /\ (~c.active_ack \/ S = {})
                  /\ r.conn = conn_invalidate_next_ack_expiry(c)
               \/ \E f \in Frame, K \in SUBSET c.ent :
                    /\ r.fr = {f} /\ r.conn = [c EXCEPT !.ent = K]
                    /\ c.active_ack /\ validate_ack(f) /\ Numbers(f) \subseteq S
                    /\ \A x \in S : \/ x \in Numbers(f)
                                    \/ x \in {y.pn : y \in c.ent \ K}
                    /\ \A x \in Numbers(f) : \/ x \in Numbers(Decoded(f))
                                             \/ x \in {y.pn : y \in c.ent \ K}
<1> DEFINE r == conn_create_ack_frame(c, unprotected)
           S == Listable(c, unprotected)
           rs == Runs(S)
           n == NGTCP2_MAX_ACK_BLKS + 1
           last == rs[n + 1].hi
           Dropped(K) == {y.pn : y \in c.ent \ K}
<1>1. r = IF ~c.active_ack \/ S = {}
          THEN [conn |-> conn_invalidate_next_ack_expiry(c), fr |-> {}]
          ELSE IF Len(rs) <= n
          THEN [conn |-> c, fr |-> {AckFrame(rs)}]
          ELSE [conn |-> [c EXCEPT !.ent = {x \in c.ent : x.pn > last}],
                fr   |-> {AckFrame(Append(SubSeq(rs, 1, n),
                                          [hi |-> last, lo |-> last]))}]
  BY DEF conn_create_ack_frame, Listable
<1>2. S \subseteq Nat /\ IsFiniteSet(S)
  <2> DEFINE T == {y \in c.ent : unprotected => y.un}
  <2>1. T \in SUBSET c.ent /\ c.ent \subseteq Entry
    BY DEF Conn
  <2>2. IsFiniteSet(T)
    BY <2>1, FS_Subset
  <2>3. S = {x.pn : x \in T}
    BY DEF Listable
  <2>4. IsFiniteSet({x.pn : x \in T})
    <3> DEFINE f == [x \in T |-> x.pn]
    <3>1. {f[x] : x \in T} = {x.pn : x \in T}
      OBVIOUS
    <3> HIDE DEF T, f
    <3>2. IsFiniteSet({f[x] : x \in T})
      BY <2>2, ImageFinite
    <3> QED
      BY <3>1, <3>2
  <2>5. S \subseteq Nat
    BY <2>1, <2>3 DEF Entry
  <2> QED
    BY <2>3, <2>4, <2>5
<1>3. \A x \in S : \E y \in c.ent : y.pn = x
  BY DEF Listable
<1> HIDE DEF r, S
<1>4. CASE ~c.active_ack \/ S = {}
  BY <1>1, <1>4 DEF r, S
<1>5. CASE c.active_ack /\ S # {}
  <2>1. Covers(rs, S)
    BY <1>2, <1>5, RunsCover
  <2>2. rs \in Seq(Run) /\ Len(rs) \in Nat /\ Len(rs) >= 1
    BY <2>1 DEF Covers, Run
  <2> HIDE DEF rs
  <2>a. n \in Nat /\ n >= 1 /\ n = NGTCP2_MAX_ACK_BLKS + 1 /\ NGTCP2_MAX_ACK_BLKS \in Nat
    BY AcksAssumption
  <2>b. \A i \in 1..Len(rs) : rs[i].hi \in Nat /\ rs[i].lo \in Nat
    BY <2>2, RunElements
  <2>3. CASE Len(rs) <= n
    <3> DEFINE f == AckFrame(rs)
    <3>1. f \in Frame /\ Len(f.blks) = Len(rs) - 1
      BY <2>2, AckFrameType
    <3>2. /\ validate_ack(f)
          /\ \A x : x \in Numbers(f) <=> \E i \in 1..Len(rs) : x \in rs[i].lo .. rs[i].hi
      BY <2>2, AckFrameNumbers
    <3>3. Len(f.blks) <= NGTCP2_MAX_ACK_BLKS
      BY <2>2, <2>3, <2>a, <3>1
    <3>4. Decoded(f) = f
      BY <3>1, <3>3, DecodedFrame
    <3>5. r.fr = {f} /\ r.conn = c
      BY <1>1, <1>5, <2>3
    <3>6. c = [c EXCEPT !.ent = c.ent]
      BY DEF Conn
    <3> HIDE DEF f
    <3>7. Numbers(f) \subseteq S /\ \A x \in S : x \in Numbers(f)
      BY <2>1, <3>2 DEF Covers
    <3> QED
      BY <1>5, <3>1, <3>2, <3>4, <3>5, <3>6, <3>7 DEF r, S
  <2>4. CASE Len(rs) > n
    <3> DEFINE tail == [hi |-> last, lo |-> last]
               cut == SubSeq(rs, 1, n)
               qs == Append(cut, tail)
               f == AckFrame(qs)
               K == {x \in c.ent : x.pn > last}
    <3>1. n + 1 \in 1..Len(rs) /\ \A i \in 1..n : i \in 1..Len(rs)
      BY <2>2, <2>4, <2>a
    <3>2. last \in Nat /\ tail \in Run
      BY <2>b, <3>1 DEF Run
    <3> HIDE DEF last, tail, n
    <3>3. cut \in Seq(Run) /\ Len(cut) = n /\ \A i \in 1..n : cut[i] = rs[i]
      <4>1. \A i \in 1..n : rs[i] \in Run
        BY <2>2, <3>1, RunElements
      <4>2. n \in Int /\ 1 \in Int
        BY <2>a
      <4>3. /\ cut \in Seq(Run)
            /\ Len(cut) = IF 1 <= n THEN n - 1 + 1 ELSE 0
            /\ \A i \in 1..(n - 1 + 1) : cut[i] = rs[1 + i - 1]
        BY <4>1, <4>2, SubSeqProperties
      <4>4. \A i \in 1..n : 1 + i - 1 = i /\ i \in 1..(n - 1 + 1)
        BY <2>a
      <4>5. (IF 1 <= n THEN n - 1 + 1 ELSE 0) = n
        BY <2>a
      <4> HIDE DEF cut
      <4> QED
        BY <4>3, <4>4, <4>5
    <3> HIDE DEF cut
    <3>4. /\ qs \in Seq(Run) /\ Len(qs) = n + 1 /\ qs[n + 1] = tail
          /\ \A i \in 1..n : qs[i] = rs[i]
      BY <2>a, <3>2, <3>3
    <3> HIDE DEF qs
    <3>5. Len(qs) >= 1 /\ qs[n + 1].lo = last /\ qs[n + 1].hi = last
      BY <2>a, <3>4 DEF tail
    <3>6. f \in Frame /\ Len(f.blks) = n
      <4>1. f \in Frame /\ Len(f.blks) = Len(qs) - 1
        BY <3>4, <3>5, AckFrameType
      <4> QED
        BY <2>a, <3>4, <4>1
    <3>7. /\ validate_ack(f)
          /\ \A x : x \in Numbers(f) <=>
                      \E i \in 1..Len(qs) : x \in qs[i].lo .. qs[i].hi
      BY <3>4, <3>5, AckFrameNumbers
    <3>8. r.fr = {f} /\ r.conn = [c EXCEPT !.ent = K]
      <4>1. ~(Len(rs) <= n)
        BY <2>2, <2>4, <2>a
      <4> QED
        BY <1>1, <1>5, <4>1 DEF qs, cut, tail, last
    <3>9. \A x : x \in Numbers(f) <=> \/ \E i \in 1..n : x \in rs[i].lo .. rs[i].hi
                                      \/ x = last
      <4>1. \A x : x \in last..last <=> x = last
        BY <3>2
      <4>2. \A i \in 1..(n + 1) : i \in 1..n \/ i = n + 1
        BY <2>a
      <4>3. n + 1 \in 1..(n + 1) /\ \A i \in 1..n : i \in 1..(n + 1)
        BY <2>a
      <4> HIDE DEF f
      <4> QED
        BY <3>4, <3>5, <3>7, <4>1, <4>2, <4>3
    <3>10. \A x \in S : x <= last => x \in Dropped(K)
      <4> SUFFICES ASSUME NEW x \in S, x <= last PROVE x \in Dropped(K)
        OBVIOUS
      <4>1. PICK y \in c.ent : y.pn = x
        BY <1>3
      <4>2. ~(y.pn > last)
        BY <1>2, <3>2, <4>1
      <4> QED
        BY <4>1, <4>2
    <3>11. last \in S
      BY <2>1, <2>b, <3>1 DEF Covers, last
    <3>12. \A x \in Numbers(f) : x \in Numbers(Decoded(f)) \/ x = last
      <4> SUFFICES ASSUME NEW x \in Numbers(f), x \notin Numbers(Decoded(f))
                   PROVE  x = last
        OBVIOUS
      <4>1. PICK i \in (NGTCP2_MAX_ACK_BLKS + 1)..Len(f.blks) :
              x \in BlockLow(f)[i] .. (BlockLow(f)[i] + f.blks[i].blklen)
        BY <3>6, DecodedFrame
      <4>2. i = n /\ n \in 1..(Len(qs) - 1) /\ n \in 0..(Len(qs) - 1)
        BY <2>a, <3>4, <3>6, <4>1
      <4>3. BlockLow(f)[n] = qs[n + 1].lo
        BY <3>4, <3>5, <4>2, AckFrameLow
      <4>4. f.blks[n].blklen = qs[n + 1].hi - qs[n + 1].lo
        BY <3>4, <3>5, <4>2, AckFrameType
      <4>5. BlockLow(f)[n] = last /\ BlockLow(f)[n] + f.blks[n].blklen = last
        BY <3>2, <3>5, <4>3, <4>4
      <4> QED
        BY <3>2, <4>1, <4>2, <4>5
    <3> HIDE DEF f
    <3>13. Numbers(f) \subseteq S
      BY <2>1, <3>1, <3>9, <3>11 DEF Covers
    <3>14. \A x \in S : x \in Numbers(f) \/ x \in Dropped(K)
      <4> SUFFICES ASSUME NEW x \in S, x \notin Numbers(f) PROVE x <= last
        BY <3>10
      <4>1. PICK i \in 1..Len(rs) : x \in rs[i].lo .. rs[i].hi
        BY <2>1 DEF Covers
      <4>2. i \notin 1..n
        BY <3>9, <4>1
      <4>3. i = n + 1 \/ n + 1 < i
        BY <2>2, <2>a, <4>2
      <4>4. n + 1 < i => rs[i].hi < rs[n + 1].lo
        BY <2>1, <3>1 DEF Covers
      <4>5. rs[n + 1].lo <= rs[n + 1].hi /\ rs[n + 1].hi = last
        BY <2>1, <3>1 DEF Covers, last
      <4> QED
        BY <2>b, <3>1, <4>1, <4>3, <4>4, <4>5
    <3>15. \A x \in Numbers(f) : x \in Numbers(Decoded(f)) \/ x \in Dropped(K)
      <4>1. last \in Dropped(K)
        BY <3>2, <3>10, <3>11
      <4> QED
        BY <3>12, <4>1
    <3>16. K \in SUBSET c.ent
      OBVIOUS
    <3> HIDE DEF K
    <3> QED
      BY <1>5, <3>6, <3>7, <3>8, <3>13, <3>14, <3>15, <3>16 DEF r, S
  <2>5. Len(rs) <= n \/ Len(rs) > n
    BY <2>2, AcksAssumption
  <2> QED
    BY <2>3, <2>4, <2>5
<1> QED
  BY <1>4, <1>5 DEF Conn


---------------------------------------------------------------------------
(* The inductive invariant.                                                *)

Rcvd == [pn : Nat, kind : Kinds, elicits : BOOLEAN]
Told == [got : SUBSET Rcvd, heard : SUBSET Int, listed : SUBSET Int,
         dropped : SUBSET Nat]
Pkt  == [to : Endpoint, pn : Nat, bits : Nat, kind : Kinds, elicits : BOOLEAN,
         ack : SUBSET Frame]

Types ==
    /\ conn \in [Endpoint -> Conn] /\ told \in [Endpoint -> Told]
    /\ net \subseteq Pkt
    /\ \A e \in Endpoint : IsFiniteSet(conn[e].ent)
    /\ \A p \in net : \A f, g \in p.ack : f = g

(* A packet number is used once, and its packet is got once.               *)
UsedOnce ==
    /\ \A p \in net : p.pn \in 1..conn[Peer(p.to)].last_tx /\ p.pn \notin Got(p.to)
    /\ \A p, q \in net : p.to = q.to /\ p.pn = q.pn => p = q
    /\ \A e \in Endpoint : Got(e) \subseteq 1..conn[Peer(e)].last_tx
    /\ \A e \in Endpoint : \A x, y \in told[e].got : x.pn = y.pn => x = y

(* The tracker holds packets that were got, none of them protected by keys *)
(* that are not there yet.                                                 *)
EntriesGot ==
    \A e \in Endpoint :
      /\ \A x \in conn[e].ent :
           \E y \in told[e].got : y.pn = x.pn /\ (x.un <=> y.kind = "hs")
      /\ ~conn[e].post => \A y \in told[e].got : y.kind # "short"

(* A frame in the ring is the one its packet carries; a peer that has the  *)
(* packet has heard what the frame lists, but for what was forgotten.      *)
RingSent ==
    \A e \in Endpoint : \A j \in DOMAIN conn[e].acks :
      LET a == conn[e].acks[j]
      IN  /\ a.pn \in 1..conn[e].last_tx
          /\ Numbers(a.fr) \subseteq told[e].listed
          /\ \A x \in Numbers(a.fr) : \/ x \in Numbers(Decoded(a.fr))
                                      \/ x \in told[e].dropped
          /\ \A p \in net : p.to = Peer(e) /\ p.pn = a.pn => p.ack = {a.fr}
          /\ a.pn \in Got(Peer(e)) =>
               Numbers(Decoded(a.fr)) \subseteq told[Peer(e)].heard

(* What is acknowledged has been received, and so is below max_rx.         *)
AckedBelow ==
    \A e \in Endpoint : /\ \A x \in Got(e) : x <= conn[e].max_rx
                        /\ conn[e].largest_acked <= conn[Peer(e)].max_rx

Inv == /\ Types /\ UsedOnce /\ EntriesGot /\ RingSent /\ AckedBelow
       /\ ListedWereGot /\ KeptUntilHeard /\ OwedIsTimed


\* The two endpoints.
LEMMA Peers ==
    \A e \in Endpoint : /\ Peer(e) \in Endpoint /\ Peer(e) # e /\ Peer(Peer(e)) = e
                        /\ \A d \in Endpoint : d = e \/ d = Peer(e)
BY AcksAssumption DEF Endpoint, Peer

---------------------------------------------------------------------------
(* Packet numbers.                                                         *)

\* adjust_pkt_num finds a number above the largest received one from its
\* last bits if it is no more than half a window ahead.
LEMMA AdjustAbove ==
    ASSUME NEW m \in Nat, NEW pn \in Nat, NEW n \in Nat, 2 ^ n \in Nat \ {0},
           pn > m, 2 * (pn - m - 1) <= 2 ^ n
    PROVE  adjust_pkt_num(m, pn % 2 ^ n, n) = pn
<1> DEFINE M == 2 ^ n
           k == m + 1
           q == k \div M
           r == k % M
           s == pn \div M
           t == pn % M
           a == k - r + t
           b == k - r + M + t
           Dist(x) == IF k < x THEN x - k ELSE k - x
<1>1. adjust_pkt_num(m, t, n) = IF Dist(a) < Dist(b) THEN a ELSE b
  BY DEF adjust_pkt_num
<1>2. M \in Nat /\ M > 0 /\ k \in Nat /\ pn >= k /\ 2 * (pn - k) <= M
  OBVIOUS
<1> HIDE DEF M, k
<1>3. /\ k = M * q + r /\ q \in Nat /\ r \in 0..(M - 1)
      /\ pn = M * s + t /\ s \in Nat /\ t \in 0..(M - 1)
  BY <1>2
<1> HIDE DEF q, r, s, t
<1>4. s = q \/ s = q + 1
  <2> DEFINE d == s - q
  <2>1. d \in Int /\ M * d \in Int /\ pn - k = M * d + t - r
    <3>1. M * s - M * q = M * (s - q)
      BY <1>2, <1>3
    <3>2. M * s \in Int /\ M * q \in Int
      BY <1>2, <1>3
    <3> QED
      BY <1>2, <1>3, <3>1, <3>2
  <2> HIDE DEF d
  <2>2. d >= 2 => M * d >= M + M
    BY <1>2, <2>1
  <2>3. d <= -1 => M * d <= -M
    BY <1>2, <2>1
  <2>4. t \in Int /\ r \in Int /\ t - r < M /\ t - r > -M
    BY <1>2, <1>3
  <2>5. ~(d >= 2) /\ ~(d <= -1)
    BY <1>2, <2>1, <2>2, <2>3, <2>4
  <2>6. d = 0 \/ d = 1
    BY <2>1, <2>5
  <2> QED
    BY <1>3, <2>6 DEF d
<1>5. a \in Int /\ b \in Int /\ b = a + M
  BY <1>2, <1>3
<1>6. CASE s = q
  <2>1. pn = a
    BY <1>2, <1>3, <1>6
  <2>2. Dist(a) < Dist(b)
    BY <1>2, <1>5, <2>1
  <2> HIDE DEF a, b, Dist
  <2> QED
    BY <1>1, <2>1, <2>2 DEF M, t
<1>7. CASE s = q + 1
  <2>1. M * (q + 1) = M * q + M
    BY <1>2, <1>3
  <2>2. M * q \in Int
    BY <1>2, <1>3
  <2>3. pn = b
    BY <1>2, <1>3, <1>7, <2>1, <2>2
  <2>4. ~(Dist(a) < Dist(b))
    BY <1>2, <1>5, <2>3
  <2> HIDE DEF a, b, Dist
  <2> QED
    BY <1>1, <2>3, <2>4 DEF M, t
<1> QED
  BY <1>4, <1>6, <1>7

(* No more packets are sent than the longest packet number can tell apart: *)
(* 2^31 + 1 with the code's 32 bits.                                       *)
FewPackets == \A b \in Budgets, e \in Endpoint : 2 * (b[e] - 1) <= 2 ^ Bits[3]

(* Every packet on its way is within half the window of its number.        *)
InWindow ==
    /\ \A e \in Endpoint : 2 * (conn[e].budget - 1) <= 2 ^ Bits[3]
    /\ \A p \in net : /\ 2 ^ p.bits \in Nat \ {0}
                      /\ 2 * (p.pn - conn[p.to].max_rx - 1) <= 2 ^ p.bits

\* The lengths of packet numbers.
LEMMA BitsNat ==
    /\ Bits[1] \in Nat /\ Bits[2] \in Nat /\ Bits[3] \in Nat
    /\ \A c, pn : conn_select_pkt_type(c, pn) \in {Bits[1], Bits[2], Bits[3]}
<1>1. Bits[1] \in Nat /\ Bits[2] \in Nat /\ Bits[3] \in Nat
  <2>1. Bits \in Seq(Nat) /\ 1 \in 1..Len(Bits) /\ 2 \in 1..Len(Bits) /\ 3 \in 1..Len(Bits)
    BY AcksAssumption
  <2> QED
    BY <2>1, ElementOfSeq
<1>2. \A c, pn : conn_select_pkt_type(c, pn) \in {Bits[1], Bits[2], Bits[3]}
  BY DEF conn_select_pkt_type
<1> QED
  BY <1>1, <1>2

\* Their powers of two.
LEMMA PowersPositive ==
    /\ 2 ^ Bits[1] \in Nat \ {0} /\ 2 ^ Bits[2] \in Nat \ {0}
    /\ 2 ^ Bits[3] \in Nat \ {0}
<1>1. 2 ^ Bits[1] \in Int /\ 2 ^ Bits[2] \in Int /\ 2 ^ Bits[3] \in Int
  BY BitsNat
<1>2. 2 ^ Bits[1] > 0 /\ 2 ^ Bits[2] > 0 /\ 2 ^ Bits[3] > 0
  <2>1. 1 \in 1..3 /\ 2 \in 1..3 /\ 3 \in 1..3
    OBVIOUS
  <2>2. \A i \in 1..3 : 2 ^ Bits[i] > 0
    BY AcksAssumption
  <2> QED
    BY <2>1, <2>2
<1> QED
  BY <1>1, <1>2

\* conn_select_pkt_type leaves room for every number up to the one it is
\* for, counted from the largest one that was acknowledged.
LEMMA SelectInWindow ==
    ASSUME NEW c \in Conn, NEW pn \in Nat, NEW m \in Nat, c.largest_acked <= m,
           2 * (pn - 1) <= 2 ^ Bits[3]
    PROVE  LET b == conn_select_pkt_type(c, pn)
           IN  2 ^ b \in Nat \ {0} /\ 2 * (pn - m - 1) <= 2 ^ b
<1> DEFINE A == 2 ^ Bits[1]
           B == 2 ^ Bits[2]
           C == 2 ^ Bits[3]
           n == (pn - c.largest_acked) * 2 + 1
           b == conn_select_pkt_type(c, pn)
<1>2. A \in Nat \ {0} /\ B \in Nat \ {0} /\ C \in Nat \ {0}
  BY PowersPositive
<1>3. b = IF n > B - 1 THEN Bits[3] ELSE IF n > A - 1 THEN Bits[2] ELSE Bits[1]
  BY DEF conn_select_pkt_type
<1>4. c.largest_acked \in Nat /\ 2 * (pn - 1) <= C
  BY DEF Conn
<1>5. /\ 2 * (pn - m - 1) <= C
      /\ ~(n > B - 1) => 2 * (pn - m - 1) <= B
      /\ ~(n > A - 1) => 2 * (pn - m - 1) <= A
  <2> HIDE DEF A, B, C
  <2> QED
    BY <1>2, <1>4
<1> HIDE DEF b, n
<1> QED
  BY <1>2, <1>3, <1>5 DEF b

(* What every step does with the invariant and with the window.            *)
Preserved == Inv' /\ (InWindow => InWindow')

---------------------------------------------------------------------------
(* Writing a packet.                                                       *)

Forgotten(e, c) == {x.pn : x \in conn[e].ent \ c.ent}

(* c is conn[e] as the writing functions leave it before they send fr.     *)
Prepared(e, c, unprotected, fr) ==
    /\ c \in Conn /\ c.ent \subseteq conn[e].ent
    /\ c.acks = conn[e].acks /\ c.last_tx = conn[e].last_tx
    /\ c.largest_acked = conn[e].largest_acked /\ c.max_rx = conn[e].max_rx
    /\ c.rtb = conn[e].rtb /\ c.post = conn[e].post /\ c.err = conn[e].err
    /\ c.budget = conn[e].budget
    /\ \/ /\ fr = {} /\ c.active_ack = conn[e].active_ack
          /\ \/ /\ c.next_ack_expiry = conn[e].next_ack_expiry
                /\ c.immediate_ack = conn[e].immediate_ack
             \/ ~conn[e].active_ack
             \/ Listable(conn[e], ~conn[e].post) = {}
       \/ \E f \in Frame :
            /\ fr = {f} /\ validate_ack(f)
            /\ Numbers(f) \subseteq Listable(conn[e], unprotected)
            /\ \A x \in Listable(conn[e], ~conn[e].post) :
                 x \in Numbers(f) \/ x \in Forgotten(e, c)
            /\ \A x \in Numbers(f) :
                 x \in Numbers(Decoded(f)) \/ x \in Forgotten(e, c)

\* A connection that writes without an ACK is prepared.
LEMMA IdlePrepared ==
    ASSUME Types, NEW e \in Endpoint, NEW unprotected \in BOOLEAN
    PROVE  Prepared(e, conn[e], unprotected, {})
BY DEF Types, Prepared

\* conn_create_ack_frame prepares for a packet with its frame, and for one
\* without it.
LEMMA CreatePrepared ==
    ASSUME Types, NEW e \in Endpoint, NEW unprotected \in BOOLEAN,
           unprotected = ~conn[e].post
    PROVE  LET r == conn_create_ack_frame(conn[e], unprotected)
           IN  /\ Prepared(e, r.conn, unprotected, r.fr)
               /\ Prepared(e, r.conn, unprotected, {})
               /\ r.fr = {} => r.conn.ent = conn[e].ent
<1> DEFINE c == conn[e]
           r == conn_create_ack_frame(c, unprotected)
           S == Listable(c, unprotected)
<1>1. c \in Conn /\ IsFiniteSet(c.ent)
  BY DEF Types
<1>2. \/ /\ r.fr = {} /\ (~c.active_ack \/ S = {})
         /\ r.conn = conn_invalidate_next_ack_expiry(c)
      \/ \E f \in Frame, K \in SUBSET c.ent :
           /\ r.fr = {f} /\ r.conn = [c EXCEPT !.ent = K]
           /\ c.active_ack /\ validate_ack(f) /\ Numbers(f) \subseteq S
           /\ \A x \in S : x \in Numbers(f) \/ x \in {y.pn : y \in c.ent \ K}
           /\ \A x \in Numbers(f) : \/ x \in Numbers(Decoded(f))
                                    \/ x \in {y.pn : y \in c.ent \ K}
  BY <1>1, CreateAckFrame
<1> HIDE DEF r
<1>3. CASE /\ r.fr = {} /\ (~c.active_ack \/ S = {})
           /\ r.conn = conn_invalidate_next_ack_expiry(c)
  <2>1. r.conn = [c EXCEPT !.next_ack_expiry = FALSE, !.immediate_ack = FALSE]
    BY <1>3 DEF conn_invalidate_next_ack_expiry
  <2>2. /\ r.conn \in Conn /\ r.conn.ent = c.ent /\ r.conn.acks = c.acks
        /\ r.conn.last_tx = c.last_tx /\ r.conn.largest_acked = c.largest_acked
        /\ r.conn.max_rx = c.max_rx /\ r.conn.rtb = c.rtb /\ r.conn.post = c.post
        /\ r.conn.err = c.err /\ r.conn.budget = c.budget
        /\ r.conn.active_ack = c.active_ack
    BY <1>1, <2>1 DEF Conn
  <2>3. ~c.active_ack \/ Listable(c, ~c.post) = {}
    BY <1>3
  <2> QED
    BY <1>3, <2>2, <2>3 DEF Prepared, r
<1>4. ASSUME NEW f \in Frame, NEW K \in SUBSET c.ent,
             /\ r.fr = {f} /\ r.conn = [c EXCEPT !.ent = K]
             /\ c.active_ack /\ validate_ack(f) /\ Numbers(f) \subseteq S
             /\ \A x \in S : x \in Numbers(f) \/ x \in {y.pn : y \in c.ent \ K}
             /\ \A x \in Numbers(f) : \/ x \in Numbers(Decoded(f))
                                      \/ x \in {y.pn : y \in c.ent \ K}
      PROVE  /\ Prepared(e, r.conn, unprotected, r.fr)
             /\ Prepared(e, r.conn, unprotected, {})
             /\ r.fr # {}
  <2>1. /\ r.conn \in Conn /\ r.conn.ent = K /\ r.conn.acks = c.acks
        /\ r.conn.last_tx = c.last_tx /\ r.conn.largest_acked = c.largest_acked
        /\ r.conn.max_rx = c.max_rx /\ r.conn.rtb = c.rtb /\ r.conn.post = c.post
        /\ r.conn.err = c.err /\ r.conn.budget = c.budget
        /\ r.conn.active_ack = c.active_ack
        /\ r.conn.next_ack_expiry = c.next_ack_expiry
        /\ r.conn.immediate_ack = c.immediate_ack
    BY <1>1, <1>4 DEF Conn
  <2>2. Forgotten(e, r.conn) = {y.pn : y \in c.ent \ K}
    BY <2>1 DEF Forgotten
  <2>3. Prepared(e, r.conn, unprotected, {})
    BY <2>1 DEF Prepared
  <2>4. Prepared(e, r.conn, unprotected, r.fr)
    BY <1>4, <2>1, <2>2 DEF Prepared
  <2> QED
    BY <1>4, <2>3, <2>4
<1> QED
  BY <1>2, <1>3, <1>4 DEF r


\* The ring keeps frames it had and the new one.
LEMMA AddAck ==
    ASSUME NEW c \in Conn, NEW pn \in Nat, NEW f \in Frame, NEW un \in BOOLEAN
    PROVE  LET d == acktr_add_ack(c, pn, f, un)
           IN  /\ d \in Conn /\ d = [c EXCEPT !.acks = d.acks]
               /\ \A j \in DOMAIN d.acks :
                    \/ \E i \in DOMAIN c.acks : d.acks[j] = c.acks[i]
                    \/ d.acks[j] = [pn |-> pn, fr |-> f, un |-> un]
<1> DEFINE new == [pn |-> pn, fr |-> f, un |-> un]
           all == <<new>> \o c.acks
           n == Min({Len(all), RingLen})
           d == acktr_add_ack(c, pn, f, un)
<1>1. c.acks \in Seq(Sent) /\ new \in Sent /\ <<new>> \in Seq(Sent) /\ Len(<<new>>) = 1
  BY DEF Conn, Sent
<1> HIDE DEF new
<1>2. /\ all \in Seq(Sent) /\ Len(all) = 1 + Len(c.acks)
      /\ \A i \in 1..Len(all) : all[i] = IF i <= 1 THEN <<new>>[i] ELSE c.acks[i - 1]
  BY <1>1, ConcatProperties
<1>3. Len(c.acks) \in Nat /\ DOMAIN c.acks = 1..Len(c.acks) /\ RingLen \in Nat
  BY <1>1, AcksAssumption
<1> HIDE DEF all
<1>4. n \in Nat /\ n <= Len(all)
  <2>1. Len(all) \in Nat
    BY <1>2, <1>3
  <2>2. n \in {Len(all), RingLen} /\ \A y \in {Len(all), RingLen} : n <= y
    BY <1>3, <2>1, MinOfNat
  <2> QED
    BY <1>3, <2>1, <2>2
<1> HIDE DEF n
<1>5. ASSUME NEW i \in 1..n
      PROVE  /\ all[i] \in Sent
             /\ all[i] = new \/ \E k \in DOMAIN c.acks : all[i] = c.acks[k]
  <2>1. i \in 1..Len(all) /\ Len(all) \in Nat
    BY <1>2, <1>3, <1>4
  <2>2. CASE i = 1
    BY <1>1, <1>2, <2>1, <2>2
  <2>3. CASE i # 1
    <3>1. i - 1 \in 1..Len(c.acks) /\ ~(i <= 1)
      BY <1>2, <1>3, <2>1, <2>3
    <3>2. all[i] = c.acks[i - 1]
      BY <1>2, <2>1, <3>1
    <3> QED
      BY <1>1, <1>3, <3>1, <3>2, ElementOfSeq
  <2> QED
    BY <2>2, <2>3
<1> DEFINE cut == SubSeq(all, 1, n)
<1>6. /\ cut \in Seq(Sent)
      /\ \A i \in 1..(n - 1 + 1) : cut[i] = all[1 + i - 1]
      /\ Len(cut) = IF 1 <= n THEN n - 1 + 1 ELSE 0
  <2>1. n \in Int /\ 1 \in Int
    BY <1>4
  <2> QED
    BY <1>5, <2>1, SubSeqProperties
<1> HIDE DEF cut
<1>7. DOMAIN cut = 1..n /\ \A i \in 1..n : cut[i] = all[i]
  <2>1. Len(cut) = n /\ \A i \in 1..n : i \in 1..(n - 1 + 1) /\ 1 + i - 1 = i
    BY <1>4, <1>6
  <2>2. DOMAIN cut = 1..Len(cut)
    BY <1>6, LenProperties
  <2>3. \A i \in 1..n : cut[i] = all[i]
    BY <1>6, <2>1
  <2> QED
    BY <2>1, <2>2, <2>3
<1>8. d = [c EXCEPT !.acks = cut]
  BY DEF acktr_add_ack, cut, n, all, new
<1>9. d \in Conn /\ d.acks = cut
  BY <1>6, <1>8 DEF Conn
<1> HIDE DEF d
<1>10. \A j \in DOMAIN d.acks : \/ \E i \in DOMAIN c.acks : d.acks[j] = c.acks[i]
                                \/ d.acks[j] = new
  BY <1>5, <1>7, <1>9
<1> QED
  BY <1>8, <1>9, <1>10 DEF d, new


(* What a step that sends pk from e changes.                               *)
Wrote(e, c, fr, pk) ==
    /\ pk \in Pkt /\ pk.to = Peer(e) /\ pk.pn = conn[e].last_tx + 1 /\ pk.ack = fr
    /\ pk.pn <= conn[e].budget
    /\ pk.bits = IF pk.kind = "short" THEN conn_select_pkt_type(conn[e], pk.pn)
                                      ELSE Bits[3]
    /\ net' = net \cup {pk}
    /\ conn'[Peer(e)] = conn[Peer(e)] /\ told'[Peer(e)] = told[Peer(e)]
    /\ conn'[e].ent = c.ent /\ conn'[e].last_tx = pk.pn
    /\ conn'[e].largest_acked = conn[e].largest_acked
    /\ conn'[e].max_rx = conn[e].max_rx /\ conn'[e].post = conn[e].post
    /\ conn'[e].err = conn[e].err /\ conn'[e].budget = conn[e].budget
    /\ fr = {} => /\ conn'[e].active_ack = c.active_ack
                  /\ conn'[e].next_ack_expiry = c.next_ack_expiry
                  /\ conn'[e].immediate_ack = c.immediate_ack
    /\ \A j \in DOMAIN conn'[e].acks :
         \/ \E i \in DOMAIN conn[e].acks : conn'[e].acks[j] = conn[e].acks[i]
         \/ conn'[e].acks[j].pn = pk.pn /\ fr = {conn'[e].acks[j].fr}
    /\ told'[e].got = told[e].got /\ told'[e].heard = told[e].heard
    /\ told'[e].listed = told[e].listed \cup UNION {Numbers(f) : f \in fr}
    /\ told'[e].dropped = told[e].dropped \cup Forgotten(e, c)

\* A frame lists integers.
LEMMA NumbersInt ==
    ASSUME NEW f
    PROVE  Numbers(f) \subseteq Int
BY DEF Numbers

\* Send sends one packet; the types are kept.
LEMMA SendDoes ==
    ASSUME Types, NEW e \in Endpoint, NEW c, NEW unprotected \in BOOLEAN,
           NEW kind \in Kinds, NEW elicits \in BOOLEAN, NEW fr,
           Prepared(e, c, unprotected, fr), Send(e, c, kind, elicits, fr)
    PROVE  /\ Types'
           /\ \E pk : Wrote(e, c, fr, pk) /\ pk.kind = kind /\ pk.elicits = elicits
<1> DEFINE pn == c.last_tx + 1
           c1 == IF fr = {} THEN c
                 ELSE acktr_add_ack(conn_commit_tx_ack(c), pn,
                                    CHOOSE f \in fr : TRUE, kind = "hs")
           c2 == [c1 EXCEPT !.last_tx = pn,
                            !.rtb = IF elicits
                                    THEN @ \cup {[pn |-> pn, un |-> kind = "hs"]}
                                    ELSE @]
           b == IF kind = "short" THEN conn_select_pkt_type(c, pn) ELSE Bits[3]
           pk == [to |-> Peer(e), pn |-> pn, bits |-> b, kind |-> kind,
                  elicits |-> elicits, ack |-> fr]
<1>1. /\ pn <= c.budget /\ conn' = [conn EXCEPT ![e] = c2]
      /\ net' = net \cup {pk}
      /\ told' = [told EXCEPT ![e].listed = @ \cup UNION {Numbers(f) : f \in fr},
                              ![e].dropped = @ \cup {x.pn : x \in conn[e].ent \ c.ent}]
  BY DEF Send
<1>2. /\ conn \in [Endpoint -> Conn] /\ told \in [Endpoint -> Told] /\ net \subseteq Pkt
      /\ conn[e] \in Conn /\ told[e] \in Told /\ IsFiniteSet(conn[e].ent)
  BY DEF Types
<1>3. /\ c \in Conn /\ c.ent \subseteq conn[e].ent /\ c.acks = conn[e].acks
      /\ c.last_tx = conn[e].last_tx /\ c.largest_acked = conn[e].largest_acked
      /\ c.max_rx = conn[e].max_rx /\ c.post = conn[e].post /\ c.err = conn[e].err
      /\ c.budget = conn[e].budget
  BY DEF Prepared
<1>4. fr = {} \/ \E f \in Frame : fr = {f}
  BY DEF Prepared
<1>5. pn \in Nat /\ [pn |-> pn, un |-> kind = "hs"] \in Entry
  BY <1>3 DEF Conn, Entry
<1>6. /\ c1 \in Conn /\ c1.ent = c.ent /\ c1.largest_acked = c.largest_acked
      /\ c1.max_rx = c.max_rx /\ c1.post = c.post /\ c1.err = c.err
      /\ c1.budget = c.budget
      /\ fr = {} => /\ c1.active_ack = c.active_ack /\ c1.immediate_ack = c.immediate_ack
                    /\ c1.next_ack_expiry = c.next_ack_expiry
      /\ \A j \in DOMAIN c1.acks :
           \/ \E i \in DOMAIN c.acks : c1.acks[j] = c.acks[i]
           \/ c1.acks[j].pn = pn /\ fr = {c1.acks[j].fr}
  <2>1. CASE fr = {}
    BY <1>3, <2>1
  <2>2. ASSUME NEW f \in Frame, fr = {f} PROVE <1>6!:
    <3> DEFINE c0 == conn_commit_tx_ack(c)
    <3>1. c0 = [c EXCEPT !.next_ack_expiry = FALSE, !.immediate_ack = FALSE,
                         !.active_ack = FALSE]
      BY <1>3 DEF conn_commit_tx_ack, conn_invalidate_next_ack_expiry, Conn
    <3>2. /\ c0 \in Conn /\ c0.acks = c.acks /\ c0.ent = c.ent
          /\ c0.largest_acked = c.largest_acked /\ c0.max_rx = c.max_rx
          /\ c0.post = c.post /\ c0.err = c.err /\ c0.budget = c.budget
      BY <1>3, <3>1 DEF Conn
    <3>3. (CHOOSE g \in fr : TRUE) = f /\ fr # {}
      BY <2>2
    <3> DEFINE un == kind = "hs"
    <3>4. c1 = acktr_add_ack(c0, pn, f, un) /\ un \in BOOLEAN
      BY <3>3
    <3> HIDE DEF c0, pn, c1, un
    <3>5. /\ c1 \in Conn /\ c1 = [c0 EXCEPT !.acks = c1.acks]
          /\ \A j \in DOMAIN c1.acks :
               \/ \E i \in DOMAIN c0.acks : c1.acks[j] = c0.acks[i]
               \/ c1.acks[j] = [pn |-> pn, fr |-> f, un |-> un]
      BY <1>5, <3>2, <3>4, AddAck
    <3>6. /\ c1.ent = c.ent /\ c1.largest_acked = c.largest_acked
          /\ c1.max_rx = c.max_rx /\ c1.post = c.post /\ c1.err = c.err
          /\ c1.budget = c.budget
      BY <3>2, <3>5 DEF Conn
    <3> QED
      BY <2>2, <3>2, <3>3, <3>5, <3>6
  <2> QED
    BY <1>4, <2>1, <2>2
<1> HIDE DEF c1
<1>7. /\ c2 \in Conn /\ c2.ent = c.ent /\ c2.largest_acked = c.largest_acked
      /\ c2.max_rx = c.max_rx /\ c2.post = c.post /\ c2.err = c.err
      /\ c2.budget = c.budget /\ c2.last_tx = pn /\ c2.acks = c1.acks
      /\ c2.active_ack = c1.active_ack /\ c2.immediate_ack = c1.immediate_ack
      /\ c2.next_ack_expiry = c1.next_ack_expiry
  <2>1. c1.rtb \in SUBSET Entry
    BY <1>6 DEF Conn
  <2>2. (IF elicits THEN c1.rtb \cup {[pn |-> pn, un |-> kind = "hs"]} ELSE c1.rtb)
          \in SUBSET Entry
    BY <1>5, <2>1
  <2> HIDE DEF pn
  <2> QED
    BY <1>5, <1>6, <2>2 DEF Conn
<1> HIDE DEF c2
<1>8. b = IF kind = "short" THEN conn_select_pkt_type(conn[e], pn) ELSE Bits[3]
  BY <1>3 DEF conn_select_pkt_type
<1>9. pk \in Pkt
  <2>1. b \in Nat
    BY BitsNat
  <2>2. fr \in SUBSET Frame
    BY <1>4
  <2> HIDE DEF b, pn
  <2> QED
    BY <1>5, <2>1, <2>2, Peers DEF Pkt
<1>10. /\ conn'[e] = c2 /\ conn'[Peer(e)] = conn[Peer(e)]
       /\ conn' \in [Endpoint -> Conn]
  BY <1>1, <1>2, <1>7, Peers
<1>11. /\ told'[Peer(e)] = told[Peer(e)] /\ told' \in [Endpoint -> Told]
       /\ told'[e].got = told[e].got /\ told'[e].heard = told[e].heard
       /\ told'[e].listed = told[e].listed \cup UNION {Numbers(f) : f \in fr}
       /\ told'[e].dropped = told[e].dropped \cup Forgotten(e, c)
  <2> DEFINE L == told[e].listed \cup UNION {Numbers(f) : f \in fr}
             D == told[e].dropped \cup Forgotten(e, c)
             t == [told[e] EXCEPT !.listed = L, !.dropped = D]
  <2>1. told' = [told EXCEPT ![e] = t]
    BY <1>1, <1>2 DEF Forgotten, Told
  <2>2. L \in SUBSET Int
    BY <1>2, NumbersInt DEF Told
  <2>3. D \in SUBSET Nat
    <3>1. \A x \in conn[e].ent : x.pn \in Nat
      BY <1>2 DEF Conn, Entry
    <3> QED
      BY <1>2, <3>1 DEF Told, Forgotten
  <2>4. t \in Told /\ t.listed = L /\ t.dropped = D /\ t.got = told[e].got
        /\ t.heard = told[e].heard
    <3> HIDE DEF L, D
    <3> QED
      BY <1>2, <2>2, <2>3 DEF Told
  <2> HIDE DEF t
  <2> QED
    BY <1>2, <2>1, <2>4, Peers
<1>12. Types'
  <2>1. net' \subseteq Pkt
    BY <1>1, <1>2, <1>9
  <2>2. \A p \in net' : \A f, g \in p.ack : f = g
    BY <1>1, <1>4 DEF Types
  <2>3. \A d \in Endpoint : IsFiniteSet(conn'[d].ent)
    <3>1. IsFiniteSet(conn'[e].ent)
      BY <1>2, <1>3, <1>7, <1>10, FS_Subset
    <3> QED
      BY <1>10, <3>1, Peers DEF Types
  <2> QED
    BY <1>10, <1>11, <2>1, <2>2, <2>3 DEF Types
<1>13. /\ pk.to = Peer(e) /\ pk.pn = conn[e].last_tx + 1 /\ pk.ack = fr
       /\ pk.kind = kind /\ pk.elicits = elicits /\ pk.bits = b /\ pk.pn = pn
  BY <1>3
<1>14. Wrote(e, c, fr, pk)
  <2> HIDE DEF pk, b, pn
  <2>1. pk.pn <= conn[e].budget
    BY <1>1, <1>3, <1>13
  <2>2. \A j \in DOMAIN conn'[e].acks :
         \/ \E i \in DOMAIN conn[e].acks : conn'[e].acks[j] = conn[e].acks[i]
         \/ conn'[e].acks[j].pn = pk.pn /\ fr = {conn'[e].acks[j].fr}
    BY <1>3, <1>6, <1>7, <1>10, <1>13
  <2>3. pk.bits = IF pk.kind = "short" THEN conn_select_pkt_type(conn[e], pk.pn)
                                      ELSE Bits[3]
    BY <1>8, <1>13
  <2> QED
    BY <1>1, <1>3, <1>6, <1>7, <1>9, <1>10, <1>11, <1>13, <2>1, <2>2, <2>3 DEF Wrote
<1> QED
  BY <1>12, <1>13, <1>14


\* A packet that is written from a prepared connection keeps the invariant.
LEMMA WroteInv ==
    ASSUME Inv, Types', NEW e \in Endpoint, NEW c, NEW unprotected \in BOOLEAN, NEW fr,
           Prepared(e, c, unprotected, fr), NEW pk, Wrote(e, c, fr, pk),
           fr # {} => (pk.kind = "hs" => unprotected)
    PROVE  Inv'
<1>1. /\ pk \in Pkt /\ pk.to = Peer(e) /\ pk.pn = conn[e].last_tx + 1 /\ pk.ack = fr
      /\ net' = net \cup {pk}
      /\ conn'[Peer(e)] = conn[Peer(e)] /\ told'[Peer(e)] = told[Peer(e)]
      /\ conn'[e].ent = c.ent /\ conn'[e].last_tx = pk.pn
      /\ conn'[e].largest_acked = conn[e].largest_acked
      /\ conn'[e].max_rx = conn[e].max_rx /\ conn'[e].post = conn[e].post
      /\ conn'[e].err = conn[e].err
      /\ told'[e].got = told[e].got /\ told'[e].heard = told[e].heard
      /\ told'[e].listed = told[e].listed \cup UNION {Numbers(f) : f \in fr}
      /\ told'[e].dropped = told[e].dropped \cup Forgotten(e, c)
  BY DEF Wrote
<1>2. /\ Types /\ UsedOnce /\ EntriesGot /\ RingSent /\ AckedBelow
      /\ ListedWereGot /\ KeptUntilHeard /\ OwedIsTimed
  BY DEF Inv
<1>3. c \in Conn /\ c.ent \subseteq conn[e].ent
  BY DEF Prepared
<1>4. \/ fr = {}
      \/ \E f \in Frame :
            /\ fr = {f} /\ validate_ack(f)
            /\ Numbers(f) \subseteq Listable(conn[e], unprotected)
            /\ \A x \in Listable(conn[e], ~conn[e].post) :
                 x \in Numbers(f) \/ x \in Forgotten(e, c)
            /\ \A x \in Numbers(f) :
                 x \in Numbers(Decoded(f)) \/ x \in Forgotten(e, c)
  BY DEF Prepared
<1>5. conn[e].last_tx \in Nat /\ conn[Peer(e)].last_tx \in Nat
  BY <1>2, Peers DEF Types, Conn
<1>6. \A d \in Endpoint : Got(d)' = Got(d) /\ told'[d].heard = told[d].heard
                          /\ told'[d].got = told[d].got
  BY <1>1, Peers DEF Got
<1>7. UsedOnce'
  <2>1. \A d \in Endpoint : 1..conn[d].last_tx \subseteq 1..conn'[d].last_tx
    BY <1>1, <1>5, Peers
  <2>2. pk.pn \in 1..conn'[e].last_tx /\ pk.pn \notin 1..conn[e].last_tx
    BY <1>1, <1>5
  <2>3. \A p \in net : p.to \in Endpoint /\ p \in Pkt
    BY <1>2 DEF Types, Pkt
  <2>4. \A p \in net' : /\ p.pn \in 1..conn'[Peer(p.to)].last_tx
                        /\ p.pn \notin Got(p.to)'
    <3> SUFFICES ASSUME NEW p \in net'
                 PROVE  p.pn \in 1..conn'[Peer(p.to)].last_tx /\ p.pn \notin Got(p.to)'
      OBVIOUS
    <3>1. CASE p \in net
      BY <1>2, <1>6, <2>1, <2>3, <3>1, Peers DEF UsedOnce
    <3>2. CASE p = pk
      <4>1. Peer(p.to) = e /\ p.to \in Endpoint
        BY <1>1, <3>2, Peers
      <4>2. p.pn \notin Got(p.to)
        BY <1>2, <2>2, <3>2, <4>1 DEF UsedOnce
      <4> QED
        BY <1>6, <2>2, <3>2, <4>1, <4>2
    <3> QED
      BY <1>1, <3>1, <3>2
  <2>5. \A p, q \in net' : p.to = q.to /\ p.pn = q.pn => p = q
    <3>1. \A p \in net : p.to = pk.to => p.pn # pk.pn
      BY <1>1, <1>2, <2>2, <2>3, Peers DEF UsedOnce
    <3> QED
      BY <1>1, <1>2, <3>1 DEF UsedOnce
  <2>6. \A d \in Endpoint : (Got(d) \subseteq 1..conn[Peer(d)].last_tx)'
    BY <1>2, <1>6, <2>1, Peers DEF UsedOnce
  <2>7. \A d \in Endpoint : \A x, y \in told'[d].got : x.pn = y.pn => x = y
    BY <1>2, <1>6 DEF UsedOnce
  <2> QED
    BY <2>4, <2>5, <2>6, <2>7 DEF UsedOnce
<1>8. EntriesGot'
  <2>1. \A d \in Endpoint : conn'[d].ent \subseteq conn[d].ent /\ conn'[d].post = conn[d].post
    BY <1>1, <1>3, Peers
  <2> QED
    BY <1>2, <1>6, <2>1 DEF EntriesGot
<1>9. RingSent'
  <2> DEFINE Ok(d, a) ==
          /\ a.pn \in 1..conn[d].last_tx
          /\ Numbers(a.fr) \subseteq told[d].listed
          /\ \A x \in Numbers(a.fr) : \/ x \in Numbers(Decoded(a.fr))
                                      \/ x \in told[d].dropped
          /\ \A p \in net : p.to = Peer(d) /\ p.pn = a.pn => p.ack = {a.fr}
          /\ a.pn \in Got(Peer(d)) =>
               Numbers(Decoded(a.fr)) \subseteq told[Peer(d)].heard
  <2>1. \A d \in Endpoint : \A j \in DOMAIN conn[d].acks : Ok(d, conn[d].acks[j])
    BY <1>2 DEF RingSent
  <2> SUFFICES ASSUME NEW d \in Endpoint, NEW j \in DOMAIN conn'[d].acks
               PROVE  /\ conn'[d].acks[j].pn \in 1..conn'[d].last_tx
                      /\ Numbers(conn'[d].acks[j].fr) \subseteq told'[d].listed
                      /\ \A x \in Numbers(conn'[d].acks[j].fr) :
                           \/ x \in Numbers(Decoded(conn'[d].acks[j].fr))
                           \/ x \in told'[d].dropped
                      /\ \A p \in net' :
                           p.to = Peer(d) /\ p.pn = conn'[d].acks[j].pn
                             => p.ack = {conn'[d].acks[j].fr}
                      /\ conn'[d].acks[j].pn \in Got(Peer(d))' =>
                           Numbers(Decoded(conn'[d].acks[j].fr))
                             \subseteq told'[Peer(d)].heard
    BY DEF RingSent
  <2> DEFINE a == conn'[d].acks[j]
  <2>2. Got(Peer(d))' = Got(Peer(d)) /\ told'[Peer(d)].heard = told[Peer(d)].heard
    BY <1>6, Peers
  <2>3. CASE \E i \in DOMAIN conn[d].acks : a = conn[d].acks[i]
    <3>1. Ok(d, a)
      BY <2>1, <2>3
    <3> HIDE DEF a
    <3>2. a.pn \in 1..conn'[d].last_tx
      BY <1>1, <1>5, <3>1, Peers
    <3>3. told[d].listed \subseteq told'[d].listed /\ told[d].dropped \subseteq told'[d].dropped
      BY <1>1, Peers
    <3>4. pk.to = Peer(d) => pk.pn # a.pn
      <4> SUFFICES ASSUME pk.to = Peer(d) PROVE pk.pn # a.pn
        OBVIOUS
      <4>1. d = e
        BY <1>1, Peers
      <4> QED
        BY <1>1, <1>5, <3>1, <4>1
    <3>5. \A p \in net' : p.to = Peer(d) /\ p.pn = a.pn => p.ack = {a.fr}
      BY <1>1, <3>1, <3>4
    <3>6. a.pn \in Got(Peer(d))' =>
            Numbers(Decoded(a.fr)) \subseteq told'[Peer(d)].heard
      BY <2>2, <3>1
    <3> QED
      BY <3>1, <3>2, <3>3, <3>5, <3>6 DEF a
  <2>4. CASE d = e /\ a.pn = pk.pn /\ fr = {a.fr}
    <3>1. \A x \in Numbers(a.fr) : x \in Numbers(Decoded(a.fr)) \/ x \in Forgotten(e, c)
      BY <1>4, <2>4
    <3>2. a.pn \in 1..conn'[d].last_tx
      BY <1>1, <1>5, <2>4
    <3>3. Numbers(a.fr) \subseteq told'[d].listed
      BY <1>1, <2>4
    <3>4. \A p \in net : p.to = Peer(d) => p.pn # a.pn
      <4> SUFFICES ASSUME NEW p \in net, p.to = Peer(d) PROVE p.pn # a.pn
        OBVIOUS
      <4>1. p.pn \in 1..conn[e].last_tx
        BY <1>2, <2>4, Peers DEF UsedOnce
      <4> QED
        BY <1>1, <1>5, <2>4, <4>1
    <3>5. \A p \in net' : p.to = Peer(d) /\ p.pn = a.pn => p.ack = {a.fr}
      BY <1>1, <2>4, <3>4
    <3>6. a.pn \notin Got(Peer(d))
      <4>1. Got(Peer(d)) \subseteq 1..conn[e].last_tx
        BY <1>2, <2>4, Peers DEF UsedOnce
      <4>2. a.pn \notin 1..conn[e].last_tx
        BY <1>1, <1>5, <2>4
      <4> QED
        BY <4>1, <4>2
    <3> HIDE DEF a
    <3>7. \A x \in Numbers(a.fr) : x \in Numbers(Decoded(a.fr)) \/ x \in told'[d].dropped
      BY <1>1, <2>4, <3>1
    <3> QED
      BY <2>2, <3>2, <3>3, <3>5, <3>6, <3>7 DEF a
  <2>5. d = e \/ conn'[d] = conn[d]
    BY <1>1, Peers
  <2>6. d = e => \/ \E i \in DOMAIN conn[e].acks : a = conn[e].acks[i]
                 \/ a.pn = pk.pn /\ fr = {a.fr}
    BY DEF Wrote
  <2> QED
    BY <2>3, <2>4, <2>5, <2>6
<1>10. AckedBelow'
  <2>1. \A d \in Endpoint : /\ conn'[d].max_rx = conn[d].max_rx
                            /\ conn'[d].largest_acked = conn[d].largest_acked
    BY <1>1, Peers
  <2> QED
    BY <1>2, <1>6, <2>1, Peers DEF AckedBelow
<1>11. ListedWereGot'
  <2>1. \A d \in Endpoint : ~conn'[d].err
    BY <1>1, <1>2, Peers DEF ListedWereGot
  <2>2. ASSUME NEW p \in net', NEW f \in p.ack
        PROVE  /\ validate_ack(f)
               /\ Numbers(f) \subseteq {x.pn : x \in
                    {y \in told'[Peer(p.to)].got : p.kind = "hs" => y.kind = "hs"}}
    <3>1. CASE p \in net
      <4>1. Peer(p.to) \in Endpoint
        BY <1>2, <3>1, Peers DEF Types, Pkt
      <4>2. told'[Peer(p.to)].got = told[Peer(p.to)].got
        BY <1>6, <4>1
      <4> QED
        BY <1>2, <2>2, <3>1, <4>2 DEF ListedWereGot
    <3>2. CASE p = pk
      <4>1. Peer(p.to) = e
        BY <1>1, <3>2, Peers
      <4>2. /\ validate_ack(f) /\ Numbers(f) \subseteq Listable(conn[e], unprotected)
            /\ pk.kind = "hs" => unprotected
        BY <1>1, <1>4, <2>2, <3>2
      <4>3. \A x \in Numbers(f) : \E y \in told[e].got :
              y.pn = x /\ (p.kind = "hs" => y.kind = "hs")
        <5> SUFFICES ASSUME NEW x \in Numbers(f)
                     PROVE  \E y \in told[e].got :
                              y.pn = x /\ (p.kind = "hs" => y.kind = "hs")
          OBVIOUS
        <5>1. PICK z \in conn[e].ent : z.pn = x /\ (unprotected => z.un)
          BY <4>2 DEF Listable
        <5>2. PICK y \in told[e].got : y.pn = z.pn /\ (z.un <=> y.kind = "hs")
          BY <1>2 DEF EntriesGot
        <5> QED
          BY <3>2, <4>2, <5>1, <5>2
      <4> QED
        BY <1>1, <4>1, <4>2, <4>3
    <3> QED
      BY <1>1, <3>1, <3>2
  <2> QED
    BY <2>1, <2>2 DEF ListedWereGot
<1>12. KeptUntilHeard'
  <2> SUFFICES ASSUME NEW d \in Endpoint
               PROVE  /\ (Got(d) \subseteq Kept(d) \cup told[d].dropped
                                            \cup told[Peer(d)].heard)'
                      /\ Cardinality(conn'[d].ent) <= NGTCP2_ACKTR_MAX_ENT
    BY DEF KeptUntilHeard
  <2>1. /\ Got(d) \subseteq Kept(d) \cup told[d].dropped \cup told[Peer(d)].heard
        /\ Cardinality(conn[d].ent) <= NGTCP2_ACKTR_MAX_ENT
    BY <1>2 DEF KeptUntilHeard
  <2>2. Got(d)' = Got(d) /\ told'[Peer(d)].heard = told[Peer(d)].heard
    BY <1>6, Peers
  <2>3. CASE d = e
    <3>1. Kept(e) \subseteq Kept(e)' \cup Forgotten(e, c)
      BY <1>1 DEF Kept, Forgotten
    <3>2. IsFiniteSet(conn[e].ent) /\ conn'[e].ent \in SUBSET conn[e].ent
      BY <1>1, <1>2, <1>3 DEF Types
    <3>3. /\ Cardinality(conn'[e].ent) <= Cardinality(conn[e].ent)
          /\ Cardinality(conn'[e].ent) \in Nat /\ Cardinality(conn[e].ent) \in Nat
      BY <3>2, FS_Subset, FS_CardinalityType
    <3>4. NGTCP2_ACKTR_MAX_ENT \in Nat
      BY AcksAssumption
    <3>5. Cardinality(conn'[e].ent) <= NGTCP2_ACKTR_MAX_ENT
      BY <2>1, <2>3, <3>3, <3>4
    <3> QED
      BY <1>1, <2>1, <2>2, <2>3, <3>1, <3>5
  <2>4. CASE d = Peer(e)
    BY <1>1, <2>1, <2>2, <2>4 DEF Kept
  <2> QED
    BY <2>3, <2>4, Peers
<1>13. OwedIsTimed'
  <2> SUFFICES ASSUME NEW d \in Endpoint, NEW x \in told'[d].got,
                      x.elicits, x.kind # "0rtt",
                      x.pn \notin told'[d].listed \cup told'[d].dropped
               PROVE  /\ conn'[d].active_ack /\ x.pn \in Kept(d)'
                      /\ conn'[d].next_ack_expiry \/ conn'[d].immediate_ack
    BY DEF OwedIsTimed
  <2>1. /\ x \in told[d].got /\ told[d].listed \subseteq told'[d].listed
        /\ told[d].dropped \subseteq told'[d].dropped
    BY <1>1, <1>6, Peers
  <2>2. /\ conn[d].active_ack /\ x.pn \in Kept(d)
        /\ conn[d].next_ack_expiry \/ conn[d].immediate_ack
    BY <1>2, <2>1 DEF OwedIsTimed
  <2>3. CASE d = Peer(e)
    BY <1>1, <2>2, <2>3 DEF Kept
  <2>4. CASE d = e
    <3>1. x.pn \in Kept(e)' /\ x.pn \notin Forgotten(e, c)
      BY <1>1, <2>2, <2>4 DEF Kept, Forgotten
    <3>2. x.pn \in Listable(conn[e], ~conn[e].post)
      <4>1. PICK y \in conn[e].ent : y.pn = x.pn
        BY <2>2, <2>4 DEF Kept
      <4>2. PICK z \in told[e].got : z.pn = y.pn /\ (y.un <=> z.kind = "hs")
        BY <1>2 DEF EntriesGot
      <4>3. z = x
        BY <1>2, <2>1, <2>4, <4>1, <4>2 DEF UsedOnce
      <4>4. ~conn[e].post => x.kind = "hs"
        <5>1. x.kind \in Kinds
          BY <1>2, <2>1 DEF Types, Told, Rcvd
        <5>2. ~conn[e].post => x.kind # "short"
          BY <1>2, <2>1, <2>4 DEF EntriesGot
        <5> QED
          BY <5>1, <5>2 DEF Kinds
      <4>5. ~conn[e].post => y.un
        BY <4>2, <4>3, <4>4
      <4> QED
        BY <4>1, <4>5 DEF Listable
    <3>3. fr = {}
      <4> SUFFICES ASSUME fr # {} PROVE FALSE
        OBVIOUS
      <4>1. x.pn \in UNION {Numbers(f) : f \in fr}
        BY <1>4, <3>1, <3>2
      <4> QED
        BY <1>1, <2>4, <4>1
    <3>4. /\ c.active_ack = conn[e].active_ack
          /\ c.next_ack_expiry = conn[e].next_ack_expiry
          /\ c.immediate_ack = conn[e].immediate_ack
      BY <2>2, <2>4, <3>2, <3>3 DEF Prepared
    <3>5. /\ conn'[e].active_ack = c.active_ack
          /\ conn'[e].next_ack_expiry = c.next_ack_expiry
          /\ conn'[e].immediate_ack = c.immediate_ack
      BY <3>3 DEF Wrote
    <3> QED
      BY <2>2, <2>4, <3>1, <3>4, <3>5
  <2> QED
    BY <2>3, <2>4, Peers
<1> QED
  BY <1>7, <1>8, <1>9, <1>10, <1>11, <1>12, <1>13 DEF Inv


\* A received packet that asks for an ACK and is in no frame yet can be
\* listed in the next one.
LEMMA OwedListable ==
    ASSUME Inv, NEW e \in Endpoint, NEW x \in told[e].got, x.kind # "0rtt",
           x.pn \in Kept(e)
    PROVE  x.pn \in Listable(conn[e], ~conn[e].post)
<1>1. PICK y \in conn[e].ent : y.pn = x.pn
  BY DEF Kept
<1>2. PICK z \in told[e].got : z.pn = y.pn /\ (y.un <=> z.kind = "hs")
  BY DEF Inv, EntriesGot
<1>3. z = x
  BY <1>1, <1>2 DEF Inv, UsedOnce
<1>4. ~conn[e].post => x.kind = "hs"
  <2>1. x.kind \in Kinds
    BY DEF Inv, Types, Told, Rcvd
  <2>2. ~conn[e].post => x.kind # "short"
    BY DEF Inv, EntriesGot
  <2> QED
    BY <2>1, <2>2 DEF Kinds
<1> QED
  BY <1>1, <1>2, <1>3, <1>4 DEF Listable

\* A step that sends nothing, and does not put off an ACK that is owed.
LEMMA KeepInv ==
    ASSUME Inv, NEW e \in Endpoint, NEW c \in Conn, Keep(e, c),
           c.ent = conn[e].ent, c.acks = conn[e].acks, c.last_tx = conn[e].last_tx,
           c.largest_acked = conn[e].largest_acked, c.max_rx = conn[e].max_rx,
           c.err = conn[e].err, c.budget = conn[e].budget,
           ~c.post => ~conn[e].post,
           (/\ conn[e].active_ack /\ Listable(conn[e], ~conn[e].post) # {}
            /\ conn[e].next_ack_expiry \/ conn[e].immediate_ack)
             => c.active_ack /\ (c.next_ack_expiry \/ c.immediate_ack)
    PROVE  Preserved
<1>1. /\ Types /\ UsedOnce /\ EntriesGot /\ RingSent /\ AckedBelow
      /\ ListedWereGot /\ KeptUntilHeard /\ OwedIsTimed
  BY DEF Inv
<1>2. conn \in [Endpoint -> Conn]
  BY <1>1 DEF Types
<1>3. /\ conn'[e] = c /\ conn'[Peer(e)] = conn[Peer(e)] /\ net' = net /\ told' = told
      /\ conn' \in [Endpoint -> Conn]
  BY <1>2, Peers DEF Keep
<1>4. \A d \in Endpoint :
        /\ conn'[d].ent = conn[d].ent /\ conn'[d].acks = conn[d].acks
        /\ conn'[d].last_tx = conn[d].last_tx /\ conn'[d].err = conn[d].err
        /\ conn'[d].largest_acked = conn[d].largest_acked
        /\ conn'[d].max_rx = conn[d].max_rx
        /\ ~conn'[d].post => ~conn[d].post
        /\ Got(d)' = Got(d) /\ Kept(d)' = Kept(d)
  BY <1>3, Peers DEF Got, Kept
<1>5. Types'
  BY <1>1, <1>3, <1>4 DEF Types
<1>6. \A p \in net : p.to \in Endpoint
  BY <1>1 DEF Types, Pkt
<1>7. UsedOnce'
  BY <1>1, <1>3, <1>4, <1>6, Peers DEF UsedOnce
<1>8. EntriesGot'
  BY <1>1, <1>3, <1>4 DEF EntriesGot
<1>9. RingSent'
  <2>1. \A d \in Endpoint : Got(Peer(d))' = Got(Peer(d))
    BY <1>4, Peers
  <2> QED
    BY <1>1, <1>3, <1>4, <2>1 DEF RingSent
<1>10. AckedBelow'
  BY <1>1, <1>4, Peers DEF AckedBelow
<1>11. ListedWereGot'
  BY <1>1, <1>3, <1>4 DEF ListedWereGot
<1>12. KeptUntilHeard'
  BY <1>1, <1>3, <1>4 DEF KeptUntilHeard
<1>13. OwedIsTimed'
  <2> SUFFICES ASSUME NEW d \in Endpoint, NEW x \in told[d].got,
                      x.elicits, x.kind # "0rtt",
                      x.pn \notin told[d].listed \cup told[d].dropped
               PROVE  /\ conn'[d].active_ack /\ x.pn \in Kept(d)'
                      /\ conn'[d].next_ack_expiry \/ conn'[d].immediate_ack
    BY <1>3 DEF OwedIsTimed
  <2>1. /\ conn[d].active_ack /\ x.pn \in Kept(d)
        /\ conn[d].next_ack_expiry \/ conn[d].immediate_ack
    BY <1>1 DEF OwedIsTimed
  <2>2. CASE d = Peer(e)
    BY <1>3, <1>4, <2>1, <2>2
  <2>3. CASE d = e
    <3>1. Listable(conn[e], ~conn[e].post) # {}
      BY <2>1, <2>3, OwedListable
    <3> QED
      BY <1>3, <1>4, <2>1, <2>3, <3>1
  <2> QED
    BY <2>2, <2>3, Peers
<1>14. InWindow => InWindow'
  <2>1. \A d \in Endpoint : conn'[d].budget = conn[d].budget
    BY <1>3, Peers
  <2> QED
    BY <1>3, <1>4, <1>6, <2>1 DEF InWindow
<1> QED
  BY <1>5, <1>7, <1>8, <1>9, <1>10, <1>11, <1>12, <1>13, <1>14 DEF Inv, Preserved

\* Sending from a prepared connection.
LEMMA SendInv ==
    ASSUME Inv, NEW e \in Endpoint, NEW c, NEW unprotected \in BOOLEAN,
           NEW kind \in Kinds, NEW elicits \in BOOLEAN, NEW fr,
           Prepared(e, c, unprotected, fr), Send(e, c, kind, elicits, fr),
           fr # {} => (kind = "hs" => unprotected)
    PROVE  Preserved
<1>1. Types
  BY DEF Inv
<1>2. Types' /\ \E pk : Wrote(e, c, fr, pk) /\ pk.kind = kind
  BY <1>1, SendDoes
<1>3. PICK pk : Wrote(e, c, fr, pk) /\ pk.kind = kind
  BY <1>2
<1>4. Inv'
  BY <1>2, <1>3, WroteInv
<1>5. ASSUME InWindow PROVE InWindow'
  <2>1. /\ pk \in Pkt /\ pk.to = Peer(e) /\ pk.pn <= conn[e].budget
        /\ pk.bits = IF pk.kind = "short" THEN conn_select_pkt_type(conn[e], pk.pn)
                                          ELSE Bits[3]
        /\ net' = net \cup {pk} /\ conn'[Peer(e)] = conn[Peer(e)]
        /\ conn'[e].max_rx = conn[e].max_rx /\ conn'[e].budget = conn[e].budget
    BY <1>3 DEF Wrote
  <2>2. /\ conn[e] \in Conn /\ conn[Peer(e)].max_rx \in Nat /\ pk.pn \in Nat
        /\ conn[e].budget \in Nat
        /\ \A p \in net : p.to \in Endpoint
    BY <1>1, <2>1, Peers DEF Types, Conn, Pkt
  <2>3. \A d \in Endpoint : /\ conn'[d].max_rx = conn[d].max_rx
                            /\ conn'[d].budget = conn[d].budget
    BY <2>1, Peers
  <2>4. conn[e].largest_acked <= conn[Peer(e)].max_rx
    BY DEF Inv, AckedBelow
  <2>5. 2 * (pk.pn - 1) <= 2 ^ Bits[3] /\ 2 ^ Bits[3] \in Nat \ {0}
    <3>1. 2 * (conn[e].budget - 1) <= 2 ^ Bits[3]
      BY <1>5 DEF InWindow
    <3>2. 2 ^ Bits[3] \in Nat \ {0}
      BY PowersPositive
    <3> QED
      BY <2>1, <2>2, <3>1, <3>2
  <2>6. /\ 2 ^ pk.bits \in Nat \ {0}
        /\ 2 * (pk.pn - conn[Peer(e)].max_rx - 1) <= 2 ^ pk.bits
    <3>1. CASE pk.kind = "short"
      BY <2>1, <2>2, <2>4, <2>5, <3>1, SelectInWindow
    <3>2. CASE pk.kind # "short"
      BY <2>1, <2>2, <2>5, <3>2
    <3> QED
      BY <3>1, <3>2
  <2>7. \A p \in net' : /\ 2 ^ p.bits \in Nat \ {0}
                        /\ 2 * (p.pn - conn'[p.to].max_rx - 1) <= 2 ^ p.bits
    <3> SUFFICES ASSUME NEW p \in net'
                 PROVE  /\ 2 ^ p.bits \in Nat \ {0}
                        /\ 2 * (p.pn - conn'[p.to].max_rx - 1) <= 2 ^ p.bits
      OBVIOUS
    <3>1. CASE p \in net
      <4>1. conn'[p.to].max_rx = conn[p.to].max_rx
        BY <2>2, <2>3, <3>1
      <4> QED
        BY <1>5, <3>1, <4>1 DEF InWindow
    <3>2. CASE p = pk
      <4>1. conn'[p.to].max_rx = conn[Peer(e)].max_rx
        BY <2>1, <3>2
      <4> QED
        BY <2>6, <3>2, <4>1
    <3> QED
      BY <2>1, <3>1, <3>2
  <2> QED
    BY <1>5, <2>3, <2>7 DEF InWindow
<1> QED
  BY <1>4, <1>5 DEF Preserved

\* When there is nothing to list, the timer is stopped and that is all.
LEMMA KeepPrepared ==
    ASSUME Inv, NEW e \in Endpoint, NEW c, NEW unprotected \in BOOLEAN,
           Prepared(e, c, unprotected, {}), c.ent = conn[e].ent, Keep(e, c)
    PROVE  Preserved
<1>1. /\ c \in Conn /\ c.acks = conn[e].acks /\ c.last_tx = conn[e].last_tx
      /\ c.largest_acked = conn[e].largest_acked /\ c.max_rx = conn[e].max_rx
      /\ c.post = conn[e].post /\ c.err = conn[e].err /\ c.budget = conn[e].budget
  BY DEF Prepared
<1>2. (/\ conn[e].active_ack /\ Listable(conn[e], ~conn[e].post) # {}
       /\ conn[e].next_ack_expiry \/ conn[e].immediate_ack)
        => c.active_ack /\ (c.next_ack_expiry \/ c.immediate_ack)
  BY DEF Prepared
<1> QED
  BY <1>1, <1>2, KeepInv

\* The actions that write.
LEMMA WriteInv ==
    ASSUME Inv, NEW e \in Endpoint, Write(e) \/ WriteAck(e)
    PROVE  Preserved
<1>0. Types /\ conn[e].post \in BOOLEAN
  BY DEF Inv, Types, Conn
<1>k. "hs" \in Kinds /\ "short" \in Kinds /\ "0rtt" \in Kinds
  BY DEF Kinds
<1>1. ASSUME NEW expired \in BOOLEAN, conn_write_handshake_pkt(e, expired) PROVE Preserved
  <2> DEFINE r == conn_create_ack_frame(conn[e], TRUE)
  <2>1. /\ TRUE = ~conn[e].post
        /\ Send(e, IF expired THEN r.conn ELSE conn[e], "hs", TRUE,
                IF expired THEN r.fr ELSE {})
    BY <1>0, <1>1 DEF conn_write_handshake_pkt
  <2>2. Prepared(e, r.conn, TRUE, r.fr) /\ Prepared(e, conn[e], TRUE, {})
    BY <1>0, <2>1, CreatePrepared, IdlePrepared
  <2> HIDE DEF r
  <2>3. CASE expired
    BY <1>k, <2>1, <2>2, <2>3, SendInv
  <2>4. CASE ~expired
    BY <1>k, <2>1, <2>2, <2>4, SendInv
  <2> QED
    BY <2>3, <2>4
<1>2. ASSUME NEW elicits \in BOOLEAN, NEW expired \in BOOLEAN,
             conn_write_pkt(e, elicits, expired)
      PROVE  Preserved
  <2> DEFINE r == conn_create_ack_frame(conn[e], FALSE)
             c == IF expired THEN r.conn ELSE conn[e]
             fr == IF expired THEN r.fr ELSE {}
  <2>1. /\ FALSE = ~conn[e].post /\ (elicits \/ expired)
        /\ IF elicits \/ fr # {} THEN Send(e, c, "short", elicits, fr) ELSE Keep(e, c)
    BY <1>0, <1>2 DEF conn_write_pkt
  <2>2. /\ Prepared(e, r.conn, FALSE, r.fr) /\ Prepared(e, conn[e], FALSE, {})
        /\ r.fr = {} => r.conn.ent = conn[e].ent
    BY <1>0, <2>1, CreatePrepared, IdlePrepared
  <2> HIDE DEF r
  <2>3. Prepared(e, c, FALSE, fr)
    BY <2>2
  <2>4. CASE elicits \/ fr # {}
    <3>1. Send(e, c, "short", elicits, fr)
      BY <2>1, <2>4
    <3> HIDE DEF c, fr
    <3> QED
      BY <1>k, <2>3, <3>1, SendInv
  <2>5. CASE ~elicits /\ fr = {}
    <3>1. Keep(e, c) /\ c.ent = conn[e].ent
      BY <2>1, <2>2, <2>5
    <3>2. Prepared(e, c, FALSE, {})
      BY <2>3, <2>5
    <3> HIDE DEF c, fr
    <3> QED
      BY <3>1, <3>2, KeepPrepared
  <2> QED
    BY <2>4, <2>5
<1>3. ASSUME conn_retransmit_unprotected(e) PROVE Preserved
  <2>1. Send(e, conn[e], "hs", TRUE, {})
    BY <1>3 DEF conn_retransmit_unprotected
  <2>2. Prepared(e, conn[e], TRUE, {})
    BY <1>0, IdlePrepared
  <2> QED
    BY <1>k, <2>1, <2>2, SendInv
<1>4. ASSUME NEW fits \in BOOLEAN, conn_retransmit_protected(e, fits) PROVE Preserved
  <2> DEFINE r == conn_create_ack_frame(conn[e], FALSE)
             fr == IF fits THEN r.fr ELSE {}
  <2>1. FALSE = ~conn[e].post /\ Send(e, r.conn, "short", TRUE, fr)
    BY <1>0, <1>4 DEF conn_retransmit_protected
  <2>2. Prepared(e, r.conn, FALSE, r.fr) /\ Prepared(e, r.conn, FALSE, {})
    BY <1>0, <2>1, CreatePrepared
  <2> HIDE DEF r
  <2>3. Prepared(e, r.conn, FALSE, fr)
    BY <2>2
  <2> HIDE DEF fr
  <2> QED
    BY <1>k, <2>1, <2>3, SendInv
<1>5. ASSUME conn_write_stream(e) PROVE Preserved
  <2> DEFINE kind == IF conn[e].post THEN "short" ELSE "0rtt"
  <2>1. Send(e, conn[e], kind, TRUE, {}) /\ kind \in Kinds
    BY <1>5, <1>k DEF conn_write_stream
  <2>2. Prepared(e, conn[e], TRUE, {})
    BY <1>0, IdlePrepared
  <2> HIDE DEF kind
  <2> QED
    BY <2>1, <2>2, SendInv
<1>6. ASSUME conn_write_handshake_ack_pkt(e) PROVE Preserved
  <2> DEFINE r == conn_create_ack_frame(conn[e], TRUE)
  <2>1. /\ TRUE = ~conn[e].post
        /\ IF r.fr = {} THEN Keep(e, r.conn) ELSE Send(e, r.conn, "hs", FALSE, r.fr)
    BY <1>0, <1>6 DEF conn_write_handshake_ack_pkt
  <2>2. /\ Prepared(e, r.conn, TRUE, r.fr) /\ Prepared(e, r.conn, TRUE, {})
        /\ r.fr = {} => r.conn.ent = conn[e].ent
    BY <1>0, <2>1, CreatePrepared
  <2> HIDE DEF r
  <2>3. CASE r.fr = {}
    BY <2>1, <2>2, <2>3, KeepPrepared
  <2>4. CASE r.fr # {}
    BY <1>k, <2>1, <2>2, <2>4, SendInv
  <2> QED
    BY <2>3, <2>4
<1> QED
  BY <1>1, <1>2, <1>3, <1>4, <1>5, <1>6 DEF Write, WriteAck


---------------------------------------------------------------------------
(* Receiving a packet.                                                     *)

(* c is conn[e] after the ACK frames of a packet.                          *)
Acked(e, c) ==
    /\ c \in Conn /\ c.ent \subseteq conn[e].ent
    /\ c.active_ack = conn[e].active_ack
    /\ c.next_ack_expiry = conn[e].next_ack_expiry
    /\ c.immediate_ack = conn[e].immediate_ack /\ c.last_tx = conn[e].last_tx
    /\ c.max_rx = conn[e].max_rx /\ c.post = conn[e].post
    /\ c.err = conn[e].err /\ c.budget = conn[e].budget
    /\ c.largest_acked <= conn[Peer(e)].max_rx
    /\ \A x \in conn[e].ent \ c.ent :
         x.pn \in told[e].listed /\ x.pn \in told[e].dropped \cup told[Peer(e)].heard
    /\ \A j \in DOMAIN c.acks :
         \E i \in DOMAIN conn[e].acks : c.acks[j] = conn[e].acks[i]

\* ngtcp2_acktr_recv_ack drops entries that the peer is known to have heard
\* of, and frames that are no longer needed.
LEMMA AcktrRecvAck ==
    ASSUME Inv, NEW e \in Endpoint, NEW fr \in Frame,
           Numbers(fr) \subseteq Got(Peer(e)), NEW unprotected \in BOOLEAN
    PROVE  Acked(e, acktr_recv_ack(conn[e], fr, unprotected))
<1> DEFINE c == conn[e]
           Hit == {j \in DOMAIN c.acks : /\ c.acks[j].pn \in Numbers(fr)
                                         /\ unprotected => c.acks[j].un}
           j == Min(Hit)
           d == acktr_recv_ack(c, fr, unprotected)
<1>1. c \in Conn /\ c.acks \in Seq(Sent) /\ c.largest_acked <= conn[Peer(e)].max_rx
  BY DEF Inv, Types, Conn, AckedBelow
<1>2. d = IF Hit = {} THEN c
          ELSE [c EXCEPT !.ent = {x \in c.ent : x.pn \notin Numbers(c.acks[j].fr)},
                         !.acks = SubSeq(c.acks, 1, j - 1)]
  BY DEF acktr_recv_ack
<1> HIDE DEF d
<1>3. CASE Hit = {}
  BY <1>1, <1>2, <1>3 DEF Acked, d
<1>4. CASE Hit # {}
  <2>1. Len(c.acks) \in Nat /\ DOMAIN c.acks = 1..Len(c.acks)
    BY <1>1
  <2>2. Hit \subseteq Nat
    BY <2>1
  <2>3. j \in Hit
    BY <1>4, <2>2, MinOfNat
  <2> HIDE DEF j
  <2>4. j \in 1..Len(c.acks) /\ c.acks[j].pn \in Numbers(fr)
    BY <2>1, <2>3
  <2> DEFINE a == c.acks[j]
             E == {x \in c.ent : x.pn \notin Numbers(a.fr)}
             cut == SubSeq(c.acks, 1, j - 1)
  <2>5. /\ Numbers(a.fr) \subseteq told[e].listed
        /\ \A x \in Numbers(a.fr) : \/ x \in Numbers(Decoded(a.fr))
                                    \/ x \in told[e].dropped
        /\ Numbers(Decoded(a.fr)) \subseteq told[Peer(e)].heard
    BY <2>1, <2>4 DEF Inv, RingSent
  <2>6. cut \in Seq(Sent) /\ \A i \in DOMAIN cut : \E k \in DOMAIN c.acks : cut[i] = c.acks[k]
    <3>1. 1 \in Int /\ j - 1 \in Int /\ \A i \in 1..(j - 1) : i \in 1..Len(c.acks)
      BY <2>1, <2>4
    <3>2. \A i \in 1..(j - 1) : c.acks[i] \in Sent
      BY <1>1, <3>1, ElementOfSeq
    <3>3. /\ cut \in Seq(Sent)
          /\ Len(cut) = IF 1 <= j - 1 THEN (j - 1) - 1 + 1 ELSE 0
          /\ \A i \in 1..((j - 1) - 1 + 1) : cut[i] = c.acks[1 + i - 1]
      BY <3>1, <3>2, SubSeqProperties
    <3> HIDE DEF cut
    <3>4. DOMAIN cut = 1..Len(cut)
      BY <3>3, LenProperties
    <3>5. \A i \in 1..Len(cut) : i \in 1..((j - 1) - 1 + 1) /\ 1 + i - 1 \in 1..Len(c.acks)
      BY <2>1, <2>4, <3>3
    <3> QED
      BY <2>1, <3>3, <3>4, <3>5
  <2>7. d = [c EXCEPT !.ent = E, !.acks = cut]
    BY <1>2, <1>4 DEF j
  <2>8. E \in SUBSET Entry /\ E \subseteq c.ent
    BY <1>1 DEF Conn
  <2>9. \A x \in c.ent \ E : x.pn \in Numbers(a.fr)
    OBVIOUS
  <2> HIDE DEF E, cut
  <2>10. /\ d \in Conn /\ d.ent = E /\ d.acks = cut /\ d.active_ack = c.active_ack
         /\ d.next_ack_expiry = c.next_ack_expiry /\ d.immediate_ack = c.immediate_ack
         /\ d.last_tx = c.last_tx /\ d.max_rx = c.max_rx /\ d.post = c.post
         /\ d.err = c.err /\ d.budget = c.budget /\ d.largest_acked = c.largest_acked
    BY <1>1, <2>6, <2>7, <2>8 DEF Conn
  <2>11. \A x \in c.ent \ d.ent :
           x.pn \in told[e].listed /\ x.pn \in told[e].dropped \cup told[Peer(e)].heard
    BY <2>5, <2>9, <2>10
  <2> QED
    BY <1>1, <2>6, <2>8, <2>10, <2>11 DEF Acked, d
<1> QED
  BY <1>3, <1>4

\* The largest acknowledged number is one that the peer has got.
LEMMA RtbRecvAck ==
    ASSUME Inv, NEW e \in Endpoint, NEW fr \in Frame,
           Numbers(fr) \subseteq Got(Peer(e)), NEW unprotected \in BOOLEAN,
           NEW c, Acked(e, c)
    PROVE  Acked(e, rtb_recv_ack(c, fr, unprotected))
<1> DEFINE gone == {x \in c.rtb : x.pn \in Numbers(fr) /\ (unprotected => x.un)}
           M == {c.largest_acked} \cup {x.pn : x \in gone}
           b == conn[Peer(e)].max_rx
           d == rtb_recv_ack(c, fr, unprotected)
<1>1. c \in Conn /\ c.largest_acked <= b
  BY DEF Acked
<1>2. b \in Nat
  BY Peers DEF Inv, Types, Conn
<1>3. \A x \in gone : x.pn \in Nat /\ x.pn <= b
  <2>1. \A x \in gone : x \in Entry /\ x.pn \in Got(Peer(e))
    BY <1>1 DEF Conn
  <2>2. \A y \in Got(Peer(e)) : y <= b
    BY Peers DEF Inv, AckedBelow
  <2> HIDE DEF gone
  <2> QED
    BY <2>1, <2>2 DEF Entry
<1>4. M \subseteq Nat /\ M # {} /\ \A y \in M : y <= b
  <2>1. c.largest_acked \in Nat
    BY <1>1 DEF Conn
  <2> HIDE DEF gone, b
  <2> QED
    BY <1>1, <1>3, <2>1
<1>5. Max(M) \in Nat /\ Max(M) <= b
  <2> HIDE DEF M, b
  <2>1. Max(M) \in M
    BY <1>2, <1>4, MaxOfNat
  <2> QED
    BY <1>4, <2>1
<1>6. d = [c EXCEPT !.rtb = @ \ gone, !.largest_acked = Max(M)]
  BY DEF rtb_recv_ack
<1>7. c.rtb \ gone \in SUBSET Entry
  BY <1>1 DEF Conn
<1> HIDE DEF M, gone, d
<1>8. /\ d \in Conn /\ d.ent = c.ent /\ d.acks = c.acks /\ d.active_ack = c.active_ack
      /\ d.next_ack_expiry = c.next_ack_expiry /\ d.immediate_ack = c.immediate_ack
      /\ d.last_tx = c.last_tx /\ d.max_rx = c.max_rx /\ d.post = c.post
      /\ d.err = c.err /\ d.budget = c.budget /\ d.largest_acked <= b
  BY <1>1, <1>5, <1>6, <1>7 DEF Conn
<1> QED
  BY <1>8 DEF Acked, d

(* c is the connection c1 of e after ngtcp2_acktr_add of a packet pn.      *)
Added(c1, c, pn, elicits, un) ==
    /\ c \in Conn /\ IsFiniteSet(c.ent) /\ Cardinality(c.ent) <= NGTCP2_ACKTR_MAX_ENT
    /\ c.ent \subseteq c1.ent \cup {[pn |-> pn, un |-> un]}
    /\ c.acks = c1.acks /\ c.last_tx = c1.last_tx /\ c.post = c1.post
    /\ c.largest_acked = c1.largest_acked /\ c.err = c1.err /\ c.budget = c1.budget
    /\ c.max_rx >= pn /\ c.max_rx >= c1.max_rx
    /\ c.active_ack = (c1.active_ack \/ elicits)
    /\ c.active_ack => c.next_ack_expiry \/ c.immediate_ack

\* A packet that is not in the tracker is added, the oldest entry making
\* room, and the timer runs if an ACK is due.
LEMMA SchedAck ==
    ASSUME NEW c1 \in Conn, IsFiniteSet(c1.ent), ~c1.err,
           Cardinality(c1.ent) <= NGTCP2_ACKTR_MAX_ENT,
           NEW pn \in Nat, NEW elicits \in BOOLEAN, NEW un \in BOOLEAN,
           \A x \in c1.ent : x.pn # pn
    PROVE  Added(c1, conn_sched_ack([c1 EXCEPT !.max_rx = Max({@, pn})], pn,
                                    elicits, un),
                 pn, elicits, un)
<1> DEFINE m == Max({c1.max_rx, pn})
           c == [c1 EXCEPT !.max_rx = m]
           new == [pn |-> pn, un |-> un]
           ent == c1.ent \cup {new}
           low == Min({x.pn : x \in ent})
           E == IF Cardinality(ent) > NGTCP2_ACKTR_MAX_ENT
                THEN {x \in ent : x.pn # low} ELSE ent
           d == acktr_add(c, pn, un, elicits)
<1>1. m \in Nat /\ m >= pn /\ m >= c1.max_rx
  <2>1. {c1.max_rx, pn} \subseteq Nat /\ c1.max_rx + pn \in Nat
        /\ \A y \in {c1.max_rx, pn} : y <= c1.max_rx + pn
    BY DEF Conn
  <2>2. m \in {c1.max_rx, pn} /\ \A y \in {c1.max_rx, pn} : y <= m
    BY <2>1, MaxOfNat
  <2> HIDE DEF m
  <2> QED
    BY <2>1, <2>2
<1> HIDE DEF m
<1>2. c \in Conn /\ c.ent = c1.ent /\ c.max_rx = m
  BY <1>1 DEF Conn
<1>3. new \in Entry /\ ent \subseteq Entry /\ new \notin c1.ent
  BY DEF Entry, Conn
<1>4. /\ IsFiniteSet(ent) /\ Cardinality(ent) = Cardinality(c1.ent) + 1
      /\ Cardinality(c1.ent) \in Nat
  BY <1>3, FS_AddElement, FS_CardinalityType
<1>5. NGTCP2_ACKTR_MAX_ENT \in Nat
  BY AcksAssumption
<1> HIDE DEF new
<1>6. /\ E \subseteq ent /\ IsFiniteSet(E) /\ Cardinality(E) \in Nat
      /\ Cardinality(E) <= NGTCP2_ACKTR_MAX_ENT
  <2>1. CASE Cardinality(ent) > NGTCP2_ACKTR_MAX_ENT
    <3> DEFINE P == {x.pn : x \in ent}
    <3>1. P \subseteq Nat /\ P # {}
      BY <1>3 DEF Entry
    <3>2. low \in P
      BY <3>1, MinOfNat
    <3> HIDE DEF low
    <3>3. PICK y \in ent : y.pn = low
      BY <3>2
    <3>4. E \in SUBSET (ent \ {y})
      BY <2>1, <3>3
    <3> HIDE DEF E, ent
    <3>5. IsFiniteSet(ent \ {y}) /\ Cardinality(ent \ {y}) = Cardinality(ent) - 1
      BY <1>4, FS_RemoveElement
    <3>6. IsFiniteSet(E) /\ Cardinality(E) <= Cardinality(ent \ {y}) /\ Cardinality(E) \in Nat
      BY <3>4, <3>5, FS_Subset, FS_CardinalityType
    <3>7. Cardinality(E) <= NGTCP2_ACKTR_MAX_ENT
      BY <1>4, <1>5, <3>5, <3>6
    <3> QED
      BY <3>4, <3>6, <3>7
  <2>2. CASE ~(Cardinality(ent) > NGTCP2_ACKTR_MAX_ENT)
    BY <1>4, <1>5, <2>2
  <2> QED
    BY <2>1, <2>2
<1>7. d = [c EXCEPT !.ent = E, !.active_ack = @ \/ elicits]
  BY <1>2 DEF acktr_add, new
<1> HIDE DEF E, c, ent, low
<1>8. /\ d \in Conn /\ d.ent = E /\ d.active_ack = (c1.active_ack \/ elicits)
      /\ d.acks = c1.acks /\ d.last_tx = c1.last_tx /\ d.post = c1.post
      /\ d.largest_acked = c1.largest_acked /\ d.err = c1.err /\ d.budget = c1.budget
      /\ d.max_rx = m
  <2>1. E \in SUBSET Entry
    BY <1>3, <1>6
  <2>2. (c.active_ack \/ elicits) \in BOOLEAN
    OBVIOUS
  <2>3. c.active_ack = c1.active_ack
    BY DEF c, Conn
  <2> QED
    BY <1>1, <1>2, <1>7, <2>1, <2>2, <2>3 DEF Conn, c
<1> HIDE DEF d
<1> DEFINE s == conn_sched_ack(c, pn, elicits, un)
<1>9. /\ s \in Conn /\ s.ent = d.ent /\ s.active_ack = d.active_ack
      /\ s.acks = d.acks /\ s.last_tx = d.last_tx /\ s.post = d.post
      /\ s.largest_acked = d.largest_acked /\ s.err = d.err /\ s.budget = d.budget
      /\ s.max_rx = d.max_rx
      /\ s.active_ack => s.next_ack_expiry \/ s.immediate_ack
  <2>1. s = IF ~d.err /\ ~d.immediate_ack /\ ~d.next_ack_expiry /\ d.active_ack
            THEN [d EXCEPT !.next_ack_expiry = TRUE, !.immediate_ack = FALSE] ELSE d
    BY DEF conn_sched_ack, conn_set_next_ack_expiry, d
  <2> HIDE DEF s
  <2>2. ~d.err
    BY <1>8
  <2> QED
    BY <1>8, <2>1, <2>2 DEF Conn
<1>10. s = conn_sched_ack([c1 EXCEPT !.max_rx = Max({@, pn})], pn, elicits, un)
  BY DEF c, m
<1> HIDE DEF s
<1>11. Added(c1, s, pn, elicits, un)
  <2>1. s.ent \subseteq c1.ent \cup {new} /\ IsFiniteSet(s.ent)
        /\ Cardinality(s.ent) <= NGTCP2_ACKTR_MAX_ENT
    BY <1>6, <1>8, <1>9 DEF ent
  <2> QED
    BY <1>1, <1>8, <1>9, <2>1 DEF Added, new
<1> QED
  BY <1>10, <1>11


(* What the receipt of p by e changes, c1 being conn[e] after its ACK      *)
(* frames.                                                                 *)
Took(e, p, c1) ==
    /\ p \in net /\ p.to = e /\ (p.kind = "short" => conn[e].post)
    /\ net' = net \ {p}
    /\ Acked(e, c1) /\ Added(c1, conn'[e], p.pn, p.elicits, p.kind = "hs")
    /\ conn'[Peer(e)] = conn[Peer(e)] /\ told'[Peer(e)] = told[Peer(e)]
    /\ told'[e].got = told[e].got \cup {[pn |-> p.pn, kind |-> p.kind,
                                         elicits |-> p.elicits]}
    /\ told'[e].heard = told[e].heard \cup UNION {Numbers(Decoded(f)) : f \in p.ack}
    /\ told'[e].listed = told[e].listed
    /\ told'[e].dropped = told[e].dropped
                            \cup ({x.pn : x \in c1.ent} \ {x.pn : x \in conn'[e].ent})
                            \cup ({p.pn} \ {x.pn : x \in conn'[e].ent})

\* conn_recv_pkt of a packet whose number is recovered.
LEMMA RecvDoes ==
    ASSUME Inv, NEW e \in Endpoint, NEW p \in net, conn_recv_pkt(e, p),
           adjust_pkt_num(conn[e].max_rx, p.pn % 2 ^ p.bits, p.bits) = p.pn
    PROVE  Types' /\ \E c1 : Took(e, p, c1)
<1> DEFINE un == p.kind = "hs"
           c1 == IF p.ack = {} THEN conn[e]
                 ELSE conn_recv_ack(conn[e], Decoded(CHOOSE f \in p.ack : TRUE), un)
           c2 == IF c1.err THEN c1
                 ELSE conn_sched_ack([c1 EXCEPT !.max_rx = Max({@, p.pn})], p.pn,
                                     p.elicits, un)
           heard == UNION {Numbers(Decoded(f)) : f \in p.ack}
           gone == ({x.pn : x \in c1.ent} \ {x.pn : x \in c2.ent})
                     \cup ({p.pn} \ {x.pn : x \in c2.ent})
           got == [pn |-> p.pn, kind |-> p.kind, elicits |-> p.elicits]
<1>1. /\ p.to = e /\ (p.kind = "short" => conn[e].post) /\ net' = net \ {p}
      /\ conn' = [conn EXCEPT ![e] = c2]
      /\ told' = [told EXCEPT ![e].got = @ \cup {got}, ![e].heard = @ \cup heard,
                    ![e].dropped = @ \cup ({x.pn : x \in c1.ent} \ {x.pn : x \in c2.ent})
                                     \cup ({p.pn} \ {x.pn : x \in c2.ent})]
  BY DEF conn_recv_pkt
<1>2. /\ Types /\ UsedOnce /\ EntriesGot /\ ListedWereGot /\ KeptUntilHeard /\ AckedBelow
  BY DEF Inv
<1>3. /\ conn \in [Endpoint -> Conn] /\ told \in [Endpoint -> Told] /\ p \in Pkt
      /\ conn[e] \in Conn /\ told[e] \in Told /\ IsFiniteSet(conn[e].ent) /\ ~conn[e].err
      /\ p.pn \in Nat /\ p.elicits \in BOOLEAN /\ p.kind \in Kinds /\ un \in BOOLEAN
  BY <1>2 DEF Types, ListedWereGot, Pkt
<1>4. Acked(e, c1)
  <2>1. CASE p.ack = {}
    BY <1>2, <1>3, <2>1 DEF Acked, AckedBelow
  <2>2. CASE p.ack # {}
    <3> DEFINE f == CHOOSE f \in p.ack : TRUE
    <3>1. f \in p.ack
      BY <2>2
    <3>2. f \in Frame
      BY <1>3, <3>1 DEF Pkt
    <3> HIDE DEF f
    <3>3. validate_ack(f) /\ Numbers(f) \subseteq Got(Peer(e))
      <4>1. /\ validate_ack(f)
            /\ Numbers(f) \subseteq {x.pn : x \in
                 {y \in told[Peer(p.to)].got : p.kind = "hs" => y.kind = "hs"}}
        BY <1>2, <3>1 DEF ListedWereGot
      <4>2. p.to = e
        BY <1>1
      <4> HIDE DEF un, c1, c2, heard, gone, got
      <4> QED
        BY <4>1, <4>2 DEF Got
    <3>4. /\ Decoded(f) \in Frame /\ validate_ack(Decoded(f))
          /\ Numbers(Decoded(f)) \subseteq Got(Peer(e))
      BY <3>2, <3>3, DecodedFrame
    <3>5. c1 = rtb_recv_ack(acktr_recv_ack(conn[e], Decoded(f), un), Decoded(f), un)
      BY <2>2, <3>4 DEF conn_recv_ack, f
    <3> HIDE DEF un, c1
    <3>6. Acked(e, acktr_recv_ack(conn[e], Decoded(f), un))
      BY <1>3, <3>4, AcktrRecvAck
    <3>7. Acked(e, rtb_recv_ack(acktr_recv_ack(conn[e], Decoded(f), un), Decoded(f), un))
      BY <1>3, <3>4, <3>6, RtbRecvAck
    <3> QED
      BY <3>5, <3>7
  <2> QED
    BY <2>1, <2>2
<1> HIDE DEF c1
<1>5. /\ c1 \in Conn /\ c1.ent \subseteq conn[e].ent /\ ~c1.err
  BY <1>3, <1>4 DEF Acked
<1>6. IsFiniteSet(c1.ent) /\ Cardinality(c1.ent) <= NGTCP2_ACKTR_MAX_ENT
  <2>1. /\ IsFiniteSet(c1.ent) /\ Cardinality(c1.ent) <= Cardinality(conn[e].ent)
        /\ Cardinality(c1.ent) \in Nat /\ Cardinality(conn[e].ent) \in Nat
    BY <1>3, <1>5, FS_Subset, FS_CardinalityType
  <2>2. Cardinality(conn[e].ent) <= NGTCP2_ACKTR_MAX_ENT
    BY <1>2 DEF KeptUntilHeard
  <2>3. NGTCP2_ACKTR_MAX_ENT \in Nat
    BY AcksAssumption
  <2> QED
    BY <2>1, <2>2, <2>3
<1>7. \A x \in c1.ent : x.pn # p.pn
  <2>1. p.pn \notin Got(e)
    BY <1>1, <1>2 DEF UsedOnce
  <2>2. \A x \in conn[e].ent : x.pn \in Got(e)
    BY <1>2 DEF EntriesGot, Got
  <2> QED
    BY <1>5, <2>1, <2>2
<1>8. Added(c1, c2, p.pn, p.elicits, un)
  <2> HIDE DEF un
  <2>1. c2 = conn_sched_ack([c1 EXCEPT !.max_rx = Max({@, p.pn})], p.pn, p.elicits, un)
    BY <1>5
  <2> HIDE DEF c2
  <2>2. Added(c1, conn_sched_ack([c1 EXCEPT !.max_rx = Max({@, p.pn})], p.pn,
                                 p.elicits, un), p.pn, p.elicits, un)
    BY <1>3, <1>5, <1>6, <1>7, SchedAck
  <2> QED
    BY <2>1, <2>2
<1> HIDE DEF c2
<1>9. c2 \in Conn /\ IsFiniteSet(c2.ent)
  BY <1>8 DEF Added
<1>10. conn'[e] = c2 /\ conn'[Peer(e)] = conn[Peer(e)] /\ conn' \in [Endpoint -> Conn]
  BY <1>1, <1>3, <1>9, Peers
<1>11. /\ told'[Peer(e)] = told[Peer(e)] /\ told' \in [Endpoint -> Told]
       /\ told'[e].got = told[e].got \cup {got}
       /\ told'[e].heard = told[e].heard \cup heard
       /\ told'[e].listed = told[e].listed
       /\ told'[e].dropped = told[e].dropped
                               \cup ({x.pn : x \in c1.ent} \ {x.pn : x \in c2.ent})
                               \cup ({p.pn} \ {x.pn : x \in c2.ent})
  <2> DEFINE G == told[e].got \cup {got}
             H == told[e].heard \cup heard
             D == told[e].dropped \cup ({x.pn : x \in c1.ent} \ {x.pn : x \in c2.ent})
                                  \cup ({p.pn} \ {x.pn : x \in c2.ent})
             t == [told[e] EXCEPT !.got = G, !.heard = H, !.dropped = D]
  <2>1. told' = [told EXCEPT ![e] = t]
    BY <1>1, <1>3 DEF Told
  <2>2. G \in SUBSET Rcvd
    BY <1>3 DEF Told, Rcvd
  <2>3. H \in SUBSET Int
    BY <1>3, NumbersInt DEF Told
  <2>4. D \in SUBSET Nat
    <3>1. \A x \in c1.ent : x.pn \in Nat
      BY <1>5 DEF Conn, Entry
    <3> QED
      BY <1>3, <3>1 DEF Told
  <2>5. /\ t \in Told /\ t.got = G /\ t.heard = H /\ t.dropped = D
        /\ t.listed = told[e].listed
    <3> HIDE DEF G, H, D
    <3> QED
      BY <1>3, <2>2, <2>3, <2>4 DEF Told
  <2> HIDE DEF t
  <2> QED
    BY <1>3, <2>1, <2>5, Peers
<1>12. Types'
  <2>1. \A d \in Endpoint : IsFiniteSet(conn'[d].ent)
    BY <1>2, <1>9, <1>10, Peers DEF Types
  <2>2. net' \subseteq net
    BY <1>1
  <2> QED
    BY <1>2, <1>10, <1>11, <2>1, <2>2 DEF Types
<1>13. Took(e, p, c1)
  BY <1>1, <1>4, <1>8, <1>10, <1>11 DEF Took
<1> QED
  BY <1>12, <1>13

\* The receipt of a packet keeps the invariant.
LEMMA TookInv ==
    ASSUME Inv, Types', NEW e \in Endpoint, NEW p, NEW c1, Took(e, p, c1)
    PROVE  Preserved
<1> DEFINE un == p.kind = "hs"
           got == [pn |-> p.pn, kind |-> p.kind, elicits |-> p.elicits]
<1>1. /\ p \in net /\ p.to = e /\ (p.kind = "short" => conn[e].post) /\ net' = net \ {p}
      /\ conn'[Peer(e)] = conn[Peer(e)] /\ told'[Peer(e)] = told[Peer(e)]
      /\ told'[e].got = told[e].got \cup {got}
      /\ told'[e].heard = told[e].heard \cup UNION {Numbers(Decoded(f)) : f \in p.ack}
      /\ told'[e].listed = told[e].listed
      /\ told'[e].dropped = told[e].dropped
                              \cup ({x.pn : x \in c1.ent} \ {x.pn : x \in conn'[e].ent})
                              \cup ({p.pn} \ {x.pn : x \in conn'[e].ent})
  BY DEF Took
<1>2. /\ c1.ent \subseteq conn[e].ent
      /\ c1.active_ack = conn[e].active_ack /\ c1.last_tx = conn[e].last_tx
      /\ c1.max_rx = conn[e].max_rx /\ c1.post = conn[e].post /\ c1.err = conn[e].err
      /\ c1.largest_acked <= conn[Peer(e)].max_rx
      /\ \A x \in conn[e].ent \ c1.ent :
           x.pn \in told[e].listed /\ x.pn \in told[e].dropped \cup told[Peer(e)].heard
      /\ \A j \in DOMAIN c1.acks :
           \E i \in DOMAIN conn[e].acks : c1.acks[j] = conn[e].acks[i]
  BY DEF Took, Acked
<1>3. /\ conn'[e].ent \subseteq c1.ent \cup {[pn |-> p.pn, un |-> un]}
      /\ Cardinality(conn'[e].ent) <= NGTCP2_ACKTR_MAX_ENT
      /\ conn'[e].acks = c1.acks /\ conn'[e].last_tx = conn[e].last_tx
      /\ conn'[e].post = conn[e].post /\ conn'[e].err = conn[e].err
      /\ conn'[e].largest_acked = c1.largest_acked
      /\ conn'[e].max_rx >= p.pn /\ conn'[e].max_rx >= conn[e].max_rx
      /\ conn'[e].active_ack = (conn[e].active_ack \/ p.elicits)
      /\ conn'[e].active_ack => conn'[e].next_ack_expiry \/ conn'[e].immediate_ack
  BY <1>2 DEF Took, Added
<1>4. /\ Types /\ UsedOnce /\ EntriesGot /\ RingSent /\ AckedBelow
      /\ ListedWereGot /\ KeptUntilHeard /\ OwedIsTimed
  BY DEF Inv
<1>5. /\ p \in Pkt /\ p.pn \in Nat /\ net' \subseteq net
      /\ \A q \in net : q.to \in Endpoint
      /\ \A d \in Endpoint : conn[d].max_rx \in Nat /\ conn'[d].max_rx \in Nat
  BY <1>1, <1>4 DEF Types, Pkt, Conn
<1>6. /\ Got(e)' = Got(e) \cup {p.pn} /\ Got(Peer(e))' = Got(Peer(e))
      /\ p.pn \notin Got(e)
  <2>1. got.pn = p.pn
    OBVIOUS
  <2> HIDE DEF got
  <2>2. Got(e)' = Got(e) \cup {p.pn} /\ Got(Peer(e))' = Got(Peer(e))
    BY <1>1, <2>1 DEF Got
  <2>3. p.pn \notin Got(e)
    BY <1>1, <1>4 DEF UsedOnce
  <2> QED
    BY <2>2, <2>3
<1>7. \A d \in Endpoint : /\ conn'[d].last_tx = conn[d].last_tx
                          /\ conn'[d].post = conn[d].post /\ conn'[d].err = conn[d].err
                          /\ told[d].got \subseteq told'[d].got
                          /\ told[d].heard \subseteq told'[d].heard
                          /\ told'[d].listed = told[d].listed
                          /\ told[d].dropped \subseteq told'[d].dropped
  BY <1>1, <1>3, Peers
<1>8. UsedOnce'
  <2>1. \A q \in net' : q.to = e => q.pn # p.pn
    BY <1>1, <1>4 DEF UsedOnce
  <2>2. \A q \in net' : /\ q.pn \in 1..conn'[Peer(q.to)].last_tx
                        /\ q.pn \notin Got(q.to)'
    BY <1>4, <1>5, <1>6, <1>7, <2>1, Peers DEF UsedOnce
  <2>3. \A q, r \in net' : q.to = r.to /\ q.pn = r.pn => q = r
    BY <1>4, <1>5 DEF UsedOnce
  <2>4. \A d \in Endpoint : (Got(d) \subseteq 1..conn[Peer(d)].last_tx)'
    <3>1. p.pn \in 1..conn[Peer(e)].last_tx
      BY <1>1, <1>4 DEF UsedOnce
    <3> QED
      BY <1>4, <1>6, <1>7, <3>1, Peers DEF UsedOnce
  <2>5. \A d \in Endpoint : \A x, y \in told'[d].got : x.pn = y.pn => x = y
    <3>1. \A x \in told[e].got : x.pn # p.pn
      BY <1>6 DEF Got
    <3>2. got.pn = p.pn
      OBVIOUS
    <3> HIDE DEF got
    <3>3. \A x, y \in told'[e].got : x.pn = y.pn => x = y
      BY <1>1, <1>4, <3>1, <3>2 DEF UsedOnce
    <3> QED
      BY <1>1, <1>4, <3>3, Peers DEF UsedOnce
  <2> QED
    BY <2>2, <2>3, <2>4, <2>5 DEF UsedOnce
<1>9. EntriesGot'
  <2> SUFFICES ASSUME NEW d \in Endpoint
               PROVE  /\ \A x \in conn'[d].ent : \E y \in told'[d].got :
                           y.pn = x.pn /\ (x.un <=> y.kind = "hs")
                      /\ ~conn'[d].post => \A y \in told'[d].got : y.kind # "short"
    BY DEF EntriesGot
  <2>1. CASE d = Peer(e)
    BY <1>1, <1>4, <2>1 DEF EntriesGot
  <2>2. CASE d = e
    <3>1. ASSUME NEW x \in conn'[e].ent
          PROVE  \E y \in told'[e].got : y.pn = x.pn /\ (x.un <=> y.kind = "hs")
      <4>1. CASE x \in c1.ent
        BY <1>2, <1>4, <1>7, <4>1 DEF EntriesGot
      <4>2. CASE x = [pn |-> p.pn, un |-> un]
        <5>1. got \in told'[e].got
          BY <1>1
        <5>2. got.pn = x.pn /\ (x.un <=> got.kind = "hs")
          BY <4>2
        <5> QED
          BY <5>1, <5>2
      <4> QED
        BY <1>3, <4>1, <4>2
    <3>2. ~conn'[e].post => \A y \in told'[e].got : y.kind # "short"
      BY <1>1, <1>3, <1>4 DEF EntriesGot
    <3> QED
      BY <2>2, <3>1, <3>2
  <2> QED
    BY <2>1, <2>2, Peers
<1>10. RingSent'
  <2> DEFINE Ok(d, a) ==
          /\ a.pn \in 1..conn[d].last_tx
          /\ Numbers(a.fr) \subseteq told[d].listed
          /\ \A x \in Numbers(a.fr) : \/ x \in Numbers(Decoded(a.fr))
                                      \/ x \in told[d].dropped
          /\ \A q \in net : q.to = Peer(d) /\ q.pn = a.pn => q.ack = {a.fr}
          /\ a.pn \in Got(Peer(d)) =>
               Numbers(Decoded(a.fr)) \subseteq told[Peer(d)].heard
  <2>1. \A d \in Endpoint : \A j \in DOMAIN conn[d].acks : Ok(d, conn[d].acks[j])
    BY <1>4 DEF RingSent
  <2> SUFFICES ASSUME NEW d \in Endpoint, NEW j \in DOMAIN conn'[d].acks
               PROVE  /\ conn'[d].acks[j].pn \in 1..conn'[d].last_tx
                      /\ Numbers(conn'[d].acks[j].fr) \subseteq told'[d].listed
                      /\ \A x \in Numbers(conn'[d].acks[j].fr) :
                           \/ x \in Numbers(Decoded(conn'[d].acks[j].fr))
                           \/ x \in told'[d].dropped
                      /\ \A q \in net' :
                           q.to = Peer(d) /\ q.pn = conn'[d].acks[j].pn
                             => q.ack = {conn'[d].acks[j].fr}
                      /\ conn'[d].acks[j].pn \in Got(Peer(d))' =>
                           Numbers(Decoded(conn'[d].acks[j].fr))
                             \subseteq told'[Peer(d)].heard
    BY DEF RingSent
  <2> DEFINE a == conn'[d].acks[j]
  <2>2. Ok(d, a)
    <3>1. CASE d = e
      BY <1>2, <1>3, <2>1, <3>1
    <3>2. CASE d = Peer(e)
      BY <1>1, <2>1, <3>2
    <3> QED
      BY <3>1, <3>2, Peers
  <2> HIDE DEF a
  <2>3. a.pn \in Got(Peer(d))' => Numbers(Decoded(a.fr)) \subseteq told'[Peer(d)].heard
    <3> SUFFICES ASSUME a.pn \in Got(Peer(d))'
                 PROVE  Numbers(Decoded(a.fr)) \subseteq told'[Peer(d)].heard
      OBVIOUS
    <3>1. CASE a.pn \in Got(Peer(d))
      BY <1>7, <2>2, <3>1, Peers
    <3>2. CASE a.pn \notin Got(Peer(d))
      <4>1. Peer(d) = e /\ a.pn = p.pn
        BY <1>6, <3>2, Peers
      <4>2. p.ack = {a.fr}
        BY <1>1, <2>2, <4>1
      <4> QED
        BY <1>1, <4>1, <4>2
    <3> QED
      BY <3>1, <3>2
  <2>4. \A q \in net' : q.to = Peer(d) /\ q.pn = a.pn => q.ack = {a.fr}
    BY <1>5, <2>2
  <2> QED
    BY <1>7, <2>2, <2>3, <2>4 DEF a
<1>11. AckedBelow'
  <2>1. \A d \in Endpoint : conn[d].max_rx <= conn'[d].max_rx
    BY <1>1, <1>3, <1>5, Peers
  <2>2. \A d \in Endpoint : \A x \in Got(d)' : x <= conn'[d].max_rx
    <3> SUFFICES ASSUME NEW d \in Endpoint, NEW x \in Got(d)'
                 PROVE  x <= conn'[d].max_rx
      OBVIOUS
    <3>1. CASE x \in Got(d)
      <4>1. x \in Nat
        BY <1>4, <3>1 DEF Got, Types, Told, Rcvd
      <4> QED
        BY <1>4, <1>5, <2>1, <3>1, <4>1 DEF AckedBelow
    <3>2. CASE x \notin Got(d)
      BY <1>3, <1>5, <1>6, <3>2, Peers
    <3> QED
      BY <3>1, <3>2
  <2>3. \A d \in Endpoint : conn'[d].largest_acked <= conn'[Peer(d)].max_rx
    <3>1. \A d \in Endpoint : conn[d].largest_acked \in Nat
      BY <1>4 DEF Types, Conn
    <3>2. conn'[e].largest_acked <= conn'[Peer(e)].max_rx
      BY <1>1, <1>2, <1>3
    <3>3. conn'[Peer(e)].largest_acked <= conn'[Peer(Peer(e))].max_rx
      BY <1>1, <1>4, <1>5, <2>1, <3>1, Peers DEF AckedBelow
    <3> QED
      BY <3>2, <3>3, Peers
  <2> QED
    BY <2>2, <2>3 DEF AckedBelow
<1>12. ListedWereGot'
  <2>1. \A q \in net' : Peer(q.to) \in Endpoint
    BY <1>5, Peers
  <2>2. \A d \in Endpoint : ~conn'[d].err
    BY <1>4, <1>7 DEF ListedWereGot
  <2> QED
    BY <1>4, <1>5, <1>7, <2>1, <2>2 DEF ListedWereGot
<1>13. KeptUntilHeard'
  <2>1. Cardinality(conn'[Peer(e)].ent) <= NGTCP2_ACKTR_MAX_ENT
    BY <1>1, <1>4, Peers DEF KeptUntilHeard
  <2>2. (Got(Peer(e)) \subseteq Kept(Peer(e)) \cup told[Peer(e)].dropped \cup told[e].heard)'
    BY <1>1, <1>4, <1>6, <1>7, Peers DEF KeptUntilHeard, Kept
  <2>3. (Got(e) \subseteq Kept(e) \cup told[e].dropped \cup told[Peer(e)].heard)'
    <3> SUFFICES ASSUME NEW n \in Got(e)', n \notin Kept(e)', n \notin told'[e].dropped
                 PROVE  n \in told'[Peer(e)].heard
      OBVIOUS
    <3>1. n # p.pn
      BY <1>1 DEF Kept
    <3>2. n \in Got(e)
      BY <1>6, <3>1
    <3>3. CASE n \in Kept(e)
      <4>1. PICK x \in conn[e].ent : x.pn = n
        BY <3>3 DEF Kept
      <4>2. x \notin c1.ent
        BY <1>1, <4>1 DEF Kept
      <4> QED
        BY <1>1, <1>2, <1>7, <4>1, <4>2
    <3>4. CASE n \notin Kept(e)
      BY <1>1, <1>4, <1>7, <3>2, <3>4 DEF KeptUntilHeard
    <3> QED
      BY <3>3, <3>4
  <2>4. \A d \in Endpoint : d = e \/ (d = Peer(e) /\ Peer(d) = e)
    BY Peers
  <2> QED
    BY <1>3, <2>1, <2>2, <2>3, <2>4 DEF KeptUntilHeard
<1>14. OwedIsTimed'
  <2> SUFFICES ASSUME NEW d \in Endpoint, NEW x \in told'[d].got,
                      x.elicits, x.kind # "0rtt",
                      x.pn \notin told'[d].listed \cup told'[d].dropped
               PROVE  /\ conn'[d].active_ack /\ x.pn \in Kept(d)'
                      /\ conn'[d].next_ack_expiry \/ conn'[d].immediate_ack
    BY DEF OwedIsTimed
  <2>1. CASE d = Peer(e)
    BY <1>1, <1>4, <2>1 DEF OwedIsTimed, Kept
  <2>2. CASE d = e /\ x = got
    <3>1. x.pn = p.pn /\ x.elicits = p.elicits
      BY <2>2
    <3>2. x.pn \in Kept(e)'
      BY <1>1, <2>2, <3>1 DEF Kept
    <3> HIDE DEF got
    <3> QED
      BY <1>3, <2>2, <3>1, <3>2
  <2>3. CASE d = e /\ x \in told[e].got
    <3>1. conn[e].active_ack /\ x.pn \in Kept(e) /\ x.pn \notin told[e].listed
      BY <1>4, <1>7, <2>3 DEF OwedIsTimed
    <3>2. PICK y \in conn[e].ent : y.pn = x.pn
      BY <3>1 DEF Kept
    <3>3. y \in c1.ent
      BY <1>2, <3>1, <3>2
    <3>4. x.pn \in Kept(e)'
      BY <1>1, <2>3, <3>2, <3>3 DEF Kept
    <3> QED
      BY <1>3, <2>3, <3>1, <3>4
  <2> QED
    BY <1>1, <2>1, <2>2, <2>3, Peers
<1>15. ASSUME InWindow PROVE InWindow'
  <2>1. \A d \in Endpoint : /\ conn[d].max_rx <= conn'[d].max_rx
                            /\ conn'[d].budget = conn[d].budget
    <3>1. conn'[e].budget = conn[e].budget
      BY DEF Took, Acked, Added
    <3> QED
      BY <1>1, <1>3, <1>5, <3>1, Peers
  <2>2. ASSUME NEW q \in net'
        PROVE  /\ 2 ^ q.bits \in Nat \ {0}
               /\ 2 * (q.pn - conn'[q.to].max_rx - 1) <= 2 ^ q.bits
    <3>1. /\ q \in net /\ q.to \in Endpoint /\ q.pn \in Nat /\ 2 ^ q.bits \in Nat \ {0}
          /\ 2 * (q.pn - conn[q.to].max_rx - 1) <= 2 ^ q.bits
      BY <1>4, <1>5, <1>15 DEF InWindow, Types, Pkt
    <3>2. /\ conn[q.to].max_rx \in Nat /\ conn'[q.to].max_rx \in Nat
          /\ conn[q.to].max_rx <= conn'[q.to].max_rx
      BY <1>5, <2>1, <3>1
    <3> DEFINE X == 2 ^ q.bits
    <3> HIDE DEF X
    <3>3. 2 * (q.pn - conn'[q.to].max_rx - 1) <= X
      BY <3>1, <3>2 DEF X
    <3> QED
      BY <3>1, <3>3 DEF X
  <2> QED
    BY <1>15, <2>1, <2>2 DEF InWindow
<1> QED
  BY <1>8, <1>9, <1>10, <1>11, <1>12, <1>13, <1>14, <1>15 DEF Inv, Preserved

\* A packet that is lost, or whose number comes out wrong, only leaves net.
LEMMA LostInv ==
    ASSUME Inv, NEW p \in net, net' = net \ {p}, UNCHANGED <<conn, told>>
    PROVE  Preserved
<1>1. net' \subseteq net /\ conn' = conn /\ told' = told
  OBVIOUS
<1>2. /\ Types /\ UsedOnce /\ EntriesGot /\ RingSent /\ AckedBelow
      /\ ListedWereGot /\ KeptUntilHeard /\ OwedIsTimed
  BY DEF Inv
<1>3. \A d : Got(d)' = Got(d) /\ Kept(d)' = Kept(d)
  BY <1>1 DEF Got, Kept
<1>4. Types'
  BY <1>1, <1>2 DEF Types
<1>5. UsedOnce'
  BY <1>1, <1>2, <1>3 DEF UsedOnce
<1>6. EntriesGot'
  BY <1>1, <1>2 DEF EntriesGot
<1>7. RingSent'
  BY <1>1, <1>2, <1>3 DEF RingSent
<1>8. AckedBelow'
  BY <1>1, <1>2, <1>3 DEF AckedBelow
<1>9. ListedWereGot'
  BY <1>1, <1>2 DEF ListedWereGot
<1>10. KeptUntilHeard'
  BY <1>1, <1>2, <1>3 DEF KeptUntilHeard
<1>11. OwedIsTimed'
  BY <1>1, <1>2, <1>3 DEF OwedIsTimed
<1>12. InWindow => InWindow'
  BY <1>1 DEF InWindow
<1> QED
  BY <1>4, <1>5, <1>6, <1>7, <1>8, <1>9, <1>10, <1>11, <1>12 DEF Inv, Preserved

\* conn_recv_pkt keeps the invariant.
LEMMA RecvInv ==
    ASSUME Inv, NEW e \in Endpoint, NEW p \in net, conn_recv_pkt(e, p)
    PROVE  Preserved
<1> DEFINE pn == adjust_pkt_num(conn[e].max_rx, p.pn % 2 ^ p.bits, p.bits)
<1>1. CASE pn = p.pn
  <2>1. Types' /\ \E c1 : Took(e, p, c1)
    BY <1>1, RecvDoes
  <2> QED
    BY <2>1, TookInv
<1>2. CASE pn # p.pn
  <2>1. net' = net \ {p} /\ UNCHANGED <<conn, told>>
    BY <1>2 DEF conn_recv_pkt
  <2> QED
    BY <2>1, LostInv
<1> QED
  BY <1>1, <1>2

---------------------------------------------------------------------------
(* The theorems.                                                           *)

\* The invariant holds when a connection starts.
LEMMA InvInit == Init => Inv
<1> SUFFICES ASSUME Init PROVE Inv
  OBVIOUS
<1>1. PICK post \in BOOLEAN, b \in Budgets :
        conn = [e \in Endpoint |-> [Fresh EXCEPT !.post = post, !.budget = b[e]]]
  BY DEF Init
<1>2. /\ net = {}
      /\ told = [e \in Endpoint |->
                   [got |-> {}, heard |-> {}, listed |-> {}, dropped |-> {}]]
  BY DEF Init
<1>3. ASSUME NEW e \in Endpoint
      PROVE  /\ conn[e] \in Conn /\ conn[e].ent = {} /\ conn[e].acks = <<>>
             /\ conn[e].err = FALSE /\ conn[e].largest_acked = 0 /\ conn[e].max_rx = 0
  <2>1. b[e] \in Nat
    BY AcksAssumption DEF Endpoint
  <2>2. conn[e] = [Fresh EXCEPT !.post = post, !.budget = b[e]]
    BY <1>1
  <2> QED
    <3> DEFINE F == [Fresh EXCEPT !.post = post, !.budget = b[e]]
    <3>1. <<>> \in Seq(Sent)
      OBVIOUS
    <3>2. /\ Fresh \in Conn /\ Fresh.ent = {} /\ Fresh.acks = <<>> /\ Fresh.err = FALSE
          /\ Fresh.largest_acked = 0 /\ Fresh.max_rx = 0
      BY <3>1 DEF Fresh, Conn
    <3>3. /\ F \in Conn /\ F.ent = Fresh.ent /\ F.acks = Fresh.acks /\ F.err = Fresh.err
          /\ F.largest_acked = Fresh.largest_acked /\ F.max_rx = Fresh.max_rx
      BY <2>1, <3>2 DEF Conn
    <3> QED
      BY <2>2, <3>2, <3>3
<1>4. ASSUME NEW e \in Endpoint
      PROVE  /\ told[e] \in Told /\ told[e].got = {} /\ Got(e) = {}
  BY <1>2 DEF Told, Got
<1>5. Types
  <2>1. conn \in [Endpoint -> Conn]
    <3>1. conn = [e \in Endpoint |-> conn[e]]
      BY <1>1
    <3> QED
      BY <1>3, <3>1
  <2>2. told \in [Endpoint -> Told]
    BY <1>2 DEF Told
  <2>3. \A e \in Endpoint : IsFiniteSet(conn[e].ent)
    BY <1>3, FS_EmptySet
  <2> QED
    BY <1>2, <2>1, <2>2, <2>3 DEF Types
<1>6. UsedOnce /\ EntriesGot /\ OwedIsTimed
  BY <1>2, <1>3, <1>4 DEF UsedOnce, EntriesGot, OwedIsTimed
<1>7. RingSent
  <2>1. DOMAIN <<>> = {}
    OBVIOUS
  <2> QED
    BY <1>3, <2>1 DEF RingSent
<1>8. AckedBelow
  <2>1. \A e \in Endpoint : conn[Peer(e)].max_rx = 0 /\ conn[e].largest_acked = 0
    BY <1>3, Peers
  <2> QED
    BY <1>4, <2>1 DEF AckedBelow
<1>9. ListedWereGot
  BY <1>2, <1>3 DEF ListedWereGot
<1>10. KeptUntilHeard
  <2>1. Cardinality({}) = 0 /\ 0 <= NGTCP2_ACKTR_MAX_ENT
    BY FS_EmptySet, AcksAssumption
  <2> QED
    BY <1>3, <1>4, <2>1 DEF KeptUntilHeard
<1> QED
  BY <1>5, <1>6, <1>7, <1>8, <1>9, <1>10 DEF Inv

\* Every step keeps the invariant.
LEMMA InvNext == Inv /\ [Next]_vars => Preserved
<1> SUFFICES ASSUME Inv, [Next]_vars PROVE Preserved
  OBVIOUS
<1>1. CASE UNCHANGED vars
  BY <1>1 DEF vars, Preserved, InWindow, Inv, Types, UsedOnce, EntriesGot, RingSent, AckedBelow, Got, Kept,
              ListedWereGot, KeptUntilHeard, OwedIsTimed
<1>2. ASSUME NEW e \in Endpoint, Write(e) \/ WriteAck(e) PROVE Preserved
  BY <1>2, WriteInv
<1>3. ASSUME NEW e \in Endpoint, close_stream(e) PROVE Preserved
  <2> DEFINE c == [conn[e] EXCEPT !.immediate_ack = TRUE]
  <2>1. Keep(e, c) /\ conn[e] \in Conn
    BY <1>3 DEF close_stream, conn_immediate_ack, Inv, Types
  <2>2. /\ c \in Conn /\ c.ent = conn[e].ent /\ c.acks = conn[e].acks
        /\ c.last_tx = conn[e].last_tx /\ c.largest_acked = conn[e].largest_acked
        /\ c.max_rx = conn[e].max_rx /\ c.err = conn[e].err
        /\ c.budget = conn[e].budget /\ c.post = conn[e].post
        /\ c.active_ack = conn[e].active_ack /\ c.immediate_ack
    BY <2>1 DEF Conn
  <2> HIDE DEF c
  <2> QED
    BY <2>1, <2>2, KeepInv
<1>4. ASSUME NEW e \in Endpoint, handshake_completed(e) PROVE Preserved
  <2> DEFINE c == [conn[e] EXCEPT !.post = TRUE]
  <2>1. Keep(e, c) /\ conn[e] \in Conn
    BY <1>4 DEF handshake_completed, Inv, Types
  <2>2. /\ c \in Conn /\ c.ent = conn[e].ent /\ c.acks = conn[e].acks
        /\ c.last_tx = conn[e].last_tx /\ c.largest_acked = conn[e].largest_acked
        /\ c.max_rx = conn[e].max_rx /\ c.err = conn[e].err
        /\ c.budget = conn[e].budget /\ c.post
        /\ c.active_ack = conn[e].active_ack /\ c.immediate_ack = conn[e].immediate_ack
        /\ c.next_ack_expiry = conn[e].next_ack_expiry
    BY <2>1 DEF Conn
  <2> HIDE DEF c
  <2> QED
    BY <2>1, <2>2, KeepInv
<1>5. ASSUME NEW e \in Endpoint, NEW p \in net, conn_recv_pkt(e, p) PROVE Preserved
  BY <1>5, RecvInv
<1> QED
  BY <1>1, <1>2, <1>3, <1>4, <1>5 DEF Next

\* ListedWereGot holds for every limit on the tracker, the frames and the
\* ring, whatever the network loses or reorders: no ACK frame that
\* conn_create_ack_frame makes is refused by pkt_validate_ack or lists a
\* packet that did not arrive, and none in an unprotected packet lists a
\* protected one.
THEOREM NoFalseAck == Spec => []ListedWereGot
<1>1. Inv => ListedWereGot
  BY DEF Inv
<1>2. Inv /\ [Next]_vars => Inv'
  BY InvNext DEF Preserved
<1> QED
  BY <1>1, <1>2, InvInit, PTL DEF Spec

\* KeptUntilHeard holds: ngtcp2_acktr_recv_ack takes out of the tracker
\* only what the peer has been told of, though frames are cut, the ring
\* forgets, and ACKs of ACKs are lost and reordered.
THEOREM NoneForgottenUnheard == Spec => []KeptUntilHeard
<1>1. Inv => KeptUntilHeard
  BY DEF Inv
<1>2. Inv /\ [Next]_vars => Inv'
  BY InvNext DEF Preserved
<1> QED
  BY <1>1, <1>2, InvInit, PTL DEF Spec

\* OwedIsTimed holds: between conn_sched_ack, the writers that clear
\* active_ack or the timer and the loss of their packets, a received packet
\* that asks for an ACK is in a frame, or was dropped, or the timer runs.
THEOREM NoAckOverlooked == Spec => []OwedIsTimed
<1>1. Inv => OwedIsTimed
  BY DEF Inv
<1>2. Inv /\ [Next]_vars => Inv'
  BY InvNext DEF Preserved
<1> QED
  BY <1>1, <1>2, InvInit, PTL DEF Spec

\* NewestRecovered holds as long as no endpoint sends more packets than
\* half of the longest window holds (2^31 and one more): the length that
\* conn_select_pkt_type chooses from the largest acknowledged number is
\* enough for adjust_pkt_num, though the acknowledgement is older than what
\* the receiver has seen and any number of packets were lost in between.
THEOREM NewestIsRecovered == FewPackets => (Spec => []NewestRecovered)
<1> SUFFICES ASSUME FewPackets PROVE Spec => []NewestRecovered
  OBVIOUS
<1>1. Init => InWindow
  <2> SUFFICES ASSUME Init PROVE InWindow
    OBVIOUS
  <2>1. PICK post \in BOOLEAN, b \in Budgets :
          conn = [e \in Endpoint |-> [Fresh EXCEPT !.post = post, !.budget = b[e]]]
    BY DEF Init
  <2>2. \A e \in Endpoint : conn[e].budget = b[e]
    BY <2>1 DEF Fresh
  <2>3. \A e \in Endpoint : 2 * (b[e] - 1) <= 2 ^ Bits[3]
    BY DEF FewPackets
  <2>4. net = {}
    BY DEF Init
  <2> QED
    BY <2>2, <2>3, <2>4 DEF InWindow
<1>2. Inv /\ InWindow /\ [Next]_vars => Inv' /\ InWindow'
  BY InvNext DEF Preserved
<1>3. Inv /\ InWindow => NewestRecovered
  <2> SUFFICES ASSUME Inv, InWindow, NEW p \in net, p.pn > conn[p.to].max_rx
               PROVE  adjust_pkt_num(conn[p.to].max_rx, p.pn % 2 ^ p.bits, p.bits) = p.pn
    BY DEF NewestRecovered
  <2>1. p.pn \in Nat /\ p.bits \in Nat /\ conn[p.to].max_rx \in Nat
    BY DEF Inv, Types, Pkt, Conn
  <2>2. /\ 2 ^ p.bits \in Nat \ {0}
        /\ 2 * (p.pn - conn[p.to].max_rx - 1) <= 2 ^ p.bits
    BY DEF InWindow
  <2> QED
    BY <2>1, <2>2, AdjustAbove
<1> QED
  BY <1>1, <1>2, <1>3, InvInit, PTL DEF Spec
=============================================================================
