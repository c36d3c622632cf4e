--------------------------- MODULE SelectionProofs ---------------------------
(***************************************************************************)
(* Server selection: what the forwarding loops of examples/balancer.cc     *)
(* do with measurement lists of any length, for any measurements.          *)
(***************************************************************************)
EXTENDS MCSelection, Induction

Entries == [dc : DC, val : Int]

\* A list as std::sort leaves it, with one entry for each data center.
IsList(d, t) ==
    /\ t \in Seq(Entries)
    /\ \A i, j \in DOMAIN t : t[i].dc = t[j].dc => i = j
    /\ \A i, j \in DOMAIN t : i < j => NotAfter(d, t[i], t[j])

\* What a loop keeps from round to round.
Rounds == [sent : Seq(DC), best : Int]
Start == [sent |-> << >>, best |-> 0]

\* Places among the first k of the list t that may be used, and those of them
\* that may have a redundant copy if m is the place of the first destination.
Usables(d, t, dep, k) == {i \in 1..k : Eligible(d, t[i], dep)}
Fits(d, t, lat, dep, k, m) ==
    {i \in Usables(d, t, dep, k) \ {m} :
       check_redundant_suitable(t[i].dc, t[m].val, t[i].val, lat)}

\* After k rounds the first usable entry is the first destination, the others
\* are fit, and there are as many as fit or redundancy allows.
FirstIs(d, t, lat, dep, r, acc, k, m) ==
    /\ m \in Usables(d, t, dep, k)
    /\ \A j \in Usables(d, t, dep, k) : m <= j
    /\ acc.best = t[m].val
    /\ acc.sent # << >> /\ acc.sent[1] = t[m].dc
    /\ \A n \in 2..Len(acc.sent) :
         \E i \in Fits(d, t, lat, dep, k, m) : t[i].dc = acc.sent[n]
    /\ Len(acc.sent) = IF r <= Cardinality(Fits(d, t, lat, dep, k, m)) THEN r + 1
                       ELSE Cardinality(Fits(d, t, lat, dep, k, m)) + 1

Walked(d, t, lat, dep, r, acc, k) ==
    IF Usables(d, t, dep, k) = {} THEN acc.sent = << >>
    ELSE \E m \in Nat : FirstIs(d, t, lat, dep, r, acc, k, m)

\* a has what is kept after each round of a forwarding loop.
Runs(a, d, t, lat, dep, r) ==
    /\ a \in [0..Len(t) -> Rounds]
    /\ a[0] = Start
    /\ \A k \in 1..Len(t) : a[k] = LoopStep(d, lat, dep, r, a[k - 1], t[k])
    /\ ForwardLoop(d, t, lat, dep, r) = a[Len(t)].sent

\* An entry of a list.
LEMMA EntryTyped ==
    ASSUME NEW t \in Seq(Entries), NEW i \in DOMAIN t
    PROVE  t[i] \in Entries /\ t[i].val \in Int
<1>1. t[i] \in Entries
  OBVIOUS
<1> QED
  BY <1>1 DEF Entries

\* A round keeps the types.
LEMMA RoundTyped ==
    ASSUME NEW d, NEW lat, NEW dep, NEW r, NEW acc \in Rounds, NEW e \in Entries
    PROVE  LoopStep(d, lat, dep, r, acc, e) \in Rounds
BY DEF LoopStep, Rounds, Entries

\* A forwarding loop makes one round for each entry of its list.
LEMMA LoopRuns ==
    ASSUME NEW d, NEW t \in Seq(Entries), NEW lat, NEW dep, NEW r
    PROVE  \E a : Runs(a, d, t, lat, dep, r)
<1> DEFINE R == DOMAIN t
           Step(a, x) == LoopStep(d, lat, dep, r, a, x)
           Eq(it) == it = [s \in SUBSET R |-> IF s = {} THEN Start
                             ELSE Step(it[s \ {Max(s)}], t[Max(s)])]
           last == (CHOOSE it : Eq(it))[R]
           ch == [s \in SUBSET R |-> Max(s)]
           step == [z \in R \X Rounds |-> Step(z[2], t[z[1]])]
<1>1. ForwardLoop(d, t, lat, dep, r) = last.sent
  BY DEF ForwardLoop, FoldLeft, MapThenFoldSet, Start
<1>2. R = 1..Len(t) /\ Len(t) \in Nat
  OBVIOUS
<1>3. IsFiniteSet(R)
  BY <1>2, FS_Interval
<1>4. ASSUME NEW s \in SUBSET R, s # {} PROVE ch[s] = Max(s) /\ Max(s) \in s
  BY <1>2, <1>4, LastOfSome
<1>5. Start \in Rounds
  BY DEF Start, Rounds
<1>6. ASSUME NEW a \in Rounds, NEW i \in R PROVE Step(a, t[i]) \in Rounds
  BY RoundTyped
<1> HIDE DEF Step
<1>7. \E it \in [SUBSET R -> Rounds] : Eq(it)
  <2>1. \A z \in R \X Rounds : step[z] = Step(z[2], t[z[1]])
    OBVIOUS
  <2>2. ASSUME NEW i \in R, NEW a \in Rounds
        PROVE  step[<<i, a>>] = Step(a, t[i]) /\ step[<<i, a>>] \in Rounds
    BY <1>6, <2>1, <2>2
  <2> HIDE DEF step
  <2>3. Chooses(ch, R) /\ StepsWithin(step, R, Rounds)
    BY <1>4, <2>2 DEF Chooses, StepsWithin
  <2> HIDE DEF ch
  <2>4. PICK it \in [SUBSET R -> Rounds] : IsFold(it, R, Start, ch, step)
    BY <1>3, <1>5, <2>3, FoldExists
  <2>5. ASSUME NEW s \in SUBSET R
        PROVE  it[s] = IF s = {} THEN Start ELSE Step(it[s \ {Max(s)}], t[Max(s)])
    <3>1. CASE s = {}
      BY <2>4, <3>1 DEF IsFold
    <3>2. CASE s # {}
      <4>1. ch[s] = Max(s) /\ Max(s) \in R /\ s \ {Max(s)} \in SUBSET R
        BY <1>4, <3>2
      <4>2. it[s \ {Max(s)}] \in Rounds
        BY <2>4, <4>1
      <4>3. it[s] = step[<<Max(s), it[s \ {Max(s)}]>>]
        BY <2>4, <3>2, <4>1 DEF IsFold
      <4> QED
        BY <2>2, <3>2, <4>1, <4>2, <4>3
    <3> QED
      BY <3>1, <3>2
  <2>6. Eq(it)
    BY <2>4, <2>5
  <2> QED
    BY <2>4, <2>6
<1> DEFINE it == CHOOSE it : Eq(it)
<1>8. Eq(it)
  BY <1>7
<1> HIDE DEF it
<1>9. last = it[R]
  BY DEF it
<1> DEFINE a == [k \in 0..Len(t) |-> it[1..k]]
<1>10. a[0] = Start
  <2>1. 1..0 = {} /\ {} \in SUBSET R /\ 0 \in 0..Len(t)
    BY <1>2
  <2> QED
    BY <1>8, <2>1
<1>11. ASSUME NEW k \in 1..Len(t) PROVE a[k] = Step(a[k - 1], t[k])
  <2>1. /\ k \in Nat \ {0} /\ k - 1 \in 0..Len(t) /\ k \in 0..Len(t)
        /\ 1..k \in SUBSET R /\ k \in 1..k
    BY <1>2
  <2>2. Max(1..k) = k /\ (1..k) \ {k} = 1..(k - 1)
    BY <2>1, LastPlace
  <2>3. a[k] = it[1..k] /\ a[k - 1] = it[1..(k - 1)] /\ 1..k # {}
    BY <2>1
  <2>4. it[1..k] = Step(it[(1..k) \ {Max(1..k)}], t[Max(1..k)])
    BY <1>8, <2>1, <2>3
  <2> QED
    BY <2>2, <2>3, <2>4
<1>12. a[Len(t)] = it[R]
  BY <1>2
<1>13. a \in [0..Len(t) -> Rounds]
  <2> DEFINE P == {k \in Nat : k <= Len(t) => a[k] \in Rounds}
  <2>1. 0 \in P
    BY <1>5, <1>10
  <2>2. ASSUME NEW k \in Nat, k \in P PROVE k + 1 \in P
    <3> SUFFICES ASSUME k + 1 <= Len(t) PROVE a[k + 1] \in Rounds
      OBVIOUS
    <3>1. k + 1 \in 1..Len(t) /\ (k + 1) - 1 = k /\ k + 1 \in R
      BY <1>2
    <3>2. a[k] \in Rounds
      BY <1>2, <2>2
    <3>3. a[k + 1] = Step(a[k], t[k + 1])
      BY <1>11, <3>1
    <3> HIDE DEF a
    <3> QED
      BY <1>6, <3>1, <3>2, <3>3
  <2>3. \A k \in Nat : k \in P
    <3> HIDE DEF P
    <3> QED
      BY <2>1, <2>2, SetInduction
  <2>4. ASSUME NEW k \in 0..Len(t) PROVE a[k] \in Rounds /\ a[k] = it[1..k]
    <3>1. k \in Nat /\ k <= Len(t)
      BY <1>2
    <3>2. k \in P
      BY <2>3, <3>1
    <3>3. a[k] = it[1..k]
      OBVIOUS
    <3> HIDE DEF a
    <3> QED
      BY <3>1, <3>2, <3>3
  <2> QED
    BY <2>4
<1> HIDE DEF a
<1> QED
  BY <1>1, <1>9, <1>10, <1>11, <1>12, <1>13 DEF Step, Runs

\* One round more.
LEMMA RoundWalked ==
    ASSUME NEW d, NEW t \in Seq(Entries), NEW lat, NEW dep, NEW r \in Nat,
           NEW acc \in Rounds, NEW k \in Nat, k + 1 \in DOMAIN t,
           Walked(d, t, lat, dep, r, acc, k),
           NEW b, b = LoopStep(d, lat, dep, r, acc, t[k + 1])
    PROVE  Walked(d, t, lat, dep, r, b, k + 1)
<1> DEFINE e == t[k + 1]
           U == Usables(d, t, dep, k)
           V == Usables(d, t, dep, k + 1)
           F(m) == Fits(d, t, lat, dep, k, m)
           G(m) == Fits(d, t, lat, dep, k + 1, m)
           Suit(m) == check_redundant_suitable(e.dc, t[m].val, e.val, lat)
<1>1. acc.sent \in Seq(DC) /\ Len(acc.sent) \in Nat /\ e.dc \in DC /\ e.val \in Int
  <2>1. e \in Entries
    OBVIOUS
  <2>2. acc.sent \in Seq(DC)
    BY DEF Rounds
  <2>3. Len(acc.sent) \in Nat
    BY <2>2
  <2> QED
    BY <2>1, <2>2, <2>3 DEF Entries
<1>2. 1..(k + 1) = (1..k) \cup {k + 1} /\ k + 1 \notin 1..k
  OBVIOUS
<1>3. V = IF Eligible(d, e, dep) THEN U \cup {k + 1} ELSE U
  BY <1>2 DEF Usables
<1>4. U \subseteq 1..k /\ V \subseteq 1..(k + 1)
  BY DEF Usables
<1>5. ASSUME NEW m \in U
      PROVE  G(m) = IF Eligible(d, e, dep) /\ Suit(m) THEN F(m) \cup {k + 1} ELSE F(m)
  <2>1. m # k + 1
    BY <1>2, <1>4
  <2> QED
    BY <1>3, <2>1 DEF Fits
<1>6. \A m : IsFiniteSet(F(m)) /\ Cardinality(F(m)) \in Nat
  <2>1. \A m : F(m) \subseteq 1..k
    BY <1>4 DEF Fits
  <2>2. IsFiniteSet(1..k)
    BY FS_Interval
  <2> QED
    BY <2>1, <2>2, FS_Subset, FS_CardinalityType
<1>7. CASE ~Eligible(d, e, dep)
  <2>1. b = acc /\ V = U
    BY <1>3, <1>7 DEF LoopStep
  <2>2. CASE U = {}
    BY <2>1, <2>2 DEF Walked
  <2>3. CASE U # {}
    <3>1. PICK m \in Nat : FirstIs(d, t, lat, dep, r, acc, k, m)
      BY <2>3 DEF Walked
    <3>2. m \in U
      BY <3>1 DEF FirstIs
    <3>3. G(m) = F(m)
      BY <1>5, <1>7, <3>2
    <3>4. FirstIs(d, t, lat, dep, r, b, k + 1, m)
      BY <2>1, <3>1, <3>3 DEF FirstIs
    <3> QED
      BY <2>1, <2>3, <3>4 DEF Walked
  <2> QED
    BY <2>2, <2>3
<1>8. CASE Eligible(d, e, dep) /\ U = {}
  <2>1. acc.sent = << >>
    BY <1>8 DEF Walked
  <2>2. b = [sent |-> Append(acc.sent, e.dc), best |-> e.val]
    BY <1>8, <2>1 DEF LoopStep
  <2>3. b.best = e.val /\ b.sent = <<e.dc>>
    BY <2>1, <2>2
  <2>4. b.sent # << >> /\ Len(b.sent) = 1 /\ b.sent[1] = e.dc
    BY <2>3
  <2>5. V = {k + 1}
    BY <1>3, <1>8
  <2>6. G(k + 1) = {}
    BY <2>5 DEF Fits
  <2>7. Cardinality(G(k + 1)) = 0
    BY <2>6, FS_EmptySet
  <2>8. FirstIs(d, t, lat, dep, r, b, k + 1, k + 1)
    BY <2>3, <2>4, <2>5, <2>7 DEF FirstIs
  <2>9. V # {} /\ k + 1 \in Nat
    <3> HIDE DEF V
    <3> QED
      BY <2>5
  <2> QED
    BY <2>8, <2>9 DEF Walked
<1>9. CASE Eligible(d, e, dep) /\ U # {}
  <2>1. PICK m \in Nat : FirstIs(d, t, lat, dep, r, acc, k, m)
    BY <1>9 DEF Walked
  <2>2. /\ m \in U /\ acc.sent # << >> /\ acc.best = t[m].val /\ acc.sent[1] = t[m].dc
        /\ \A j \in U : m <= j
        /\ \A n \in 2..Len(acc.sent) : \E i \in F(m) : t[i].dc = acc.sent[n]
        /\ Len(acc.sent) = IF r <= Cardinality(F(m)) THEN r + 1 ELSE Cardinality(F(m)) + 1
    BY <2>1 DEF FirstIs
  <2>3. V = U \cup {k + 1} /\ m \in V /\ V # {}
    BY <1>3, <1>9, <2>2
  <2>4. \A j \in V : m <= j
    BY <1>4, <2>2, <2>3
  <2>5. F(m) \subseteq G(m)
    BY <1>5, <2>2
  <2>6. CASE ~Suit(m)
    <3>1. b = acc
      BY <2>2, <2>6 DEF LoopStep
    <3>2. G(m) = F(m)
      BY <1>5, <2>2, <2>6
    <3>3. FirstIs(d, t, lat, dep, r, b, k + 1, m)
      BY <2>2, <2>3, <2>4, <3>1, <3>2 DEF FirstIs
    <3> QED
      BY <2>3, <3>3 DEF Walked
  <2>7. CASE Suit(m)
    <3>1. G(m) = F(m) \cup {k + 1} /\ k + 1 \notin F(m)
      BY <1>2, <1>4, <1>5, <1>9, <2>2, <2>7 DEF Fits
    <3>2. Cardinality(G(m)) = Cardinality(F(m)) + 1
      BY <1>6, <3>1, FS_AddElement
    <3>3. CASE Len(acc.sent) > r
      <4>1. b = acc
        BY <3>3 DEF LoopStep
      <4>2. Len(b.sent) = IF r <= Cardinality(G(m)) THEN r + 1 ELSE Cardinality(G(m)) + 1
        <5> HIDE DEF F, G
        <5> QED
          BY <1>1, <1>6, <2>2, <3>2, <3>3, <4>1
      <4>3. \A n \in 2..Len(b.sent) : \E i \in G(m) : t[i].dc = b.sent[n]
        BY <2>2, <2>5, <4>1
      <4>4. FirstIs(d, t, lat, dep, r, b, k + 1, m)
        BY <2>2, <2>3, <2>4, <4>1, <4>2, <4>3 DEF FirstIs
      <4> QED
        BY <2>3, <4>4 DEF Walked
    <3>4. CASE ~(Len(acc.sent) > r)
      <4>1. b = [sent |-> Append(acc.sent, e.dc), best |-> acc.best]
        BY <1>9, <2>2, <2>7, <3>4 DEF LoopStep
      <4>2. /\ b.best = acc.best /\ b.sent = Append(acc.sent, e.dc)
        BY <4>1
      <4>3. /\ Len(b.sent) = Len(acc.sent) + 1 /\ b.sent[Len(acc.sent) + 1] = e.dc
            /\ \A n \in 1..Len(acc.sent) : b.sent[n] = acc.sent[n]
        BY <1>1, <4>2
      <4>4. Len(acc.sent) >= 1
        BY <1>1, <2>2
      <4>5. b.sent # << >> /\ b.sent[1] = t[m].dc
        <5>1. 1 \in 1..Len(acc.sent)
          BY <1>1, <4>4
        <5>2. Append(acc.sent, e.dc) # << >>
          BY <1>1
        <5> QED
          BY <2>2, <4>2, <4>3, <5>1, <5>2
      <4>6. ASSUME NEW n \in 2..Len(b.sent) PROVE \E i \in G(m) : t[i].dc = b.sent[n]
        <5>1. CASE n = Len(acc.sent) + 1
          BY <3>1, <4>3, <5>1
        <5>2. CASE n # Len(acc.sent) + 1
          <6>1. n \in 2..Len(acc.sent) /\ n \in 1..Len(acc.sent)
            BY <1>1, <4>3, <5>2
          <6> QED
            BY <2>2, <2>5, <4>3, <6>1
        <5> QED
          BY <5>1, <5>2
      <4>7. Len(b.sent) = IF r <= Cardinality(G(m)) THEN r + 1 ELSE Cardinality(G(m)) + 1
        <5> HIDE DEF F, G
        <5> QED
          BY <1>1, <1>6, <2>2, <3>2, <3>4, <4>3
      <4>8. FirstIs(d, t, lat, dep, r, b, k + 1, m)
        BY <2>2, <2>3, <2>4, <4>2, <4>5, <4>6, <4>7 DEF FirstIs
      <4> QED
        BY <2>3, <4>8 DEF Walked
    <3> QED
      BY <3>3, <3>4
  <2> QED
    BY <2>6, <2>7
<1> QED
  BY <1>7, <1>8, <1>9

\* What a forwarding loop sends the packet to.
LEMMA LoopWalked ==
    ASSUME NEW d, NEW t \in Seq(Entries), NEW lat, NEW dep, NEW r \in Nat
    PROVE  \E acc \in Rounds : /\ ForwardLoop(d, t, lat, dep, r) = acc.sent
                               /\ Walked(d, t, lat, dep, r, acc, Len(t))
<1>0. PICK a : Runs(a, d, t, lat, dep, r)
  BY LoopRuns
<1>1. /\ a \in [0..Len(t) -> Rounds]
      /\ a[0] = Start
      /\ \A k \in 1..Len(t) : a[k] = LoopStep(d, lat, dep, r, a[k - 1], t[k])
      /\ ForwardLoop(d, t, lat, dep, r) = a[Len(t)].sent
  BY <1>0 DEF Runs
<1>2. Len(t) \in Nat /\ DOMAIN t = 1..Len(t)
  OBVIOUS
<1> DEFINE P == {k \in Nat : k <= Len(t) => Walked(d, t, lat, dep, r, a[k], k)}
<1>3. 0 \in P
  <2>1. Usables(d, t, dep, 0) = {} /\ a[0].sent = << >>
    BY <1>1 DEF Usables, Start
  <2> QED
    BY <2>1 DEF Walked
<1>4. ASSUME NEW k \in Nat, k \in P PROVE k + 1 \in P
  <2> SUFFICES ASSUME k + 1 <= Len(t) PROVE Walked(d, t, lat, dep, r, a[k + 1], k + 1)
    OBVIOUS
  <2>1. /\ k + 1 \in 1..Len(t) /\ k + 1 \in DOMAIN t /\ (k + 1) - 1 = k
        /\ k \in 0..Len(t) /\ k <= Len(t)
    BY <1>2
  <2>2. a[k] \in Rounds /\ a[k + 1] = LoopStep(d, lat, dep, r, a[k], t[k + 1])
    BY <1>1, <2>1
  <2>3. Walked(d, t, lat, dep, r, a[k], k)
    BY <1>4, <2>1
  <2> QED
    BY <2>1, <2>2, <2>3, RoundWalked
<1>5. \A k \in Nat : k \in P
  <2> HIDE DEF P
  <2> QED
    BY <1>3, <1>4, SetInduction
<1>6. a[Len(t)] \in Rounds /\ Walked(d, t, lat, dep, r, a[Len(t)], Len(t))
  <2>1. Len(t) \in P /\ Len(t) \in 0..Len(t) /\ Len(t) <= Len(t)
    BY <1>2, <1>5
  <2> QED
    BY <1>1, <2>1
<1> QED
  BY <1>1, <1>6

-----------------------------------------------------------------------------
(* The measurements.                                                       *)

\* SetToSeq of a finite set lists each of its elements once.
LEMMA SetListed ==
    ASSUME NEW S, IsFiniteSet(S)
    PROVE  /\ SetToSeq(S) \in Seq(S)
           /\ \A i, j \in DOMAIN SetToSeq(S) : SetToSeq(S)[i] = SetToSeq(S)[j] => i = j
<1>1. PICK n \in Nat : ExistsBijection(1..n, S)
  BY FS_NatBijection
<1>2. Cardinality(S) = n
  BY <1>1, FS_CountingElements
<1>3. PICK g \in [1..n -> S] : \A i, j \in 1..n : g[i] = g[j] => i = j
  <2>1. PICK g : g \in Bijection(1..n, S)
    BY <1>1 DEF ExistsBijection
  <2> QED
    BY <2>1 DEF Bijection, Injection, IsInjective
<1>4. g \in [1..Cardinality(S) -> S] /\ IsInjective(g)
  BY <1>2, <1>3 DEF IsInjective
<1> DEFINE f == SetToSeq(S)
<1>5. f \in [1..n -> S] /\ IsInjective(f)
  BY <1>2, <1>4 DEF SetToSeq
<1> HIDE DEF f
<1>6. f \in Seq(S) /\ DOMAIN f = 1..n
  BY <1>5, FunctionIsSeq
<1>7. \A i, j \in DOMAIN f : f[i] = f[j] => i = j
  BY <1>5 DEF IsInjective
<1> QED
  BY <1>6, <1>7 DEF f

\* The rows of a table are a list of entries, one for each data center.
LEMMA RowsListed ==
    ASSUME NEW table \in [DC -> Int]
    PROVE  /\ Rows(table) \in Seq(Entries)
           /\ \A i, j \in DOMAIN Rows(table) :
                Rows(table)[i].dc = Rows(table)[j].dc => i = j
<1> DEFINE E == {e \in DC : table[e] # Absent}
           row == [c \in E |-> [dc |-> c, val |-> table[c]]]
           S == {row[c] : c \in E}
           T == {[dc |-> c, val |-> table[c]] : c \in {e \in DC : table[e] # Absent}}
<1>1. S = T
  OBVIOUS
<1>2. IsFiniteSet(E)
  BY SelectionAssumption, FS_Subset
<1>3. IsFiniteSet(T)
  <2> HIDE DEF E, row, T
  <2> QED
    BY <1>1, <1>2, ImageFinite
<1>4. T \subseteq Entries
  BY DEF Entries
<1>5. \A x, y \in T : x.dc = y.dc => x = y
  OBVIOUS
<1> DEFINE s == SetToSeq(T)
<1>6. Rows(table) = s
  BY DEF Rows
<1> HIDE DEF T
<1>7. s \in Seq(T) /\ \A i, j \in DOMAIN s : s[i] = s[j] => i = j
  BY <1>3, SetListed
<1> HIDE DEF s
<1>8. s \in Seq(Entries)
  BY <1>4, <1>7
<1>9. \A i \in DOMAIN s : s[i] \in T
  BY <1>7
<1>10. \A i, j \in DOMAIN s : s[i].dc = s[j].dc => i = j
  BY <1>5, <1>7, <1>9
<1> QED
  BY <1>6, <1>8, <1>10

\* However std::sort breaks ties, it leaves such a list.
LEMMA SortedIsList ==
    ASSUME NEW d, NEW s \in Seq(Entries),
           \A i, j \in DOMAIN s : s[i].dc = s[j].dc => i = j,
           NEW t \in Sortings(d, s)
    PROVE  IsList(d, t)
<1>1. PICK p \in [DOMAIN s -> DOMAIN s] :
        IsInjective(p) /\ t = [i \in DOMAIN s |-> s[p[i]]]
  BY DEF Sortings
<1>2. \A i, j \in DOMAIN t : i < j => NotAfter(d, t[i], t[j])
  BY DEF Sortings
<1>3. DOMAIN s = 1..Len(s) /\ Len(s) \in Nat /\ DOMAIN t = DOMAIN s
  BY <1>1
<1>4. \A i \in DOMAIN s : p[i] \in DOMAIN s /\ t[i] = s[p[i]] /\ s[p[i]] \in Entries
  BY <1>1
<1>5. t \in [1..Len(s) -> Entries]
  BY <1>1, <1>3, <1>4
<1>6. t \in Seq(Entries)
  BY <1>3, <1>5, FunctionIsSeq
<1>7. \A i, j \in DOMAIN t : t[i].dc = t[j].dc => i = j
  BY <1>1, <1>3, <1>4 DEF IsInjective
<1> QED
  BY <1>2, <1>6, <1>7 DEF IsList

-----------------------------------------------------------------------------
(* The dispatcher.                                                         *)

\* Both lists are sorted, and what was sent is what Server::on_read computes.
Inv ==
    /\ demand \in {"rtt", "cpu", "throughput"} /\ redundancy \in Nat
    /\ IsList(demand, metrics[demand]) /\ IsList("rtt", metrics["rtt"])
    /\ done => sent = Destinations(Self, demand, metrics, deployed, redundancy)

\* The dispatcher starts with sorted lists, whatever MySQL and Redis hold.
LEMMA InvInit == Init => Inv
<1> SUFFICES ASSUME Init PROVE Inv
  OBVIOUS
<1>1. demand \in {"rtt", "cpu", "throughput"} /\ redundancy \in Nat /\ done = FALSE
  BY SelectionAssumption DEF Init, Demands
<1>2. PICK lat \in [DC -> Latencies[demand]], val \in [DC -> Values[demand]] :
         \E latencies \in Sortings("rtt", Rows(lat)),
            other \in Sortings(demand, Rows(val)) :
              metrics = [m \in {"rtt", "cpu", "throughput"} |->
                           IF m = "rtt" THEN latencies
                           ELSE IF m = demand THEN other ELSE << >>]
  BY DEF Init
<1>3. PICK latencies \in Sortings("rtt", Rows(lat)), other \in Sortings(demand, Rows(val)) :
              metrics = [m \in {"rtt", "cpu", "throughput"} |->
                           IF m = "rtt" THEN latencies
                           ELSE IF m = demand THEN other ELSE << >>]
  BY <1>2
<1>4. lat \in [DC -> Int] /\ val \in [DC -> Int]
  <2>1. Latencies[demand] \subseteq Int /\ Values[demand] \subseteq Int
    BY <1>1, SelectionAssumption DEF Measurements
  <2> QED
    BY <2>1
<1>5. IsList("rtt", latencies) /\ IsList(demand, other)
  BY <1>4, RowsListed, SortedIsList
<1>6. metrics["rtt"] = latencies /\ (demand # "rtt" => metrics[demand] = other)
  BY <1>1, <1>3
<1>7. IsList(demand, metrics[demand])
  BY <1>5, <1>6
<1> QED
  BY <1>1, <1>5, <1>6, <1>7 DEF Inv

\* Forwarding leaves the lists alone.
LEMMA InvNext == Inv /\ [Next]_mcvars => Inv'
BY DEF Inv, Next, Forward, mcvars, IsList

\* What was sent is what the loop for the client's demand sends.
LEMMA LoopOfInv ==
    ASSUME Inv, done, list # << >>
    PROVE  \E acc \in Rounds :
             /\ sent = acc.sent
             /\ Walked(demand, list, metrics["rtt"], deployed, redundancy, acc, Len(list))
<1>1. /\ list \in Seq(Entries) /\ redundancy \in Nat /\ demand # "none"
      /\ sent = Destinations(Self, demand, metrics, deployed, redundancy)
  BY DEF Inv, IsList, list
<1>2. sent = ForwardLoop(demand, list, metrics["rtt"], deployed, redundancy)
  BY <1>1 DEF Destinations, list
<1> QED
  BY <1>1, <1>2, LoopWalked

\* The same with the names of the properties.
LEMMA SentOfInv ==
    ASSUME Inv, done, list # << >>
    PROVE  IF Usable = {} THEN sent = << >>
           ELSE \E m \in Usable :
                  LET fit == Fits(demand, list, metrics["rtt"], deployed, Len(list), m)
                  IN  /\ \A j \in Usable : m <= j
                      /\ sent \in Seq(DC) /\ sent # << >> /\ sent[1] = list[m].dc
                      /\ \A n \in 2..Len(sent) : \E i \in fit : list[i].dc = sent[n]
                      /\ Len(sent) = IF redundancy <= Cardinality(fit) THEN redundancy + 1
                                     ELSE Cardinality(fit) + 1
<1>1. list \in Seq(Entries) /\ DOMAIN list = 1..Len(list)
  BY DEF Inv, IsList, list
<1>2. Usable = Usables(demand, list, deployed, Len(list))
  BY <1>1 DEF Usable, Usables
<1>3. PICK acc \in Rounds :
             /\ sent = acc.sent
             /\ Walked(demand, list, metrics["rtt"], deployed, redundancy, acc, Len(list))
  BY LoopOfInv
<1>4. CASE Usable = {}
  BY <1>2, <1>3, <1>4 DEF Walked
<1>5. CASE Usable # {}
  <2>1. PICK m \in Nat :
          FirstIs(demand, list, metrics["rtt"], deployed, redundancy, acc, Len(list), m)
    BY <1>2, <1>3, <1>5 DEF Walked
  <2>2. sent \in Seq(DC)
    BY <1>3 DEF Rounds
  <2> QED
    BY <1>2, <1>3, <1>5, <2>1, <2>2 DEF FirstIs
<1> QED
  BY <1>4, <1>5

\* With one entry for each data center IndexOf finds it.
LEMMA IndexFound ==
    ASSUME Inv, NEW i \in DOMAIN list
    PROVE  IndexOf(list[i].dc) = i
<1>1. \A j \in DOMAIN list : list[j].dc = list[i].dc => j = i
  BY DEF Inv, IsList, list
<1> QED
  BY <1>1 DEF IndexOf

\* A data center that check_redundant_suitable accepts is as good as the best,
\* and as close as any whose latency is known.
LEMMA SuitableWithin ==
    ASSUME NEW t, IsList("rtt", t), NEW c, NEW best \in Int, NEW own \in Int,
           check_redundant_suitable(c, best, own, t)
    PROVE  /\ 10 * own <= 11 * best /\ 10 * own >= 9 * best
           /\ \A e, f \in {x \in Range(t) : x.val > 0} : e.dc = c => e.val - f.val <= 30
<1> DEFINE I == {i \in 1..Len(t) : t[i].dc = c}
           o == IF I # {} THEN Min(I) ELSE 0
           N == {i \in 1..o : t[i].val # 0}
           first == IF N # {} THEN Min(N) ELSE 0
           least == IF first = 0 THEN 0 ELSE t[first].val
<1>1. /\ best # 0 /\ 10 * Distance(best, own) <= best
      /\ o # 0 /\ Distance(least, t[o].val) <= 30
  BY DEF check_redundant_suitable, SelectInSeq, SelectInSubSeq
<1>2. 10 * own <= 11 * best /\ 10 * own >= 9 * best
  <2>1. CASE best < own
    <3>1. 10 * (own - best) <= best
      BY <1>1, <2>1 DEF Distance
    <3> QED
      BY ONLY <2>1, <3>1, best \in Int, own \in Int
  <2>2. CASE ~(best < own)
    <3>1. 10 * (best - own) <= best
      BY <1>1, <2>2 DEF Distance
    <3> QED
      BY ONLY <2>2, <3>1, best \in Int, own \in Int
  <2> QED
    BY <2>1, <2>2
<1>3. /\ t \in Seq(Entries) /\ DOMAIN t = 1..Len(t) /\ Len(t) \in Nat
      /\ \A i, j \in DOMAIN t : t[i].dc = t[j].dc => i = j
      /\ \A i, j \in DOMAIN t : i < j => t[i].val <= t[j].val
  BY DEF IsList, NotAfter
<1>4. \A i \in DOMAIN t : t[i].val \in Int
  BY <1>3, EntryTyped
<1>5. ASSUME NEW e \in {x \in Range(t) : x.val > 0}, NEW f \in {x \in Range(t) : x.val > 0},
             e.dc = c
      PROVE  e.val - f.val <= 30
  <2>1. PICK i \in DOMAIN t : e = t[i]
    BY DEF Range
  <2>2. PICK j \in DOMAIN t : f = t[j]
    BY DEF Range
  <2>3. I = {i}
    BY <1>3, <1>5, <2>1
  <2>4. o = i
    <3>1. I \subseteq Nat /\ I # {}
      BY <1>3, <2>3
    <3>2. Min(I) \in I
      BY <3>1, MinOfNat
    <3> QED
      BY <2>3, <3>1, <3>2
  <2>5. N \subseteq Nat /\ i \in N
    BY <1>3, <2>1, <2>4
  <2>6. first \in N /\ \A y \in N : first <= y
    BY <2>5, MinOfNat
  <2> HIDE DEF first, o
  <2>10. \A y : y \in N <=> y \in 1..i /\ t[y].val # 0
    BY <2>4
  <2> HIDE DEF N
  <2>11. i \in 1..Len(t) /\ j \in 1..Len(t) /\ first \in 1..i
    BY <1>3, <2>6, <2>10
  <2>7. first \in DOMAIN t /\ first # 0 /\ least = t[first].val
    BY <1>3, <2>11
  <2>8. Distance(t[first].val, t[i].val) <= 30
    BY <1>1, <2>4, <2>7
  <2>9. t[j].val >= t[first].val
    <3>1. CASE j < first
      <4>1. j \in 1..i /\ j \notin N
        BY <1>3, <2>6, <2>11, <3>1
      <4>2. t[j].val = 0
        BY <2>10, <4>1
      <4> QED
        BY <2>2, <4>2
    <3>2. CASE j = first
      BY <1>4, <3>2
    <3>3. CASE first < j
      BY <1>3, <2>7, <3>3
    <3>4. j < first \/ j = first \/ first < j
      BY <1>3, <2>11
    <3> QED
      BY <3>1, <3>2, <3>3, <3>4
  <2> HIDE DEF least, I
  <2> QED
    BY <1>4, <2>1, <2>2, <2>7, <2>8, <2>9 DEF Distance
<1> QED
  BY <1>2, <1>5

\* BestIsFirst holds: the first destination of the forwarding loops is a
\* deployed data center that none with a usable measurement beats, for any
\* measurements and however std::sort breaks ties.
THEOREM FirstIsBest == Spec => []BestIsFirst
<1>1. Inv => BestIsFirst
  <2> SUFFICES ASSUME Inv, done, list # << >>, sent # << >>
               PROVE  \E i \in Usable :
                        /\ list[i].dc = Head(sent)
                        /\ \A j \in Usable : NotAfter(demand, list[i], list[j])
    BY DEF BestIsFirst
  <2>1. PICK m \in Usable : (\A j \in Usable : m <= j) /\ sent \in Seq(DC) /\ sent[1] = list[m].dc
    BY SentOfInv
  <2>2. Head(sent) = list[m].dc
    BY <2>1
  <2>3. /\ list \in Seq(Entries) /\ Usable \subseteq DOMAIN list /\ DOMAIN list \subseteq Nat
        /\ \A i, j \in DOMAIN list : i < j => NotAfter(demand, list[i], list[j])
    BY DEF Inv, IsList, list, Usable
  <2>4. NotAfter(demand, list[m], list[m])
    <3>1. list[m].val \in Int
      BY <2>3, EntryTyped
    <3> QED
      BY <3>1 DEF NotAfter
  <2>5. ASSUME NEW j \in Usable PROVE NotAfter(demand, list[m], list[j])
    <3>1. m = j \/ m < j
      BY <2>1, <2>3
    <3> QED
      BY <2>3, <2>4, <3>1
  <2> QED
    BY <2>2, <2>5
<1> QED
  BY <1>1, InvInit, InvNext, PTL DEF Spec

\* RedundantWithinBounds holds: whoever gets a redundant copy passes both tests
\* of the comment on check_redundant_suitable, and the test of the latency, made
\* against the first one met, holds for every latency that is known.
THEOREM RedundantAreGood == Spec => []RedundantWithinBounds
<1>1. Inv => RedundantWithinBounds
  <2> SUFFICES ASSUME Inv, done, list # << >>, NEW k \in 2 .. Len(sent)
               PROVE  LET best == list[IndexOf(sent[1])].val
                          own  == list[IndexOf(sent[k])].val
                      IN  /\ 10 * own <= 11 * best
                          /\ 10 * own >= 9 * best
                          /\ \A e, f \in Known : e.dc = sent[k] => e.val - f.val <= 30
    BY DEF RedundantWithinBounds
  <2>1. sent # << >>
    OBVIOUS
  <2>2. PICK m \in Usable :
          /\ sent[1] = list[m].dc
          /\ \A n \in 2..Len(sent) :
               \E i \in Fits(demand, list, metrics["rtt"], deployed, Len(list), m) :
                 list[i].dc = sent[n]
    BY <2>1, SentOfInv
  <2>3. PICK i \in Fits(demand, list, metrics["rtt"], deployed, Len(list), m) :
          list[i].dc = sent[k]
    BY <2>2
  <2>4. /\ list \in Seq(Entries) /\ m \in DOMAIN list
    BY <2>2 DEF Inv, IsList, list, Usable
  <2>5. /\ i \in DOMAIN list
        /\ check_redundant_suitable(list[i].dc, list[m].val, list[i].val, metrics["rtt"])
    BY <2>3, <2>4 DEF Fits, Usables
  <2>6. IndexOf(sent[1]) = m /\ IndexOf(sent[k]) = i
    BY <2>2, <2>3, <2>4, <2>5, IndexFound
  <2>7. list[m].val \in Int /\ list[i].val \in Int /\ IsList("rtt", metrics["rtt"])
    BY <2>4, <2>5, EntryTyped DEF Inv
  <2> QED
    BY <2>3, <2>5, <2>6, <2>7, SuitableWithin DEF Known
<1> QED
  BY <1>1, InvInit, InvNext, PTL DEF Spec

\* NoneSkipped holds: a forwarding loop sends to as many as qualify, up to
\* redundancy + 1, and to nobody only if nobody is usable.
THEOREM AllWhoFit == Spec => []NoneSkipped
<1>1. Inv => NoneSkipped
  <2> SUFFICES ASSUME Inv, done, list # << >>
               PROVE  LET best == list[Min(Usable)].val
                          fit  == { i \in Usable \ {Min(Usable)} :
                                      check_redundant_suitable(list[i].dc, best,
                                                               list[i].val, metrics["rtt"]) }
                      IN  IF Usable = {} THEN sent = << >>
                          ELSE Len(sent) = Min({redundancy, Cardinality(fit)}) + 1
    BY DEF NoneSkipped
  <2>1. CASE Usable = {}
    BY <2>1, SentOfInv
  <2>2. CASE Usable # {}
    <3>1. PICK m \in Usable :
            LET fit == Fits(demand, list, metrics["rtt"], deployed, Len(list), m)
            IN  /\ \A j \in Usable : m <= j
                /\ Len(sent) = IF redundancy <= Cardinality(fit) THEN redundancy + 1
                               ELSE Cardinality(fit) + 1
      BY <2>2, SentOfInv
    <3>2. /\ list \in Seq(Entries) /\ DOMAIN list = 1..Len(list) /\ Len(list) \in Nat
          /\ redundancy \in Nat
      BY DEF Inv, IsList, list
    <3>3. Usable = Usables(demand, list, deployed, Len(list)) /\ Usable \subseteq 1..Len(list)
      BY <3>2 DEF Usable, Usables
    <3>4. Min(Usable) = m
      <4>1. Usable \subseteq Nat
        BY <3>2, <3>3
      <4>2. Min(Usable) \in Usable /\ \A y \in Usable : Min(Usable) <= y
        BY <2>2, <4>1, MinOfNat
      <4>3. Min(Usable) <= m /\ m <= Min(Usable) /\ m \in Nat /\ Min(Usable) \in Nat
        BY <3>1, <4>1, <4>2
      <4> QED
        BY <4>3
    <3> DEFINE fit == { i \in Usable \ {m} :
                          check_redundant_suitable(list[i].dc, list[m].val,
                                                   list[i].val, metrics["rtt"]) }
    <3>5. fit = Fits(demand, list, metrics["rtt"], deployed, Len(list), m)
      BY <3>3 DEF Fits
    <3>6. Cardinality(fit) \in Nat
      <4>1. fit \subseteq 1..Len(list) /\ IsFiniteSet(1..Len(list))
        BY <3>2, <3>3, FS_Interval
      <4> QED
        BY <4>1, FS_Subset, FS_CardinalityType
    <3>7. Len(sent) = IF redundancy <= Cardinality(fit) THEN redundancy + 1
                      ELSE Cardinality(fit) + 1
      BY <3>1, <3>5
    <3> HIDE DEF fit
    <3>8. Min({redundancy, Cardinality(fit)}) =
            IF redundancy <= Cardinality(fit) THEN redundancy ELSE Cardinality(fit)
      <4> DEFINE S == {redundancy, Cardinality(fit)}
      <4>1. Min(S) \in S /\ \A y \in S : Min(S) <= y
        BY <3>2, <3>6, MinOfNat
      <4> QED
        BY <3>2, <3>6, <4>1
    <3>9. Len(sent) = Min({redundancy, Cardinality(fit)}) + 1
      BY <3>2, <3>6, <3>7, <3>8
    <3> QED
      BY <2>2, <3>4, <3>9 DEF fit
  <2> QED
    BY <2>1, <2>2
<1> QED
  BY <1>1, InvInit, InvNext, PTL DEF Spec

\* What Dispatch assumes of a selection: whatever the measurements, the packet
\* of a new connection goes to at most redundancy + 1 data centers of DC.
THEOREM AtMostRedundancy ==
    ASSUME NEW self \in DC, NEW d, NEW m, NEW dep, NEW r \in Nat, m[d] \in Seq(Entries)
    PROVE  LET dests == Destinations(self, d, m, dep, r)
           IN  dests \in Seq(DC) /\ Len(dests) <= r + 1
<1>1. CASE d = "none"
  BY <1>1 DEF Destinations
<1>2. CASE d # "none" /\ m[d] = << >>
  <2>1. Destinations(self, d, m, dep, r) = << self >>
    BY <1>2 DEF Destinations
  <2> QED
    BY <2>1
<1>3. CASE d # "none" /\ m[d] # << >>
  <2>1. Destinations(self, d, m, dep, r) = ForwardLoop(d, m[d], m["rtt"], dep, r)
    BY <1>3 DEF Destinations
  <2>2. PICK acc \in Rounds : /\ ForwardLoop(d, m[d], m["rtt"], dep, r) = acc.sent
                              /\ Walked(d, m[d], m["rtt"], dep, r, acc, Len(m[d]))
    BY LoopWalked
  <2>5. acc.sent \in Seq(DC)
    BY DEF Rounds
  <2>3. CASE Usables(d, m[d], dep, Len(m[d])) = {}
    BY <2>1, <2>2, <2>3, <2>5 DEF Walked
  <2>4. CASE Usables(d, m[d], dep, Len(m[d])) # {}
    <3>1. PICK k \in Nat : FirstIs(d, m[d], m["rtt"], dep, r, acc, Len(m[d]), k)
      BY <2>2, <2>4 DEF Walked
    <3> DEFINE n == Cardinality(Fits(d, m[d], m["rtt"], dep, Len(m[d]), k))
    <3>2. Len(acc.sent) = IF r <= n THEN r + 1 ELSE n + 1
      BY <3>1 DEF FirstIs
    <3>3. n \in Nat
      <4>1. /\ Fits(d, m[d], m["rtt"], dep, Len(m[d]), k) \subseteq 1..Len(m[d])
            /\ IsFiniteSet(1..Len(m[d]))
        BY FS_Interval DEF Fits, Usables
      <4> QED
        BY <4>1, FS_Subset, FS_CardinalityType
    <3> HIDE DEF n
    <3> QED
      BY <2>1, <2>2, <2>5, <3>2, <3>3
  <2> QED
    BY <2>3, <2>4
<1> QED
  BY <1>1, <1>2, <1>3
=============================================================================
