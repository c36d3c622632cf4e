--------------------------- MODULE StreamRecvProofs ---------------------------
(***************************************************************************)
(* Proofs about stream reception.                                          *)
(***************************************************************************)
EXTENDS StreamRecv, Induction, FiniteSetTheorems, TLAPS

---------------------------------------------------------------------------
(* The inductive invariant.                                                *)

Range0 == [begin : Nat, end : Nat]

(* A list of nonempty ranges, in order and apart.                          *)
Ordered(g) ==
    /\ \A i \in DOMAIN g : g[i].begin < g[i].end
    /\ \A i, j \in DOMAIN g : i < j => g[i].end <= g[j].begin

(* A list of gaps: the last one has no end.                                *)
GapList(g) ==
    /\ g \in Seq(Range0) /\ g # << >>
    /\ Ordered(g)
    /\ g[Len(g)].end = Infinity

(* The offsets in a list of ranges.                                        *)
Missing(g) ==
    { n \in Nat : \E i \in DOMAIN g : g[i].begin <= n /\ n < g[i].end }

ChunkOf(i) == (i \div Chunk) * Chunk

(* The reorder buffer, when everything before rx has been passed on: what  *)
(* came early is in memory, and nothing else is.                           *)
Buffered(r, rx) ==
    /\ GapList(r.gap)
    /\ rx <= r.gap[1].begin
    /\ r.data \subseteq 0 .. Size
    /\ \A k \in r.data : ChunkOf(k) = k /\ rx < k + Chunk
    /\ \A i \in Nat : (rx <= i /\ i < Infinity /\ i \notin Missing(r.gap)) =>
          i \in r.mem /\ ChunkOf(i) \in r.data

Rob  == [gap : Seq(Range0), data : SUBSET Nat, mem : SUBSET Nat]
Strm == [opened : BOOLEAN, last_rx_offset : Nat, max_rx_offset : Nat,
         unsent_max_rx_offset : Nat, SHUT_RD : BOOLEAN, RECV_RST : BOOLEAN,
         STOP_SENDING : BOOLEAN, SHUT_WR : BOOLEAN, fc : BOOLEAN]
Conn == [rx_offset : Nat, max_rx_offset : Nat, unsent_max_rx_offset : Nat]
Peer == [off : 0 .. Size, fin : BOOLEAN, rst : BOOLEAN, max : Nat, maxData : Nat,
         resets : BOOLEAN]
Limit == [type : {"MAX_STREAM_DATA", "MAX_DATA"}, max : Nat]
Code == {"none", "assert", "FLOW_CONTROL", "FINAL_OFFSET"}
St == [rob : Rob, strm : Strm, conn : Conn, out : Seq(Nat), fins : Nat,
       closed : BOOLEAN, err : Code, refuse : BOOLEAN]

(* The offsets of the stream against what the peer has sent.               *)
Offsets(st) ==
    /\ st.strm.last_rx_offset <= peer.off
    /\ \A i \in Nat : (st.strm.last_rx_offset <= i /\ i < Infinity) =>
          i \in Missing(st.rob.gap)
    /\ st.strm.SHUT_RD => peer.rst \/ (peer.fin /\ st.strm.last_rx_offset = Size)
    /\ st.strm.RECV_RST => peer.rst

(* The first rx bytes have been passed on, and their credit given back.    *)
Passed(st, rx) ==
    /\ st.out = [i \in 1 .. rx |-> i]
    /\ st.strm.unsent_max_rx_offset = Window + rx
    /\ st.conn.unsent_max_rx_offset = MaxData + rx
    /\ st.strm.max_rx_offset <= st.strm.unsent_max_rx_offset
    /\ st.conn.max_rx_offset <= st.conn.unsent_max_rx_offset

(* What holds besides when no end gives the stream up.                     *)
Regular(st, rx) ==
    /\ ~ st.refuse /\ ~ st.strm.STOP_SENDING
    /\ st.conn.rx_offset = st.strm.last_rx_offset
    /\ st.fins = IF st.strm.SHUT_RD /\ rx = st.strm.last_rx_offset THEN 1 ELSE 0

Sound(st, rx) ==
    /\ st \in St
    /\ Buffered(st.rob, rx)
    /\ Offsets(st)
    /\ Passed(st, rx)
    /\ ~ peer.resets => Regular(st, rx)

(* The peer keeps to limits it was told.                                   *)
PeerSound ==
    /\ peer \in Peer
    /\ limits \subseteq Limit
    /\ peer.off <= peer.max /\ peer.off <= peer.maxData
    /\ peer.max <= strm.max_rx_offset /\ peer.maxData <= conn.max_rx_offset
    /\ \A l \in limits :
          IF l.type = "MAX_DATA" THEN l.max <= conn.max_rx_offset
          ELSE l.max <= strm.max_rx_offset
    /\ peer.fin => peer.off = Size
    /\ ~ peer.resets => ~ peer.rst

Rx == rob.gap[1].begin

Ended ==
    /\ err # "assert"
    /\ ~ peer.resets => err = "none"
    /\ closed => peer.rst \/ (strm.SHUT_RD /\ Rx = strm.last_rx_offset)

Inv ==
    /\ PeerSound
    /\ Sound(State(FALSE), Rx)
    /\ Ended

---------------------------------------------------------------------------
(* Ranges.                                                                 *)

(* What a walk with range q leaves of gap g.                               *)
Rest(q, g) ==
    IF range_len(range_intersect(q, g)) = 0 THEN << g >>
    ELSE range_cut(g, range_intersect(q, g))

\* Max and Min of two numbers.
LEMMA MaxMinPair ==
    ASSUME NEW a \in Nat, NEW b \in Nat
    PROVE  /\ Max({a, b}) = IF a >= b THEN a ELSE b
           /\ Min({a, b}) = IF a <= b THEN a ELSE b
<1>1. {a, b} \subseteq Nat /\ {a, b} # {} /\ \A y \in {a, b} : y <= a + b
  OBVIOUS
<1>2. Max({a, b}) \in {a, b} /\ \A y \in {a, b} : y <= Max({a, b})
  <2>1. a + b \in Nat
    OBVIOUS
  <2> QED
    BY <1>1, <2>1, MaxOfNat
<1>3. Min({a, b}) \in {a, b} /\ \A y \in {a, b} : Min({a, b}) <= y
  BY <1>1, MinOfNat
<1> QED
  BY <1>2, <1>3

\* The ends of the ranges in a list are numbers.
LEMMA RangesIn ==
    ASSUME NEW s \in Seq(Range0)
    PROVE  /\ \A i \in 1..Len(s) : s[i].begin \in Nat /\ s[i].end \in Nat
           /\ DOMAIN s = 1..Len(s) /\ Len(s) \in Nat
<1>1. \A i \in 1..Len(s) : s[i] \in Range0
  OBVIOUS
<1>2. \A r \in Range0 : r.begin \in Nat /\ r.end \in Nat
  BY DEF Range0
<1>3. DOMAIN s = 1..Len(s) /\ Len(s) \in Nat
  OBVIOUS
<1> QED
  BY <1>1, <1>2, <1>3

\* Two ordered lists, one before the other, make an ordered list of the
\* offsets of both.
LEMMA Joined ==
    ASSUME NEW s \in Seq(Range0), NEW t \in Seq(Range0), Ordered(s), Ordered(t),
           \A i \in DOMAIN s, j \in DOMAIN t : s[i].end <= t[j].begin
    PROVE  /\ s \o t \in Seq(Range0)
           /\ Ordered(s \o t)
           /\ Missing(s \o t) = Missing(s) \cup Missing(t)
           /\ \A n \in Nat : (/\ \A i \in DOMAIN s : s[i].end <= n
                              /\ \A i \in DOMAIN t : t[i].end <= n) =>
                \A i \in DOMAIN (s \o t) : (s \o t)[i].end <= n
<1> DEFINE u == s \o t
<1>1. /\ u \in Seq(Range0) /\ Len(u) = Len(s) + Len(t)
      /\ Len(s) \in Nat /\ Len(t) \in Nat
      /\ DOMAIN s = 1..Len(s) /\ DOMAIN t = 1..Len(t) /\ DOMAIN u = 1..Len(u)
  OBVIOUS
<1>2. \A i \in 1..Len(u) : u[i] = IF i <= Len(s) THEN s[i] ELSE t[i - Len(s)]
  OBVIOUS
<1>3. \A i \in 1..Len(u) : i > Len(s) => i - Len(s) \in 1..Len(t)
  BY <1>1
<1>4. /\ \A i \in 1..Len(s) : i \in 1..Len(u) /\ u[i] = s[i]
      /\ \A i \in 1..Len(t) : i + Len(s) \in 1..Len(u) /\ u[i + Len(s)] = t[i]
  BY <1>1
<1>5. \A i \in 1..Len(s) : s[i].begin \in Nat /\ s[i].end \in Nat
  BY RangesIn
<1>6. \A i \in 1..Len(t) : t[i].begin \in Nat /\ t[i].end \in Nat
  BY RangesIn
<1> HIDE DEF u
<1>7. Ordered(u)
  <2>1. ASSUME NEW i \in DOMAIN u PROVE u[i].begin < u[i].end
    <3>1. CASE i <= Len(s)
      <4>1. i \in DOMAIN s /\ u[i] = s[i]
        BY <1>1, <1>2, <3>1
      <4> QED
        BY <4>1 DEF Ordered
    <3>2. CASE i > Len(s)
      <4>1. i - Len(s) \in DOMAIN t /\ u[i] = t[i - Len(s)]
        BY <1>1, <1>2, <3>2
      <4> QED
        BY <4>1 DEF Ordered
    <3> QED
      BY <1>1, <3>1, <3>2
  <2>2. ASSUME NEW i \in DOMAIN u, NEW j \in DOMAIN u, i < j
        PROVE  u[i].end <= u[j].begin
    <3>1. CASE j <= Len(s)
      <4>1. i \in DOMAIN s /\ j \in DOMAIN s
        BY <1>1, <2>2, <3>1
      <4> QED
        BY <1>1, <1>2, <2>2, <4>1, <3>1 DEF Ordered
    <3>2. CASE i > Len(s)
      <4>1. i - Len(s) \in DOMAIN t /\ j - Len(s) \in DOMAIN t /\ i - Len(s) < j - Len(s)
        BY <1>1, <2>2, <3>2
      <4>2. u[i] = t[i - Len(s)] /\ u[j] = t[j - Len(s)]
        BY <1>1, <1>2, <2>2, <3>2
      <4> QED
        BY <4>1, <4>2 DEF Ordered
    <3>3. CASE i <= Len(s) /\ j > Len(s)
      <4>1. i \in DOMAIN s /\ j - Len(s) \in DOMAIN t
        BY <1>1, <2>2, <3>3
      <4>2. u[i] = s[i] /\ u[j] = t[j - Len(s)]
        BY <1>1, <1>2, <2>2, <3>3
      <4> QED
        BY <4>1, <4>2
    <3> QED
      BY <1>1, <2>2, <3>1, <3>2, <3>3
  <2> QED
    BY <2>1, <2>2 DEF Ordered
<1>8. Missing(u) = Missing(s) \cup Missing(t)
  <2>1. ASSUME NEW n \in Missing(u) PROVE n \in Missing(s) \cup Missing(t)
    <3>1. PICK i \in 1..Len(u) : u[i].begin <= n /\ n < u[i].end /\ n \in Nat
      BY <1>1 DEF Missing
    <3>2. CASE i <= Len(s)
      <4>1. i \in DOMAIN s /\ u[i] = s[i]
        BY <1>1, <1>2, <3>2
      <4> QED
        BY <3>1, <4>1 DEF Missing
    <3>3. CASE i > Len(s)
      <4>1. i - Len(s) \in DOMAIN t /\ u[i] = t[i - Len(s)]
        BY <1>1, <1>2, <3>3
      <4> QED
        BY <3>1, <4>1 DEF Missing
    <3> QED
      BY <1>1, <3>2, <3>3
  <2>2. ASSUME NEW n \in Missing(s) PROVE n \in Missing(u)
    BY <1>1, <1>4 DEF Missing
  <2>3. ASSUME NEW n \in Missing(t) PROVE n \in Missing(u)
    <3>1. PICK i \in 1..Len(t) : t[i].begin <= n /\ n < t[i].end /\ n \in Nat
      BY <1>1 DEF Missing
    <3>2. i + Len(s) \in DOMAIN u /\ u[i + Len(s)] = t[i]
      BY <1>1, <1>4
    <3> QED
      BY <3>1, <3>2 DEF Missing
  <2> QED
    BY <2>1, <2>2, <2>3
<1>9. ASSUME NEW n \in Nat, \A i \in DOMAIN s : s[i].end <= n,
             \A i \in DOMAIN t : t[i].end <= n
      PROVE  \A i \in DOMAIN u : u[i].end <= n
  <2> SUFFICES ASSUME NEW i \in 1..Len(u) PROVE u[i].end <= n
    BY <1>1
  <2>1. CASE i <= Len(s)
    <3>1. i \in DOMAIN s /\ u[i] = s[i]
      BY <1>1, <1>2, <2>1
    <3> QED
      BY <1>9, <3>1
  <2>2. CASE i > Len(s)
    <3>1. i - Len(s) \in DOMAIN t /\ u[i] = t[i - Len(s)]
      BY <1>1, <1>2, <2>2
    <3> QED
      BY <1>9, <3>1
  <2> QED
    BY <1>1, <2>1, <2>2
<1> QED
  BY <1>1, <1>7, <1>8, <1>9 DEF u

\* A list of one range.
LEMMA OneRange ==
    ASSUME NEW r \in Range0
    PROVE  /\ << r >> \in Seq(Range0) /\ DOMAIN << r >> = {1} /\ << r >>[1] = r
           /\ r.begin < r.end => Ordered(<< r >>)
           /\ Missing(<< r >>) = {n \in Nat : r.begin <= n /\ n < r.end}
BY DEF Ordered, Missing, Range0

\* The empty list.
LEMMA NoRange ==
    << >> \in Seq(Range0) /\ DOMAIN << >> = {} /\ Ordered(<< >>) /\ Missing(<< >>) = {}
BY DEF Ordered, Missing

\* What is left of a gap is the part outside the range, in order
\* (ngtcp2_range_cut); and the end of the gap stays when the range ends
\* before it.
LEMMA RestOfGap ==
    ASSUME NEW q \in Range0, NEW g \in Range0, g.begin < g.end
    PROVE  /\ Rest(q, g) \in Seq(Range0)
           /\ Ordered(Rest(q, g))
           /\ \A i \in DOMAIN Rest(q, g) :
                g.begin <= Rest(q, g)[i].begin /\ Rest(q, g)[i].end <= g.end
           /\ Missing(Rest(q, g)) =
                {n \in Nat : g.begin <= n /\ n < g.end /\ ~ (q.begin <= n /\ n < q.end)}
           /\ q.end < g.end => Rest(q, g) # << >> /\ Last(Rest(q, g)).end = g.end
<1> DEFINE b == IF q.begin >= g.begin THEN q.begin ELSE g.begin
           e == IF q.end <= g.end THEN q.end ELSE g.end
           l == [begin |-> g.begin, end |-> b]
           r == [begin |-> e, end |-> g.end]
           L == IF b > g.begin THEN << l >> ELSE << >>
           R == IF g.end > e THEN << r >> ELSE << >>
<1>0. q.begin \in Nat /\ q.end \in Nat /\ g.begin \in Nat /\ g.end \in Nat
  BY DEF Range0
<1>1. range_intersect(q, g) = IF b < e THEN range(b, e) ELSE range(0, 0)
  <2>1. Max({q.begin, g.begin}) = b /\ Min({q.end, g.end}) = e
    BY <1>0, MaxMinPair
  <2> HIDE DEF b, e
  <2> QED
    BY <2>1 DEF range_intersect
<1>2. b \in Nat /\ e \in Nat /\ e <= g.end /\ b >= g.begin
  BY <1>0
<1>3. l \in Range0 /\ r \in Range0
  BY <1>0, <1>2 DEF Range0
<1>4. CASE ~ (b < e)
  <2>1. Rest(q, g) = << g >>
    BY <1>1, <1>4 DEF Rest, range, range_len
  <2>2. \A n \in Nat : ~ (g.begin <= n /\ n < g.end /\ q.begin <= n /\ n < q.end)
    BY <1>0, <1>4
  <2>3. Last(<< g >>) = g
    BY DEF Last
  <2> HIDE DEF b, e, l, r, L, R
  <2> QED
    BY <1>0, <2>1, <2>2, <2>3, OneRange
<1>5. CASE b < e
  <2>1. Rest(q, g) = L \o R
    <3>1. range_intersect(q, g) = [begin |-> b, end |-> e] /\ e - b # 0
      BY <1>1, <1>2, <1>5 DEF range
    <3>2. range_cut(g, [begin |-> b, end |-> e]) = L \o R
      BY <1>0, <1>2 DEF range_cut, range, range_len
    <3> HIDE DEF b, e, L, R
    <3> QED
      BY <3>1, <3>2 DEF Rest, range_len
  <2>2. L \in Seq(Range0) /\ Ordered(L) /\ Missing(L) = {n \in Nat : g.begin <= n /\ n < b}
        /\ \A i \in DOMAIN L : g.begin <= L[i].begin /\ L[i].end <= b
    <3>1. CASE b > g.begin
      BY <1>0, <1>2, <1>3, <3>1, OneRange
    <3>2. CASE ~ (b > g.begin)
      BY <1>0, <1>2, <3>2, NoRange
    <3> QED
      BY <3>1, <3>2
  <2>3. R \in Seq(Range0) /\ Ordered(R) /\ Missing(R) = {n \in Nat : e <= n /\ n < g.end}
        /\ \A i \in DOMAIN R : e <= R[i].begin /\ R[i].end <= g.end
    <3>1. CASE g.end > e
      BY <1>0, <1>2, <1>3, <3>1, OneRange
    <3>2. CASE ~ (g.end > e)
      BY <1>0, <1>2, <3>2, NoRange
    <3> QED
      BY <3>1, <3>2
  <2>4. \A n \in Nat : (g.begin <= n /\ n < b) \/ (e <= n /\ n < g.end) <=>
            g.begin <= n /\ n < g.end /\ ~ (q.begin <= n /\ n < q.end)
    BY <1>0, <1>2, <1>5
  <2>5. \A i \in DOMAIN (L \o R) :
          g.begin <= (L \o R)[i].begin /\ (L \o R)[i].end <= g.end
    <3>1. /\ Len(L \o R) = Len(L) + Len(R) /\ L \o R \in Seq(Range0)
          /\ Len(L) \in Nat /\ Len(R) \in Nat
      BY <2>2, <2>3
    <3>2. ASSUME NEW i \in 1..Len(L \o R)
          PROVE  g.begin <= (L \o R)[i].begin /\ (L \o R)[i].end <= g.end
      <4>1. CASE i <= Len(L)
        <5>1. (L \o R)[i] = L[i] /\ i \in DOMAIN L
          BY <2>2, <2>3, <3>1, <4>1
        <5>2. L[i].end \in Nat
          BY <2>2, <5>1 DEF Range0
        <5> QED
          BY <1>0, <1>2, <1>5, <2>2, <5>1, <5>2
      <4>2. CASE i > Len(L)
        <5>1. (L \o R)[i] = R[i - Len(L)] /\ i - Len(L) \in DOMAIN R
          BY <2>2, <2>3, <3>1, <4>2
        <5>2. R[i - Len(L)].begin \in Nat
          BY <2>3, <5>1 DEF Range0
        <5> QED
          BY <1>0, <1>2, <1>5, <2>3, <5>1, <5>2
      <4> QED
        BY <3>1, <4>1, <4>2
    <3> QED
      BY <3>1, <3>2
  <2>6. q.end < g.end => L \o R # << >> /\ Last(L \o R).end = g.end
    <3> SUFFICES ASSUME q.end < g.end
                 PROVE  L \o R # << >> /\ Last(L \o R).end = g.end
      OBVIOUS
    <3>1. R = << r >> /\ Len(R) = 1
      BY <1>0
    <3>2. Len(L \o R) = Len(L) + 1 /\ Len(L) \in Nat /\ (L \o R)[Len(L) + 1] = r
      BY <2>2, <2>3, <3>1, <1>3
    <3> QED
      BY <3>2 DEF Last
  <2>7. \A i \in DOMAIN L, j \in DOMAIN R : L[i].end <= R[j].begin
    <3> SUFFICES ASSUME NEW i \in DOMAIN L, NEW j \in DOMAIN R
                 PROVE  L[i].end <= R[j].begin
      OBVIOUS
    <3>1. L[i].end \in Nat /\ R[j].begin \in Nat
      BY <2>2, <2>3 DEF Range0
    <3> QED
      BY <1>2, <1>5, <2>2, <2>3, <3>1
  <2> HIDE DEF b, e, l, r, L, R
  <2>8. /\ Ordered(L \o R) /\ Missing(L \o R) = Missing(L) \cup Missing(R)
        /\ L \o R \in Seq(Range0)
    BY <2>2, <2>3, <2>7, Joined
  <2> QED
    BY <1>0, <1>2, <2>1, <2>2, <2>3, <2>4, <2>5, <2>6, <2>8
<1> QED
  BY <1>4, <1>5

---------------------------------------------------------------------------
(* Lists of gaps.                                                          *)

Acc == [gap : Seq(Range0), done : BOOLEAN]

\* One step of the walk in terms of what is left of the gap.
LEMMA GapStepIs ==
    ASSUME NEW q, NEW acc \in Acc, NEW g \in Range0
    PROVE  GapStep(q, acc, g) =
             IF acc.done THEN [gap |-> acc.gap \o << g >>, done |-> TRUE]
             ELSE [gap  |-> acc.gap \o Rest(q, g),
                   done |-> Rest(q, g) # << >> /\ q.end <= Last(Rest(q, g)).end]
<1>1. acc = [gap |-> acc.gap, done |-> acc.done] /\ acc.done \in BOOLEAN
      /\ acc.gap \in Seq(Range0)
  BY DEF Acc
<1>2. Append(acc.gap, g) = acc.gap \o << g >>
  BY <1>1, AppendIsConcat
<1>3. CASE acc.done
  <2>1. [acc EXCEPT !.gap = Append(@, g)] = [gap |-> acc.gap \o << g >>, done |-> TRUE]
    <3>1. acc.done = TRUE
      BY <1>1, <1>3
    <3>2. [acc EXCEPT !.gap = Append(@, g)] = [gap |-> Append(acc.gap, g), done |-> acc.done]
      BY DEF Acc
    <3> QED
      BY <1>2, <3>1, <3>2
  <2> QED
    BY <1>3, <2>1 DEF GapStep
<1>4. CASE ~ acc.done
  BY <1>4 DEF GapStep, Rest, range_not_after
<1> QED
  BY <1>3, <1>4

\* The walk is a function of the places in the list.
LEMMA WalkExists ==
    ASSUME NEW q \in Range0, NEW gap \in Seq(Range0), Ordered(gap)
    PROVE  \E it : it = [s \in SUBSET DOMAIN gap |->
                           IF s = {} THEN [gap |-> << >>, done |-> FALSE]
                           ELSE GapStep(q, it[s \ {Max(s)}], gap[Max(s)])]
                   /\ it \in [SUBSET DOMAIN gap -> Acc]
<1> DEFINE R == DOMAIN gap
           base == [gap |-> << >>, done |-> FALSE]
           ch == [s \in SUBSET R |-> Max(s)]
           step == [p \in R \X Acc |-> GapStep(q, p[2], gap[p[1]])]
<1>1. R = 1..Len(gap) /\ Len(gap) \in Nat
  OBVIOUS
<1>2. IsFiniteSet(R)
  BY <1>1, FS_Interval
<1>3. base \in Acc
  BY NoRange DEF Acc
<1>4. ASSUME NEW s \in SUBSET R, s # {} PROVE ch[s] \in s /\ ch[s] = Max(s)
  BY <1>1, <1>4, LastOfSome
<1>5. ASSUME NEW x \in R, NEW a \in Acc
      PROVE  /\ step[<<x, a>>] = GapStep(q, a, gap[x])
             /\ step[<<x, a>>] \in Acc
  <2>1. step[<<x, a>>] = GapStep(q, a, gap[x])
    OBVIOUS
  <2>2. gap[x] \in Range0 /\ gap[x].begin < gap[x].end
    BY DEF Ordered
  <2>3. Rest(q, gap[x]) \in Seq(Range0) /\ << gap[x] >> \in Seq(Range0)
    BY <2>2, RestOfGap
  <2>4. a.gap \in Seq(Range0)
    BY DEF Acc
  <2>5. /\ a.gap \o << gap[x] >> \in Seq(Range0)
        /\ a.gap \o Rest(q, gap[x]) \in Seq(Range0)
    BY <2>3, <2>4, ConcatProperties
  <2>6. GapStep(q, a, gap[x]) \in Acc
    <3>1. CASE a.done
      <4>1. GapStep(q, a, gap[x]) = [gap |-> a.gap \o << gap[x] >>, done |-> TRUE]
        BY <2>2, <3>1, GapStepIs
      <4> QED
        BY <2>5, <4>1 DEF Acc
    <3>2. CASE ~ a.done
      <4> DEFINE D == Rest(q, gap[x]) # << >> /\ q.end <= Last(Rest(q, gap[x])).end
      <4>1. GapStep(q, a, gap[x]) = [gap |-> a.gap \o Rest(q, gap[x]), done |-> D]
        BY <2>2, <3>2, GapStepIs
      <4>2. D \in BOOLEAN
        OBVIOUS
      <4> HIDE DEF D
      <4> QED
        BY <2>5, <4>1, <4>2 DEF Acc
    <3> QED
      BY <3>1, <3>2
  <2> QED
    BY <2>1, <2>6
<1> HIDE DEF R, base, ch, step
<1>6. PICK it \in [SUBSET R -> Acc] : \A s \in SUBSET R :
        it[s] = IF s = {} THEN base ELSE step[<<ch[s], it[s \ {ch[s]}]>>]
  <2>1. Chooses(ch, R) /\ StepsWithin(step, R, Acc)
    BY <1>4, <1>5 DEF Chooses, StepsWithin
  <2>2. \E it \in [SUBSET R -> Acc] : IsFold(it, R, base, ch, step)
    BY <1>2, <1>3, <2>1, FoldExists
  <2> QED
    BY <2>2 DEF IsFold
<1>7. ASSUME NEW s \in SUBSET R
      PROVE  it[s] = IF s = {} THEN base ELSE GapStep(q, it[s \ {Max(s)}], gap[Max(s)])
  <2>1. CASE s = {}
    BY <1>6, <2>1
  <2>2. CASE s # {}
    <3>1. ch[s] = Max(s) /\ Max(s) \in R /\ s \ {Max(s)} \in SUBSET R
      BY <1>4, <2>2
    <3>2. it[s \ {Max(s)}] \in Acc
      BY <1>6, <3>1
    <3>3. it[s] = step[<<Max(s), it[s \ {Max(s)}]>>]
      BY <1>6, <2>2, <3>1
    <3>4. step[<<Max(s), it[s \ {Max(s)}]>>] = GapStep(q, it[s \ {Max(s)}], gap[Max(s)])
      BY <1>5, <3>1, <3>2
    <3> QED
      BY <2>2, <3>3, <3>4
  <2> QED
    BY <2>1, <2>2
<1>8. it = [s \in SUBSET R |->
              IF s = {} THEN base ELSE GapStep(q, it[s \ {Max(s)}], gap[Max(s)])]
  BY <1>6, <1>7
<1> QED
  BY <1>6, <1>8 DEF R, base

\* gaptr_push takes exactly the offsets of the range out of the gaps
\* (ngtcp2_gaptr_push, the loop of ngtcp2_rob_push), and the last gap keeps
\* its end when the range ends before it.
LEMMA PushTakesOut ==
    ASSUME NEW gap \in Seq(Range0), gap # << >>, Ordered(gap),
           NEW offset \in Nat, NEW len \in Nat,
           offset + len < gap[Len(gap)].end
    PROVE  LET new == gaptr_push(gap, offset, len)
           IN  /\ new \in Seq(Range0) /\ new # << >> /\ Ordered(new)
               /\ new[Len(new)].end = gap[Len(gap)].end
               /\ Missing(new) = Missing(gap) \ {n \in Nat : offset <= n /\ n < offset + len}
<1> DEFINE q == [begin |-> offset, end |-> offset + len]
           n == Len(gap)
           Eq(it) == it = [s \in SUBSET DOMAIN gap |->
                           IF s = {} THEN [gap |-> << >>, done |-> FALSE]
                           ELSE GapStep(q, it[s \ {Max(s)}], gap[Max(s)])]
<1>0. q \in Range0 /\ q.begin = offset /\ q.end = offset + len
  BY DEF Range0
<1>1. n \in Nat /\ n >= 1 /\ DOMAIN gap = 1..n
  OBVIOUS
<1>2. gaptr_push(gap, offset, len) = (CHOOSE it : Eq(it))[DOMAIN gap].gap
  BY DEF gaptr_push, FoldLeft, MapThenFoldSet, range
<1>3. \E it : Eq(it) /\ it \in [SUBSET DOMAIN gap -> Acc]
  BY <1>0, WalkExists
<1> DEFINE it == CHOOSE it : Eq(it)
<1>4. Eq(it)
  BY <1>3
<1> HIDE DEF it
<1>5. it[1..0] = [gap |-> << >>, done |-> FALSE]
  <2>1. 1..0 = {} /\ {} \in SUBSET DOMAIN gap
    OBVIOUS
  <2> QED
    BY <1>4, <2>1
<1>6. ASSUME NEW k \in 1..n PROVE it[1..k] = GapStep(q, it[1..(k-1)], gap[k])
  <2>1. 1..k \in SUBSET DOMAIN gap /\ k \in 1..k /\ k \in Nat \ {0}
    BY <1>1
  <2>2. Max(1..k) = k /\ (1..k) \ {k} = 1..(k-1)
    BY <2>1, LastPlace
  <2> QED
    BY <1>4, <2>1, <2>2
<1> HIDE DEF Eq, q, n
<1> DEFINE In(g, m) == g.begin <= m /\ m < g.end
           W(k) == LET acc == it[1..k] IN
              /\ acc \in Acc
              /\ Ordered(acc.gap)
              /\ \A i \in DOMAIN acc.gap, j \in (k+1)..n : acc.gap[i].end <= gap[j].begin
              /\ Missing(acc.gap) =
                   {m \in Nat : (\E i \in 1..k : In(gap[i], m)) /\ ~ In(q, m)}
              /\ acc.done => k >= 1 /\ q.end <= gap[k].end
              /\ (k >= 1 /\ q.end < gap[k].end) =>
                    acc.gap # << >> /\ Last(acc.gap).end = gap[k].end
           P == {k \in Nat : k <= n => W(k)}
<1>7. \A i \in 1..n : /\ gap[i] \in Range0 /\ gap[i].begin \in Nat /\ gap[i].end \in Nat
                      /\ gap[i].begin < gap[i].end
  <2>1. \A i \in 1..n : gap[i] \in Range0
    BY <1>1
  <2> QED
    BY <1>1, <2>1, RangesIn DEF n, Ordered
<1>8. \A i, j \in 1..n : i < j => gap[i].end <= gap[j].begin
  BY <1>1 DEF Ordered
<1>9. 0 \in P
  <2>1. [gap |-> << >>, done |-> FALSE] \in Acc
    BY NoRange DEF Acc
  <2> QED
    BY <1>5, <2>1, NoRange
<1>10. ASSUME NEW k \in Nat, k \in P PROVE k + 1 \in P
  <2> SUFFICES ASSUME k + 1 <= n PROVE W(k + 1)
    OBVIOUS
  <2> DEFINE acc == it[1..k]
             new == it[1..(k+1)]
             g == gap[k+1]
             tail == IF acc.done THEN << g >> ELSE Rest(q, g)
  <2>1. k <= n /\ k + 1 \in 1..n /\ (k + 1) - 1 = k
    BY <1>1
  <2>2. /\ acc \in Acc /\ Ordered(acc.gap)
        /\ \A i \in DOMAIN acc.gap, j \in (k+1)..n : acc.gap[i].end <= gap[j].begin
        /\ Missing(acc.gap) =
                   {m \in Nat : (\E i \in 1..k : In(gap[i], m)) /\ ~ In(q, m)}
        /\ acc.done => k >= 1 /\ q.end <= gap[k].end
    BY <1>10, <2>1
  <2>3. /\ g \in Range0 /\ g.begin \in Nat /\ g.end \in Nat /\ g.begin < g.end
        /\ q.begin \in Nat /\ q.end \in Nat
    BY <1>0, <1>7, <2>1
  <2>4. acc.gap \in Seq(Range0) /\ acc.done \in BOOLEAN
    BY <2>2 DEF Acc
  <2>5. acc.done => q.end <= g.begin
    <3> SUFFICES ASSUME acc.done PROVE q.end <= g.begin
      OBVIOUS
    <3>1. k \in 1..n /\ q.end <= gap[k].end /\ gap[k].end <= g.begin
      BY <1>8, <2>1, <2>2
    <3> QED
      BY <1>7, <2>3, <3>1
  <2>6. new = GapStep(q, acc, g)
    BY <1>6, <2>1
  <2>7. /\ tail \in Seq(Range0)
        /\ Ordered(tail)
        /\ \A i \in DOMAIN tail : g.begin <= tail[i].begin /\ tail[i].end <= g.end
        /\ Missing(tail) = {m \in Nat : In(g, m) /\ ~ In(q, m)}
        /\ q.end < g.end => tail # << >> /\ Last(tail).end = g.end
    <3>1. CASE acc.done
      <4>1. \A m \in Nat : In(g, m) => ~ In(q, m)
        BY <2>3, <2>5, <3>1
      <4>2. Last(<< g >>) = g
        BY DEF Last
      <4>3. Missing(<< g >>) = {m \in Nat : In(g, m)}
        BY <2>3, OneRange
      <4>4. Missing(<< g >>) = {m \in Nat : In(g, m) /\ ~ In(q, m)}
        BY <4>1, <4>3
      <4> QED
        BY <2>3, <3>1, <4>2, <4>4, OneRange
    <3>2. CASE ~ acc.done
      BY <1>0, <2>3, <3>2, RestOfGap
    <3> QED
      BY <3>1, <3>2
  <2>8. /\ new.gap = acc.gap \o tail
        /\ new.done \in BOOLEAN
        /\ new.done => acc.done \/ (tail # << >> /\ q.end <= Last(tail).end)
        /\ new = [gap |-> new.gap, done |-> new.done]
    <3>1. CASE acc.done
      <4>1. new = [gap |-> acc.gap \o << g >>, done |-> TRUE]
        BY <2>2, <2>3, <2>6, <3>1, GapStepIs
      <4> HIDE DEF acc, new, g
      <4> QED
        BY <3>1, <4>1
    <3>2. CASE ~ acc.done
      <4> DEFINE D == Rest(q, g) # << >> /\ q.end <= Last(Rest(q, g)).end
      <4>1. new = [gap |-> acc.gap \o Rest(q, g), done |-> D]
        BY <2>2, <2>3, <2>6, <3>2, GapStepIs
      <4>2. D \in BOOLEAN /\ (D => Rest(q, g) # << >> /\ q.end <= Last(Rest(q, g)).end)
        OBVIOUS
      <4> HIDE DEF acc, new, g, D
      <4>3. new.gap = acc.gap \o Rest(q, g) /\ new.done = D
        BY <4>1
      <4> QED
        BY <3>2, <4>1, <4>2, <4>3
    <3> QED
      BY <2>4, <3>1, <3>2
  <2> HIDE DEF acc, new, g, tail, In
  <2>9. \A i \in DOMAIN acc.gap, j \in DOMAIN tail : acc.gap[i].end <= tail[j].begin
    <3> SUFFICES ASSUME NEW i \in DOMAIN acc.gap, NEW j \in DOMAIN tail
                 PROVE  acc.gap[i].end <= tail[j].begin
      OBVIOUS
    <3>1. acc.gap[i].end <= g.begin
      BY <2>1, <2>2 DEF g
    <3>2. g.begin <= tail[j].begin
      BY <2>7
    <3>3. acc.gap[i].end \in Nat /\ tail[j].begin \in Nat
      BY <2>4, <2>7, RangesIn
    <3> QED
      BY <2>3, <3>1, <3>2, <3>3
  <2>10. /\ new.gap \in Seq(Range0) /\ Ordered(new.gap)
         /\ Missing(new.gap) = Missing(acc.gap) \cup Missing(tail)
         /\ \A m \in Nat : (/\ \A i \in DOMAIN acc.gap : acc.gap[i].end <= m
                            /\ \A i \in DOMAIN tail : tail[i].end <= m) =>
                \A i \in DOMAIN new.gap : new.gap[i].end <= m
    BY <2>2, <2>4, <2>7, <2>8, <2>9, Joined
  <2>11. new \in Acc
    BY <2>8, <2>10 DEF Acc
  <2>12. ASSUME NEW i \in DOMAIN new.gap, NEW j \in (k+2)..n
         PROVE  new.gap[i].end <= gap[j].begin
    <3>1. j \in 1..n /\ gap[j].begin \in Nat /\ g.end <= gap[j].begin /\ j \in (k+1)..n
      BY <1>7, <1>8, <2>1, <2>12 DEF g
    <3>2. \A ii \in DOMAIN acc.gap : acc.gap[ii].end <= gap[j].begin
      BY <2>2, <3>1
    <3>3. \A ii \in DOMAIN tail : tail[ii].end <= gap[j].begin
      <4> SUFFICES ASSUME NEW ii \in DOMAIN tail PROVE tail[ii].end <= gap[j].begin
        OBVIOUS
      <4>1. tail[ii].end \in Nat /\ tail[ii].end <= g.end
        BY <2>7, RangesIn
      <4> QED
        BY <2>3, <3>1, <4>1
    <3> QED
      BY <2>10, <3>1, <3>2, <3>3
  <2>13. Missing(new.gap) =
           {m \in Nat : (\E i \in 1..(k+1) : In(gap[i], m)) /\ ~ In(q, m)}
    <3>1. \A m : (\E i \in 1..(k+1) : In(gap[i], m)) <=>
                 (\E i \in 1..k : In(gap[i], m)) \/ In(g, m)
      <4>1. 1..(k+1) = (1..k) \cup {k+1}
        BY <2>1
      <4> QED
        BY <4>1 DEF g
    <3> QED
      BY <2>2, <2>7, <2>10, <3>1
  <2>14. new.done => q.end <= g.end
    <3>1. CASE acc.done
      BY <2>3, <2>5, <3>1
    <3>2. CASE tail # << >> /\ q.end <= Last(tail).end
      <4>1. Len(tail) \in DOMAIN tail /\ Last(tail) = tail[Len(tail)]
        BY <2>7, <3>2 DEF Last
      <4>2. tail[Len(tail)].end \in Nat /\ tail[Len(tail)].end <= g.end
        BY <2>7, <4>1, RangesIn
      <4> QED
        BY <2>3, <3>2, <4>1, <4>2
    <3> QED
      BY <2>8, <3>1, <3>2
  <2>15. q.end < g.end => new.gap # << >> /\ Last(new.gap).end = g.end
    <3> SUFFICES ASSUME q.end < g.end
                 PROVE  new.gap # << >> /\ Last(new.gap).end = g.end
      OBVIOUS
    <3>1. Len(tail) \in Nat \ {0} /\ Last(tail) = tail[Len(tail)] /\ Last(tail).end = g.end
      BY <2>7 DEF Last
    <3>2. Len(new.gap) = Len(acc.gap) + Len(tail) /\ Len(acc.gap) \in Nat
      BY <2>4, <2>7, <2>8
    <3>3. new.gap[Len(acc.gap) + Len(tail)] = tail[Len(tail)]
      BY <2>4, <2>7, <2>8, <3>1, <3>2
    <3>4. Len(new.gap) # 0
      BY <3>1, <3>2
    <3> QED
      BY <3>1, <3>2, <3>3, <3>4 DEF Last
  <2>16. (k + 1) + 1 = k + 2
    OBVIOUS
  <2> QED
    BY <2>1, <2>10, <2>11, <2>12, <2>13, <2>14, <2>15, <2>16 DEF new, g
<1>11. \A k \in Nat : k \in P
  <2> HIDE DEF P
  <2> QED
    BY <1>9, <1>10, SetInduction
<1>12. W(n)
  BY <1>1, <1>11
<1>13. gaptr_push(gap, offset, len) = it[1..n].gap
  BY <1>1, <1>2 DEF it
<1>14. Missing(gap) = {m \in Nat : \E i \in 1..n : In(gap[i], m)}
  BY <1>1 DEF Missing
<1>15. \A m \in Nat : In(q, m) <=> offset <= m /\ m < offset + len
  BY <1>0
<1>16. it[1..n].gap \in Seq(Range0)
  BY <1>12 DEF Acc
<1> QED
  BY <1>0, <1>1, <1>12, <1>13, <1>14, <1>15, <1>16 DEF Last, n

\* The first gap begins at the first missing offset.
LEMMA FirstGap ==
    ASSUME NEW g, GapList(g)
    PROVE  /\ g[1].begin \in Missing(g) /\ g[1].begin \in Nat /\ g[1].begin <= Size
           /\ \A m \in Missing(g) : g[1].begin <= m /\ m \in Nat /\ m <= Size
<1>1. g \in Seq(Range0) /\ g # << >> /\ Ordered(g) /\ g[Len(g)].end = Size + 1
  BY DEF GapList, Infinity
<1>2. 1 \in 1..Len(g) /\ Len(g) \in 1..Len(g) /\ DOMAIN g = 1..Len(g) /\ Len(g) \in Nat
  BY <1>1
<1>3. \A i \in 1..Len(g) : g[i].begin \in Nat /\ g[i].end \in Nat /\ g[i].begin < g[i].end
  BY <1>1, RangesIn DEF Ordered
<1>4. \A i, j \in 1..Len(g) : i < j => g[i].end <= g[j].begin
  BY <1>1 DEF Ordered
<1>5. g[1].begin \in Missing(g)
  BY <1>2, <1>3 DEF Missing
<1>6. ASSUME NEW m \in Missing(g) PROVE g[1].begin <= m /\ m \in Nat /\ m <= Size
  <2>1. PICK i \in 1..Len(g) : g[i].begin <= m /\ m < g[i].end /\ m \in Nat
    BY <1>2 DEF Missing
  <2>2. g[1].begin <= m
    <3>1. CASE i = 1
      BY <2>1, <3>1
    <3>2. CASE i # 1
      <4>1. g[1].end <= g[i].begin
        BY <1>2, <1>4, <3>2
      <4> QED
        BY <1>2, <1>3, <2>1, <4>1
    <3> QED
      BY <3>1, <3>2
  <2>3. g[i].end <= Size + 1
    <3>1. CASE i = Len(g)
      BY <1>1, <3>1, StreamAssumption
    <3>2. CASE i # Len(g)
      <4>1. g[i].end <= g[Len(g)].begin
        <5>1. i < Len(g)
          BY ONLY Len(g) \in Nat, i \in 1..Len(g), i # Len(g)
        <5> QED
          BY <1>2, <1>4, <2>1, <5>1
      <4>2. /\ g[Len(g)].begin < Size + 1 /\ g[Len(g)].begin \in Nat
            /\ Size + 1 \in Nat /\ g[i].end \in Nat
        BY <1>1, <1>2, <1>3
      <4> QED
        BY <4>1, <4>2
    <3> QED
      BY <3>1, <3>2
  <2> QED
    BY <1>3, <2>1, <2>2, <2>3, StreamAssumption
<1> QED
  BY <1>2, <1>3, <1>5, <1>6

\* A range that lies before the end takes its offsets out of a list of gaps.
LEMMA PushGapList ==
    ASSUME NEW g, GapList(g), NEW offset \in Nat, NEW len \in Nat, offset + len <= Size
    PROVE  /\ GapList(gaptr_push(g, offset, len))
           /\ Missing(gaptr_push(g, offset, len)) =
                Missing(g) \ {n \in Nat : offset <= n /\ n < offset + len}
<1>1. g \in Seq(Range0) /\ g # << >> /\ Ordered(g) /\ g[Len(g)].end = Size + 1
  BY DEF GapList, Infinity
<1>2. offset + len < g[Len(g)].end
  BY <1>1, StreamAssumption
<1> DEFINE new == gaptr_push(g, offset, len)
<1>3. /\ new \in Seq(Range0) /\ new # << >> /\ Ordered(new)
      /\ new[Len(new)].end = g[Len(g)].end
      /\ Missing(new) = Missing(g) \ {n \in Nat : offset <= n /\ n < offset + len}
  BY <1>1, <1>2, PushTakesOut
<1> HIDE DEF new
<1>4. GapList(new)
  BY <1>1, <1>3 DEF GapList, Infinity
<1> QED
  BY <1>3, <1>4 DEF new

(* The gaps of rob_remove_prefix.                                          *)
Trimmed(gap, offset) ==
    LET gone == { i \in DOMAIN gap : gap[i].end <= offset }
        left == SubSeq(gap, Cardinality(gone) + 1, Len(gap))
    IN  [i \in DOMAIN left |-> range(Max({offset, left[i].begin}), left[i].end)]

\* Removing a prefix leaves the missing offsets behind it
\* (ngtcp2_rob_remove_prefix).
LEMMA TrimmedGaps ==
    ASSUME NEW gap, GapList(gap), NEW offset \in Nat, offset <= Size
    PROVE  /\ GapList(Trimmed(gap, offset))
           /\ Missing(Trimmed(gap, offset)) = {n \in Missing(gap) : offset <= n}
<1> DEFINE n == Len(gap)
           gone == {i \in DOMAIN gap : gap[i].end <= offset}
           left == SubSeq(gap, Cardinality(gone) + 1, Len(gap))
           new == Trimmed(gap, offset)
<1>1. gap \in Seq(Range0) /\ gap # << >> /\ Ordered(gap) /\ gap[n].end = Size + 1
  BY DEF GapList, Infinity
<1>2. n \in Nat /\ n >= 1 /\ n \in 1..n /\ DOMAIN gap = 1..n
  BY <1>1
<1>3. \A i \in 1..n : /\ gap[i].begin \in Nat /\ gap[i].end \in Nat
                      /\ gap[i].begin < gap[i].end
  BY <1>1, RangesIn DEF Ordered
<1>4. \A i, j \in 1..n : i < j => gap[i].end <= gap[j].begin
  BY <1>1, <1>2 DEF Ordered
<1>5. PICK f \in 1..n : offset < gap[f].end /\ \A i \in 1..n : offset < gap[i].end => f <= i
  <2> DEFINE S == {i \in 1..n : offset < gap[i].end}
  <2>1. n \in S
    BY <1>1, <1>2, StreamAssumption
  <2>2. S \subseteq Nat /\ S # {}
    BY <2>1
  <2>3. PICK m \in S : \A y \in S : m <= y
    BY <2>2, LeastExists
  <2> QED
    BY <2>3
<1>6. gone = 1..(f - 1)
  <2>1. ASSUME NEW i \in 1..n, i < f PROVE gap[i].end <= offset
    BY <1>3, <1>5, <2>1
  <2>2. ASSUME NEW i \in 1..n, f < i PROVE ~ (gap[i].end <= offset)
    <3>1. gap[f].end <= gap[i].begin
      BY <1>4, <2>2
    <3> QED
      BY <1>3, <1>5, <3>1
  <2>3. ~ (gap[f].end <= offset)
    BY <1>3, <1>5
  <2> QED
    BY <1>2, <2>1, <2>2, <2>3
<1>7. Cardinality(gone) + 1 = f
  <2>1. Cardinality(1..(f - 1)) = f - 1
    <3>1. Cardinality(1..(f - 1)) = IF 1 > f - 1 THEN 0 ELSE (f - 1) - 1 + 1
      BY FS_Interval
    <3> QED
      BY <3>1
  <2> HIDE DEF gone
  <2>2. Cardinality(gone) = f - 1
    BY <1>6, <2>1
  <2> QED
    BY <2>2
<1> HIDE DEF n, gone
<1>8. /\ left = SubSeq(gap, f, n)
      /\ left \in Seq(Range0) /\ Len(left) = n - f + 1 /\ DOMAIN left = 1..(n - f + 1)
      /\ \A i \in 1..(n - f + 1) : left[i] = gap[f + i - 1]
  <2>1. left = SubSeq(gap, f, n)
    BY <1>7 DEF n, gone
  <2>2. f \in Int /\ n \in Int /\ f <= n
    BY <1>2, <1>5
  <2>3. \A i \in f..n : gap[i] \in Range0
    BY <1>1, <1>2, <1>5
  <2>4. /\ SubSeq(gap, f, n) \in Seq(Range0)
        /\ Len(SubSeq(gap, f, n)) = n - f + 1
        /\ \A i \in 1..(n - f + 1) : SubSeq(gap, f, n)[i] = gap[f + i - 1]
    BY <2>2, <2>3, SubSeqProperties
  <2> HIDE DEF left
  <2> QED
    BY <2>1, <2>4
<1> DEFINE b(i) == IF offset >= gap[f + i - 1].begin THEN offset ELSE gap[f + i - 1].begin
<1>9. new = [i \in 1..(n - f + 1) |-> [begin |-> b(i), end |-> gap[f + i - 1].end]]
  <2>1. new = [i \in DOMAIN left |-> range(Max({offset, left[i].begin}), left[i].end)]
    BY DEF Trimmed, gone
  <2>2. ASSUME NEW i \in 1..(n - f + 1)
        PROVE  range(Max({offset, left[i].begin}), left[i].end) =
                 [begin |-> b(i), end |-> gap[f + i - 1].end]
    <3>1. f + i - 1 \in 1..n /\ left[i] = gap[f + i - 1]
      BY <1>2, <1>8
    <3>2. gap[f + i - 1].begin \in Nat
      BY <1>3, <3>1
    <3>3. Max({offset, gap[f + i - 1].begin}) = b(i)
      BY <3>2, MaxMinPair
    <3> QED
      BY <3>1, <3>3 DEF range
  <2> HIDE DEF new, left, b
  <2> QED
    BY <1>8, <2>1, <2>2
<1> HIDE DEF left, new
<1> DEFINE k == n - f + 1
<1>10. k \in Nat /\ k >= 1 /\ \A i \in 1..k : f + i - 1 \in 1..n
  BY <1>2
<1>11. \A i \in 1..k : /\ b(i) \in Nat
                       /\ gap[f + i - 1].begin <= b(i) /\ offset <= b(i)
                       /\ b(i) < gap[f + i - 1].end
                       /\ b(i) = offset \/ b(i) = gap[f + i - 1].begin
  <2> SUFFICES ASSUME NEW i \in 1..k
               PROVE  /\ b(i) \in Nat
                      /\ gap[f + i - 1].begin <= b(i) /\ offset <= b(i)
                      /\ b(i) < gap[f + i - 1].end
                      /\ b(i) = offset \/ b(i) = gap[f + i - 1].begin
    OBVIOUS
  <2> DEFINE j == f + i - 1
  <2>1. j \in 1..n /\ f <= j
    BY <1>10
  <2> HIDE DEF j
  <2>2. offset < gap[j].end
    <3>1. CASE j = f
      BY <1>5, <3>1
    <3>2. CASE j # f
      <4>1. gap[f].end <= gap[j].begin
        BY <1>4, <2>1, <3>2
      <4> QED
        BY <1>3, <1>5, <2>1, <4>1
    <3> QED
      BY <3>1, <3>2
  <2> QED
    BY <1>3, <2>1, <2>2 DEF j
<1>12. new \in Seq(Range0) /\ Len(new) = k /\ DOMAIN new = 1..k /\ new # << >>
  <2>1. \A i \in 1..k : [begin |-> b(i), end |-> gap[f + i - 1].end] \in Range0
    BY <1>3, <1>10, <1>11 DEF Range0
  <2>2. new \in [1..k -> Range0]
    BY <1>9, <2>1
  <2>3. new \in Seq(Range0) /\ Len(new) = k
    BY <1>10, <2>2, FunctionIsSeq
  <2> QED
    BY <1>10, <2>3
<1>13. Ordered(new)
  <2>1. ASSUME NEW i \in DOMAIN new PROVE new[i].begin < new[i].end
    BY <1>9, <1>11, <1>12
  <2>2. ASSUME NEW i \in DOMAIN new, NEW j \in DOMAIN new, i < j
        PROVE  new[i].end <= new[j].begin
    <3>1. gap[f + i - 1].end <= gap[f + j - 1].begin
      BY <1>4, <1>10, <1>12, <2>2
    <3>2. gap[f + i - 1].end \in Nat /\ gap[f + j - 1].begin \in Nat
      BY <1>3, <1>10, <1>12
    <3>3. new[i].end = gap[f + i - 1].end /\ new[j].begin = b(j)
      BY <1>9, <1>12
    <3>4. b(j) \in Nat /\ gap[f + j - 1].begin <= b(j)
      BY <1>11, <1>12
    <3> HIDE DEF b
    <3> QED
      BY <3>1, <3>2, <3>3, <3>4
  <2> QED
    BY <2>1, <2>2 DEF Ordered
<1>14. new[Len(new)].end = Infinity
  <2>1. f + k - 1 = n
    BY <1>2
  <2>2. k \in 1..k
    BY <1>10
  <2> QED
    BY <1>1, <1>9, <1>12, <2>1, <2>2 DEF Infinity
<1>15. Missing(new) = {m \in Missing(gap) : offset <= m}
  <2>1. ASSUME NEW m \in Missing(new) PROVE m \in Missing(gap) /\ offset <= m
    <3>1. PICK i \in 1..k : b(i) <= m /\ m < gap[f + i - 1].end /\ m \in Nat
      BY <1>9, <1>12 DEF Missing
    <3>2. f + i - 1 \in DOMAIN gap /\ gap[f + i - 1].begin \in Nat
      BY <1>2, <1>3, <1>10
    <3>3. gap[f + i - 1].begin <= b(i) /\ offset <= b(i) /\ b(i) \in Nat
      BY <1>11
    <3>4. gap[f + i - 1].begin <= m /\ offset <= m
      <4> HIDE DEF b
      <4> QED
        BY <3>1, <3>2, <3>3
    <3> QED
      BY <3>1, <3>2, <3>4 DEF Missing
  <2>2. ASSUME NEW m \in Missing(gap), offset <= m PROVE m \in Missing(new)
    <3>1. PICK j \in 1..n : gap[j].begin <= m /\ m < gap[j].end /\ m \in Nat
      BY <1>2 DEF Missing
    <3>2. f <= j
      BY <1>3, <1>5, <2>2, <3>1
    <3>3. j - f + 1 \in 1..k /\ f + (j - f + 1) - 1 = j
      BY <3>2, <1>2
    <3>4. b(j - f + 1) <= m
      BY <2>2, <3>1, <3>3
    <3> QED
      BY <1>9, <1>12, <3>1, <3>3, <3>4 DEF Missing
  <2> QED
    BY <2>1, <2>2
<1> QED
  BY <1>12, <1>13, <1>14, <1>15 DEF GapList, new

---------------------------------------------------------------------------
(* The reorder buffer.                                                     *)

\* A chunk holds Chunk bytes from a multiple of Chunk on.
LEMMA ChunkHolds ==
    ASSUME NEW i \in Nat
    PROVE  /\ ChunkOf(i) \in Nat /\ ChunkOf(i) <= i /\ i < ChunkOf(i) + Chunk
           /\ ChunkOf(ChunkOf(i)) = ChunkOf(i)
<1> DEFINE q == i \div Chunk
<1>0. Chunk \in Nat /\ Chunk > 0
  BY StreamAssumption
<1>1. q \in Nat /\ q * Chunk <= i /\ i < (q + 1) * Chunk
  BY <1>0
<1>2. (q * Chunk) \div Chunk = q
  BY <1>0, <1>1
<1>3. (q + 1) * Chunk = q * Chunk + Chunk /\ q * Chunk \in Nat
  BY <1>0, <1>1
<1> QED
  BY <1>1, <1>2, <1>3 DEF ChunkOf

\* Chunks do not overlap.
LEMMA ChunksApart ==
    ASSUME NEW i \in Nat, NEW k \in Nat, ChunkOf(k) = k
    PROVE  /\ i >= k + Chunk => ChunkOf(i) >= k + Chunk
           /\ (k <= i /\ i < k + Chunk) => ChunkOf(i) = k
           /\ (ChunkOf(i) = i /\ k < i) => k + Chunk <= i
<1> DEFINE p == i \div Chunk
           q == k \div Chunk
<1>0. Chunk \in Nat /\ Chunk > 0
  BY StreamAssumption
<1>1. /\ p \in Nat /\ p * Chunk <= i /\ i < p * Chunk + Chunk
      /\ q \in Nat /\ q * Chunk = k
  BY <1>0 DEF ChunkOf
<1> HIDE DEF p, q
<1>2. ASSUME q < p PROVE k + Chunk <= p * Chunk
  <2>1. q + 1 <= p
    BY <1>1, <1>2
  <2>2. (q + 1) * Chunk <= p * Chunk
    BY <1>0, <1>1, <2>1
  <2>3. (q + 1) * Chunk = q * Chunk + Chunk
    BY <1>0, <1>1
  <2> QED
    BY <1>1, <2>2, <2>3
<1>3. ASSUME p <= q PROVE p * Chunk <= k
  BY <1>0, <1>1, <1>3
<1>4. ASSUME p < q PROVE p * Chunk + Chunk <= k
  <2>1. p + 1 <= q
    BY <1>1, <1>4
  <2>2. (p + 1) * Chunk <= q * Chunk
    BY <1>0, <1>1, <2>1
  <2>3. (p + 1) * Chunk = p * Chunk + Chunk
    BY <1>0, <1>1
  <2> QED
    BY <1>1, <2>2, <2>3
<1>5. ChunkOf(i) = p * Chunk /\ p * Chunk \in Nat
  BY <1>0, <1>1 DEF ChunkOf, p
<1> DEFINE c == p * Chunk
<1>6. /\ c \in Nat /\ c <= i /\ i < c + Chunk /\ ChunkOf(i) = c
      /\ q < p => k + Chunk <= c
      /\ p < q => c + Chunk <= k
      /\ p = q => c = k
  BY <1>1, <1>2, <1>4, <1>5
<1> HIDE DEF c
<1> QED
  BY <1>0, <1>1, <1>6

\* A buffer with other chunks and other memory.
LEMMA RobWith ==
    ASSUME NEW r \in Rob, NEW d, NEW m
    PROVE  /\ [r EXCEPT !.data = d, !.mem = m] = [gap |-> r.gap, data |-> d, mem |-> m]
           /\ (d \subseteq Nat /\ m \subseteq Nat) =>
                [gap |-> r.gap, data |-> d, mem |-> m] \in Rob
<1>1. [r EXCEPT !.data = d, !.mem = m] = [gap |-> r.gap, data |-> d, mem |-> m]
  <2>1. [r EXCEPT !.data = d, !.mem = m] = [[r EXCEPT !.data = d] EXCEPT !.mem = m]
    OBVIOUS
  <2>2. [r EXCEPT !.data = d] = [gap |-> r.gap, data |-> d, mem |-> r.mem]
    BY DEF Rob
  <2>3. [[r EXCEPT !.data = d] EXCEPT !.mem = m] =
          [[gap |-> r.gap, data |-> d, mem |-> r.mem] EXCEPT !.mem = m]
    BY <2>2
  <2>4. [[gap |-> r.gap, data |-> d, mem |-> r.mem] EXCEPT !.mem = m] =
          [gap |-> r.gap, data |-> d, mem |-> m]
    OBVIOUS
  <2> QED
    BY <2>1, <2>3, <2>4
<1>2. ASSUME d \in SUBSET Nat, m \in SUBSET Nat
      PROVE  [gap |-> r.gap, data |-> d, mem |-> m] \in Rob
  BY <1>2 DEF Rob
<1> QED
  BY <1>1, <1>2

\* Freed chunks take what was written to them along.
LEMMA FreedChunks ==
    ASSUME NEW r \in Rob, NEW chunks
    PROVE  /\ FreeChunks(r, chunks) \in Rob
           /\ FreeChunks(r, chunks).gap = r.gap
           /\ FreeChunks(r, chunks).data = r.data \ chunks
           /\ FreeChunks(r, chunks).mem = {i \in r.mem : ChunkOf(i) \notin chunks}
<1>1. FreeChunks(r, chunks) =
        [gap |-> r.gap, data |-> r.data \ chunks,
         mem |-> {i \in r.mem : ChunkOf(i) \notin chunks}]
  <2> DEFINE d == r.data \ chunks
             m == {i \in r.mem : (i \div Chunk) * Chunk \notin chunks}
  <2>1. FreeChunks(r, chunks) = [r EXCEPT !.data = d, !.mem = m]
    BY DEF FreeChunks
  <2>2. m = {i \in r.mem : ChunkOf(i) \notin chunks}
    BY DEF ChunkOf
  <2> HIDE DEF d, m
  <2>3. FreeChunks(r, chunks) = [gap |-> r.gap, data |-> d, mem |-> m]
    BY <2>1, RobWith
  <2> QED
    BY <2>2, <2>3 DEF d
<1>2. r.gap \in Seq(Range0) /\ r.data \subseteq Nat /\ r.mem \subseteq Nat
  BY DEF Rob
<1> QED
  BY <1>1, <1>2 DEF Rob

\* What rob_push does to the buffer.
LEMMA PushIs ==
    ASSUME NEW r \in Rob, GapList(r.gap), NEW offset \in Nat, NEW len \in Nat,
           offset + len <= Size
    PROVE  LET fresh == {i \in Missing(r.gap) : offset <= i /\ i < offset + len}
               new   == rob_push(r, offset, len)
           IN  /\ new \in Rob
               /\ new.gap = gaptr_push(r.gap, offset, len)
               /\ new.data = r.data \cup {ChunkOf(i) : i \in fresh}
               /\ new.mem = r.mem \cup fresh
<1> DEFINE fresh == {i \in Missing(r.gap) : offset <= i /\ i < offset + len}
           missing == UNION { Bytes(r.gap[i].begin, r.gap[i].end) : i \in DOMAIN r.gap }
           cut == Bytes(offset, offset + len) \cap missing
           w == [gap |-> r.gap, data |-> r.data \cup {ChunkOf(i) : i \in fresh},
                 mem |-> r.mem \cup fresh]
<1>1. r = [gap |-> r.gap, data |-> r.data, mem |-> r.mem]
      /\ r.gap \in Seq(Range0) /\ r.data \subseteq Nat /\ r.mem \subseteq Nat
  BY DEF Rob
<1>2. cut = fresh
  <2>1. ASSUME NEW i \in cut PROVE i \in fresh
    BY StreamAssumption DEF Bytes, Offset, Infinity, Missing
  <2>2. ASSUME NEW i \in fresh PROVE i \in cut
    <3>1. i \in Nat /\ i <= Size + 1 /\ offset <= i /\ i < offset + len
      BY StreamAssumption DEF Missing
    <3>2. PICK j \in DOMAIN r.gap : r.gap[j].begin <= i /\ i < r.gap[j].end
      BY DEF Missing
    <3>3. i \in Bytes(r.gap[j].begin, r.gap[j].end) /\ i \in Bytes(offset, offset + len)
      BY <3>1, <3>2, StreamAssumption DEF Bytes, Offset, Infinity
    <3> QED
      BY <3>2, <3>3
  <2> QED
    BY <2>1, <2>2
<1>3. rob_write_data(r, fresh) = w
  <2> DEFINE d == r.data \cup {(i \div Chunk) * Chunk : i \in fresh}
             m == r.mem \cup fresh
  <2>1. rob_write_data(r, fresh) = [r EXCEPT !.data = d, !.mem = m]
    BY DEF rob_write_data
  <2>2. d = r.data \cup {ChunkOf(i) : i \in fresh}
    BY DEF ChunkOf
  <2> HIDE DEF d, m, fresh
  <2>3. rob_write_data(r, fresh) = [gap |-> r.gap, data |-> d, mem |-> m]
    BY <2>1, RobWith
  <2> QED
    BY <2>2, <2>3 DEF m
<1>4. fresh = {} => r = w
  <2> HIDE DEF fresh
  <2> QED
    BY <1>1
<1>5. rob_push(r, offset, len) = [w EXCEPT !.gap = gaptr_push(@, offset, len)]
  <2>1. rob_push(r, offset, len) =
          [(IF cut = {} THEN r ELSE rob_write_data(r, cut)) EXCEPT
              !.gap = gaptr_push(@, offset, len)]
    BY DEF rob_push
  <2> HIDE DEF cut, fresh, w
  <2>2. (IF cut = {} THEN r ELSE rob_write_data(r, cut)) = w
    BY <1>2, <1>3, <1>4
  <2> QED
    BY <2>1, <2>2
<1>6. fresh \subseteq Nat /\ {ChunkOf(i) : i \in fresh} \subseteq Nat
  <2>1. fresh \subseteq Nat
    BY DEF Missing
  <2> HIDE DEF fresh
  <2> QED
    BY <2>1, ChunkHolds
<1>7. gaptr_push(r.gap, offset, len) \in Seq(Range0)
  BY PushGapList DEF GapList
<1> HIDE DEF fresh
<1>8. rob_push(r, offset, len) =
        [gap |-> gaptr_push(r.gap, offset, len),
         data |-> r.data \cup {ChunkOf(i) : i \in fresh}, mem |-> r.mem \cup fresh]
  BY <1>5
<1>9. rob_push(r, offset, len) \in Rob
  <2> DEFINE d == r.data \cup {ChunkOf(i) : i \in fresh}
             m == r.mem \cup fresh
  <2>1. d \in SUBSET Nat /\ m \in SUBSET Nat
    BY <1>1, <1>6
  <2>2. rob_push(r, offset, len) =
          [gap |-> gaptr_push(r.gap, offset, len), data |-> d, mem |-> m]
    BY <1>8
  <2> HIDE DEF d, m
  <2> QED
    BY <1>7, <2>1, <2>2 DEF Rob
<1>10. /\ rob_push(r, offset, len).gap = gaptr_push(r.gap, offset, len)
       /\ rob_push(r, offset, len).data = r.data \cup {ChunkOf(i) : i \in fresh}
       /\ rob_push(r, offset, len).mem = r.mem \cup fresh
  BY <1>8
<1> QED
  BY <1>9, <1>10 DEF fresh

\* Data that comes early is buffered, and the first gap stays
\* (ngtcp2_rob_push).
LEMMA PushBuffered ==
    ASSUME NEW r \in Rob, Buffered(r, r.gap[1].begin),
           NEW offset \in Nat, NEW len \in Nat,
           r.gap[1].begin < offset, offset + len <= Size
    PROVE  LET new == rob_push(r, offset, len)
           IN  /\ new \in Rob
               /\ new.gap[1].begin = r.gap[1].begin
               /\ Buffered(new, new.gap[1].begin)
               /\ Missing(new.gap) = Missing(r.gap) \ {i \in Nat : offset <= i /\ i < offset + len}
<1> DEFINE new == rob_push(r, offset, len)
           rx == r.gap[1].begin
           fresh == {i \in Missing(r.gap) : offset <= i /\ i < offset + len}
<1>1. GapList(r.gap)
  BY DEF Buffered
<1>2. /\ new \in Rob
      /\ new.gap = gaptr_push(r.gap, offset, len)
      /\ new.data = r.data \cup {ChunkOf(i) : i \in fresh}
      /\ new.mem = r.mem \cup fresh
  BY <1>1, PushIs
<1>3. /\ GapList(new.gap)
      /\ Missing(new.gap) = Missing(r.gap) \ {i \in Nat : offset <= i /\ i < offset + len}
  BY <1>1, <1>2, PushGapList
<1>4. /\ rx \in Missing(r.gap) /\ rx \in Nat /\ rx <= Size
      /\ \A m \in Missing(r.gap) : rx <= m /\ m \in Nat /\ m <= Size
  BY <1>1, FirstGap
<1>5. /\ new.gap[1].begin \in Missing(new.gap) /\ new.gap[1].begin \in Nat
      /\ \A m \in Missing(new.gap) : new.gap[1].begin <= m
  BY <1>3, FirstGap
<1> HIDE DEF new, rx
<1>6. new.gap[1].begin = rx
  <2>1. rx \in Missing(new.gap)
    BY <1>3, <1>4 DEF rx
  <2>2. rx <= new.gap[1].begin
    BY <1>3, <1>4, <1>5
  <2> QED
    BY <1>4, <1>5, <2>1, <2>2
<1>7. \A i \in fresh : i \in Nat /\ rx <= i /\ i <= Size
  BY <1>4 DEF rx
<1>8. /\ r.data \subseteq 0..Size
      /\ \A k \in r.data : ChunkOf(k) = k /\ rx < k + Chunk
      /\ \A i \in Nat : (rx <= i /\ i < Infinity /\ i \notin Missing(r.gap)) =>
           i \in r.mem /\ ChunkOf(i) \in r.data
  BY DEF Buffered, rx
<1>9. ASSUME NEW k \in new.data PROVE k \in 0..Size /\ ChunkOf(k) = k /\ rx < k + Chunk
  <2>1. CASE k \in r.data
    BY <1>8, <2>1
  <2>2. CASE k \notin r.data
    <3>1. PICK i \in fresh : k = ChunkOf(i)
      BY <1>2, <2>2
    <3>2. i \in Nat /\ rx <= i /\ i <= Size
      BY <1>7, <3>1
    <3>3. k \in Nat /\ k <= i /\ i < k + Chunk /\ ChunkOf(k) = k
      BY <3>1, <3>2, ChunkHolds
    <3> QED
      BY <1>4, <3>2, <3>3, StreamAssumption
  <2> QED
    BY <2>1, <2>2
<1>10. ASSUME NEW i \in Nat, rx <= i, i < Infinity, i \notin Missing(new.gap)
       PROVE  i \in new.mem /\ ChunkOf(i) \in new.data
  <2>1. CASE i \in Missing(r.gap)
    <3>1. i \in fresh
      BY <1>3, <1>10, <2>1
    <3> HIDE DEF fresh
    <3> QED
      BY <1>2, <3>1
  <2>2. CASE i \notin Missing(r.gap)
    BY <1>2, <1>8, <1>10, <2>2
  <2> QED
    BY <2>1, <2>2
<1>11. Buffered(new, rx)
  BY <1>3, <1>4, <1>6, <1>9, <1>10 DEF Buffered
<1> QED
  BY <1>2, <1>3, <1>6, <1>11 DEF new, rx

\* After a prefix is removed the buffer holds what comes behind it
\* (ngtcp2_rob_remove_prefix).
LEMMA PrefixRemoved ==
    ASSUME NEW r \in Rob, Buffered(r, r.gap[1].begin), NEW offset \in Nat,
           r.gap[1].begin < offset, offset <= Size
    PROVE  LET new == rob_remove_prefix(r, offset)
           IN  /\ new \in Rob
               /\ Buffered(new, offset)
               /\ Missing(new.gap) = {i \in Missing(r.gap) : offset <= i}
<1> DEFINE new == rob_remove_prefix(r, offset)
           rx == r.gap[1].begin
           gone == {k \in r.data : k + Chunk <= offset}
           mid == [r EXCEPT !.gap = Trimmed(r.gap, offset)]
<1>1. GapList(r.gap)
  BY DEF Buffered
<1>2. /\ GapList(Trimmed(r.gap, offset))
      /\ Missing(Trimmed(r.gap, offset)) = {n \in Missing(r.gap) : offset <= n}
  BY <1>1, TrimmedGaps
<1>3. new = FreeChunks(mid, gone)
  BY DEF rob_remove_prefix, Trimmed
<1>4. mid \in Rob /\ mid.gap = Trimmed(r.gap, offset) /\ mid.data = r.data /\ mid.mem = r.mem
  BY <1>2 DEF Rob, GapList
<1> HIDE DEF new, mid
<1>5. /\ new \in Rob
      /\ new.gap = Trimmed(r.gap, offset)
      /\ new.data = r.data \ gone
      /\ new.mem = {i \in r.mem : ChunkOf(i) \notin gone}
  BY <1>3, <1>4, FreedChunks
<1>6. /\ rx \in Nat
      /\ r.data \subseteq 0..Size
      /\ \A k \in r.data : ChunkOf(k) = k
      /\ \A i \in Nat : (rx <= i /\ i < Infinity /\ i \notin Missing(r.gap)) =>
           i \in r.mem /\ ChunkOf(i) \in r.data
  BY <1>1, FirstGap DEF Buffered
<1>7. offset <= new.gap[1].begin
  <2>1. new.gap[1].begin \in Missing(new.gap)
    BY <1>2, <1>5, FirstGap
  <2> QED
    BY <1>2, <1>5, <2>1
<1>8. ASSUME NEW k \in new.data PROVE k \in 0..Size /\ ChunkOf(k) = k /\ offset < k + Chunk
  <2>1. k \in 0..Size /\ ChunkOf(k) = k /\ ~ (k + Chunk <= offset)
    BY <1>5, <1>6
  <2> QED
    BY <2>1, StreamAssumption
<1>9. ASSUME NEW i \in Nat, offset <= i, i < Infinity, i \notin Missing(new.gap)
      PROVE  i \in new.mem /\ ChunkOf(i) \in new.data
  <2>1. i \notin Missing(r.gap) /\ rx <= i
    BY <1>2, <1>5, <1>6, <1>9
  <2>2. i \in r.mem /\ ChunkOf(i) \in r.data
    BY <1>6, <1>9, <2>1
  <2>3. ChunkOf(i) \in Nat /\ i < ChunkOf(i) + Chunk
    BY ChunkHolds
  <2>4. ChunkOf(i) \notin gone
    BY <1>9, <2>3, StreamAssumption
  <2> QED
    BY <1>5, <2>2, <2>4
<1>10. Buffered(new, offset)
  BY <1>2, <1>5, <1>7, <1>8, <1>9 DEF Buffered
<1> QED
  BY <1>2, <1>5, <1>10 DEF new

---------------------------------------------------------------------------
(* Passing data on.                                                        *)

(* What neither the callbacks nor the loop change.                         *)
SameLimits(new, st) ==
    /\ new.closed = st.closed /\ new.refuse = st.refuse /\ new.err = st.err
    /\ new.strm.max_rx_offset = st.strm.max_rx_offset
    /\ new.conn.max_rx_offset = st.conn.max_rx_offset
    /\ new.conn.rx_offset = st.conn.rx_offset
    /\ new.strm.last_rx_offset = st.strm.last_rx_offset
    /\ new.strm.SHUT_RD = st.strm.SHUT_RD /\ new.strm.RECV_RST = st.strm.RECV_RST
    /\ new.rob.gap = st.rob.gap

\* The state of a call with one part replaced.
LEMMA StWith ==
    ASSUME NEW st \in St
    PROVE  /\ \A x \in Rob : [st EXCEPT !.rob = x] \in St
           /\ \A x \in Strm : [st EXCEPT !.strm = x] \in St
           /\ \A x \in Conn : [st EXCEPT !.conn = x] \in St
           /\ \A x \in Seq(Nat) : [st EXCEPT !.out = x] \in St
           /\ \A x \in Nat : [st EXCEPT !.fins = x] \in St
           /\ \A x \in BOOLEAN : [st EXCEPT !.closed = x] \in St
           /\ \A x \in Code : [st EXCEPT !.err = x] \in St
BY DEF St

\* Its parts.
LEMMA StParts ==
    ASSUME NEW st \in St
    PROVE  /\ st.rob \in Rob /\ st.strm \in Strm /\ st.conn \in Conn
           /\ st.out \in Seq(Nat) /\ st.fins \in Nat /\ st.closed \in BOOLEAN
           /\ st.err \in Code /\ st.refuse \in BOOLEAN
           /\ st.rob.gap \in Seq(Range0) /\ st.rob.data \subseteq Nat
           /\ st.rob.mem \subseteq Nat
           /\ st.strm.last_rx_offset \in Nat /\ st.strm.max_rx_offset \in Nat
           /\ st.strm.unsent_max_rx_offset \in Nat
           /\ st.strm.SHUT_RD \in BOOLEAN /\ st.strm.RECV_RST \in BOOLEAN
           /\ st.strm.STOP_SENDING \in BOOLEAN /\ st.strm.SHUT_WR \in BOOLEAN
           /\ st.strm.fc \in BOOLEAN /\ st.strm.opened \in BOOLEAN
           /\ st.conn.rx_offset \in Nat /\ st.conn.max_rx_offset \in Nat
           /\ st.conn.unsent_max_rx_offset \in Nat
BY DEF St, Rob, Strm, Conn

\* Both windows grow by what was consumed (ExtendWindows).
LEMMA Extended ==
    ASSUME NEW st \in St, NEW len \in Nat
    PROVE  LET new == ExtendWindows(st, len)
           IN  /\ new \in St
               /\ SameLimits(new, st) /\ new.rob = st.rob
               /\ new.out = st.out /\ new.fins = st.fins
               /\ new.strm.unsent_max_rx_offset = st.strm.unsent_max_rx_offset + len
               /\ new.conn.unsent_max_rx_offset = st.conn.unsent_max_rx_offset + len
               /\ new.strm.STOP_SENDING = st.strm.STOP_SENDING
<1> DEFINE t == [st.strm EXCEPT !.unsent_max_rx_offset = @ + len]
           listed == t.fc \/ (~ t.SHUT_RD /\ ~ t.STOP_SENDING
                               /\ conn_should_send_max_stream_data(t))
           u == [t EXCEPT !.fc = listed]
           c == [st.conn EXCEPT !.unsent_max_rx_offset = @ + len]
           new == ExtendWindows(st, len)
<1>1. new = [[st EXCEPT !.strm = u] EXCEPT !.conn = c]
  BY DEF ExtendWindows, St
<1>2. t \in Strm
  <2>1. st.strm \in Strm
    BY StParts
  <2> QED
    BY <2>1 DEF Strm
<1>3. listed \in BOOLEAN
  <2>1. t.fc \in BOOLEAN
    BY <1>2 DEF Strm
  <2> HIDE DEF t
  <2> QED
    BY <2>1
<1>4. u \in Strm
  <2> HIDE DEF t, listed
  <2> QED
    BY <1>2, <1>3 DEF Strm
<1>5. c \in Conn
  <2>1. st.conn \in Conn
    BY StParts
  <2> QED
    BY <2>1 DEF Conn
<1>6. new \in St
  <2> HIDE DEF u, c, new
  <2>1. [st EXCEPT !.strm = u] \in St
    BY <1>4, StWith
  <2> QED
    BY <1>1, <1>5, <2>1, StWith
<1>7. /\ SameLimits(new, st) /\ new.rob = st.rob
      /\ new.out = st.out /\ new.fins = st.fins
      /\ new.strm.unsent_max_rx_offset = st.strm.unsent_max_rx_offset + len
      /\ new.conn.unsent_max_rx_offset = st.conn.unsent_max_rx_offset + len
      /\ new.strm.STOP_SENDING = st.strm.STOP_SENDING
  BY DEF ExtendWindows, St, Strm, Conn, SameLimits
<1> QED
  BY <1>6, <1>7

\* The application takes the bytes (conn_call_recv_stream_data).
LEMMA Called ==
    ASSUME NEW st \in St, NEW fin \in BOOLEAN, NEW bytes \in Seq(Nat)
    PROVE  LET new == conn_call_recv_stream_data(st, fin, bytes)
           IN  /\ new \in St
               /\ SameLimits(new, st) /\ new.rob = st.rob
               /\ new.out = st.out \o bytes
               /\ new.fins = IF fin THEN st.fins + 1 ELSE st.fins
               /\ new.strm.unsent_max_rx_offset =
                    st.strm.unsent_max_rx_offset + Len(bytes)
               /\ new.conn.unsent_max_rx_offset =
                    st.conn.unsent_max_rx_offset + Len(bytes)
               /\ ~ st.refuse => new.strm.STOP_SENDING = st.strm.STOP_SENDING
<1> DEFINE e == ExtendWindows(st, Len(bytes))
           o == e.out \o bytes
           f == IF fin THEN e.fins + 1 ELSE e.fins
           t == IF st.refuse
                THEN conn_shutdown_stream_write(conn_shutdown_stream_read(e.strm))
                ELSE e.strm
           new == conn_call_recv_stream_data(st, fin, bytes)
<1>0. Len(bytes) \in Nat
  OBVIOUS
<1>1. /\ e \in St
      /\ SameLimits(e, st) /\ e.rob = st.rob
      /\ e.out = st.out /\ e.fins = st.fins
      /\ e.strm.unsent_max_rx_offset = st.strm.unsent_max_rx_offset + Len(bytes)
      /\ e.conn.unsent_max_rx_offset = st.conn.unsent_max_rx_offset + Len(bytes)
      /\ e.strm.STOP_SENDING = st.strm.STOP_SENDING
  BY <1>0, Extended
<1>2. new = [[[e EXCEPT !.out = o] EXCEPT !.fins = f] EXCEPT !.strm = t]
  <2>1. new = [e EXCEPT !.out = o, !.fins = f, !.strm = t]
    BY DEF conn_call_recv_stream_data
  <2> HIDE DEF e, o, f, t, new
  <2> QED
    BY <2>1
<1> HIDE DEF e
<1>3. o \in Seq(Nat) /\ f \in Nat
  <2>1. e.out \in Seq(Nat) /\ e.fins \in Nat
    BY <1>1, StParts
  <2> QED
    BY <2>1
<1>4. /\ t \in Strm
      /\ t.max_rx_offset = e.strm.max_rx_offset
      /\ t.last_rx_offset = e.strm.last_rx_offset
      /\ t.unsent_max_rx_offset = e.strm.unsent_max_rx_offset
      /\ t.SHUT_RD = e.strm.SHUT_RD /\ t.RECV_RST = e.strm.RECV_RST
      /\ ~ st.refuse => t = e.strm
  <2>1. e.strm \in Strm
    BY <1>1, StParts
  <2> DEFINE a == [[e.strm EXCEPT !.STOP_SENDING = TRUE] EXCEPT !.fc = FALSE]
             b == [a EXCEPT !.SHUT_WR = TRUE]
  <2>2. /\ [e.strm EXCEPT !.STOP_SENDING = TRUE] \in Strm
        /\ conn_shutdown_stream_read(e.strm) = a
    BY <2>1 DEF Strm, conn_shutdown_stream_read
  <2>3. a \in Strm
    BY <2>2 DEF Strm
  <2>4. b \in Strm /\ conn_shutdown_stream_write(a) = b
    <3> HIDE DEF a
    <3> QED
      BY <2>3 DEF Strm, conn_shutdown_stream_write
  <2>5. /\ b.max_rx_offset = e.strm.max_rx_offset
        /\ b.last_rx_offset = e.strm.last_rx_offset
        /\ b.unsent_max_rx_offset = e.strm.unsent_max_rx_offset
        /\ b.SHUT_RD = e.strm.SHUT_RD /\ b.RECV_RST = e.strm.RECV_RST
    BY <2>1 DEF Strm
  <2>6. t = IF st.refuse THEN b ELSE e.strm
    BY <2>2, <2>4
  <2> HIDE DEF b, t
  <2> QED
    BY <2>1, <2>4, <2>5, <2>6
<1> HIDE DEF o, f, t, new
<1>5. new \in St
  <2>1. [e EXCEPT !.out = o] \in St
    BY <1>1, <1>3, StWith
  <2>2. [[e EXCEPT !.out = o] EXCEPT !.fins = f] \in St
    BY <1>3, <2>1, StWith
  <2> QED
    BY <1>2, <1>4, <2>2, StWith
<1>6. /\ new.rob = e.rob /\ new.strm = t /\ new.conn = e.conn /\ new.out = o
      /\ new.fins = f /\ new.closed = e.closed /\ new.err = e.err /\ new.refuse = e.refuse
  BY <1>1, <1>2 DEF St
<1>7. SameLimits(new, st)
  BY <1>1, <1>4, <1>6 DEF SameLimits
<1> QED
  BY <1>1, <1>4, <1>5, <1>6, <1>7 DEF new, o, f

\* The next n bytes of the stream are passed on.
LEMMA CallPasses ==
    ASSUME NEW st \in St, NEW fin \in BOOLEAN, NEW rx \in Nat, NEW n \in Nat,
           Passed(st, rx)
    PROVE  LET bytes == [i \in 1..n |-> rx + i]
               new == conn_call_recv_stream_data(st, fin, bytes)
           IN  /\ new \in St
               /\ Passed(new, rx + n)
               /\ SameLimits(new, st) /\ new.rob = st.rob
               /\ new.fins = IF fin THEN st.fins + 1 ELSE st.fins
               /\ ~ st.refuse => new.strm.STOP_SENDING = st.strm.STOP_SENDING
<1> DEFINE bytes == [i \in 1..n |-> rx + i]
           new == conn_call_recv_stream_data(st, fin, bytes)
<1>1. bytes \in Seq(Nat) /\ Len(bytes) = n
  <2>1. bytes \in [1..n -> Nat]
    OBVIOUS
  <2> QED
    BY <2>1, FunctionIsSeq
<1>2. /\ new \in St
      /\ SameLimits(new, st) /\ new.rob = st.rob
      /\ new.out = st.out \o bytes
      /\ new.fins = IF fin THEN st.fins + 1 ELSE st.fins
      /\ new.strm.unsent_max_rx_offset = st.strm.unsent_max_rx_offset + Len(bytes)
      /\ new.conn.unsent_max_rx_offset = st.conn.unsent_max_rx_offset + Len(bytes)
      /\ ~ st.refuse => new.strm.STOP_SENDING = st.strm.STOP_SENDING
  BY <1>1, Called
<1>3. st.out = [i \in 1..rx |-> i] /\ st.out \in Seq(Nat) /\ Len(st.out) = rx
  <2>1. st.out = [i \in 1..rx |-> i]
    BY DEF Passed
  <2>2. [i \in 1..rx |-> i] \in [1..rx -> Nat]
    OBVIOUS
  <2> QED
    BY <2>1, <2>2, FunctionIsSeq
<1>4. st.out \o bytes = [i \in 1..(rx + n) |-> i]
  <2> DEFINE u == st.out \o bytes
  <2>1. Len(u) = rx + n /\ u \in Seq(Nat) /\ DOMAIN u = 1..(rx + n)
    BY <1>1, <1>3
  <2>2. ASSUME NEW i \in 1..(rx + n) PROVE u[i] = i
    <3>1. CASE i <= rx
      <4>1. i \in 1..rx /\ u[i] = st.out[i]
        BY <1>1, <1>3, <3>1, ConcatProperties
      <4> QED
        BY <1>3, <4>1
    <3>2. CASE i > rx
      <4>1. i - rx \in 1..n /\ u[i] = bytes[i - rx]
        BY <1>1, <1>3, <3>2
      <4>2. bytes[i - rx] = rx + (i - rx) /\ rx + (i - rx) = i
        BY <4>1
      <4> HIDE DEF u, bytes
      <4> QED
        BY <4>1, <4>2
    <3> HIDE DEF u
    <3> QED
      BY <3>1, <3>2
  <2> HIDE DEF u
  <2>3. u = [i \in 1..(rx + n) |-> u[i]]
    BY <2>1
  <2> QED
    BY <2>2, <2>3 DEF u
<1>5. Passed(new, rx + n)
  <2>1. /\ st.strm.unsent_max_rx_offset = Window + rx
        /\ st.conn.unsent_max_rx_offset = MaxData + rx
        /\ st.strm.max_rx_offset <= st.strm.unsent_max_rx_offset
        /\ st.conn.max_rx_offset <= st.conn.unsent_max_rx_offset
        /\ st.strm.max_rx_offset \in Nat /\ st.conn.max_rx_offset \in Nat
    BY StParts DEF Passed
  <2> HIDE DEF new, bytes
  <2>2. /\ new.strm.unsent_max_rx_offset = Window + (rx + n)
        /\ new.conn.unsent_max_rx_offset = MaxData + (rx + n)
    BY <1>1, <1>2, <2>1, StreamAssumption
  <2>3. /\ new.strm.max_rx_offset <= new.strm.unsent_max_rx_offset
        /\ new.conn.max_rx_offset <= new.conn.unsent_max_rx_offset
    BY <1>2, <2>1, <2>2, StreamAssumption DEF SameLimits
  <2> QED
    BY <1>2, <1>4, <2>2, <2>3 DEF Passed
<1> QED
  BY <1>2, <1>5

\* The first gap is not behind what was received.
LEMMA GapNotAfter ==
    ASSUME peer \in Peer, NEW st \in St, GapList(st.rob.gap), Offsets(st)
    PROVE  /\ st.rob.gap[1].begin \in Nat
           /\ st.rob.gap[1].begin <= st.strm.last_rx_offset
           /\ st.strm.last_rx_offset <= peer.off /\ peer.off \in Nat /\ peer.off <= Size
           /\ \A i \in Nat : i < st.rob.gap[1].begin => i \notin Missing(st.rob.gap)
<1>1. peer.off \in Nat /\ peer.off <= Size /\ Size \in Nat
  BY StreamAssumption DEF Peer
<1>2. st.strm.last_rx_offset \in Nat /\ st.strm.last_rx_offset <= peer.off
  BY StParts DEF Offsets
<1>3. st.strm.last_rx_offset \in Missing(st.rob.gap)
  <2>1. st.strm.last_rx_offset < Infinity
    BY <1>1, <1>2 DEF Infinity
  <2> QED
    BY <1>2, <2>1 DEF Offsets
<1>4. /\ st.rob.gap[1].begin \in Nat
      /\ \A m \in Missing(st.rob.gap) : st.rob.gap[1].begin <= m
  BY FirstGap
<1>5. ASSUME NEW i \in Nat, i < st.rob.gap[1].begin PROVE i \notin Missing(st.rob.gap)
  BY <1>4, <1>5
<1> QED
  BY <1>1, <1>2, <1>3, <1>4, <1>5

\* The head of the buffer is read: no assertion of ngtcp2_rob_data_at fails,
\* and what is taken is there and is freed when the chunk is used up.
LEMMA HeadOfBuffer ==
    ASSUME NEW r \in Rob, NEW rx \in Nat, Buffered(r, rx), rx < r.gap[1].begin
    PROVE  LET n == rob_data_at(r, rx)
               new == rob_pop(r, rx, n)
           IN  /\ rob_data_at_asserts(r, rx)
               /\ n \in Nat \ {0}
               /\ rx + n <= r.gap[1].begin
               /\ ReadChunk(r, rx, n) = [i \in 1..n |-> rx + i]
               /\ new \in Rob /\ Buffered(new, rx + n) /\ new.gap = r.gap
               /\ \/ rx + n = r.gap[1].begin
                  \/ \E k \in r.data : new.data = r.data \ {k}
<1> DEFINE F == r.gap[1].begin
           m == Min(r.data)
           n == rob_data_at(r, rx)
           new == rob_pop(r, rx, n)
<1>1. /\ GapList(r.gap) /\ rx <= F /\ r.data \subseteq 0..Size
      /\ \A k \in r.data : ChunkOf(k) = k /\ rx < k + Chunk
      /\ \A i \in Nat : (rx <= i /\ i < Infinity /\ i \notin Missing(r.gap)) =>
           i \in r.mem /\ ChunkOf(i) \in r.data
  BY DEF Buffered
<1>2. /\ F \in Nat /\ F <= Size
      /\ \A i \in Missing(r.gap) : F <= i
  BY <1>1, FirstGap
<1>3. Chunk \in Nat /\ Chunk > 0 /\ Size \in Nat
  BY StreamAssumption
<1>4. \A i \in Nat : (rx <= i /\ i < F) => i \in r.mem /\ ChunkOf(i) \in r.data
  <2> SUFFICES ASSUME NEW i \in Nat, rx <= i, i < F
               PROVE  i \in r.mem /\ ChunkOf(i) \in r.data
    OBVIOUS
  <2>1. i < Infinity /\ i \notin Missing(r.gap)
    BY <1>2, <1>3 DEF Infinity
  <2> QED
    BY <1>1, <2>1
<1>5. ChunkOf(rx) \in r.data /\ ChunkOf(rx) <= rx /\ ChunkOf(rx) \in Nat
  BY <1>4, ChunkHolds
<1>6. m \in r.data /\ \A y \in r.data : m <= y
  <2>1. r.data \subseteq Nat /\ r.data # {}
    BY <1>1, <1>5
  <2> QED
    BY <2>1, MinOfNat
<1>7. m \in Nat /\ ChunkOf(m) = m /\ m <= rx /\ rx < m + Chunk
  BY <1>1, <1>5, <1>6
<1>8. rob_data_at_asserts(r, rx)
  BY <1>5, <1>7 DEF rob_data_at_asserts
<1> DEFINE e == IF F <= m + Chunk THEN F ELSE m + Chunk
<1>9. n = e - rx
  <2>1. ~ (F <= rx)
    BY <1>2
  <2>2. Min({F, m + Chunk}) = e
    <3>1. m + Chunk \in Nat
      BY <1>3, <1>7
    <3> HIDE DEF m, F
    <3> QED
      BY <1>2, <3>1, MaxMinPair
  <2> HIDE DEF e, m
  <2> QED
    BY <2>1, <2>2 DEF rob_data_at, rob_first_gap_offset, gaptr_first_gap_offset, m
<1>10. e \in Nat /\ rx < e /\ e <= F /\ e <= m + Chunk /\ (e = F \/ e = m + Chunk)
  BY <1>2, <1>3, <1>7
<1> HIDE DEF n, e, m, F
<1>11. n \in Nat \ {0} /\ rx + n = e
  BY <1>9, <1>10
<1>12. ReadChunk(r, rx, n) = [i \in 1..n |-> rx + i]
  <2>1. ASSUME NEW i \in 1..n PROVE rx + i - 1 \in r.mem
    <3>1. rx + i - 1 \in Nat /\ rx <= rx + i - 1 /\ rx + i - 1 < F
      BY <1>2, <1>10, <1>11
    <3> QED
      BY <1>4, <3>1
  <2> QED
    BY <2>1 DEF ReadChunk
<1>13. ASSUME e < m + Chunk
       PROVE  new \in Rob /\ Buffered(new, e) /\ new.gap = r.gap /\ e = F
  <2>1. new = r
    BY <1>11, <1>13 DEF rob_pop, m
  <2>2. e = F
    BY <1>3, <1>7, <1>10, <1>13
  <2>3. \A k \in r.data : e < k + Chunk
    BY <1>1, <1>3, <1>6, <1>7, <1>10, <1>13
  <2>4. \A i \in Nat : e <= i => rx <= i
    BY <1>10
  <2>5. Buffered(r, e)
    BY <1>1, <1>10, <2>3, <2>4 DEF Buffered, F
  <2> QED
    BY <2>1, <2>2, <2>5
<1>14. ASSUME e = m + Chunk
       PROVE  new \in Rob /\ Buffered(new, e) /\ new.gap = r.gap /\ new.data = r.data \ {m}
  <2>1. new = FreeChunks(r, {m})
    <3>1. ~ (rx + n < m + Chunk)
      BY <1>10, <1>11, <1>14
    <3> QED
      BY <3>1 DEF rob_pop, m
  <2>2. /\ new \in Rob /\ new.gap = r.gap /\ new.data = r.data \ {m}
        /\ new.mem = {i \in r.mem : ChunkOf(i) \notin {m}}
    BY <2>1, FreedChunks
  <2>3. ASSUME NEW k \in new.data PROVE k \in 0..Size /\ ChunkOf(k) = k /\ e < k + Chunk
    <3>1. k \in r.data /\ k # m /\ k \in Nat /\ k \in 0..Size /\ ChunkOf(k) = k
      BY <1>1, <2>2
    <3>2. m < k
      BY <1>6, <1>7, <3>1
    <3>3. m + Chunk <= k
      BY <1>7, <3>1, <3>2, ChunksApart
    <3> QED
      BY <1>3, <1>7, <1>14, <3>1, <3>3
  <2>4. ASSUME NEW i \in Nat, e <= i, i < Infinity, i \notin Missing(new.gap)
        PROVE  i \in new.mem /\ ChunkOf(i) \in new.data
    <3>1. rx <= i /\ i \in r.mem /\ ChunkOf(i) \in r.data
      BY <1>1, <1>10, <2>2, <2>4
    <3>2. ChunkOf(i) \in Nat /\ ChunkOf(i) >= m + Chunk
      BY <1>7, <1>14, <2>4, ChunksApart, ChunkHolds
    <3>3. ChunkOf(i) # m
      BY <1>3, <1>7, <3>2
    <3> QED
      BY <2>2, <3>1, <3>3
  <2>5. Buffered(new, e)
    BY <1>1, <1>10, <2>2, <2>3, <2>4 DEF Buffered, F
  <2> QED
    BY <2>2, <2>5
<1>15. e < m + Chunk \/ e = m + Chunk
  BY <1>3, <1>7, <1>10
<1> HIDE DEF new
<1> QED
  BY <1>6, <1>8, <1>10, <1>11, <1>12, <1>13, <1>14, <1>15 DEF new, n, F

Round == [st : St, rx : Nat]

\* One round of the loop passes on what the head chunk holds, or leaves
\* everything as it is when the next byte is missing; no assertion fails.
LEMMA RoundSound ==
    ASSUME peer \in Peer, NEW acc \in Round, Sound(acc.st, acc.rx), acc.st.err = "none"
    PROVE  LET new == EmitRound(acc)
               F == acc.st.rob.gap[1].begin
           IN  /\ new \in Round
               /\ Sound(new.st, new.rx)
               /\ SameLimits(new.st, acc.st)
               /\ acc.rx <= new.rx
               /\ F <= acc.rx => new = acc
               /\ acc.rx < F =>
                    \/ new.rx = F
                    \/ \E k \in acc.st.rob.data : new.st.rob.data = acc.st.rob.data \ {k}
<1> DEFINE st == acc.st
           rx == acc.rx
           F == st.rob.gap[1].begin
           n == rob_data_at(st.rob, rx)
           fin == st.strm.SHUT_RD /\ rx + n = st.strm.last_rx_offset
           taken == conn_call_recv_stream_data(st, fin, ReadChunk(st.rob, rx, n))
           left == rob_pop(st.rob, rx, n)
           new == EmitRound(acc)
<1>1. /\ st \in St /\ rx \in Nat /\ Buffered(st.rob, rx) /\ Offsets(st) /\ Passed(st, rx)
      /\ st.rob \in Rob /\ GapList(st.rob.gap) /\ rx <= F
      /\ ~ peer.resets => Regular(st, rx)
  <2>1. st \in St /\ rx \in Nat
    BY DEF Round
  <2> QED
    BY <2>1, StParts DEF Sound, Buffered
<1>2. F \in Nat /\ F <= st.strm.last_rx_offset /\ st.strm.last_rx_offset \in Nat
  BY <1>1, GapNotAfter, StParts
<1>3. CASE F <= rx
  <2>1. new = acc
    BY <1>3 DEF EmitRound, rob_first_gap_offset, gaptr_first_gap_offset
  <2>2. SameLimits(st, st)
    BY DEF SameLimits
  <2>3. ~ (rx < F)
    BY <1>1, <1>2, <1>3
  <2> HIDE DEF new
  <2> QED
    BY <1>1, <2>1, <2>2, <2>3 DEF new
<1>4. CASE rx < F
  <2>1. /\ rob_data_at_asserts(st.rob, rx)
        /\ n \in Nat \ {0}
        /\ rx + n <= F
        /\ ReadChunk(st.rob, rx, n) = [i \in 1..n |-> rx + i]
        /\ left \in Rob /\ Buffered(left, rx + n) /\ left.gap = st.rob.gap
        /\ \/ rx + n = F
           \/ \E k \in st.rob.data : left.data = st.rob.data \ {k}
    BY <1>1, <1>4, HeadOfBuffer
  <2>2. ~ (F <= rx)
    BY <1>1, <1>2, <1>4
  <2>3. new = [st |-> [taken EXCEPT !.rob = rob_pop(@, rx, n)], rx |-> rx + n]
    BY <2>1, <2>2 DEF EmitRound, rob_first_gap_offset, gaptr_first_gap_offset
  <2>4. fin \in BOOLEAN
    BY <1>1, StParts
  <2> HIDE DEF n, fin, left
  <2>5. /\ taken \in St
        /\ Passed(taken, rx + n)
        /\ SameLimits(taken, st) /\ taken.rob = st.rob
        /\ taken.fins = IF fin THEN st.fins + 1 ELSE st.fins
        /\ ~ st.refuse => taken.strm.STOP_SENDING = st.strm.STOP_SENDING
    <3> DEFINE u == conn_call_recv_stream_data(st, fin, [i \in 1..n |-> rx + i])
    <3>1. n \in Nat
      BY <2>1
    <3>2. taken = u
      BY <2>1
    <3>3. /\ u \in St
          /\ Passed(u, rx + n)
          /\ SameLimits(u, st) /\ u.rob = st.rob
          /\ u.fins = IF fin THEN st.fins + 1 ELSE st.fins
          /\ ~ st.refuse => u.strm.STOP_SENDING = st.strm.STOP_SENDING
      BY <1>1, <2>4, <3>1, CallPasses
    <3> HIDE DEF u
    <3> QED
      BY <3>2, <3>3
  <2> HIDE DEF taken, new
  <2> DEFINE nst == [taken EXCEPT !.rob = left]
  <2>6. new = [st |-> nst, rx |-> rx + n]
    BY <2>3, <2>5 DEF left
  <2>7. nst \in St
    BY <2>1, <2>5, StWith
  <2>8. /\ nst.rob = left /\ nst.strm = taken.strm /\ nst.conn = taken.conn
        /\ nst.out = taken.out /\ nst.fins = taken.fins /\ nst.closed = taken.closed
        /\ nst.err = taken.err /\ nst.refuse = taken.refuse
    BY <2>5 DEF St
  <2>9. new.st = nst /\ new.rx = rx + n /\ new \in Round
    BY <1>1, <2>1, <2>6, <2>7 DEF Round
  <2> HIDE DEF nst
  <2>10. SameLimits(nst, st)
    BY <2>1, <2>5, <2>8 DEF SameLimits
  <2>11. Offsets(nst)
    BY <1>1, <2>10 DEF SameLimits, Offsets
  <2>12. Passed(nst, rx + n)
    BY <2>5, <2>8 DEF Passed
  <2>13. ASSUME ~ peer.resets PROVE Regular(nst, rx + n)
    <3>1. /\ ~ st.refuse /\ ~ st.strm.STOP_SENDING
          /\ st.conn.rx_offset = st.strm.last_rx_offset
          /\ st.fins = IF st.strm.SHUT_RD /\ rx = st.strm.last_rx_offset THEN 1 ELSE 0
      BY <1>1, <2>13 DEF Regular
    <3>2. st.fins = 0
      BY <1>1, <1>2, <1>4, <3>1
    <3>3. nst.fins = IF st.strm.SHUT_RD /\ rx + n = st.strm.last_rx_offset THEN 1 ELSE 0
      BY <2>5, <2>8, <3>2 DEF fin
    <3> QED
      BY <2>5, <2>8, <2>10, <3>1, <3>3 DEF Regular, SameLimits
  <2>14. Sound(nst, rx + n)
    BY <2>1, <2>7, <2>8, <2>11, <2>12, <2>13 DEF Sound
  <2>15. rx <= rx + n
    BY <1>1, <2>1
  <2> QED
    BY <2>1, <2>2, <2>8, <2>9, <2>10, <2>14, <2>15 DEF new
<1> QED
  BY <1>1, <1>2, <1>3, <1>4

\* The loop ends at the first gap: no assertion fails, and everything up to
\* the gap has been passed on (conn_emit_pending_stream_data).
LEMMA LoopSound ==
    ASSUME peer \in Peer, NEW st \in St, NEW rx \in Nat, Sound(st, rx), st.err = "none"
    PROVE  LET new == conn_emit_pending_stream_data(st, rx)
           IN  /\ Sound(new, st.rob.gap[1].begin)
               /\ SameLimits(new, st)
<1> DEFINE F == st.rob.gap[1].begin
           d == Cardinality(st.rob.data)
           R == 1 .. d + 1
           base == [st |-> st, rx |-> rx]
           A == {acc \in Round : Sound(acc.st, acc.rx) /\ SameLimits(acc.st, st)}
           Eq(it) == it = [s \in SUBSET R |->
                             IF s = {} THEN base
                             ELSE EmitRound(it[s \ {CHOOSE x \in s : TRUE}])]
           ch == [s \in SUBSET R |-> CHOOSE x \in s : TRUE]
           step == [p \in R \X A |-> EmitRound(p[2])]
<1>1. IsFiniteSet(st.rob.data) /\ d \in Nat /\ st.rob.data \subseteq Nat
  <2>1. st.rob.data \subseteq 0..Size
    BY DEF Sound, Buffered
  <2>2. IsFiniteSet(0..Size)
    BY FS_Interval, StreamAssumption
  <2>3. IsFiniteSet(st.rob.data)
    BY <2>1, <2>2, FS_Subset
  <2> QED
    BY <2>1, <2>3, FS_CardinalityType
<1>2. IsFiniteSet(R) /\ Cardinality(R) = d + 1
  <2> HIDE DEF d
  <2>1. d + 1 \in Int /\ ~ (1 > d + 1) /\ (d + 1) - 1 + 1 = d + 1
    BY <1>1
  <2>2. IsFiniteSet(1 .. d + 1) /\ Cardinality(1 .. d + 1) = (d + 1) - 1 + 1
    BY <2>1, FS_Interval
  <2> QED
    BY <2>1, <2>2
<1>3. base \in A
  <2>1. base \in Round /\ base.st = st /\ base.rx = rx
    BY DEF Round
  <2>2. SameLimits(st, st)
    BY DEF SameLimits
  <2> HIDE DEF base
  <2> QED
    BY <2>1, <2>2
<1>4. ASSUME NEW acc \in A
      PROVE  /\ EmitRound(acc) \in A
             /\ F <= acc.rx => EmitRound(acc) = acc
             /\ acc.rx < F => \/ EmitRound(acc).rx = F
                              \/ \E k \in acc.st.rob.data :
                                   EmitRound(acc).st.rob.data = acc.st.rob.data \ {k}
  <2>1. acc \in Round /\ Sound(acc.st, acc.rx) /\ SameLimits(acc.st, st)
    OBVIOUS
  <2>2. acc.st.err = "none" /\ acc.st.rob.gap[1].begin = F
    BY <2>1 DEF SameLimits
  <2>3. /\ EmitRound(acc) \in Round
        /\ Sound(EmitRound(acc).st, EmitRound(acc).rx)
        /\ SameLimits(EmitRound(acc).st, acc.st)
        /\ F <= acc.rx => EmitRound(acc) = acc
        /\ acc.rx < F => \/ EmitRound(acc).rx = F
                         \/ \E k \in acc.st.rob.data :
                              EmitRound(acc).st.rob.data = acc.st.rob.data \ {k}
    BY <2>1, <2>2, RoundSound
  <2>4. SameLimits(EmitRound(acc).st, st)
    BY <2>1, <2>3 DEF SameLimits
  <2> QED
    BY <2>3, <2>4
<1> HIDE DEF A, base, R, d
<1>5. \E it : Eq(it) /\ it \in [SUBSET R -> A]
  <2>1. Chooses(ch, R)
    BY DEF Chooses
  <2>2. \A x \in R, a \in A : step[<<x, a>>] = EmitRound(a)
    OBVIOUS
  <2>3. StepsWithin(step, R, A)
    BY <1>4, <2>2 DEF StepsWithin
  <2> HIDE DEF step
  <2>4. PICK it \in [SUBSET R -> A] : IsFold(it, R, base, ch, step)
    <3> HIDE DEF ch
    <3> QED
      BY <1>2, <1>3, <2>1, <2>3, FoldExists
  <2>5. ASSUME NEW s \in SUBSET R
        PROVE  it[s] = IF s = {} THEN base
                       ELSE EmitRound(it[s \ {CHOOSE x \in s : TRUE}])
    <3>1. CASE s = {}
      BY <2>4, <3>1 DEF IsFold
    <3>2. CASE s # {}
      <4> DEFINE c == CHOOSE x \in s : TRUE
      <4>1. c \in s /\ c \in R /\ ch[s] = c
        BY <3>2
      <4> HIDE DEF c, ch
      <4>2. it[s] = step[<<c, it[s \ {c}]>>]
        BY <2>4, <3>2, <4>1 DEF IsFold
      <4>3. it[s \ {c}] \in A
        BY <2>4
      <4>4. it[s] = EmitRound(it[s \ {c}])
        BY <2>2, <4>1, <4>2, <4>3
      <4> QED
        BY <3>2, <4>4 DEF c
    <3> QED
      BY <3>1, <3>2
  <2>6. it = [s \in SUBSET R |-> IF s = {} THEN base
                       ELSE EmitRound(it[s \ {CHOOSE x \in s : TRUE}])]
    BY <2>4, <2>5
  <2> QED
    BY <2>4, <2>6
<1> DEFINE it == CHOOSE it : Eq(it)
           last == it[R]
<1>6. conn_emit_pending_stream_data(st, rx) =
        IF last.rx = last.st.rob.gap[1].begin THEN last.st ELSE Fail(last.st, "assert")
  BY DEF conn_emit_pending_stream_data, FoldSet, MapThenFoldSet, R, d, base,
         rob_first_gap_offset, gaptr_first_gap_offset
<1>7. Eq(it)
  BY <1>5
<1> HIDE DEF it
<1>8. it[{}] = base
  BY <1>7
<1>9. ASSUME NEW s \in SUBSET R, s # {}
      PROVE  \E c \in s : it[s] = EmitRound(it[s \ {c}])
  <2>1. it[s] = EmitRound(it[s \ {CHOOSE x \in s : TRUE}])
    BY <1>7, <1>9
  <2>2. (CHOOSE x \in s : TRUE) \in s
    BY <1>9
  <2> QED
    BY <2>1, <2>2
<1> HIDE DEF Eq
(* After i rounds the loop has reached the gap or has used up i chunks.    *)
<1> DEFINE Done(i, acc) ==
              /\ acc \in A
              /\ \/ acc.rx = F
                 \/ /\ IsFiniteSet(acc.st.rob.data)
                    /\ Cardinality(acc.st.rob.data) + i <= d
           P == {i \in Nat : \A s \in SUBSET R : Cardinality(s) = i => Done(i, it[s])}
<1>10. 0 \in P
  <2> SUFFICES ASSUME NEW s \in SUBSET R, Cardinality(s) = 0 PROVE Done(0, it[s])
    OBVIOUS
  <2>1. s = {}
    <3>1. IsFiniteSet(s)
      BY <1>2, FS_Subset
    <3> QED
      BY <3>1, FS_EmptySet
  <2>2. it[s] = base /\ base.st = st
    BY <1>8, <2>1 DEF base
  <2> QED
    BY <1>1, <1>3, <2>2 DEF d
<1>11. ASSUME NEW acc \in A
       PROVE  /\ acc.rx \in Nat /\ F \in Nat /\ acc.rx <= F
              /\ acc.st.rob.gap[1].begin = F
  <2>1. acc \in Round /\ Sound(acc.st, acc.rx) /\ SameLimits(acc.st, st)
    BY DEF A
  <2>2. acc.rx \in Nat /\ Buffered(acc.st.rob, acc.rx) /\ acc.st.rob.gap = st.rob.gap
    BY <2>1 DEF Round, Sound, SameLimits
  <2>3. GapList(st.rob.gap) /\ acc.rx <= F
    BY <2>2 DEF Buffered
  <2>4. F \in Nat
    BY <2>3, FirstGap
  <2> QED
    BY <2>2, <2>3, <2>4
<1>12. ASSUME NEW i \in Nat, i \in P PROVE i + 1 \in P
  <2> SUFFICES ASSUME NEW s \in SUBSET R, Cardinality(s) = i + 1 PROVE Done(i + 1, it[s])
    OBVIOUS
  <2>1. IsFiniteSet(s) /\ s # {}
    <3>1. IsFiniteSet(s)
      BY <1>2, FS_Subset
    <3>2. i + 1 # 0
      OBVIOUS
    <3> HIDE DEF P
    <3> QED
      BY <3>1, <3>2, FS_EmptySet
  <2>2. PICK c \in s : it[s] = EmitRound(it[s \ {c}])
    BY <1>9, <2>1
  <2>3. s \ {c} \in SUBSET R /\ Cardinality(s \ {c}) = i
    <3>1. Cardinality(s \ {c}) = Cardinality(s) - 1
      <4> HIDE DEF P
      <4> QED
        BY <2>1, <2>2, FS_RemoveElement
    <3> QED
      BY <3>1
  <2> DEFINE acc == it[s \ {c}]
  <2>4. Done(i, acc)
    BY <1>12, <2>3
  <2> HIDE DEF acc
  <2>5. acc \in A /\ EmitRound(acc) \in A /\ it[s] = EmitRound(acc)
    BY <1>4, <2>2, <2>4 DEF acc
  <2>6. CASE acc.rx = F
    <3>1. EmitRound(acc) = acc
      BY <1>4, <1>11, <2>5, <2>6
    <3> QED
      BY <2>5, <2>6, <3>1
  <2>7. CASE acc.rx # F
    <3>1. acc.rx < F
      BY <1>11, <2>5, <2>7
    <3>2. CASE EmitRound(acc).rx = F
      BY <2>5, <3>2
    <3>3. CASE \E k \in acc.st.rob.data :
                 EmitRound(acc).st.rob.data = acc.st.rob.data \ {k}
      <4>1. PICK k \in acc.st.rob.data :
                 EmitRound(acc).st.rob.data = acc.st.rob.data \ {k}
        BY <3>3
      <4>2. /\ IsFiniteSet(acc.st.rob.data)
            /\ Cardinality(acc.st.rob.data) + i <= d
        BY <2>4, <2>7
      <4>3. /\ IsFiniteSet(acc.st.rob.data \ {k})
            /\ Cardinality(acc.st.rob.data \ {k}) = Cardinality(acc.st.rob.data) - 1
        BY <4>1, <4>2, FS_RemoveElement
      <4>4. Cardinality(acc.st.rob.data) \in Nat
        BY <4>2, FS_CardinalityType
      <4>5. Cardinality(acc.st.rob.data \ {k}) + (i + 1) <= d
        BY <1>1, <4>2, <4>3, <4>4
      <4> QED
        BY <2>5, <4>1, <4>3, <4>5
    <3> QED
      BY <1>4, <2>5, <3>1, <3>2, <3>3
  <2> QED
    BY <2>6, <2>7
<1>13. \A i \in Nat : i \in P
  <2> HIDE DEF P
  <2> QED
    BY <1>10, <1>12, SetInduction
<1>14. Done(d + 1, last)
  <2>1. R \in SUBSET R /\ d + 1 \in Nat
    BY <1>1
  <2> QED
    BY <1>2, <1>13, <2>1
<1>15. last.rx = F
  <2> SUFFICES ASSUME last.rx # F PROVE FALSE
    OBVIOUS
  <2> HIDE DEF last
  <2>1. IsFiniteSet(last.st.rob.data) /\ Cardinality(last.st.rob.data) + (d + 1) <= d
    BY <1>14
  <2>2. Cardinality(last.st.rob.data) \in Nat
    BY <2>1, FS_CardinalityType
  <2> QED
    BY <1>1, <2>1, <2>2
<1> HIDE DEF last
<1>16. last \in A /\ last.st.rob.gap[1].begin = F
  BY <1>11, <1>14
<1>17. conn_emit_pending_stream_data(st, rx) = last.st
  BY <1>6, <1>15, <1>16
<1>18. Sound(last.st, F) /\ SameLimits(last.st, st)
  BY <1>15, <1>16 DEF A
<1> QED
  BY <1>17, <1>18

---------------------------------------------------------------------------
(* Frames from the peer.                                                   *)

First(st) == st.rob.gap[1].begin

(* What a frame makes of a state: nothing that was passed on is taken      *)
(* back, and the stream is closed only when it is complete or reset.       *)
Good(new, st) ==
    /\ Sound(new, First(new))
    /\ First(st) <= First(new)
    /\ new.strm.max_rx_offset = st.strm.max_rx_offset
    /\ new.conn.max_rx_offset = st.conn.max_rx_offset
    /\ new.err # "assert"
    /\ ~ peer.resets => new.err = "none"
    /\ new.closed => \/ st.closed \/ peer.rst
                     \/ (new.strm.SHUT_RD /\ First(new) = new.strm.last_rx_offset)

\* Soundness does not depend on the closed flag
\* (ngtcp2_conn_close_stream_if_shut_rdwr).
LEMMA CloseGood ==
    ASSUME NEW st \in St, NEW old, Good(st, old)
    PROVE  Good(ngtcp2_conn_close_stream_if_shut_rdwr(st), old)
<1> DEFINE c == st.closed \/ (/\ st.strm.SHUT_RD /\ st.strm.SHUT_WR
                              /\ \/ st.strm.RECV_RST
                                 \/ rob_first_gap_offset(st.rob) = st.strm.last_rx_offset)
           new == [st EXCEPT !.closed = c]
<1>1. ngtcp2_conn_close_stream_if_shut_rdwr(st) = new
  BY DEF ngtcp2_conn_close_stream_if_shut_rdwr
<1>2. c \in BOOLEAN
  BY StParts
<1>3. c => \/ st.closed \/ peer.rst
           \/ (st.strm.SHUT_RD /\ First(st) = st.strm.last_rx_offset)
  BY DEF Good, Sound, Offsets, First, rob_first_gap_offset, gaptr_first_gap_offset
<1> HIDE DEF c
<1>4. new \in St
  BY <1>2, StWith
<1>5. /\ new.rob = st.rob /\ new.strm = st.strm /\ new.conn = st.conn
      /\ new.out = st.out /\ new.fins = st.fins /\ new.closed = c
      /\ new.err = st.err /\ new.refuse = st.refuse
  BY DEF St
<1> HIDE DEF new
<1>6. Sound(new, First(new))
  <2>1. Sound(st, First(st)) /\ First(new) = First(st)
    BY <1>5 DEF Good, First
  <2>2. Offsets(new) /\ Passed(new, First(st))
    BY <1>5, <2>1 DEF Sound, Offsets, Passed
  <2>3. ~ peer.resets => Regular(new, First(st))
    BY <1>5, <2>1 DEF Sound, Regular
  <2> QED
    BY <1>4, <1>5, <2>1, <2>2, <2>3 DEF Sound
<1> QED
  BY <1>1, <1>3, <1>5, <1>6 DEF Good, First

\* Data is passed on or buffered (the end of conn_recv_stream).
LEMMA TakeDataGood ==
    ASSUME peer \in Peer, NEW st \in St, Sound(st, First(st)), st.err = "none",
           NEW fr, fr.offset \in Nat, fr.len \in Nat,
           First(st) < fr.offset + fr.len,
           fr.offset + fr.len <= st.strm.last_rx_offset
    PROVE  Good(TakeData(st, fr), st)
<1> DEFINE F == First(st)
           end == fr.offset + fr.len
           last == st.strm.last_rx_offset
<1>1. /\ Buffered(st.rob, st.rob.gap[1].begin) /\ Offsets(st) /\ Passed(st, F)
      /\ GapList(st.rob.gap)
      /\ ~ peer.resets => Regular(st, F)
  BY DEF Sound, First, Buffered
<1>2. /\ F \in Nat /\ F <= last /\ last <= peer.off /\ last \in Nat
      /\ peer.off \in Nat /\ peer.off <= Size /\ Size \in Nat
  BY <1>1, GapNotAfter, StParts, StreamAssumption DEF First
<1>3. end \in Nat /\ F < end /\ end <= last /\ end <= Size
  BY <1>2
<1>4. st.rob \in Rob
  BY StParts
<1> HIDE DEF F
<1>5. CASE fr.offset <= F
  <2> DEFINE r == rob_remove_prefix(st.rob, end)
             s1 == [st EXCEPT !.rob = r]
             fin == st.strm.SHUT_RD /\ end = last
             n == end - F
             first == conn_call_recv_stream_data(s1, fin, [i \in 1..n |-> F + i])
             new == conn_emit_pending_stream_data(first, end)
  <2>1. TakeData(st, fr) = ngtcp2_conn_close_stream_if_shut_rdwr(new)
    BY <1>5 DEF TakeData, F, First, rob_first_gap_offset, gaptr_first_gap_offset
  <2>2. /\ r \in Rob /\ Buffered(r, end)
        /\ Missing(r.gap) = {i \in Missing(st.rob.gap) : end <= i}
    BY <1>1, <1>3, <1>4, PrefixRemoved DEF F, First
  <2> HIDE DEF r
  <2>3. /\ s1 \in St /\ s1.rob = r /\ s1.strm = st.strm /\ s1.conn = st.conn
        /\ s1.out = st.out /\ s1.fins = st.fins /\ s1.closed = st.closed
        /\ s1.err = st.err /\ s1.refuse = st.refuse
    <3>1. s1 \in St
      BY <2>2, StWith
    <3> QED
      BY <3>1 DEF St
  <2>4. fin \in BOOLEAN /\ n \in Nat /\ F + n = end
    BY <1>2, <1>3, StParts
  <2> HIDE DEF s1, fin, n
  <2>5. Passed(s1, F)
    BY <1>1, <2>3 DEF Passed
  <2>6. /\ first \in St
        /\ Passed(first, end)
        /\ SameLimits(first, s1) /\ first.rob = s1.rob
        /\ first.fins = IF fin THEN s1.fins + 1 ELSE s1.fins
        /\ ~ s1.refuse => first.strm.STOP_SENDING = s1.strm.STOP_SENDING
    BY <1>2, <2>3, <2>4, <2>5, CallPasses
  <2> HIDE DEF first
  <2>7. Offsets(first)
    <3>1. /\ first.strm.last_rx_offset = last
          /\ first.strm.SHUT_RD = st.strm.SHUT_RD /\ first.strm.RECV_RST = st.strm.RECV_RST
          /\ first.rob.gap = r.gap
      BY <2>3, <2>6 DEF SameLimits
    <3>2. ASSUME NEW i \in Nat, last <= i, i < Infinity PROVE i \in Missing(r.gap)
      <4>1. i \in Missing(st.rob.gap)
        BY <1>1, <3>2 DEF Offsets
      <4>2. end <= i
        BY <1>2, <1>3, <3>2
      <4> QED
        BY <2>2, <4>1, <4>2
    <3> QED
      BY <1>1, <3>1, <3>2 DEF Offsets
  <2>8. ASSUME ~ peer.resets PROVE Regular(first, end)
    <3>1. /\ ~ st.refuse /\ ~ st.strm.STOP_SENDING /\ st.conn.rx_offset = last
          /\ st.fins = IF st.strm.SHUT_RD /\ F = last THEN 1 ELSE 0
      BY <1>1, <2>8 DEF Regular
    <3>2. st.fins = 0
      BY <1>2, <1>3, <3>1
    <3>3. first.fins = IF st.strm.SHUT_RD /\ end = last THEN 1 ELSE 0
      BY <2>3, <2>6, <3>2 DEF fin
    <3> QED
      BY <2>3, <2>6, <3>1, <3>3 DEF Regular, SameLimits
  <2>9. Sound(first, end)
    BY <2>2, <2>3, <2>6, <2>7, <2>8 DEF Sound
  <2>10. first.err = "none" /\ first.rob.gap = r.gap
    BY <2>3, <2>6 DEF SameLimits
  <2>11. Sound(new, first.rob.gap[1].begin) /\ SameLimits(new, first)
    BY <1>3, <2>6, <2>9, <2>10, LoopSound
  <2>12. first.rob.gap[1].begin \in Nat /\ end <= first.rob.gap[1].begin
    BY <2>2, <2>10, FirstGap DEF Buffered
  <2> HIDE DEF new
  <2>13. Good(new, st)
    <3>1. First(new) = first.rob.gap[1].begin
      BY <2>11 DEF SameLimits, First
    <3>2. F <= First(new)
      BY <1>2, <1>3, <2>12, <3>1
    <3> QED
      BY <2>3, <2>6, <2>11, <3>1, <3>2 DEF Good, SameLimits, F
  <2>14. new \in St
    BY <2>11 DEF Sound
  <2> QED
    BY <2>1, <2>13, <2>14, CloseGood
<1>6. CASE ~ (fr.offset <= F)
  <2> DEFINE r == rob_push(st.rob, fr.offset, fr.len)
             new == [st EXCEPT !.rob = r]
  <2>1. TakeData(st, fr) = ngtcp2_conn_close_stream_if_shut_rdwr(new)
    BY <1>6 DEF TakeData, F, First, rob_first_gap_offset, gaptr_first_gap_offset
  <2>2. F < fr.offset
    BY <1>2, <1>6
  <2>3. /\ r \in Rob /\ r.gap[1].begin = F
        /\ Buffered(r, r.gap[1].begin)
        /\ Missing(r.gap) = Missing(st.rob.gap) \ {i \in Nat : fr.offset <= i /\ i < end}
    BY <1>1, <1>3, <1>4, <2>2, PushBuffered DEF F, First
  <2> HIDE DEF r
  <2>4. new \in St
    BY <2>3, StWith
  <2>5. /\ new.rob = r /\ new.strm = st.strm /\ new.conn = st.conn
        /\ new.out = st.out /\ new.fins = st.fins /\ new.closed = st.closed
        /\ new.err = st.err /\ new.refuse = st.refuse
    BY DEF St
  <2> HIDE DEF new
  <2>6. Offsets(new)
    <3>1. ASSUME NEW i \in Nat, last <= i, i < Infinity PROVE i \in Missing(r.gap)
      <4>1. i \in Missing(st.rob.gap)
        BY <1>1, <3>1 DEF Offsets
      <4>2. ~ (i < end)
        BY <1>2, <1>3, <3>1
      <4> QED
        BY <2>3, <4>1, <4>2
    <3> QED
      BY <1>1, <2>5, <3>1 DEF Offsets
  <2>7. Passed(new, F) /\ (~ peer.resets => Regular(new, F)) /\ First(new) = F
    BY <1>1, <2>3, <2>5 DEF Passed, Regular, First
  <2>8. Sound(new, F)
    BY <2>3, <2>4, <2>5, <2>6, <2>7 DEF Sound
  <2>9. Good(new, st)
    BY <1>2, <2>5, <2>7, <2>8 DEF Good, F
  <2> QED
    BY <2>1, <2>4, <2>9, CloseGood
<1> QED
  BY <1>5, <1>6

(* A state whose connection has counted a frame that ends at end.          *)
Counted(st, end) ==
    /\ st \in St
    /\ Buffered(st.rob, First(st))
    /\ Offsets(st)
    /\ Passed(st, First(st))
    /\ st.err = "none"
    /\ ~ peer.resets =>
          /\ ~ st.refuse /\ ~ st.strm.STOP_SENDING
          /\ st.conn.rx_offset =
               IF end > st.strm.last_rx_offset THEN end ELSE st.strm.last_rx_offset
          /\ st.fins = IF st.strm.SHUT_RD /\ First(st) = st.strm.last_rx_offset
                       THEN 1 ELSE 0

\* A counted frame that breaks off.
LEMMA FailGood ==
    ASSUME NEW st \in St, NEW code \in Code, code # "assert", peer.resets,
           Buffered(st.rob, First(st)), Offsets(st), Passed(st, First(st)),
           First(st) \in Nat
    PROVE  Good(Fail(st, code), st)
<1> DEFINE new == [st EXCEPT !.err = code]
<1>1. new \in St
  BY StWith
<1>2. /\ new.rob = st.rob /\ new.strm = st.strm /\ new.conn = st.conn
      /\ new.out = st.out /\ new.fins = st.fins /\ new.closed = st.closed
      /\ new.err = code /\ new.refuse = st.refuse
  BY DEF St
<1> HIDE DEF new
<1>3. First(new) = First(st) /\ Offsets(new) /\ Passed(new, First(st))
  BY <1>2 DEF First, Offsets, Passed
<1>4. Sound(new, First(st))
  BY <1>1, <1>2, <1>3 DEF Sound
<1>5. Good(new, st)
  BY <1>2, <1>3, <1>4 DEF Good
<1> QED
  BY <1>5 DEF Fail, new

\* A frame without fin.
LEMMA TakeNoFinGood ==
    ASSUME peer \in Peer, ~ peer.resets => ~ peer.rst,
           NEW st, NEW fr, fr.offset \in Nat, fr.len \in Nat,
           fr.offset + fr.len <= peer.off, Counted(st, fr.offset + fr.len)
    PROVE  Good(TakeNoFin(st, fr), st)
<1> DEFINE F == First(st)
           end == fr.offset + fr.len
           last == st.strm.last_rx_offset
           top == IF last >= end THEN last ELSE end
           t == [st.strm EXCEPT !.last_rx_offset = top]
           seen == [st EXCEPT !.strm = t]
<1>1. /\ st \in St /\ Buffered(st.rob, F) /\ Offsets(st) /\ Passed(st, F)
      /\ st.err = "none" /\ GapList(st.rob.gap)
      /\ st.strm \in Strm
  BY StParts DEF Counted, Buffered
<1>2. /\ F \in Nat /\ F <= last /\ last <= peer.off /\ last \in Nat
      /\ peer.off \in Nat /\ peer.off <= Size /\ Size \in Nat /\ end \in Nat
  BY <1>1, GapNotAfter, StParts, StreamAssumption DEF First
<1>3. ASSUME st.strm.SHUT_RD, last < end PROVE peer.resets
  <2>1. CASE peer.rst
    BY <2>1
  <2>2. CASE last = Size
    BY <1>2, <1>3, <2>2
  <2> QED
    BY <1>1, <1>3, <2>1, <2>2 DEF Offsets
<1>4. CASE st.strm.SHUT_RD /\ last < end
  <2>1. TakeNoFin(st, fr) = Fail(st, "FINAL_OFFSET")
    BY <1>4 DEF TakeNoFin
  <2>2. peer.resets
    BY <1>3, <1>4
  <2> QED
    <3>1. PICK code \in Code : code = "FINAL_OFFSET" /\ code # "assert"
      BY DEF Code
    <3>2. Good(Fail(st, code), st)
      BY <1>1, <1>2, <2>2, <3>1, FailGood
    <3> QED
      BY <2>1, <3>1, <3>2
<1>5. CASE ~ (st.strm.SHUT_RD /\ last < end)
  <2>1. [st EXCEPT !.strm.last_rx_offset = Max({@, end})] = seen
    <3>1. Max({last, end}) = top
      BY <1>2, MaxMinPair
    <3> HIDE DEF top, end
    <3> QED
      BY <1>1, <3>1 DEF St, Strm
  <2>2. TakeNoFin(st, fr) =
          IF end <= F \/ st.strm.STOP_SENDING THEN seen ELSE TakeData(seen, fr)
    <3>1. TakeNoFin(st, fr) =
            IF end <= F \/ st.strm.STOP_SENDING
            THEN [st EXCEPT !.strm.last_rx_offset = Max({@, end})]
            ELSE TakeData([st EXCEPT !.strm.last_rx_offset = Max({@, end})], fr)
      BY <1>5 DEF TakeNoFin, First, rob_first_gap_offset, gaptr_first_gap_offset
    <3> HIDE DEF seen, end, F
    <3> QED
      BY <2>1, <3>1
  <2>3. top \in Nat /\ last <= top /\ end <= top /\ top <= peer.off
        /\ (st.strm.SHUT_RD => top = last)
    BY <1>2, <1>5
  <2> HIDE DEF top
  <2>4. /\ t \in Strm /\ t.last_rx_offset = top
        /\ t.max_rx_offset = st.strm.max_rx_offset
        /\ t.unsent_max_rx_offset = st.strm.unsent_max_rx_offset
        /\ t.SHUT_RD = st.strm.SHUT_RD /\ t.RECV_RST = st.strm.RECV_RST
        /\ t.STOP_SENDING = st.strm.STOP_SENDING
    BY <1>1, <2>3 DEF Strm
  <2> HIDE DEF t
  <2>5. /\ seen \in St
        /\ seen.rob = st.rob /\ seen.strm = t /\ seen.conn = st.conn
        /\ seen.out = st.out /\ seen.fins = st.fins /\ seen.closed = st.closed
        /\ seen.err = st.err /\ seen.refuse = st.refuse
    <3>1. seen \in St
      BY <1>1, <2>4, StWith
    <3> QED
      BY <1>1, <3>1 DEF St
  <2> HIDE DEF seen
  <2>6. Offsets(seen)
    <3>1. ASSUME NEW i \in Nat, top <= i, i < Infinity PROVE i \in Missing(st.rob.gap)
      <4>1. last <= i
        BY <1>2, <2>3, <3>1
      <4> QED
        BY <1>1, <3>1, <4>1 DEF Offsets
    <3> QED
      BY <1>1, <2>3, <2>4, <2>5, <3>1 DEF Offsets
  <2>7. Passed(seen, F)
    BY <1>1, <2>4, <2>5 DEF Passed
  <2>8. ASSUME ~ peer.resets PROVE Regular(seen, F)
    <3>1. /\ ~ st.refuse /\ ~ st.strm.STOP_SENDING
          /\ st.conn.rx_offset = IF end > last THEN end ELSE last
          /\ st.fins = IF st.strm.SHUT_RD /\ F = last THEN 1 ELSE 0
      BY <2>8 DEF Counted
    <3>2. st.conn.rx_offset = top
      BY <1>2, <3>1 DEF top
    <3>3. st.fins = IF st.strm.SHUT_RD /\ F = top THEN 1 ELSE 0
      BY <2>3, <3>1
    <3> HIDE DEF end, F
    <3> QED
      BY <2>4, <2>5, <3>1, <3>2, <3>3 DEF Regular
  <2>9. Sound(seen, F) /\ First(seen) = F
    BY <1>1, <2>5, <2>6, <2>7, <2>8 DEF Sound, First
  <2>10. CASE end <= F \/ st.strm.STOP_SENDING
    <3>1. Good(seen, st)
      BY <1>1, <1>2, <2>4, <2>5, <2>9 DEF Good
    <3> QED
      BY <2>2, <2>10, <3>1
  <2>11. CASE ~ (end <= F \/ st.strm.STOP_SENDING)
    <3>1. First(seen) < end /\ end <= seen.strm.last_rx_offset /\ seen.err = "none"
      BY <1>1, <1>2, <2>3, <2>4, <2>5, <2>9, <2>11
    <3>2. Good(TakeData(seen, fr), seen)
      BY <2>5, <2>9, <3>1, TakeDataGood
    <3>3. Good(TakeData(seen, fr), st)
      BY <2>4, <2>5, <2>9, <3>2 DEF Good
    <3> QED
      BY <2>2, <2>11, <3>3
  <2> QED
    BY <2>10, <2>11
<1> QED
  BY <1>4, <1>5

\* A frame with fin.
LEMMA TakeFinGood ==
    ASSUME peer \in Peer, ~ peer.resets => ~ peer.rst, peer.fin => peer.off = Size,
           NEW st, NEW fr, fr.offset \in Nat, fr.len \in Nat,
           peer.fin, fr.offset + fr.len = Size, Counted(st, fr.offset + fr.len)
    PROVE  Good(TakeFin(st, fr), st)
<1> DEFINE F == First(st)
           end == fr.offset + fr.len
           last == st.strm.last_rx_offset
           t == [[st.strm EXCEPT !.last_rx_offset = end] EXCEPT !.SHUT_RD = TRUE]
           u == [t EXCEPT !.fc = FALSE]
           stop == [st EXCEPT !.strm = t]
           shut == [st EXCEPT !.strm = u]
<1>1. /\ st \in St /\ Buffered(st.rob, F) /\ Offsets(st) /\ Passed(st, F)
      /\ st.err = "none" /\ GapList(st.rob.gap)
      /\ st.strm \in Strm
  BY StParts DEF Counted, Buffered
<1>2. /\ F \in Nat /\ F <= last /\ last <= peer.off /\ last \in Nat
      /\ peer.off = Size /\ Size \in Nat /\ end \in Nat /\ end = Size
  BY <1>1, GapNotAfter, StParts, StreamAssumption DEF First
<1>3. CASE st.strm.SHUT_RD
  <2>1. CASE last # end
    <3>1. TakeFin(st, fr) = Fail(st, "FINAL_OFFSET")
      BY <1>3, <2>1 DEF TakeFin
    <3>2. peer.resets
      BY <1>1, <1>2, <1>3, <2>1 DEF Offsets
    <3> QED
      <4>1. PICK code \in Code : code = "FINAL_OFFSET" /\ code # "assert"
        BY DEF Code
      <4>2. Good(Fail(st, code), st)
        BY <1>1, <1>2, <3>2, <4>1, FailGood
      <4> QED
        BY <3>1, <4>1, <4>2
  <2>2. CASE last = end
    <3>1. TakeFin(st, fr) = st
      BY <1>3, <2>2 DEF TakeFin
    <3>2. ~ peer.resets => Regular(st, F)
      BY <1>2, <2>2 DEF Counted, Regular
    <3>3. Sound(st, F)
      BY <1>1, <3>2 DEF Sound
    <3>4. Good(st, st)
      BY <1>1, <1>2, <3>3 DEF Good
    <3> QED
      BY <3>1, <3>4
  <2> QED
    BY <2>1, <2>2
<1>4. CASE ~ st.strm.SHUT_RD
  <2>0. ~ (last > end)
    BY <1>2
  <2>1. TakeFin(st, fr) =
          IF st.strm.STOP_SENDING
          THEN ngtcp2_conn_close_stream_if_shut_rdwr(stop)
          ELSE IF end = F
          THEN ngtcp2_conn_close_stream_if_shut_rdwr(
                  conn_call_recv_stream_data(shut, TRUE, << >>))
          ELSE TakeData(shut, fr)
    <3>1. [st.strm EXCEPT !.last_rx_offset = end, !.SHUT_RD = TRUE] = t
      OBVIOUS
    <3>2. t.STOP_SENDING = st.strm.STOP_SENDING
      BY <1>1 DEF Strm
    <3> HIDE DEF t, end, last
    <3>3. TakeFin(st, fr) =
          IF t.STOP_SENDING
          THEN ngtcp2_conn_close_stream_if_shut_rdwr([st EXCEPT !.strm = t])
          ELSE IF end = rob_first_gap_offset(st.rob)
          THEN ngtcp2_conn_close_stream_if_shut_rdwr(
                  conn_call_recv_stream_data([st EXCEPT !.strm = [t EXCEPT !.fc = FALSE]], TRUE, << >>))
          ELSE TakeData([st EXCEPT !.strm = [t EXCEPT !.fc = FALSE]], fr)
      BY <1>4, <2>0, <3>1 DEF TakeFin, end, last
    <3> QED
      BY <3>2, <3>3 DEF First, rob_first_gap_offset, gaptr_first_gap_offset
  <2>2. /\ t \in Strm /\ t.last_rx_offset = end
        /\ t.max_rx_offset = st.strm.max_rx_offset
        /\ t.unsent_max_rx_offset = st.strm.unsent_max_rx_offset
        /\ t.SHUT_RD = TRUE /\ t.RECV_RST = st.strm.RECV_RST
        /\ t.STOP_SENDING = st.strm.STOP_SENDING
    <3>1. [st.strm EXCEPT !.last_rx_offset = end] \in Strm
      BY <1>1, <1>2 DEF Strm
    <3>2. t \in Strm
      BY <3>1 DEF Strm
    <3> QED
      BY <1>1, <3>2 DEF Strm
  <2> HIDE DEF t
  <2>3. /\ u \in Strm /\ u.last_rx_offset = end
        /\ u.max_rx_offset = st.strm.max_rx_offset
        /\ u.unsent_max_rx_offset = st.strm.unsent_max_rx_offset
        /\ u.SHUT_RD = TRUE /\ u.RECV_RST = st.strm.RECV_RST
        /\ u.STOP_SENDING = st.strm.STOP_SENDING
    <3>1. u \in Strm
      BY <2>2 DEF Strm
    <3> QED
      BY <2>2, <3>1 DEF Strm
  <2> HIDE DEF u
  <2>4. ASSUME NEW x \in Strm, NEW new, new = [st EXCEPT !.strm = x],
               x.last_rx_offset = end,
               x.max_rx_offset = st.strm.max_rx_offset,
               x.unsent_max_rx_offset = st.strm.unsent_max_rx_offset,
               x.SHUT_RD = TRUE, x.RECV_RST = st.strm.RECV_RST,
               x.STOP_SENDING = st.strm.STOP_SENDING
        PROVE  /\ new \in St /\ new.rob = st.rob /\ new.strm = x /\ new.conn = st.conn
               /\ new.fins = st.fins /\ new.closed = st.closed /\ new.err = "none"
               /\ new.refuse = st.refuse
               /\ First(new) = F /\ Offsets(new) /\ Passed(new, F)
    <3>1. new \in St
      BY <1>1, <2>4, StWith
    <3>2. /\ new.rob = st.rob /\ new.strm = x /\ new.conn = st.conn
          /\ new.out = st.out /\ new.fins = st.fins /\ new.closed = st.closed
          /\ new.err = st.err /\ new.refuse = st.refuse
      BY <1>1, <2>4 DEF St
    <3>3. Offsets(new)
      <4>1. ASSUME NEW i \in Nat, end <= i, i < Infinity PROVE i \in Missing(st.rob.gap)
        <5>1. last <= i
          BY <1>2, <4>1
        <5> QED
          BY <1>1, <4>1, <5>1 DEF Offsets
      <4> HIDE DEF end
      <4> QED
        BY <1>1, <1>2, <2>4, <3>2, <4>1 DEF Offsets
    <3>4. Passed(new, F)
      BY <1>1, <2>4, <3>2 DEF Passed
    <3> QED
      BY <1>1, <3>1, <3>2, <3>3, <3>4 DEF First
  <2>5. /\ shut \in St /\ shut.rob = st.rob /\ shut.strm = u /\ shut.conn = st.conn
        /\ shut.fins = st.fins /\ shut.closed = st.closed /\ shut.err = "none"
        /\ shut.refuse = st.refuse
        /\ First(shut) = F /\ Offsets(shut) /\ Passed(shut, F)
    <3> HIDE DEF end
    <3> QED
      BY <2>3, <2>4
  <2>6. /\ stop \in St /\ stop.rob = st.rob /\ stop.strm = t /\ stop.conn = st.conn
        /\ stop.fins = st.fins /\ stop.closed = st.closed /\ stop.err = "none"
        /\ stop.refuse = st.refuse
        /\ First(stop) = F /\ Offsets(stop) /\ Passed(stop, F)
    <3> HIDE DEF end
    <3> QED
      BY <2>2, <2>4
  <2> HIDE DEF shut, stop
  <2>7. ~ peer.resets => /\ ~ st.refuse /\ ~ st.strm.STOP_SENDING
                         /\ st.conn.rx_offset = end /\ st.fins = 0
    BY <1>2, <1>4 DEF Counted
  <2>8. CASE st.strm.STOP_SENDING
    <3>1. peer.resets
      BY <2>7, <2>8
    <3>2. Sound(stop, First(stop))
      BY <1>1, <2>6, <3>1 DEF Sound
    <3>3. Good(stop, st)
      BY <1>2, <2>2, <2>6, <3>1, <3>2 DEF Good
    <3> QED
      BY <2>1, <2>6, <2>8, <3>3, CloseGood
  <2>9. CASE ~ st.strm.STOP_SENDING /\ end = F
    <3> DEFINE bytes == [i \in 1..0 |-> F + i]
               new == conn_call_recv_stream_data(shut, TRUE, bytes)
    <3>1. bytes = << >>
      <4>1. bytes \in Seq(Nat) /\ Len(bytes) = 0
        <5>1. bytes \in [1..0 -> Nat]
          OBVIOUS
        <5> QED
          BY <5>1, FunctionIsSeq
      <4> HIDE DEF bytes
      <4> QED
        BY <4>1, EmptySeq
    <3>2. /\ new \in St /\ Passed(new, F + 0)
          /\ SameLimits(new, shut) /\ new.rob = shut.rob
          /\ new.fins = shut.fins + 1
          /\ ~ shut.refuse => new.strm.STOP_SENDING = shut.strm.STOP_SENDING
      <4>1. PICK z \in Nat, y \in BOOLEAN : z = 0 /\ y = TRUE
        OBVIOUS
      <4>2. LET b == [i \in 1..z |-> F + i]
                v == conn_call_recv_stream_data(shut, y, b)
            IN  /\ v \in St
                /\ Passed(v, F + z)
                /\ SameLimits(v, shut) /\ v.rob = shut.rob
                /\ v.fins = IF y THEN shut.fins + 1 ELSE shut.fins
                /\ ~ shut.refuse => v.strm.STOP_SENDING = shut.strm.STOP_SENDING
        <5> HIDE DEF F
        <5>1. z \in Nat /\ y \in BOOLEAN
          BY <4>1
        <5> QED
          BY <1>2, <2>5, <5>1, CallPasses
      <4> QED
        BY <4>1, <4>2
    <3>3. F + 0 = F
      BY <1>2
    <3> HIDE DEF new, bytes
    <3>4. First(new) = F /\ Offsets(new)
      BY <2>5, <3>2 DEF First, Offsets, SameLimits
    <3>5. ASSUME ~ peer.resets PROVE Regular(new, F)
      <4> HIDE DEF end, F
      <4> QED
        BY <2>3, <2>5, <2>7, <2>9, <3>2, <3>5 DEF Regular, SameLimits
    <3>6. Sound(new, F)
      BY <1>1, <2>5, <3>2, <3>3, <3>4, <3>5 DEF Sound
    <3>7. Good(new, st)
      BY <1>2, <2>3, <2>5, <3>2, <3>4, <3>6 DEF Good, SameLimits
    <3> QED
      BY <2>1, <2>9, <3>1, <3>2, <3>7, CloseGood DEF new
  <2>10. CASE ~ st.strm.STOP_SENDING /\ end # F
    <3>1. ~ peer.resets => Regular(shut, F)
      <4> HIDE DEF end, F
      <4> QED
        BY <2>3, <2>5, <2>7, <2>10 DEF Regular
    <3>2. Sound(shut, First(shut))
      BY <1>1, <2>5, <3>1 DEF Sound
    <3>3. First(shut) < end /\ end <= shut.strm.last_rx_offset
      BY <1>2, <2>3, <2>5, <2>10
    <3>4. Good(TakeData(shut, fr), shut)
      BY <2>5, <3>2, <3>3, TakeDataGood
    <3>5. Good(TakeData(shut, fr), st)
      BY <2>3, <2>5, <3>4 DEF Good
    <3> QED
      BY <2>1, <2>10, <3>5
  <2> QED
    BY <2>8, <2>9, <2>10
<1> QED
  BY <1>3, <1>4

\* The record of what a call changes, field by field.
LEMMA StateIs ==
    ASSUME NEW refuse
    PROVE  /\ State(refuse).rob = rob /\ State(refuse).strm = strm
           /\ State(refuse).conn = conn /\ State(refuse).out = out
           /\ State(refuse).fins = fins /\ State(refuse).closed = closed
           /\ State(refuse).err = err /\ State(refuse).refuse = refuse
           /\ First(State(refuse)) = Rx
BY DEF State, First, Rx

\* It is sound whatever the application will say.
LEMMA StateSound ==
    ASSUME Inv, NEW refuse \in Refusals
    PROVE  State(refuse) \in St /\ Sound(State(refuse), Rx)
<1>1. Sound(State(FALSE), Rx) /\ State(FALSE) \in St /\ peer \in Peer
  BY DEF Inv, Sound, PeerSound
<1>2. peer.resets \in BOOLEAN
  BY <1>1 DEF Peer
<1>3. refuse \in BOOLEAN /\ (~ peer.resets => refuse = FALSE)
  BY <1>2 DEF Refusals
<1>4. CASE refuse = FALSE
  BY <1>1, <1>4
<1>5. CASE refuse # FALSE
  <2>1. /\ rob \in Rob /\ strm \in Strm /\ conn \in Conn /\ out \in Seq(Nat)
        /\ fins \in Nat /\ closed \in BOOLEAN /\ err \in Code
    BY <1>1, StParts, StateIs
  <2>2. State(refuse) \in St
    BY <1>3, <2>1 DEF State, St
  <2>3. peer.resets
    BY <1>2, <1>3, <1>5
  <2>4. Offsets(State(refuse)) /\ Passed(State(refuse), Rx) /\ Buffered(State(refuse).rob, Rx)
    BY <1>1, StateIs DEF Sound, Offsets, Passed
  <2> QED
    BY <2>2, <2>3, <2>4 DEF Sound
<1> QED
  BY <1>4, <1>5

\* The limits and offsets that a frame is checked against.
LEMMA LimitsAre ==
    ASSUME Inv
    PROVE  /\ peer \in Peer /\ peer.off \in Nat /\ peer.off <= Size /\ Size \in Nat
           /\ strm.last_rx_offset \in Nat /\ strm.last_rx_offset <= peer.off
           /\ Rx \in Nat /\ Rx <= strm.last_rx_offset
           /\ strm.max_rx_offset \in Nat /\ peer.off <= strm.max_rx_offset
           /\ conn.max_rx_offset \in Nat /\ conn.rx_offset \in Nat
           /\ peer.off <= conn.max_rx_offset
           /\ ~ peer.resets => conn.rx_offset = strm.last_rx_offset
           /\ ~ peer.resets => ~ peer.rst
           /\ strm \in Strm /\ conn \in Conn
<1>1. /\ Sound(State(FALSE), Rx) /\ State(FALSE) \in St /\ peer \in Peer
      /\ peer.off <= peer.max /\ peer.off <= peer.maxData
      /\ peer.max <= strm.max_rx_offset /\ peer.maxData <= conn.max_rx_offset
      /\ ~ peer.resets => ~ peer.rst
  BY DEF Inv, Sound, PeerSound
<1>2. /\ strm \in Strm /\ conn \in Conn
      /\ strm.last_rx_offset \in Nat /\ strm.max_rx_offset \in Nat
      /\ conn.max_rx_offset \in Nat /\ conn.rx_offset \in Nat
  BY <1>1, StParts, StateIs
<1>3. /\ Rx \in Nat /\ Rx <= strm.last_rx_offset /\ strm.last_rx_offset <= peer.off
      /\ peer.off \in Nat /\ peer.off <= Size
  <2>1. GapList(State(FALSE).rob.gap) /\ Offsets(State(FALSE))
    BY <1>1 DEF Sound, Buffered
  <2> QED
    BY <1>1, <2>1, GapNotAfter, StateIs DEF First
<1>4. peer.max \in Nat /\ peer.maxData \in Nat
  BY <1>1 DEF Peer
<1>5. peer.off <= strm.max_rx_offset /\ peer.off <= conn.max_rx_offset
  BY <1>1, <1>2, <1>3, <1>4
<1>6. ~ peer.resets => conn.rx_offset = strm.last_rx_offset
  BY <1>1, StateIs DEF Sound, Regular
<1> QED
  BY <1>1, <1>2, <1>3, <1>5, <1>6, StreamAssumption

\* Whatever STREAM frame arrives, the result is good (conn_recv_stream).
LEMMA StreamGood ==
    ASSUME Inv, err = "none", NEW refuse \in Refusals, NEW fr, fr.offset \in Nat,
           fr.len \in Nat, fr.offset + fr.len <= peer.off,
           fr.fin => peer.fin /\ fr.offset + fr.len = Size
    PROVE  Good(conn_recv_stream(State(refuse), fr), State(refuse))
<1> DEFINE st == State(refuse)
           end == fr.offset + fr.len
           last == strm.last_rx_offset
           len == IF end > last THEN end - last ELSE 0
           c == [conn EXCEPT !.rx_offset = @ + len]
           t == [strm EXCEPT !.opened = TRUE]
           counted == [[st EXCEPT !.conn = c] EXCEPT !.strm = t]
<1>1. st \in St /\ Sound(st, Rx)
  BY StateSound
<1>2. /\ peer \in Peer /\ peer.off \in Nat /\ peer.off <= Size /\ Size \in Nat
      /\ last \in Nat /\ last <= peer.off /\ Rx \in Nat
      /\ strm.max_rx_offset \in Nat /\ peer.off <= strm.max_rx_offset
      /\ conn.max_rx_offset \in Nat /\ conn.rx_offset \in Nat
      /\ peer.off <= conn.max_rx_offset
      /\ ~ peer.resets => conn.rx_offset = last
      /\ ~ peer.resets => ~ peer.rst
      /\ strm \in Strm /\ conn \in Conn
  BY LimitsAre
<1>3. peer.fin => peer.off = Size
  BY DEF Inv, PeerSound
<1>4. end \in Nat /\ len \in Nat /\ Max({0, end - last}) = len
  <2>1. end \in Nat
    OBVIOUS
  <2>2. CASE end - last >= 0
    <3>1. end - last \in Nat
      BY <1>2, <2>1, <2>2
    <3>2. Max({0, end - last}) = IF 0 >= end - last THEN 0 ELSE end - last
      BY <3>1, MaxMinPair
    <3> QED
      BY <1>2, <2>1, <3>1, <3>2
  <2>3. CASE ~ (end - last >= 0)
    <3>1. \A x \in {0, end - last} : 0 >= x
      BY <1>2, <2>1, <2>3
    <3>2. Max({0, end - last}) = 0
      BY <1>2, <2>1, <2>3, <3>1 DEF Max
    <3> QED
      BY <1>2, <2>1, <2>3, <3>2
  <2> QED
    BY <2>2, <2>3
<1>5. ~ (strm.max_rx_offset < end)
  BY <1>2, <1>4
<1>6. ~ peer.resets => ~ (conn.max_rx_offset - conn.rx_offset < len)
  BY <1>2, <1>4
<1>7. conn_recv_stream(st, fr) =
        IF conn.max_rx_offset - conn.rx_offset < len THEN Fail(st, "FLOW_CONTROL")
        ELSE IF fr.fin THEN TakeFin(counted, fr) ELSE TakeNoFin(counted, fr)
  <2>1. [st EXCEPT !.conn.rx_offset = @ + len, !.strm.opened = TRUE] = counted
    BY DEF State
  <2> HIDE DEF len, end, counted, st
  <2>2. conn_recv_stream(st, fr) =
        IF strm.max_rx_offset < end \/ conn_max_data_violated(len)
        THEN Fail(st, "FLOW_CONTROL")
        ELSE IF fr.fin
             THEN TakeFin([st EXCEPT !.conn.rx_offset = @ + len, !.strm.opened = TRUE], fr)
             ELSE TakeNoFin([st EXCEPT !.conn.rx_offset = @ + len, !.strm.opened = TRUE], fr)
    <3> DEFINE m == Max({0, (fr.offset + fr.len) - strm.last_rx_offset})
    <3>1. m = len
      BY <1>4, Zenon DEF end
    <3>2. conn_recv_stream(st, fr) =
        IF strm.max_rx_offset < end \/ conn_max_data_violated(m)
        THEN Fail(st, "FLOW_CONTROL")
        ELSE IF fr.fin
             THEN TakeFin([st EXCEPT !.conn.rx_offset = @ + m, !.strm.opened = TRUE], fr)
             ELSE TakeNoFin([st EXCEPT !.conn.rx_offset = @ + m, !.strm.opened = TRUE], fr)
      BY DEF conn_recv_stream, end
    <3> HIDE DEF m
    <3> QED
      BY <3>1, <3>2, Zenon
  <2> QED
    BY <1>5, <2>1, <2>2 DEF conn_max_data_violated
<1>8. /\ Buffered(st.rob, First(st)) /\ Offsets(st) /\ Passed(st, First(st))
      /\ First(st) = Rx
  BY <1>1, StateIs DEF Sound
<1> HIDE DEF len
<1>9. CASE conn.max_rx_offset - conn.rx_offset < len
  <2>1. peer.resets
    BY <1>6, <1>9
  <2>2. PICK code \in Code : code = "FLOW_CONTROL" /\ code # "assert"
    BY DEF Code
  <2> HIDE DEF st
  <2>3. Good(Fail(st, code), st)
    BY <1>1, <1>2, <1>8, <2>1, <2>2, FailGood
  <2> QED
    BY <1>7, <1>9, <2>2, <2>3 DEF st
<1>10. CASE ~ (conn.max_rx_offset - conn.rx_offset < len)
  <2>1. c \in Conn /\ c.rx_offset = conn.rx_offset + len /\ c.max_rx_offset = conn.max_rx_offset
        /\ c.unsent_max_rx_offset = conn.unsent_max_rx_offset
    BY <1>2, <1>4 DEF Conn
  <2>2. /\ t \in Strm /\ t.last_rx_offset = last
        /\ t.max_rx_offset = strm.max_rx_offset
        /\ t.unsent_max_rx_offset = strm.unsent_max_rx_offset
        /\ t.SHUT_RD = strm.SHUT_RD /\ t.RECV_RST = strm.RECV_RST
        /\ t.STOP_SENDING = strm.STOP_SENDING
    <3>1. t \in Strm
      BY <1>2 DEF Strm
    <3> QED
      BY <1>2, <3>1 DEF Strm
  <2>3. /\ st.rob = rob /\ st.strm = strm /\ st.conn = conn /\ st.out = out
        /\ st.fins = fins /\ st.closed = closed /\ st.err = err
    BY StateIs
  <2> HIDE DEF c, t, st
  <2>4. counted \in St
    <3>1. [st EXCEPT !.conn = c] \in St
      BY <1>1, <2>1, StWith
    <3> QED
      BY <2>2, <3>1, StWith
  <2>5. /\ counted.rob = rob /\ counted.strm = t /\ counted.conn = c
        /\ counted.out = out /\ counted.fins = fins /\ counted.closed = closed
        /\ counted.err = err /\ counted.refuse = st.refuse
    BY <1>1, <2>3 DEF St
  <2> HIDE DEF counted
  <2>6. First(counted) = Rx
    BY <2>5 DEF First, Rx
  <2>7. Buffered(counted.rob, Rx) /\ Offsets(counted) /\ Passed(counted, Rx)
    BY <1>8, <2>1, <2>2, <2>3, <2>5 DEF Offsets, Passed
  <2>8. ASSUME ~ peer.resets
        PROVE  /\ ~ counted.refuse /\ ~ counted.strm.STOP_SENDING
               /\ counted.conn.rx_offset =
                    IF end > counted.strm.last_rx_offset THEN end
                    ELSE counted.strm.last_rx_offset
               /\ counted.fins = IF counted.strm.SHUT_RD
                                     /\ First(counted) = counted.strm.last_rx_offset
                                 THEN 1 ELSE 0
    <3>1. /\ ~ st.refuse /\ ~ st.strm.STOP_SENDING
          /\ st.fins = IF st.strm.SHUT_RD /\ Rx = st.strm.last_rx_offset THEN 1 ELSE 0
      BY <1>1, <2>8 DEF Sound, Regular
    <3>2. c.rx_offset = IF end > last THEN end ELSE last
      <4> HIDE DEF end
      <4> QED
        BY <1>2, <1>4, <2>1, <2>8 DEF len
    <3> QED
      BY <2>2, <2>3, <2>5, <2>6, <3>1, <3>2
  <2>9. Counted(counted, end)
    BY <2>4, <2>5, <2>6, <2>7, <2>8 DEF Counted
  <2>10. CASE fr.fin
    <3>1. Good(TakeFin(counted, fr), counted)
      BY <1>2, <1>3, <2>9, <2>10, TakeFinGood
    <3>2. conn_recv_stream(st, fr) = TakeFin(counted, fr)
      BY <1>7, <1>10, <2>10
    <3> QED
      BY <1>8, <2>1, <2>2, <2>3, <2>5, <2>6, <3>1, <3>2 DEF Good, st
  <2>11. CASE ~ fr.fin
    <3>1. Good(TakeNoFin(counted, fr), counted)
      BY <1>2, <2>9, TakeNoFinGood
    <3>2. conn_recv_stream(st, fr) = TakeNoFin(counted, fr)
      BY <1>7, <1>10, <2>11
    <3> QED
      BY <1>8, <2>1, <2>2, <2>3, <2>5, <2>6, <3>1, <3>2 DEF Good, st
  <2> QED
    BY <2>10, <2>11
<1> QED
  BY <1>9, <1>10

\* Whatever RST_STREAM frame arrives, the result is good
\* (conn_recv_rst_stream).
LEMMA RstGood ==
    ASSUME Inv, err = "none", NEW refuse \in Refusals, NEW fr, peer.rst, fr.final = peer.off
    PROVE  Good(conn_recv_rst_stream(State(refuse), fr), State(refuse))
<1> DEFINE st == State(refuse)
           last == strm.last_rx_offset
           len == fr.final - last
<1>1. st \in St /\ Sound(st, Rx)
  BY StateSound
<1>2. /\ peer \in Peer /\ peer.off \in Nat
      /\ last \in Nat /\ last <= peer.off /\ Rx \in Nat
      /\ conn.max_rx_offset \in Nat /\ conn.rx_offset \in Nat
      /\ ~ peer.resets => ~ peer.rst
      /\ strm \in Strm /\ conn \in Conn
  BY LimitsAre
<1>3. peer.resets
  BY <1>2
<1>4. /\ Buffered(st.rob, First(st)) /\ Offsets(st) /\ Passed(st, First(st))
      /\ First(st) = Rx
  BY <1>1, StateIs DEF Sound
<1>5. /\ st.rob = rob /\ st.strm = strm /\ st.conn = conn /\ st.out = out
      /\ st.fins = fins /\ st.closed = closed /\ st.err = err
  BY StateIs
<1>6. ASSUME NEW code \in Code, code # "assert" PROVE Good(Fail(st, code), st)
  <2> HIDE DEF st
  <2> QED
    BY <1>1, <1>2, <1>3, <1>4, <1>6, FailGood
<1>7. Good(Fail(st, "FLOW_CONTROL"), st) /\ Good(Fail(st, "FINAL_OFFSET"), st)
  <2>1. "FLOW_CONTROL" \in Code /\ "FINAL_OFFSET" \in Code
    BY DEF Code
  <2> HIDE DEF st
  <2> QED
    BY <1>6, <2>1
<1>8. fr.final \in Nat /\ len \in Nat
  BY <1>2
<1>9. CASE ~ strm.opened
  <2> DEFINE c == [conn EXCEPT !.rx_offset = @ + fr.final]
             new == [[st EXCEPT !.conn = c] EXCEPT !.closed = TRUE]
  <2>1. \/ conn_recv_rst_stream(st, fr) = Fail(st, "FLOW_CONTROL")
        \/ conn_recv_rst_stream(st, fr) = new
    <3>1. [st EXCEPT !.conn.rx_offset = @ + fr.final, !.closed = TRUE] = new
      BY DEF State
    <3> HIDE DEF st, new
    <3> QED
      BY <1>9, <3>1 DEF conn_recv_rst_stream
  <2>2. c \in Conn /\ c.max_rx_offset = conn.max_rx_offset
        /\ c.unsent_max_rx_offset = conn.unsent_max_rx_offset
    BY <1>2, <1>8 DEF Conn
  <2> HIDE DEF c, st
  <2>3. new \in St
    <3>1. [st EXCEPT !.conn = c] \in St
      BY <1>1, <2>2, StWith
    <3> QED
      BY <3>1, StWith
  <2>4. /\ new.rob = rob /\ new.strm = strm /\ new.conn = c /\ new.out = out
        /\ new.fins = fins /\ new.closed = TRUE /\ new.err = err
    BY <1>1, <1>5 DEF St
  <2> HIDE DEF new
  <2>5. First(new) = Rx /\ Offsets(new) /\ Passed(new, Rx) /\ Buffered(new.rob, Rx)
    BY <1>4, <1>5, <2>2, <2>4 DEF First, Rx, Offsets, Passed
  <2>6. Sound(new, Rx)
    BY <1>3, <2>3, <2>5 DEF Sound
  <2>7. Good(new, st)
    BY <1>2, <1>3, <1>4, <1>5, <2>2, <2>4, <2>5, <2>6 DEF Good
  <2> QED
    BY <1>7, <2>1, <2>7 DEF st
<1>10. CASE strm.opened
  <2> DEFINE c == [conn EXCEPT !.rx_offset = @ + len]
             t == [[strm EXCEPT !.SHUT_RD = TRUE] EXCEPT !.RECV_RST = TRUE]
             new == [[st EXCEPT !.conn = c] EXCEPT !.strm = t]
  <2>1. \/ conn_recv_rst_stream(st, fr) = Fail(st, "FLOW_CONTROL")
        \/ conn_recv_rst_stream(st, fr) = Fail(st, "FINAL_OFFSET")
        \/ conn_recv_rst_stream(st, fr) = ngtcp2_conn_close_stream_if_shut_rdwr(new)
    <3>1. [st EXCEPT !.conn.rx_offset = @ + len,
                     !.strm.SHUT_RD = TRUE, !.strm.RECV_RST = TRUE] = new
      BY <1>2 DEF State, Strm, Conn
    <3> HIDE DEF st, new
    <3> QED
      BY <1>10, <3>1 DEF conn_recv_rst_stream
  <2>2. c \in Conn /\ c.max_rx_offset = conn.max_rx_offset
        /\ c.unsent_max_rx_offset = conn.unsent_max_rx_offset
    BY <1>2, <1>8 DEF Conn
  <2>3. /\ t \in Strm /\ t.last_rx_offset = last
        /\ t.max_rx_offset = strm.max_rx_offset
        /\ t.unsent_max_rx_offset = strm.unsent_max_rx_offset
    <3>1. [strm EXCEPT !.SHUT_RD = TRUE] \in Strm
      BY <1>2 DEF Strm
    <3>2. t \in Strm
      BY <3>1 DEF Strm
    <3> QED
      BY <1>2, <3>2 DEF Strm
  <2> HIDE DEF c, t, st
  <2>4. new \in St
    <3>1. [st EXCEPT !.conn = c] \in St
      BY <1>1, <2>2, StWith
    <3> QED
      BY <2>3, <3>1, StWith
  <2>5. /\ new.rob = rob /\ new.strm = t /\ new.conn = c /\ new.out = out
        /\ new.fins = fins /\ new.closed = closed /\ new.err = err
    BY <1>1, <1>5 DEF St
  <2> HIDE DEF new
  <2>6. First(new) = Rx /\ Offsets(new) /\ Passed(new, Rx) /\ Buffered(new.rob, Rx)
    BY <1>4, <1>5, <2>2, <2>3, <2>5 DEF First, Rx, Offsets, Passed
  <2>7. Sound(new, Rx)
    BY <1>3, <2>4, <2>6 DEF Sound
  <2>8. Good(new, st)
    BY <1>2, <1>3, <1>4, <1>5, <2>2, <2>3, <2>5, <2>6, <2>7 DEF Good
  <2> QED
    BY <1>7, <2>1, <2>4, <2>8, CloseGood DEF st
<1>11. strm.opened \in BOOLEAN
  BY <1>2 DEF Strm
<1> QED
  BY <1>9, <1>10, <1>11

\* Whatever frame arrives, the result is good.
LEMMA ArrivalGood ==
    ASSUME Inv, err = "none", NEW fr \in Frames, NEW refuse \in Refusals
    PROVE  Good(Arrival(fr, refuse), State(refuse))
<1>1. Size \in Nat
  BY StreamAssumption
<1>2. CASE fr.type = "STREAM"
  <2>1. /\ fr.offset \in Nat /\ fr.len \in Nat /\ fr.offset + fr.len <= peer.off
        /\ fr.fin => peer.fin /\ fr.offset + fr.len = Size
    BY <1>1, <1>2 DEF Frames
  <2> QED
    BY <1>2, <2>1, StreamGood DEF Arrival
<1>3. CASE fr.type # "STREAM"
  <2>1. peer.rst /\ fr.final = peer.off
    BY <1>3 DEF Frames
  <2> QED
    BY <1>3, <2>1, RstGood DEF Arrival
<1> QED
  BY <1>2, <1>3

---------------------------------------------------------------------------
(* Invariance.                                                             *)

\* A good result keeps the invariant, and nothing that was passed on is taken
\* back.
LEMMA BecomeInv ==
    ASSUME Inv, ~ closed, NEW refuse, NEW st, Good(st, State(refuse)), Become(st),
           UNCHANGED << peer, limits >>
    PROVE  Inv' /\ Rx <= Rx'
<1>1. /\ rob' = st.rob /\ strm' = st.strm /\ conn' = st.conn /\ out' = st.out
      /\ fins' = st.fins /\ closed' = st.closed /\ err' = st.err
      /\ peer' = peer /\ limits' = limits
  BY DEF Become
<1>2. /\ Sound(st, First(st)) /\ Rx <= First(st)
      /\ st.strm.max_rx_offset = strm.max_rx_offset
      /\ st.conn.max_rx_offset = conn.max_rx_offset
      /\ st.err # "assert"
      /\ ~ peer.resets => st.err = "none"
      /\ st.closed => \/ peer.rst
                      \/ (st.strm.SHUT_RD /\ First(st) = st.strm.last_rx_offset)
  BY StateIs DEF Good
<1>3. Rx' = First(st)
  BY <1>1 DEF Rx, First
<1>4. PeerSound'
  BY <1>1, <1>2 DEF Inv, PeerSound
<1>5. Ended'
  BY <1>1, <1>2, <1>3 DEF Ended
<1>6. st \in St /\ Buffered(st.rob, First(st)) /\ Offsets(st) /\ Passed(st, First(st))
      /\ (~ peer.resets => Regular(st, First(st)))
  BY <1>2 DEF Sound
<1>7. Sound(State(FALSE), Rx)'
  <2>1. /\ st.rob \in Rob /\ st.strm \in Strm /\ st.conn \in Conn /\ st.out \in Seq(Nat)
        /\ st.fins \in Nat /\ st.closed \in BOOLEAN /\ st.err \in Code
    BY <1>6, StParts
  <2>2. /\ State(FALSE)'.rob = st.rob /\ State(FALSE)'.strm = st.strm
        /\ State(FALSE)'.conn = st.conn /\ State(FALSE)'.out = st.out
        /\ State(FALSE)'.fins = st.fins /\ State(FALSE)'.closed = st.closed
        /\ State(FALSE)'.err = st.err /\ State(FALSE)'.refuse = FALSE
    BY <1>1 DEF State
  <2>3. State(FALSE)' \in St
    BY <1>1, <2>1 DEF State, St
  <2>4. Offsets(State(FALSE))'
    BY <1>1, <1>6, <2>2 DEF Offsets
  <2>5. Passed(State(FALSE), Rx)'
    BY <1>3, <1>6, <2>2 DEF Passed
  <2>6. (~ peer.resets => Regular(State(FALSE), Rx))'
    BY <1>1, <1>3, <1>6, <2>2 DEF Regular
  <2>7. Buffered(State(FALSE).rob, Rx)'
    BY <1>3, <1>6, <2>2 DEF Buffered
  <2> QED
    BY <2>3, <2>4, <2>5, <2>6, <2>7 DEF Sound
<1> QED
  BY <1>2, <1>3, <1>4, <1>5, <1>7 DEF Inv

\* The initial states satisfy it.
LEMMA InitInv ==
    ASSUME Init PROVE Inv
<1>0. /\ Size \in Nat /\ Window \in Nat /\ MaxData \in Nat /\ Chunk \in Nat /\ Chunk > 0
      /\ Resets \subseteq BOOLEAN
  BY StreamAssumption
<1> DEFINE g == [begin |-> 0, end |-> Infinity]
<1>1. rob = [gap |-> << g >>, data |-> {}, mem |-> {}]
  BY DEF Init, rob_init, gaptr_init, range
<1>2. g \in Range0 /\ g.begin < g.end
  BY <1>0 DEF Range0, Infinity
<1>3. /\ << g >> \in Seq(Range0) /\ << g >> # << >> /\ << g >>[1] = g /\ Len(<< g >>) = 1
      /\ Ordered(<< g >>)
      /\ Missing(<< g >>) = {n \in Nat : 0 <= n /\ n < Infinity}
  BY <1>2, OneRange
<1>4. GapList(<< g >>) /\ rob.gap = << g >> /\ Rx = 0
  BY <1>1, <1>3 DEF GapList, Rx
<1>5. rob \in Rob /\ Buffered(rob, 0)
  <2>1. rob \in Rob
    BY <1>1, <1>3 DEF Rob
  <2>2. rob.data = {} /\ \A i \in Nat : i < Infinity => i \in Missing(rob.gap)
    BY <1>1, <1>3
  <2>3. 0 <= rob.gap[1].begin
    BY <1>1
  <2> QED
    BY <1>4, <2>1, <2>2, <2>3 DEF Buffered
<1>6. PICK resets \in Resets :
          peer = [off |-> 0, fin |-> FALSE, rst |-> FALSE, max |-> Window,
                  maxData |-> MaxData, resets |-> resets]
  BY DEF Init
<1>7. PICK opened \in BOOLEAN, uni \in BOOLEAN :
          strm = [opened |-> opened, last_rx_offset |-> 0,
                  max_rx_offset |-> Window, unsent_max_rx_offset |-> Window,
                  SHUT_RD |-> FALSE, RECV_RST |-> FALSE,
                  STOP_SENDING |-> FALSE, SHUT_WR |-> uni, fc |-> FALSE]
  BY DEF Init
<1>8. /\ conn = [rx_offset |-> 0, max_rx_offset |-> MaxData,
                 unsent_max_rx_offset |-> MaxData]
      /\ out = << >> /\ fins = 0 /\ closed = FALSE /\ err = "none" /\ limits = {}
  BY DEF Init
<1>9. peer \in Peer /\ strm \in Strm /\ conn \in Conn
  BY <1>0, <1>6, <1>7, <1>8 DEF Peer, Strm, Conn
<1>10. PeerSound
  <2>1. strm.max_rx_offset = Window /\ conn.max_rx_offset = MaxData
    BY <1>7, <1>8
  <2> QED
    BY <1>0, <1>6, <1>8, <1>9, <2>1 DEF PeerSound
<1>11. Ended
  BY <1>8 DEF Ended
<1>12. State(FALSE) \in St
  <2>1. << >> \in Seq(Nat) /\ "none" \in Code /\ 0 \in Nat
    BY DEF Code
  <2> QED
    BY <1>5, <1>8, <1>9, <2>1 DEF State, St
<1> DEFINE st == State(FALSE)
<1>s. /\ st.rob = rob /\ st.strm = strm /\ st.conn = conn /\ st.out = out
      /\ st.fins = fins /\ st.refuse = FALSE
  BY DEF State
<1> HIDE DEF st
<1>13. Offsets(st)
  <2>1. strm.last_rx_offset = 0 /\ strm.SHUT_RD = FALSE /\ strm.RECV_RST = FALSE
        /\ peer.off = 0
    BY <1>6, <1>7
  <2>2. \A i \in Nat : i < Infinity => i \in Missing(rob.gap)
    BY <1>3, <1>4
  <2> QED
    BY <1>s, <2>1, <2>2 DEF Offsets
<1>14. Passed(st, 0)
  <2>1. << >> = [i \in 1..0 |-> i]
    <3> DEFINE e == [i \in 1..0 |-> i]
    <3>1. e \in [1..0 -> Nat]
      OBVIOUS
    <3>2. e \in Seq(Nat) /\ Len(e) = 0
      BY <3>1, FunctionIsSeq
    <3> HIDE DEF e
    <3>3. e = << >>
      BY <3>2, EmptySeq
    <3> QED
      BY <3>3 DEF e
  <2>2. /\ strm.unsent_max_rx_offset = Window + 0 /\ conn.unsent_max_rx_offset = MaxData + 0
        /\ strm.max_rx_offset <= strm.unsent_max_rx_offset
        /\ conn.max_rx_offset <= conn.unsent_max_rx_offset
    BY <1>0, <1>7, <1>8
  <2> QED
    BY <1>8, <1>s, <2>1, <2>2 DEF Passed
<1>15. Regular(st, 0)
  <2>1. /\ strm.STOP_SENDING = FALSE /\ strm.SHUT_RD = FALSE
        /\ conn.rx_offset = strm.last_rx_offset
    BY <1>7, <1>8
  <2> QED
    BY <1>8, <1>s, <2>1 DEF Regular
<1>16. Sound(State(FALSE), Rx)
  BY <1>4, <1>5, <1>12, <1>13, <1>14, <1>15, <1>s DEF Sound, st
<1> QED
  BY <1>10, <1>11, <1>16 DEF Inv

\* A step that leaves the receiving end alone keeps it sound, when the peer
\* has not taken anything back.
LEMMA ReceiverSame ==
    ASSUME Inv, UNCHANGED << rob, strm, conn, out, fins, closed, err >>,
           peer.off <= peer'.off, peer'.off \in Nat, peer'.resets = peer.resets,
           peer.rst => peer'.rst, peer.fin => peer'.fin
    PROVE  Sound(State(FALSE), Rx)' /\ Ended'
<1>1. State(FALSE)' = State(FALSE) /\ Rx' = Rx
  BY DEF State, Rx
<1>2. Sound(State(FALSE), Rx) /\ State(FALSE) \in St /\ Offsets(State(FALSE))
  BY DEF Inv, Sound
<1>3. peer.off \in Nat /\ strm.last_rx_offset \in Nat /\ strm.last_rx_offset <= peer.off
  BY LimitsAre
<1>4. strm.last_rx_offset <= peer'.off
  BY <1>3
<1>5. Offsets(State(FALSE))'
  BY <1>1, <1>2, <1>4, StateIs DEF Offsets
<1>6. Passed(State(FALSE), Rx)' /\ Buffered(State(FALSE).rob, Rx)'
  BY <1>1, <1>2 DEF Sound, Passed, Buffered
<1>7. (~ peer.resets => Regular(State(FALSE), Rx))'
  BY <1>1, <1>2 DEF Sound, Regular
<1>8. Sound(State(FALSE), Rx)'
  BY <1>1, <1>2, <1>5, <1>6, <1>7 DEF Sound
<1>9. Ended'
  BY <1>1 DEF Inv, Ended
<1> QED
  BY <1>8, <1>9

\* A step of the local end that changes only the stream's and the
\* connection's limits and flags.
LEMMA LocalStep ==
    ASSUME Inv, UNCHANGED << peer, rob, out, fins, closed, err >>,
           strm' \in Strm, conn' \in Conn,
           strm'.last_rx_offset = strm.last_rx_offset,
           strm'.unsent_max_rx_offset = strm.unsent_max_rx_offset,
           strm'.max_rx_offset <= strm.unsent_max_rx_offset,
           strm'.SHUT_RD = strm.SHUT_RD, strm'.RECV_RST = strm.RECV_RST,
           ~ peer.resets => strm'.STOP_SENDING = strm.STOP_SENDING,
           conn'.rx_offset = conn.rx_offset,
           conn'.unsent_max_rx_offset = conn.unsent_max_rx_offset,
           conn'.max_rx_offset <= conn.unsent_max_rx_offset
    PROVE  Sound(State(FALSE), Rx)' /\ Ended'
<1> DEFINE st == State(FALSE)
           new == State(FALSE)'
<1>1. /\ new.rob = rob /\ new.strm = strm' /\ new.conn = conn' /\ new.out = out
      /\ new.fins = fins /\ new.refuse = FALSE
      /\ st.rob = rob /\ st.strm = strm /\ st.conn = conn /\ st.out = out
      /\ st.fins = fins
  BY DEF State
<1>2. Rx' = Rx
  BY DEF Rx
<1>3. st \in St /\ Buffered(st.rob, Rx) /\ Offsets(st) /\ Passed(st, Rx)
      /\ (~ peer.resets => Regular(st, Rx))
  BY DEF Inv, Sound
<1>4. new \in St
  <2>1. /\ rob \in Rob /\ out \in Seq(Nat) /\ fins \in Nat /\ closed \in BOOLEAN
        /\ err \in Code
    BY <1>3, StParts, StateIs
  <2> QED
    BY <2>1 DEF State, St
<1>5. Offsets(State(FALSE))'
  <2> HIDE DEF st, new
  <2>1. Offsets(new)
    BY <1>1, <1>3 DEF Offsets
  <2> QED
    BY <2>1 DEF Offsets, new
<1>6. Passed(State(FALSE), Rx)'
  <2> HIDE DEF st, new
  <2>1. Passed(new, Rx)
    BY <1>1, <1>3 DEF Passed
  <2> QED
    BY <1>2, <2>1 DEF Passed, new
<1>7. (~ peer.resets => Regular(State(FALSE), Rx))'
  <2> HIDE DEF st, new
  <2>1. ~ peer.resets => Regular(new, Rx)
    BY <1>1, <1>3 DEF Regular
  <2> QED
    BY <1>2, <2>1 DEF Regular, new
<1>8. Buffered(State(FALSE).rob, Rx)'
  BY <1>1, <1>2, <1>3 DEF Buffered
<1>9. Sound(State(FALSE), Rx)'
  BY <1>4, <1>5, <1>6, <1>7, <1>8 DEF Sound
<1>10. Ended'
  BY <1>2 DEF Inv, Ended
<1> QED
  BY <1>9, <1>10

\* What has been passed on stands still with the buffer.
LEMMA SameFront ==
    ASSUME Rx \in Nat, rob' = rob
    PROVE  Rx <= Rx'
BY DEF Rx

\* Every step keeps the invariant and passes on no less than before.
LEMMA NextInv ==
    ASSUME Inv, [Next]_vars
    PROVE  Inv' /\ Rx <= Rx'
<1>0. /\ peer \in Peer /\ peer.off \in Nat /\ peer.off <= Size /\ Size \in Nat
      /\ Rx \in Nat
      /\ strm.max_rx_offset \in Nat /\ conn.max_rx_offset \in Nat
      /\ strm \in Strm /\ conn \in Conn
  BY LimitsAre
<1>1. PeerSound
  BY DEF Inv
<1>2. /\ peer.max \in Nat /\ peer.maxData \in Nat /\ peer.resets \in BOOLEAN
      /\ peer.fin \in BOOLEAN /\ peer.rst \in BOOLEAN
  BY <1>0 DEF Peer
<1>3. /\ strm.unsent_max_rx_offset \in Nat /\ conn.unsent_max_rx_offset \in Nat
      /\ strm.max_rx_offset <= strm.unsent_max_rx_offset
      /\ conn.max_rx_offset <= conn.unsent_max_rx_offset
  <2>1. Passed(State(FALSE), Rx)
    BY DEF Inv, Sound
  <2> QED
    BY <1>0, <2>1, StateIs DEF Passed, Strm, Conn
<1>4. ASSUME NEW len \in 0..Size, NEW fin \in BOOLEAN, PeerSend(len, fin)
      PROVE  Inv' /\ Rx <= Rx'
  <2> DEFINE end == peer.off + len
             M == {Size, peer.max, peer.maxData}
  <2>1. /\ ~ peer.fin /\ ~ peer.rst /\ end <= Min(M) /\ (fin => end = Size)
        /\ peer' = [peer EXCEPT !.off = end, !.fin = fin]
        /\ UNCHANGED << limits, rob, strm, conn, out, fins, closed, err >>
    BY <1>4 DEF PeerSend
  <2>2. end \in Nat /\ peer.off <= end
    BY <1>0
  <2>3. end <= Size /\ end <= peer.max /\ end <= peer.maxData
    <3>1. M \subseteq Nat /\ M # {}
      BY <1>0, <1>2
    <3>2. Min(M) \in M /\ \A y \in M : Min(M) <= y
      BY <3>1, MinOfNat
    <3>3. Min(M) \in Nat /\ Min(M) <= Size /\ Min(M) <= peer.max /\ Min(M) <= peer.maxData
      BY <3>1, <3>2
    <3> HIDE DEF M
    <3> QED
      BY <1>0, <1>2, <2>1, <2>2, <3>3
  <2>4. /\ peer'.off = end /\ peer'.fin = fin /\ peer'.rst = peer.rst
        /\ peer'.max = peer.max /\ peer'.maxData = peer.maxData
        /\ peer'.resets = peer.resets /\ peer' \in Peer
    <3>1. [[peer EXCEPT !.off = end] EXCEPT !.fin = fin] \in Peer
      <4>1. [peer EXCEPT !.off = end] \in Peer
        BY <1>0, <2>2, <2>3 DEF Peer
      <4> QED
        BY <4>1 DEF Peer
    <3>2. peer' = [[peer EXCEPT !.off = end] EXCEPT !.fin = fin]
      BY <2>1
    <3> QED
      BY <1>0, <3>1, <3>2 DEF Peer
  <2> HIDE DEF end
  <2>5. Sound(State(FALSE), Rx)' /\ Ended'
    <3>1. UNCHANGED << rob, strm, conn, out, fins, closed, err >>
      BY <2>1
    <3>2. /\ peer.off <= peer'.off /\ peer'.off \in Nat
          /\ peer'.resets = peer.resets
          /\ peer.rst => peer'.rst
          /\ peer.fin => peer'.fin
      BY <2>1, <2>2, <2>4
    <3> QED
      BY <3>1, <3>2, ReceiverSame
  <2>6. PeerSound'
    BY <1>1, <2>1, <2>3, <2>4 DEF PeerSound
  <2> QED
    BY <1>0, <2>1, <2>5, <2>6, SameFront DEF Inv
<1>5. ASSUME PeerReset PROVE Inv' /\ Rx <= Rx'
  <2>1. /\ peer.resets /\ peer' = [peer EXCEPT !.rst = TRUE]
        /\ UNCHANGED << limits, rob, strm, conn, out, fins, closed, err >>
    BY <1>5 DEF PeerReset
  <2>2. /\ peer'.off = peer.off /\ peer'.fin = peer.fin /\ peer'.rst = TRUE
        /\ peer'.max = peer.max /\ peer'.maxData = peer.maxData
        /\ peer'.resets = peer.resets /\ peer' \in Peer
    BY <1>0, <2>1 DEF Peer
  <2>3. Sound(State(FALSE), Rx)' /\ Ended'
    <3>1. UNCHANGED << rob, strm, conn, out, fins, closed, err >>
      BY <2>1
    <3>2. peer.off <= peer'.off /\ peer'.off \in Nat
      BY <1>0, <2>2
    <3>3. /\ peer'.resets = peer.resets
          /\ peer.rst => peer'.rst
          /\ peer.fin => peer'.fin
      BY <2>2, Zenon
    <3> QED
      BY <3>1, <3>2, <3>3, ReceiverSame
  <2>4. PeerSound'
    BY <1>1, <2>1, <2>2 DEF PeerSound
  <2> QED
    BY <1>0, <2>1, <2>3, <2>4, SameFront DEF Inv
<1>6. ASSUME NEW l \in limits, PeerRecvLimit(l) PROVE Inv' /\ Rx <= Rx'
  <2> DEFINE a == IF l.type = "MAX_STREAM_DATA" THEN Max({peer.max, l.max}) ELSE peer.max
             b == IF l.type = "MAX_DATA" THEN Max({peer.maxData, l.max}) ELSE peer.maxData
  <2>1. /\ peer' = [peer EXCEPT !.max = a, !.maxData = b]
        /\ UNCHANGED << limits, rob, strm, conn, out, fins, closed, err >>
    BY <1>6 DEF PeerRecvLimit
  <2>2. /\ l.type \in {"MAX_STREAM_DATA", "MAX_DATA"} /\ l.max \in Nat
        /\ IF l.type = "MAX_DATA" THEN l.max <= conn.max_rx_offset
           ELSE l.max <= strm.max_rx_offset
    BY <1>1 DEF PeerSound, Limit
  <2>3. peer.max <= strm.max_rx_offset /\ peer.maxData <= conn.max_rx_offset
    BY <1>1 DEF PeerSound
  <2>4. a \in Nat /\ peer.max <= a /\ a <= strm.max_rx_offset
    <3>1. Max({peer.max, l.max}) = IF peer.max >= l.max THEN peer.max ELSE l.max
      BY <1>2, <2>2, MaxMinPair
    <3> QED
      BY <1>0, <1>2, <2>2, <2>3, <3>1
  <2>5. b \in Nat /\ peer.maxData <= b /\ b <= conn.max_rx_offset
    <3>1. Max({peer.maxData, l.max}) = IF peer.maxData >= l.max THEN peer.maxData ELSE l.max
      BY <1>2, <2>2, MaxMinPair
    <3> QED
      BY <1>0, <1>2, <2>2, <2>3, <3>1
  <2> HIDE DEF a, b
  <2>6. /\ peer'.off = peer.off /\ peer'.fin = peer.fin /\ peer'.rst = peer.rst
        /\ peer'.max = a /\ peer'.maxData = b
        /\ peer'.resets = peer.resets /\ peer' \in Peer
    <3>1. peer' = [[peer EXCEPT !.max = a] EXCEPT !.maxData = b]
      BY <2>1
    <3>2. [peer EXCEPT !.max = a] \in Peer
      BY <1>0, <2>4 DEF Peer
    <3>3. [[peer EXCEPT !.max = a] EXCEPT !.maxData = b] \in Peer
      BY <2>5, <3>2 DEF Peer
    <3> QED
      BY <1>0, <3>1, <3>3 DEF Peer
  <2>7. Sound(State(FALSE), Rx)' /\ Ended'
    <3>1. UNCHANGED << rob, strm, conn, out, fins, closed, err >>
      BY <2>1
    <3>2. /\ peer.off <= peer'.off /\ peer'.off \in Nat
          /\ peer'.resets = peer.resets
          /\ peer.rst => peer'.rst
          /\ peer.fin => peer'.fin
      BY <1>0, <2>6
    <3> QED
      BY <3>1, <3>2, ReceiverSame
  <2>8. peer.off <= a /\ peer.off <= b
    <3>1. peer.off <= peer.max /\ peer.off <= peer.maxData
      BY <1>1 DEF PeerSound
    <3> QED
      BY <1>0, <1>2, <2>4, <2>5, <3>1
  <2>9. PeerSound'
    BY <1>1, <2>1, <2>4, <2>5, <2>6, <2>8 DEF PeerSound
  <2> QED
    BY <1>0, <2>1, <2>7, <2>9, SameFront DEF Inv
<1>7. ASSUME NEW fr \in Frames, NEW refuse \in Refusals, RecvFrame(fr, refuse)
      PROVE  Inv' /\ Rx <= Rx'
  <2>1. /\ err = "none" /\ ~ closed /\ Become(Arrival(fr, refuse))
        /\ UNCHANGED << peer, limits >>
    BY <1>7 DEF RecvFrame
  <2>2. Good(Arrival(fr, refuse), State(refuse))
    BY <2>1, ArrivalGood
  <2> QED
    BY <2>1, <2>2, BecomeInv
<1>8. ASSUME SendMaxStreamData PROVE Inv' /\ Rx <= Rx'
  <2> DEFINE l == [type |-> "MAX_STREAM_DATA", max |-> strm.unsent_max_rx_offset]
  <2>1. /\ strm' = [strm EXCEPT !.max_rx_offset = strm.unsent_max_rx_offset, !.fc = FALSE]
        /\ limits' = limits \cup {l}
        /\ UNCHANGED << peer, rob, conn, out, fins, closed, err >>
    BY <1>8 DEF SendMaxStreamData
  <2>2. /\ strm' \in Strm
        /\ strm'.max_rx_offset = strm.unsent_max_rx_offset
        /\ strm'.last_rx_offset = strm.last_rx_offset
        /\ strm'.unsent_max_rx_offset = strm.unsent_max_rx_offset
        /\ strm'.SHUT_RD = strm.SHUT_RD /\ strm'.RECV_RST = strm.RECV_RST
        /\ strm'.STOP_SENDING = strm.STOP_SENDING
    <3>1. strm' = [[strm EXCEPT !.max_rx_offset = strm.unsent_max_rx_offset] EXCEPT !.fc = FALSE]
      BY <2>1
    <3>2. [strm EXCEPT !.max_rx_offset = strm.unsent_max_rx_offset] \in Strm
      BY <1>0, <1>3 DEF Strm
    <3>3. strm' \in Strm
      BY <3>1, <3>2 DEF Strm
    <3> QED
      BY <1>0, <3>1, <3>3 DEF Strm
  <2>3. Sound(State(FALSE), Rx)' /\ Ended'
    <3>1. UNCHANGED << peer, rob, out, fins, closed, err >>
      BY <2>1
    <3>2. /\ strm' \in Strm /\ conn' \in Conn
          /\ strm'.last_rx_offset = strm.last_rx_offset
          /\ strm'.unsent_max_rx_offset = strm.unsent_max_rx_offset
          /\ strm'.max_rx_offset <= strm.unsent_max_rx_offset
          /\ strm'.SHUT_RD = strm.SHUT_RD /\ strm'.RECV_RST = strm.RECV_RST
          /\ conn'.rx_offset = conn.rx_offset
          /\ conn'.unsent_max_rx_offset = conn.unsent_max_rx_offset
          /\ conn'.max_rx_offset <= conn.unsent_max_rx_offset
      BY <1>0, <1>3, <2>1, <2>2
    <3>3. ~ peer.resets => strm'.STOP_SENDING = strm.STOP_SENDING
      BY <2>1, <2>2
    <3> QED
      BY <3>1, <3>2, <3>3, LocalStep
  <2>4. PeerSound'
    <3>1. l \in Limit /\ l.type # "MAX_DATA" /\ l.max = strm'.max_rx_offset
      BY <1>3, <2>2 DEF Limit
    <3>2. strm.max_rx_offset <= strm'.max_rx_offset /\ strm'.max_rx_offset \in Nat
      BY <1>3, <2>2
    <3>3. peer.max <= strm'.max_rx_offset
      BY <1>0, <1>1, <1>2, <3>2 DEF PeerSound
    <3>4. ASSUME NEW k \in limits'
          PROVE  /\ k \in Limit
                 /\ IF k.type = "MAX_DATA" THEN k.max <= conn.max_rx_offset
                    ELSE k.max <= strm'.max_rx_offset
      <4> HIDE DEF l
      <4>1. CASE k = l
        BY <3>1, <3>2, <4>1
      <4>2. CASE k \in limits
        <5>1. k \in Limit /\ k.max \in Nat
          BY <1>1, <4>2 DEF PeerSound, Limit
        <5> QED
          BY <1>0, <1>1, <3>2, <4>2, <5>1 DEF PeerSound
      <4> QED
        BY <2>1, <4>1, <4>2
    <3> HIDE DEF l
    <3> QED
      BY <1>1, <2>1, <3>3, <3>4 DEF PeerSound
  <2> QED
    BY <1>0, <2>1, <2>3, <2>4, SameFront DEF Inv
<1>9. ASSUME SendMaxData PROVE Inv' /\ Rx <= Rx'
  <2> DEFINE l == [type |-> "MAX_DATA", max |-> conn.unsent_max_rx_offset]
  <2>1. /\ conn' = [conn EXCEPT !.max_rx_offset = conn.unsent_max_rx_offset]
        /\ limits' = limits \cup {l}
        /\ UNCHANGED << peer, rob, strm, out, fins, closed, err >>
    BY <1>9 DEF SendMaxData
  <2>2. /\ conn' \in Conn
        /\ conn'.max_rx_offset = conn.unsent_max_rx_offset
        /\ conn'.rx_offset = conn.rx_offset
        /\ conn'.unsent_max_rx_offset = conn.unsent_max_rx_offset
    BY <1>0, <1>3, <2>1 DEF Conn
  <2>3. Sound(State(FALSE), Rx)' /\ Ended'
    <3>1. UNCHANGED << peer, rob, out, fins, closed, err >>
      BY <2>1
    <3>2. /\ strm' \in Strm /\ conn' \in Conn
          /\ strm'.last_rx_offset = strm.last_rx_offset
          /\ strm'.unsent_max_rx_offset = strm.unsent_max_rx_offset
          /\ strm'.max_rx_offset <= strm.unsent_max_rx_offset
          /\ strm'.SHUT_RD = strm.SHUT_RD /\ strm'.RECV_RST = strm.RECV_RST
          /\ conn'.rx_offset = conn.rx_offset
          /\ conn'.unsent_max_rx_offset = conn.unsent_max_rx_offset
          /\ conn'.max_rx_offset <= conn.unsent_max_rx_offset
      BY <1>0, <1>3, <2>1, <2>2
    <3>3. ~ peer.resets => strm'.STOP_SENDING = strm.STOP_SENDING
      BY <2>1, <2>2
    <3> QED
      BY <3>1, <3>2, <3>3, LocalStep
  <2>4. PeerSound'
    <3>1. l \in Limit /\ l.type = "MAX_DATA" /\ l.max = conn'.max_rx_offset
      BY <1>3, <2>2 DEF Limit
    <3>2. conn.max_rx_offset <= conn'.max_rx_offset /\ conn'.max_rx_offset \in Nat
      BY <1>3, <2>2
    <3>3. peer.maxData <= conn'.max_rx_offset
      BY <1>0, <1>1, <1>2, <3>2 DEF PeerSound
    <3>4. ASSUME NEW k \in limits'
          PROVE  /\ k \in Limit
                 /\ IF k.type = "MAX_DATA" THEN k.max <= conn'.max_rx_offset
                    ELSE k.max <= strm.max_rx_offset
      <4> HIDE DEF l
      <4>1. CASE k = l
        BY <3>1, <3>2, <4>1
      <4>2. CASE k \in limits
        <5>1. k \in Limit /\ k.max \in Nat
          BY <1>1, <4>2 DEF PeerSound, Limit
        <5> QED
          BY <1>0, <1>1, <3>2, <4>2, <5>1 DEF PeerSound
      <4> QED
        BY <2>1, <4>1, <4>2
    <3> HIDE DEF l
    <3> QED
      BY <1>1, <2>1, <3>3, <3>4 DEF PeerSound
  <2> QED
    BY <1>0, <2>1, <2>3, <2>4, SameFront DEF Inv
<1>10. ASSUME WriteSideDone PROVE Inv' /\ Rx <= Rx'
  <2> DEFINE t == [strm EXCEPT !.SHUT_WR = TRUE]
             st == [State(FALSE) EXCEPT !.strm = t]
  <2>1. /\ ~ closed /\ err = "none" /\ UNCHANGED << peer, limits >>
        /\ Become(ngtcp2_conn_close_stream_if_shut_rdwr(st))
    <3>1. [State(FALSE) EXCEPT !.strm.SHUT_WR = TRUE] = st
      BY DEF State
    <3> QED
      BY <1>10, <3>1 DEF WriteSideDone
  <2>2. /\ t \in Strm /\ t.last_rx_offset = strm.last_rx_offset
        /\ t.max_rx_offset = strm.max_rx_offset
        /\ t.unsent_max_rx_offset = strm.unsent_max_rx_offset
        /\ t.SHUT_RD = strm.SHUT_RD /\ t.RECV_RST = strm.RECV_RST
        /\ t.STOP_SENDING = strm.STOP_SENDING
    <3>1. t \in Strm
      BY <1>0 DEF Strm
    <3> QED
      BY <1>0, <3>1 DEF Strm
  <2> HIDE DEF t
  <2>3. State(FALSE) \in St /\ Sound(State(FALSE), Rx)
    BY DEF Inv, Sound
  <2>4. st \in St
    BY <2>2, <2>3, StWith
  <2>5. /\ st.rob = rob /\ st.strm = t /\ st.conn = conn /\ st.out = out
        /\ st.fins = fins /\ st.closed = closed /\ st.err = err /\ st.refuse = FALSE
    BY DEF State
  <2> HIDE DEF st
  <2>6. /\ First(st) = Rx /\ Offsets(st) /\ Passed(st, Rx) /\ Buffered(st.rob, Rx)
        /\ ~ peer.resets => Regular(st, Rx)
    <3> DEFINE was == State(FALSE)
    <3>1. /\ was.rob = st.rob /\ was.conn = st.conn /\ was.out = st.out
          /\ was.fins = st.fins /\ was.refuse = st.refuse /\ was.strm = strm
          /\ st.strm = t
      BY <2>5, StateIs
    <3>2. /\ Buffered(was.rob, Rx) /\ Offsets(was) /\ Passed(was, Rx)
          /\ ~ peer.resets => Regular(was, Rx)
      BY <2>3 DEF Sound
    <3> HIDE DEF was
    <3>3. First(st) = Rx /\ Buffered(st.rob, Rx)
      BY <2>5, <3>1, <3>2 DEF First, Rx
    <3>4. Offsets(st)
      BY <2>2, <3>1, <3>2 DEF Offsets
    <3>5. Passed(st, Rx)
      BY <2>2, <3>1, <3>2 DEF Passed
    <3>6. ~ peer.resets => Regular(st, Rx)
      BY <2>2, <3>1, <3>2 DEF Regular
    <3> QED
      BY <3>3, <3>4, <3>5, <3>6
  <2>7. Good(st, State(FALSE))
    <3>1. Sound(st, Rx)
      BY <2>4, <2>6 DEF Sound
    <3>2. Rx <= Rx
      BY <1>0
    <3> QED
      BY <2>1, <2>2, <2>5, <2>6, <3>1, <3>2, StateIs DEF Good
  <2>8. Good(ngtcp2_conn_close_stream_if_shut_rdwr(st), State(FALSE))
    BY <2>4, <2>7, CloseGood
  <2>9. err = "none" /\ ~ closed
    BY <2>1
  <2> QED
    BY <2>1, <2>8, BecomeInv
<1>11. ASSUME ngtcp2_conn_shutdown_stream_read PROVE Inv' /\ Rx <= Rx'
  <2>1. /\ peer.resets /\ strm' = conn_shutdown_stream_read(strm)
        /\ UNCHANGED << peer, limits, rob, conn, out, fins, closed, err >>
    BY <1>11 DEF ngtcp2_conn_shutdown_stream_read
  <2>2. /\ strm' \in Strm
        /\ strm'.max_rx_offset = strm.max_rx_offset
        /\ strm'.last_rx_offset = strm.last_rx_offset
        /\ strm'.unsent_max_rx_offset = strm.unsent_max_rx_offset
        /\ strm'.SHUT_RD = strm.SHUT_RD /\ strm'.RECV_RST = strm.RECV_RST
    <3>1. strm' = [[strm EXCEPT !.STOP_SENDING = TRUE] EXCEPT !.fc = FALSE]
      BY <2>1 DEF conn_shutdown_stream_read
    <3>2. [strm EXCEPT !.STOP_SENDING = TRUE] \in Strm
      BY <1>0 DEF Strm
    <3>3. strm' \in Strm
      BY <3>1, <3>2 DEF Strm
    <3> QED
      BY <1>0, <3>1, <3>3 DEF Strm
  <2>3. Sound(State(FALSE), Rx)' /\ Ended'
    <3>1. UNCHANGED << peer, rob, out, fins, closed, err >>
      BY <2>1
    <3>2. /\ strm' \in Strm /\ conn' \in Conn
          /\ strm'.last_rx_offset = strm.last_rx_offset
          /\ strm'.unsent_max_rx_offset = strm.unsent_max_rx_offset
          /\ strm'.max_rx_offset <= strm.unsent_max_rx_offset
          /\ strm'.SHUT_RD = strm.SHUT_RD /\ strm'.RECV_RST = strm.RECV_RST
          /\ conn'.rx_offset = conn.rx_offset
          /\ conn'.unsent_max_rx_offset = conn.unsent_max_rx_offset
          /\ conn'.max_rx_offset <= conn.unsent_max_rx_offset
      BY <1>0, <1>3, <2>1, <2>2
    <3>3. ~ peer.resets => strm'.STOP_SENDING = strm.STOP_SENDING
      BY <2>1, <2>2
    <3> QED
      BY <3>1, <3>2, <3>3, LocalStep
  <2>4. PeerSound'
    BY <1>1, <2>1, <2>2 DEF PeerSound
  <2> QED
    BY <1>0, <2>1, <2>3, <2>4, SameFront DEF Inv
<1>12. ASSUME UNCHANGED vars PROVE Inv' /\ Rx <= Rx'
  <2>1. UNCHANGED << peer, limits, rob, strm, conn, out, fins, closed, err >>
    BY <1>12 DEF vars
  <2>2. Sound(State(FALSE), Rx)' /\ Ended'
    <3>1. UNCHANGED << rob, strm, conn, out, fins, closed, err >>
      BY <2>1
    <3>2. /\ peer.off <= peer'.off /\ peer'.off \in Nat
          /\ peer'.resets = peer.resets
          /\ peer.rst => peer'.rst
          /\ peer.fin => peer'.fin
      BY <1>0, <2>1
    <3> QED
      BY <3>1, <3>2, ReceiverSame
  <2>3. PeerSound'
    BY <1>1, <2>1 DEF PeerSound
  <2> QED
    BY <1>0, <2>1, <2>2, <2>3, SameFront DEF Inv
<1> QED
  BY <1>4, <1>5, <1>6, <1>7, <1>8, <1>9, <1>10, <1>11, <1>12 DEF Next

(***************************************************************************)
(* What follows from the invariant.                                        *)
(***************************************************************************)

\* The invariant holds at all times.
LEMMA Always == Spec => []Inv
<1>1. Init => Inv
  BY InitInv
<1>2. Inv /\ [Next]_vars => Inv'
  BY NextInv
<1> QED
  BY <1>1, <1>2, PTL DEF Spec

\* What the application has got, read off the invariant.
LEMMA OutIs ==
    ASSUME Inv
    PROVE  /\ out = [i \in 1 .. Rx |-> i] /\ Len(out) = Rx
           /\ closed => peer.rst \/ (strm.SHUT_RD /\ Rx = strm.last_rx_offset)
           /\ strm.SHUT_RD => peer.rst \/ (peer.fin /\ strm.last_rx_offset = Size)
           /\ ~ peer.resets =>
                fins = IF strm.SHUT_RD /\ Rx = strm.last_rx_offset THEN 1 ELSE 0
<1>1. Rx \in Nat
  BY LimitsAre
<1>2. /\ Passed(State(FALSE), Rx) /\ Offsets(State(FALSE))
      /\ ~ peer.resets => Regular(State(FALSE), Rx)
  BY DEF Inv, Sound
<1>3. out = [i \in 1 .. Rx |-> i]
  BY <1>2, StateIs DEF Passed
<1>4. Len(out) = Rx
  BY <1>1, <1>3
<1>5. strm.SHUT_RD => peer.rst \/ (peer.fin /\ strm.last_rx_offset = Size)
  BY <1>2, StateIs DEF Offsets
<1>6. ~ peer.resets =>
        fins = IF strm.SHUT_RD /\ Rx = strm.last_rx_offset THEN 1 ELSE 0
  BY <1>2, StateIs DEF Regular
<1>7. closed => peer.rst \/ (strm.SHUT_RD /\ Rx = strm.last_rx_offset)
  BY DEF Inv, Ended
<1> QED
  BY <1>3, <1>4, <1>5, <1>6, <1>7

\* Whatever is lost, repeated, reordered, cut anew or given up, the
\* application gets an initial part of what the peer wrote, no assertion of
\* conn_emit_pending_stream_data or ngtcp2_rob_data_at fails, and only a reset
\* closes the stream early (ngtcp2_conn_close_stream_if_shut_rdwr).
THEOREM PrefixDelivered == Spec => []IntactPrefix
<1>1. Inv => IntactPrefix
  <2> SUFFICES ASSUME Inv PROVE IntactPrefix
    OBVIOUS
  <2>1. /\ Rx \in Nat /\ Rx <= strm.last_rx_offset /\ strm.last_rx_offset <= peer.off
        /\ strm.last_rx_offset \in Nat /\ peer.off \in Nat
    BY LimitsAre
  <2>2. Len(out) <= peer.off
    BY <2>1, OutIs
  <2>3. out = [i \in 1 .. Len(out) |-> i]
    BY OutIs
  <2>4. err # "assert"
    BY DEF Inv, Ended
  <2>5. closed => peer.rst \/ Len(out) = Size
    BY OutIs
  <2> QED
    BY <2>2, <2>3, <2>4, <2>5 DEF IntactPrefix
<1> QED
  BY <1>1, Always, PTL

\* What the application has consumed comes back to the peer as credit, byte
\* for byte, on the stream and on the connection, and a peer that keeps to the
\* limits it was told never draws an error from conn_recv_stream.
THEOREM CreditReturned == Spec => []CreditConserved
<1>1. Inv => CreditConserved
  <2> SUFFICES ASSUME Inv, ~ peer.resets PROVE CreditConserved
    BY DEF CreditConserved
  <2>1. err = "none" /\ ~ peer.rst
    BY LimitsAre DEF Inv, Ended
  <2>2. /\ strm.unsent_max_rx_offset = Window + Rx
        /\ conn.unsent_max_rx_offset = MaxData + Rx
    <3>1. Passed(State(FALSE), Rx)
      BY DEF Inv, Sound
    <3> QED
      BY <3>1, StateIs DEF Passed
  <2>3. peer.max <= strm.max_rx_offset /\ peer.maxData <= conn.max_rx_offset
    BY DEF Inv, PeerSound
  <2>4. closed => fins = 1 /\ Len(out) = Size
    BY <2>1, OutIs
  <2> QED
    BY <2>1, <2>2, <2>3, <2>4, OutIs, LimitsAre DEF CreditConserved
<1> QED
  BY <1>1, Always, PTL

(***************************************************************************)
(* The receiver implements the byte stream.                                *)
(***************************************************************************)

\* Frames that arrive after the end leave the stream ended
\* (conn_recv_stream).
LEMMA EndStays ==
    ASSUME Inv, err = "none", ~ peer.resets, strm.SHUT_RD, Rx = Size,
           NEW fr \in Frames, NEW refuse
    PROVE  Arrival(fr, refuse).strm.SHUT_RD
<1> DEFINE st == State(refuse)
<1>1. /\ peer.off \in Nat /\ peer.off <= Size /\ Size \in Nat /\ ~ peer.rst
      /\ strm \in Strm
  BY LimitsAre
<1>2. /\ fr.type = "STREAM" /\ fr.offset \in Nat /\ fr.len \in Nat
      /\ fr.offset + fr.len <= peer.off
  BY <1>1 DEF Frames
<1> DEFINE len == Max({0, (fr.offset + fr.len) - strm.last_rx_offset})
           counted == [st EXCEPT !.conn.rx_offset = @ + len, !.strm.opened = TRUE]
<1>3. counted.strm = [strm EXCEPT !.opened = TRUE] /\ counted.rob = rob
  BY DEF State
<1>4. counted.strm.SHUT_RD
  BY <1>1, <1>3 DEF Strm
<1>5. Arrival(fr, refuse) = conn_recv_stream(st, fr)
  BY <1>2 DEF Arrival
<1>6. \/ Arrival(fr, refuse) = Fail(st, "FLOW_CONTROL")
      \/ Arrival(fr, refuse) = TakeFin(counted, fr)
      \/ Arrival(fr, refuse) = TakeNoFin(counted, fr)
  BY <1>5 DEF conn_recv_stream
<1>7. Fail(st, "FLOW_CONTROL").strm = strm
  BY DEF Fail, State
<1> HIDE DEF len
<1>8. Fail(counted, "FINAL_OFFSET").strm = counted.strm
  BY DEF Fail, State
<1> HIDE DEF counted, st
<1>9. TakeFin(counted, fr).strm = counted.strm
  BY <1>4, <1>8 DEF TakeFin
<1>10. TakeNoFin(counted, fr).strm.SHUT_RD
  <2> DEFINE end == fr.offset + fr.len
             seen == [counted EXCEPT !.strm.last_rx_offset = Max({@, end})]
  <2>1. end <= rob_first_gap_offset(counted.rob)
    BY <1>1, <1>2, <1>3 DEF rob_first_gap_offset, gaptr_first_gap_offset, Rx
  <2>2. \/ TakeNoFin(counted, fr) = Fail(counted, "FINAL_OFFSET")
        \/ TakeNoFin(counted, fr) = seen
    BY <2>1 DEF TakeNoFin
  <2>3. seen.strm.SHUT_RD
    <3> DEFINE m == Max({counted.strm.last_rx_offset, end})
    <3>1. seen = [counted EXCEPT !.strm.last_rx_offset = m]
      OBVIOUS
    <3> HIDE DEF m
    <3>2. "SHUT_RD" # "last_rx_offset"
      OBVIOUS
    <3>3. DOMAIN counted.strm = DOMAIN strm /\ "strm" \in DOMAIN counted
      BY <1>3 DEF counted, st, State
    <3>4. "SHUT_RD" \in DOMAIN strm
      BY <1>1 DEF Strm
    <3> QED
      BY <1>4, <3>1, <3>3, <3>4
  <2> QED
    BY <1>4, <1>8, <2>2, <2>3
<1> QED
  BY <1>4, <1>6, <1>7, <1>9, <1>10

\* What the application has got, as facts of one state.
Got ==
    /\ Inv
    /\ out = [i \in 1 .. Rx |-> i] /\ Len(out) = Rx /\ Rx \in Nat /\ fins \in Nat
    /\ peer.off \in Nat /\ Rx <= peer.off /\ Size \in Nat /\ peer.off <= Size
    /\ (~ peer.resets /\ fins > 0) => /\ strm.SHUT_RD /\ peer.fin
                                     /\ Rx = Size /\ peer.off = Size
    /\ (~ peer.resets /\ strm.SHUT_RD /\ Rx = Size) => fins > 0

\* They follow from the invariant.
LEMMA InvGot == Inv => Got
<1> SUFFICES ASSUME Inv PROVE Got
  OBVIOUS
<1>1. /\ Rx \in Nat /\ Rx <= strm.last_rx_offset /\ strm.last_rx_offset <= peer.off
      /\ strm.last_rx_offset \in Nat /\ peer.off \in Nat /\ Size \in Nat
      /\ peer.off <= Size
      /\ ~ peer.resets => ~ peer.rst
  BY LimitsAre
<1>2. out = [i \in 1 .. Rx |-> i] /\ Len(out) = Rx /\ Rx <= peer.off
  BY <1>1, OutIs
<1>3. fins \in Nat
  BY StateIs, StParts DEF Inv, Sound
<1>4. ASSUME ~ peer.resets
      PROVE  /\ fins > 0 => /\ strm.SHUT_RD /\ peer.fin
                            /\ Rx = Size /\ peer.off = Size
             /\ (strm.SHUT_RD /\ Rx = Size) => fins > 0
  <2>1. fins = IF strm.SHUT_RD /\ Rx = strm.last_rx_offset THEN 1 ELSE 0
    BY <1>4, OutIs
  <2>2. strm.SHUT_RD => peer.fin /\ strm.last_rx_offset = Size
    BY <1>1, <1>4, OutIs
  <2>3. CASE strm.SHUT_RD /\ Rx = strm.last_rx_offset
    BY <1>1, <2>1, <2>2, <2>3
  <2>4. CASE ~ (strm.SHUT_RD /\ Rx = strm.last_rx_offset)
    BY <1>1, <2>1, <2>2, <2>4
  <2> QED
    BY <2>3, <2>4
<1> QED
  BY <1>1, <1>2, <1>3, <1>4 DEF Got

\* Every step is a step of the byte stream, or changes nothing it shows.
LEMMA StepRefines ==
    ASSUME Got, Got', [Next]_vars
    PROVE  [Stream!Next]_Stream!vars
<1>1. Inv /\ Rx <= Rx'
  BY NextInv DEF Got
<1>2. CASE UNCHANGED << peer, out, fins >>
  BY <1>2 DEF Stream!vars
<1>3. ASSUME NEW len \in 0 .. Size, NEW fin \in BOOLEAN, PeerSend(len, fin)
      PROVE  [Stream!Next]_Stream!vars
  <2>1. /\ ~ peer.fin /\ peer' = [peer EXCEPT !.off = peer.off + len, !.fin = fin]
        /\ out' = out /\ fins' = fins
    BY <1>3 DEF PeerSend
  <2>2. peer \in Peer /\ peer.off \in Nat
    BY <1>1, LimitsAre
  <2>3. /\ peer'.off = peer.off + len /\ peer'.fin = fin
        /\ peer'.resets = peer.resets /\ peer'.off >= peer.off
    <3>1. peer' = [[peer EXCEPT !.off = peer.off + len] EXCEPT !.fin = fin]
      BY <2>1
    <3>2. /\ DOMAIN peer = {"off", "fin", "rst", "max", "maxData", "resets"}
      BY <2>2 DEF Peer
    <3> QED
      BY <2>2, <3>1, <3>2
  <2>4. CASE peer.resets
    BY <2>1, <2>3, <2>4 DEF Stream!vars
  <2>5. CASE ~ peer.resets
    BY <2>1, <2>3, <2>5 DEF Stream!vars, Stream!Next, Stream!Write
  <2> QED
    BY <2>4, <2>5
<1>4. ASSUME PeerReset PROVE [Stream!Next]_Stream!vars
  <2>1. /\ peer.resets /\ peer' = [peer EXCEPT !.rst = TRUE] /\ peer \in Peer
    BY <1>1, <1>4, LimitsAre DEF PeerReset
  <2>2. peer.resets /\ peer'.resets
    BY <2>1 DEF Peer
  <2> QED
    BY <2>2 DEF Stream!vars
<1>5. ASSUME NEW l \in limits, PeerRecvLimit(l) PROVE [Stream!Next]_Stream!vars
  <2> DEFINE a == IF l.type = "MAX_STREAM_DATA" THEN Max({peer.max, l.max}) ELSE peer.max
             b == IF l.type = "MAX_DATA" THEN Max({peer.maxData, l.max}) ELSE peer.maxData
  <2>1. /\ peer' = [[peer EXCEPT !.max = a] EXCEPT !.maxData = b] /\ peer \in Peer
        /\ out' = out /\ fins' = fins
    BY <1>1, <1>5, LimitsAre DEF PeerRecvLimit
  <2> HIDE DEF a, b
  <2>2. DOMAIN peer = {"off", "fin", "rst", "max", "maxData", "resets"}
    BY <2>1 DEF Peer
  <2>3. peer'.off = peer.off /\ peer'.fin = peer.fin /\ peer'.resets = peer.resets
    BY <2>1, <2>2
  <2> QED
    BY <2>1, <2>3 DEF Stream!vars
<1>6. ASSUME NEW fr \in Frames, NEW refuse \in Refusals, RecvFrame(fr, refuse)
      PROVE  [Stream!Next]_Stream!vars
  <2>1. peer' = peer /\ err = "none" /\ strm' = Arrival(fr, refuse).strm
    BY <1>6 DEF RecvFrame, Become
  <2>2. CASE peer.resets
    BY <2>1, <2>2 DEF Stream!vars
  <2>3. CASE ~ peer.resets /\ fins > 0
    <3>1. strm.SHUT_RD /\ Rx = Size
      BY <2>3 DEF Got
    <3>2. strm'.SHUT_RD
      BY <1>1, <2>1, <2>3, <3>1, EndStays
    <3>3. Rx' = Rx
      BY <1>1, <3>1, <2>1 DEF Got
    <3>4. fins' > 0
      BY <2>1, <2>3, <3>1, <3>2, <3>3 DEF Got
    <3>5. out' = out
      BY <3>3 DEF Got
    <3> QED
      BY <2>1, <2>3, <3>4, <3>5 DEF Stream!vars
  <2>4. CASE ~ peer.resets /\ ~ (fins > 0)
    <3>1. Len(out') >= Len(out) /\ out' = [i \in 1 .. Len(out') |-> i]
      BY <1>1 DEF Got
    <3>2. Len(out') <= peer.off
      BY <2>1 DEF Got
    <3>3. fins' > 0 => peer.fin /\ Len(out') = peer.off
      BY <2>1, <2>4 DEF Got
    <3> QED
      BY <2>1, <2>4, <3>1, <3>2, <3>3 DEF Stream!Next, Stream!Read
  <2> QED
    BY <2>2, <2>3, <2>4
<1>7. ASSUME WriteSideDone PROVE UNCHANGED << peer, out, fins >>
  BY <1>7 DEF WriteSideDone, Become, ngtcp2_conn_close_stream_if_shut_rdwr, State
<1>8. SendMaxStreamData => UNCHANGED << peer, out, fins >>
  BY DEF SendMaxStreamData
<1>9. SendMaxData => UNCHANGED << peer, out, fins >>
  BY DEF SendMaxData
<1>10. ngtcp2_conn_shutdown_stream_read => UNCHANGED << peer, out, fins >>
  BY DEF ngtcp2_conn_shutdown_stream_read
<1>11. UNCHANGED vars => UNCHANGED << peer, out, fins >>
  BY DEF vars
<1> QED
  BY <1>2, <1>3, <1>4, <1>5, <1>6, <1>7, <1>8, <1>9, <1>10, <1>11 DEF Next

\* A stream that no end gives up is the byte stream of ByteStream.tla: what
\* conn_recv_stream and conn_emit_pending_stream_data pass on is what the peer
\* wrote, each byte once and in order, and the end is told once, with the last
\* byte.
THEOREM ReceptionIsByteStream == Spec => IsByteStream
<1>1. Init => Stream!Init
  BY DEF Init, Stream!Init
<1>2. Got /\ Got' /\ [Next]_vars => [Stream!Next]_Stream!vars
  BY StepRefines
<1> QED
  BY <1>1, <1>2, InvGot, Always, PTL DEF Spec, IsByteStream, Stream!Spec

=============================================================================
