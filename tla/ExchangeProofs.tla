---------------------------- MODULE ExchangeProofs ----------------------------
(***************************************************************************)
(* Theorems about Exchange.tla, for any number of streams, any page, any   *)
(* limit on streams and on bytes in flight, and whatever the network       *)
(* loses, repeats and reorders.  The invariants are in ExchangeInv.        *)
(***************************************************************************)
EXTENDS ExchangeInv, Induction, TLAPS

-----------------------------------------------------------------------------
(* What most calls leave alone.                                            *)

SameStream(c, d, j) ==
    /\ d.strms[j].open = c.strms[j].open
    /\ d.streams[j].completed = c.streams[j].completed
    /\ d.streams[j].parse_error = c.streams[j].parse_error
    /\ d.streams[j].nread = c.streams[j].nread

Same(c, d) ==
    /\ d.idtr = c.idtr /\ d.answers = c.answers
    /\ \A j \in Ids : SameStream(c, d, j)

Grows(c, d) ==
    /\ d.server = c.server
    /\ d.max_remote = c.max_remote
    /\ c.rtb \subseteq d.rtb
    /\ d.max_local \in Nat /\ c.max_local <= d.max_local

Kept(c, d) ==
    /\ Shape(d) /\ Grows(c, d)
    /\ \A f \in d.rtb : f \in c.rtb \/ OfStream(c.server, f)
    /\ \A f \in d.frq : f \in c.frq \/ OfStream(c.server, f)
    /\ d.unsent_max = c.unsent_max
    /\ c.server => Same(c, d)

\* Nothing is different.
LEMMA KeptItself ==
    ASSUME NEW c, ConnInv(c)
    PROVE  Kept(c, c) /\ Grows(c, c)
BY DEF ConnInv, Kept, Grows, Same, SameStream

\* One such call after another.
LEMMA KeptTwice ==
    ASSUME NEW c, c.max_local \in Nat, NEW d, NEW e, Kept(c, d), Kept(d, e)
    PROVE  Kept(c, e)
<1>1. Grows(c, d) /\ Grows(d, e)
  BY DEF Kept
<1>2. Grows(c, e)
  BY <1>1 DEF Grows
<1>3. d.server = c.server
  BY <1>1 DEF Grows
<1>4. c.server => Same(c, e)
  <2> SUFFICES ASSUME c.server PROVE Same(c, e)
    OBVIOUS
  <2>1. Same(c, d) /\ Same(d, e)
    BY <1>3 DEF Kept
  <2> QED
    BY <2>1 DEF Same, SameStream
<1>5. Shape(e) /\ e.unsent_max = c.unsent_max
  BY DEF Kept
<1>6. /\ \A f \in e.rtb : f \in c.rtb \/ OfStream(c.server, f)
      /\ \A f \in e.frq : f \in c.frq \/ OfStream(c.server, f)
  BY <1>3 DEF Kept
<1> QED
  BY <1>2, <1>4, <1>5, <1>6 DEF Kept

\* They keep the invariant of a connection.
LEMMA KeptInv ==
    ASSUME NEW c, ConnInv(c), NEW d, Kept(c, d)
    PROVE  ConnInv(d) /\ Grows(c, d)
<1>1. Shape(d) /\ Grows(c, d) /\ d.unsent_max = c.unsent_max
  BY DEF Kept
<1>2. d.server = c.server /\ d.max_remote = c.max_remote /\ d.max_local \in Nat
  BY <1>1 DEF Grows
<1>3. /\ c.server \in BOOLEAN /\ c.max_remote \in Nat /\ c.unsent_max \in Nat
      /\ c.max_remote <= c.unsent_max
      /\ ~c.server => c.unsent_max = c.max_remote
  BY DEF ConnInv
<1>4. \A f \in d.rtb : OfSide(c.server, f)
  <2> SUFFICES ASSUME NEW f \in d.rtb PROVE OfSide(c.server, f)
    OBVIOUS
  <2>1. f \in c.rtb \/ OfStream(c.server, f)
    BY DEF Kept
  <2>2. f \in c.rtb => OfSide(c.server, f)
    BY DEF ConnInv
  <2> QED
    BY <2>1, <2>2 DEF OfSide
<1>5. \A f \in d.frq : OfStream(c.server, f)
  BY DEF Kept, ConnInv
<1>6. c.server => ServerInv(d)
  <2> SUFFICES ASSUME c.server PROVE ServerInv(d)
    OBVIOUS
  <2>1. ServerInv(c)
    BY DEF ConnInv
  <2>2. d.idtr = c.idtr /\ d.answers = c.answers /\ \A j \in Ids : SameStream(c, d, j)
    BY DEF Kept, Same
  <2>3. \A i \in Ids : (Opened(d, i) <=> Opened(c, i)) /\ (Closed(c, i) => Closed(d, i))
    BY <1>2, <2>2 DEF Opened, Closed, SameStream
  <2>4. \A i \in Ids : Answers(d, i)
    <3> SUFFICES ASSUME NEW i \in Ids PROVE Answers(d, i)
      OBVIOUS
    <3>1. Answers(c, i) /\ SameStream(c, d, i)
      BY <2>1, <2>2 DEF ServerInv
    <3> QED
      BY <2>2, <3>1 DEF Answers, SameStream
  <2>5. \A i \in Ids : d.strms[i].open => Opened(d, i)
    BY <2>1, <2>2, <2>3 DEF ServerInv, SameStream
  <2>6. Tracker(d.idtr)
    BY <2>1, <2>2 DEF ServerInv
  <2>7. \E C \in SUBSET Ids : /\ \A i \in C : Closed(d, i)
                              /\ d.unsent_max <= page.limit + Cardinality(C)
    <3>1. PICK C \in SUBSET Ids : /\ \A i \in C : Closed(c, i)
                                  /\ c.unsent_max <= page.limit + Cardinality(C)
      BY <2>1 DEF ServerInv
    <3>2. \A i \in C : Closed(d, i)
      BY <2>3, <3>1
    <3>3. d.unsent_max <= page.limit + Cardinality(C)
      BY <1>1, <3>1
    <3> QED
      BY <3>2, <3>3
  <2> QED
    BY <2>4, <2>5, <2>6, <2>7 DEF ServerInv
<1> QED
  BY <1>1, <1>2, <1>3, <1>4, <1>5, <1>6 DEF ConnInv

\* What has grown twice has grown.
LEMMA GrowsTwice ==
    ASSUME NEW c, c.max_local \in Nat, NEW d, NEW e, Grows(c, d), Grows(d, e)
    PROVE  Grows(c, e)
BY DEF Grows

-----------------------------------------------------------------------------
(* Shutting down and closing.                                              *)

\* An error.
LEMMA KeptError ==
    ASSUME NEW c, ConnInv(c), NEW d, d = Error(c)
    PROVE  Kept(c, d)
<1>1. Shape(c) /\ c.max_local \in Nat
  BY DEF ConnInv
<1>2. /\ DOMAIN d = ConnFields
      /\ \A k \in ConnFields \ {"error"} : d[k] = c[k]
  BY <1>1 DEF Error, Shape
<1> QED
  BY <1>1, <1>2 DEF Kept, Grows, Same, SameStream, Shape, ConnFields

\* A new value for one stream of the library that leaves it open or closed.
WithStrm(c, i, r) == [c EXCEPT !.strms[i] = r]

\* It changes nothing that matters.
LEMMA StrmKept ==
    ASSUME NEW c, ConnInv(c), NEW i \in Ids, NEW r, DOMAIN r = StrmFields,
           r.open = c.strms[i].open, NEW d, d = WithStrm(c, i, r)
    PROVE  Kept(c, d) /\ d.strms[i] = r
<1>1. Shape(c) /\ c.max_local \in Nat
  BY DEF ConnInv
<1>2. /\ DOMAIN d = ConnFields
      /\ \A k \in ConnFields \ {"strms"} : d[k] = c[k]
      /\ d.strms = [c.strms EXCEPT ![i] = r]
  BY <1>1 DEF WithStrm, Shape, ConnFields
<1>3. /\ DOMAIN d.strms = Ids /\ d.strms[i] = r
      /\ \A j \in Ids : j # i => d.strms[j] = c.strms[j]
  BY <1>1, <1>2 DEF Shape
<1>4. Shape(d)
  BY <1>1, <1>2, <1>3 DEF Shape, ConnFields
<1>5. Grows(c, d) /\ d.frq = c.frq /\ d.rtb = c.rtb /\ d.unsent_max = c.unsent_max
  BY <1>1, <1>2 DEF Grows, ConnFields
<1>6. Same(c, d)
  BY <1>1, <1>2, <1>3 DEF Same, SameStream, ConnFields
<1> QED
  BY <1>3, <1>4, <1>5, <1>6 DEF Kept

\* conn_shutdown_stream_write.
LEMMA ShutdownWrite ==
    ASSUME NEW c, ConnInv(c), NEW i \in Ids, NEW d, d = shutdown_stream_write(c, i)
    PROVE  Kept(c, d)
<1>1. CASE c.strms[i].sent_rst
  BY <1>1, KeptItself DEF shutdown_stream_write
<1>2. CASE ~c.strms[i].sent_rst
  <2> PICK f : f = Frame(c, "RST", i, c.strms[i].tx, 0, FALSE, "APP_PROTO")
    OBVIOUS
  <2>1. OfStream(c.server, f)
    BY DEF Frame, OfStream, Other
  <2>2. d = [c EXCEPT !.strms[i].shut_wr = TRUE, !.strms[i].sent_rst = TRUE,
                      !.reset = @ \cup {i}, !.frq = @ \cup {f}]
    BY <1>2 DEF shutdown_stream_write
  <2>3. Shape(c) /\ c.max_local \in Nat
    BY DEF ConnInv
  <2>4. /\ DOMAIN d = ConnFields
        /\ \A k \in ConnFields \ {"strms", "reset", "frq"} : d[k] = c[k]
        /\ d.frq = c.frq \cup {f}
    BY <2>2, <2>3 DEF Shape, ConnFields
  <2>5. /\ DOMAIN d.strms = Ids
        /\ \A j \in Ids : DOMAIN d.strms[j] = StrmFields /\ d.strms[j].open = c.strms[j].open
    BY <2>2, <2>3 DEF Shape, ConnFields, StrmFields
  <2>6. Shape(d)
    BY <2>3, <2>4, <2>5 DEF Shape, ConnFields
  <2>7. Grows(c, d) /\ d.rtb = c.rtb /\ d.unsent_max = c.unsent_max
    BY <2>3, <2>4 DEF Grows, ConnFields
  <2>8. Same(c, d)
    BY <2>4, <2>5 DEF Same, SameStream, ConnFields
  <2> QED
    BY <2>1, <2>4, <2>6, <2>7, <2>8 DEF Kept
<1> QED
  BY <1>1, <1>2

\* conn_shutdown_stream_read.
LEMMA ShutdownRead ==
    ASSUME NEW c, ConnInv(c), NEW i \in Ids, NEW d, d = shutdown_stream_read(c, i)
    PROVE  Kept(c, d)
<1>1. CASE ~c.strms[i].open \/ c.strms[i].stop_sending
  BY <1>1, KeptItself DEF shutdown_stream_read
<1>2. CASE ~(~c.strms[i].open \/ c.strms[i].stop_sending)
  <2> PICK f : f = Frame(c, "STOP", i, 0, 0, FALSE, "")
    OBVIOUS
  <2>1. OfStream(c.server, f)
    BY DEF Frame, OfStream, Other
  <2>2. d = [c EXCEPT !.strms[i].stop_sending = TRUE, !.frq = @ \cup {f}]
    BY <1>2 DEF shutdown_stream_read
  <2>3. Shape(c) /\ c.max_local \in Nat
    BY DEF ConnInv
  <2>4. /\ DOMAIN d = ConnFields
        /\ \A k \in ConnFields \ {"strms", "frq"} : d[k] = c[k]
        /\ d.frq = c.frq \cup {f}
    BY <2>2, <2>3 DEF Shape, ConnFields
  <2>5. /\ DOMAIN d.strms = Ids
        /\ \A j \in Ids : DOMAIN d.strms[j] = StrmFields /\ d.strms[j].open = c.strms[j].open
    <3> PICK r : r = [c.strms[i] EXCEPT !.stop_sending = TRUE]
      OBVIOUS
    <3>1. DOMAIN r = StrmFields /\ r.open = c.strms[i].open
      BY <2>3 DEF Shape, StrmFields
    <3>2. d.strms = [c.strms EXCEPT ![i] = r]
      BY <2>2, <2>3 DEF Shape, ConnFields
    <3> QED
      BY <2>3, <3>1, <3>2 DEF Shape
  <2>6. Shape(d)
    BY <2>3, <2>4, <2>5 DEF Shape, ConnFields
  <2>7. Grows(c, d) /\ d.rtb = c.rtb /\ d.unsent_max = c.unsent_max
    <3>1. /\ d.server = c.server /\ d.max_remote = c.max_remote /\ d.max_local = c.max_local
          /\ d.rtb = c.rtb /\ d.unsent_max = c.unsent_max
      BY <2>4 DEF ConnFields
    <3>2. c.max_local \in Nat
      BY <2>3
    <3> QED
      BY ONLY <3>1, <3>2 DEF Grows
  <2>8. Same(c, d)
    BY <2>4, <2>5 DEF Same, SameStream, ConnFields
  <2> QED
    BY <2>1, <2>4, <2>6, <2>7, <2>8 DEF Kept
<1> QED
  BY <1>1, <1>2

\* Both.
LEMMA ShutdownStream ==
    ASSUME NEW c, ConnInv(c), NEW i \in Ids, NEW d, d = shutdown_stream(c, i)
    PROVE  Kept(c, d)
<1> PICK e : e = shutdown_stream_read(c, i)
  OBVIOUS
<1>1. Kept(c, e)
  BY ShutdownRead
<1>2. ConnInv(e)
  BY <1>1, KeptInv
<1>3. d = shutdown_stream_write(e, i)
  BY DEF shutdown_stream
<1>4. Kept(e, d)
  BY <1>2, <1>3, ShutdownWrite
<1>5. c.max_local \in Nat
  BY DEF ConnInv
<1> QED
  BY ONLY <1>1, <1>4, <1>5, KeptTwice

\* A stream that was open is closed.  The limit grows by one at most.
LEMMA CloseStream ==
    ASSUME NEW c, ConnInv(c), NEW i \in Ids, c.server => c.strms[i].open,
           page \in Pages, NEW d, d = close_stream(c, i)
    PROVE  ConnInv(d) /\ Grows(c, d)
<1> PICK e : e = on_stream_close([c EXCEPT !.strms[i] = NoStrm], i)
  OBVIOUS
<1>0. page.limit \in Nat /\ page.req \in Nat
  BY ExchangeAssumption
<1>1. Shape(c) /\ c.max_local \in Nat /\ c.server \in BOOLEAN
  BY DEF ConnInv
<1>2. /\ DOMAIN e = ConnFields
      /\ \A k \in ConnFields \ {"strms", "streams", "crashed"} : e[k] = c[k]
      /\ e.strms = [c.strms EXCEPT ![i] = NoStrm]
      /\ e.streams = [c.streams EXCEPT ![i] = NoStream]
  BY <1>1 DEF on_stream_close, Shape, ConnFields
<1>3. /\ DOMAIN e.strms = Ids /\ e.strms[i] = NoStrm
      /\ DOMAIN e.streams = Ids /\ e.streams[i] = NoStream
      /\ \A j \in Ids : j # i => e.strms[j] = c.strms[j] /\ e.streams[j] = c.streams[j]
  BY <1>1, <1>2 DEF Shape
<1>4. DOMAIN NoStrm = StrmFields /\ DOMAIN NoStream = StreamFields
  BY DEF NoStrm, NoStream, StrmFields, StreamFields
<1>5. Shape(e)
  BY <1>1, <1>2, <1>3, <1>4 DEF Shape, ConnFields
<1>6. Grows(c, e) /\ e.rtb = c.rtb /\ e.unsent_max = c.unsent_max /\ e.frq = c.frq
  BY <1>1, <1>2 DEF Grows, ConnFields
<1>7. CASE ~c.server
  <2>1. d = e
    BY <1>7 DEF close_stream
  <2>2. Kept(c, e)
    BY <1>5, <1>6, <1>7 DEF Kept
  <2> QED
    BY <2>1, <2>2, KeptInv
<1>8. CASE c.server
  <2>1. d = remote_stream_id_extension(e)
    BY <1>8 DEF close_stream
  <2> PICK m : m = d.unsent_max
    OBVIOUS
  <2>2. /\ DOMAIN d = ConnFields /\ \A k \in ConnFields \ {"unsent_max"} : d[k] = e[k]
        /\ m = e.unsent_max \/ m = e.unsent_max + 1
    BY <1>5, <2>1 DEF remote_stream_id_extension, Shape, ConnFields
  <2>3. Shape(d)
    BY <1>5, <2>2 DEF Shape, ConnFields
  <2>4. Grows(c, d) /\ d.rtb = c.rtb /\ d.frq = c.frq /\ d.server = c.server
        /\ d.max_local = c.max_local /\ d.max_remote = c.max_remote
        /\ d.idtr = c.idtr /\ d.answers = c.answers
    BY <1>1, <1>2, <2>2 DEF Grows, ConnFields
  <2>5. /\ d.strms = e.strms /\ d.streams = e.streams
    BY <2>2 DEF ConnFields
  <2>6. c.unsent_max \in Nat /\ c.max_remote \in Nat /\ c.max_remote <= c.unsent_max
    BY DEF ConnInv
  <2>7. m \in Nat /\ m <= c.unsent_max + 1 /\ c.max_remote <= m
    BY <1>6, <2>2, <2>6
  <2>8. ServerInv(c)
    BY <1>8 DEF ConnInv
  <2>9. \A j \in Ids : Opened(d, j) <=> Opened(c, j)
    BY <2>4 DEF Opened
  <2>10. ~d.strms[i].open
    BY <1>3, <2>5 DEF NoStrm
  <2>11. \A j \in Ids : Closed(c, j) => Closed(d, j)
    BY <1>3, <2>5, <2>9, <2>10 DEF Closed
  <2>12. Closed(d, i) /\ ~Closed(c, i)
    BY <1>8, <2>8, <2>9, <2>10 DEF Closed, ServerInv
  <2>13. \A j \in Ids : d.strms[j].open => Opened(d, j)
    BY <1>3, <2>5, <2>8, <2>9, <2>10 DEF ServerInv
  <2>14. \A j \in Ids : Answers(d, j)
    <3> SUFFICES ASSUME NEW j \in Ids PROVE Answers(d, j)
      OBVIOUS
    <3>1. Answers(c, j)
      BY <2>8 DEF ServerInv
    <3>2. CASE j = i
      BY <1>0, <1>3, <2>4, <2>5, <3>1, <3>2 DEF Answers, NoStrm, NoStream
    <3>3. CASE j # i
      BY <1>3, <2>4, <2>5, <3>1, <3>3 DEF Answers
    <3> QED
      BY <3>2, <3>3
  <2>15. \E C \in SUBSET Ids : /\ \A j \in C : Closed(d, j)
                               /\ m <= page.limit + Cardinality(C)
    <3>1. PICK C \in SUBSET Ids : /\ \A j \in C : Closed(c, j)
                                  /\ c.unsent_max <= page.limit + Cardinality(C)
      BY <2>8 DEF ServerInv
    <3>2. i \notin C
      BY <2>12, <3>1
    <3>3. IsFiniteSet(C)
      <4>1. MaxStream \in Int /\ 1 \in Int
        BY ExchangeAssumption
      <4>2. IsFiniteSet(1..MaxStream)
        BY ONLY <4>1, FS_Interval
      <4> QED
        BY <3>1, <4>2, FS_Subset DEF Ids
    <3>4. Cardinality(C \cup {i}) = Cardinality(C) + 1 /\ Cardinality(C) \in Nat
      BY <3>2, <3>3, FS_AddElement, FS_CardinalityType
    <3>5. m <= page.limit + Cardinality(C \cup {i})
      BY <1>0, <2>6, <2>7, <3>1, <3>4
    <3>6. \A j \in C \cup {i} : Closed(d, j)
      BY <2>11, <2>12, <3>1
    <3>7. C \cup {i} \in SUBSET Ids
      OBVIOUS
    <3> QED
      BY <3>5, <3>6, <3>7
  <2>16. ServerInv(d)
    BY <2>4, <2>8, <2>13, <2>14, <2>15 DEF ServerInv
  <2>17. /\ \A f \in d.rtb : OfSide(d.server, f)
         /\ \A f \in d.frq : OfStream(d.server, f)
    BY <2>4 DEF ConnInv
  <2> QED
    BY <1>1, <1>8, <2>3, <2>4, <2>6, <2>7, <2>16, <2>17 DEF ConnInv
<1> QED
  BY <1>1, <1>7, <1>8

\* ngtcp2_conn_close_stream_if_shut_rdwr.
LEMMA CloseIfShut ==
    ASSUME NEW c, ConnInv(c), NEW i \in Ids, page \in Pages,
           NEW d, d = close_stream_if_shut_rdwr(c, i)
    PROVE  ConnInv(d) /\ Grows(c, d)
<1>1. d = c \/ (d = close_stream(c, i) /\ c.strms[i].open)
  BY DEF close_stream_if_shut_rdwr
<1>2. CASE d = c
  BY <1>2, KeptItself
<1>3. CASE d = close_stream(c, i) /\ c.strms[i].open
  BY <1>3, CloseStream
<1> QED
  BY <1>1, <1>2, <1>3

-----------------------------------------------------------------------------
(* The stream ID tracker.                                                  *)

\* An id is free when it lies in a gap, which is the one GapAt finds.
LEMMA FreeInGap ==
    ASSUME NEW t, Tracker(t), NEW id \in Nat
    PROVE  /\ Free(t, id) => /\ GapAt(t, id) \in DOMAIN t
                             /\ t[GapAt(t, id)][1] <= id /\ id < t[GapAt(t, id)][2]
           /\ (\E k \in DOMAIN t : t[k][1] <= id /\ id < t[k][2]) => Free(t, id)
<1> DEFINE S == {k \in DOMAIN t : id < t[k][2] \/ id < t[k][1]}
<1>0. \A k \in DOMAIN t : k \in Nat /\ t[k][1] \in Nat /\ t[k][2] \in Nat /\ t[k][1] <= t[k][2]
  BY DEF Tracker
<1>1. S # {} => \E k \in S : \A j \in S : k <= j
  <2>1. S \in SUBSET Nat
    BY <1>0
  <2> HIDE DEF S
  <2> QED
    BY <2>1, LeastExists
<1>2. PICK k : k = GapAt(t, id)
  OBVIOUS
<1>3. S = {} => k = 0
  BY <1>2 DEF GapAt
<1>4. S # {} => k \in S /\ \A j \in S : k <= j
  <2> SUFFICES ASSUME S # {} PROVE k \in S /\ \A j \in S : k <= j
    OBVIOUS
  <2>1. k = CHOOSE m \in S : \A j \in S : m <= j
    BY <1>2 DEF GapAt
  <2> HIDE DEF S
  <2> QED
    BY <1>1, <2>1
<1>5. \A m \in DOMAIN t : m \in S <=> id < t[m][2]
  BY <1>0
<1>6. Free(t, id) <=> k # 0 /\ ~(id < t[k][1])
  BY <1>2 DEF Free, idtr_in_use
<1>7. ASSUME Free(t, id) PROVE k \in DOMAIN t /\ t[k][1] <= id /\ id < t[k][2]
  <2>1. k \in S
    BY <1>3, <1>4, <1>6, <1>7
  <2>2. k \in DOMAIN t /\ id < t[k][2]
    BY <1>5, <2>1
  <2> QED
    BY <1>0, <1>6, <1>7, <2>2
<1>8. ASSUME NEW m \in DOMAIN t, t[m][1] <= id, id < t[m][2] PROVE Free(t, id)
  <2>1. m \in S
    BY <1>8
  <2>2. k \in S /\ k <= m
    BY <1>4, <2>1
  <2>3. k \in DOMAIN t /\ id < t[k][2]
    BY <1>5, <2>2
  <2>4. k = m
    <3> SUFFICES ASSUME k # m PROVE FALSE
      OBVIOUS
    <3>1. k < m
      BY <1>0, <2>2, <2>3
    <3>2. t[k][2] < t[m][1]
      BY <2>3, <3>1 DEF Tracker
    <3> QED
      BY <1>0, <1>8, <2>3, <3>2
  <2>5. k # 0
    <3>1. DOMAIN t = 1..Len(t)
      BY DEF Tracker
    <3> QED
      BY <2>3, <3>1
  <2> QED
    BY <1>0, <1>6, <1>8, <2>4, <2>5
<1> QED
  BY <1>2, <1>7, <1>8

\* u is t with its k-th element taken out, or with e put before it.
Without(u, t, n, k) == \A j \in 1..(n - 1) : u[j] = IF j < k THEN t[j] ELSE t[j + 1]

With(u, t, n, k, e) ==
    \A j \in 1..(n + 1) : u[j] = IF j < k THEN t[j] ELSE IF j = k THEN e ELSE t[j - 1]

\* A sequence with an element taken out.
LEMMA RemovedAt ==
    ASSUME NEW S, NEW t \in Seq(S), NEW n \in Nat, Len(t) = n, NEW k \in 1..n,
           NEW u, u = RemoveAt(t, k)
    PROVE  u \in Seq(S) /\ Len(u) = n - 1 /\ Without(u, t, n, k)
<1>1. PICK p : p = SubSeq(t, 1, k - 1)
  OBVIOUS
<1>2. p \in Seq(S) /\ Len(p) = k - 1 /\ \A j \in 1..(k - 1) : p[j] = t[j]
  BY <1>1
<1>3. PICK q : q = SubSeq(t, k + 1, n)
  OBVIOUS
<1>4. q \in Seq(S) /\ Len(q) = n - k /\ \A j \in 1..(n - k) : q[j] = t[j + k]
  BY <1>3
<1>5. u = p \o q
  BY <1>1, <1>3 DEF RemoveAt
<1>6. u \in Seq(S) /\ Len(u) = n - 1
  <2>1. u \in Seq(S)
    BY ONLY <1>2, <1>4, <1>5
  <2>3. p \in Seq(S) /\ q \in Seq(S)
    BY <1>2, <1>4
  <2>2. Len(u) = Len(p) + Len(q)
    BY ONLY <1>5, <2>3
  <2> QED
    BY <1>2, <1>4, <2>1, <2>2
<1>7. ASSUME NEW j \in 1..(n - 1) PROVE u[j] = IF j < k THEN t[j] ELSE t[j + 1]
  <2>1. CASE j < k
    BY <1>2, <1>4, <1>5, <2>1
  <2>2. CASE ~(j < k)
    <3>1. j - (k - 1) \in 1..(n - k) /\ (j - (k - 1)) + k = j + 1
      BY <2>2
    <3>2. u[j] = q[j - (k - 1)]
      BY <1>2, <1>4, <1>5, <2>2
    <3> QED
      BY <1>4, <2>2, <3>1, <3>2
  <2> QED
    BY <2>1, <2>2
<1> QED
  BY <1>6, <1>7 DEF Without

\* A sequence with an element put in.
LEMMA InsertedAt ==
    ASSUME NEW S, NEW t \in Seq(S), NEW n \in Nat, Len(t) = n, NEW k \in 1..n,
           NEW e \in S, NEW u, u = InsertAt(t, k, e)
    PROVE  u \in Seq(S) /\ Len(u) = n + 1 /\ With(u, t, n, k, e)
<1>1. PICK p : p = SubSeq(t, 1, k - 1)
  OBVIOUS
<1>2. p \in Seq(S) /\ Len(p) = k - 1 /\ \A j \in 1..(k - 1) : p[j] = t[j]
  BY <1>1
<1>3. PICK q : q = SubSeq(t, k, n)
  OBVIOUS
<1>4. q \in Seq(S) /\ Len(q) = n - k + 1 /\ \A j \in 1..(n - k + 1) : q[j] = t[j + k - 1]
  BY <1>3
<1>5. PICK r : r = p \o <<e>>
  OBVIOUS
<1>6. r \in Seq(S) /\ Len(r) = k /\ r[k] = e /\ \A j \in 1..(k - 1) : r[j] = t[j]
  BY <1>2, <1>5
<1>7. u = r \o q
  BY <1>1, <1>3, <1>5 DEF InsertAt
<1>8. u \in Seq(S) /\ Len(u) = n + 1
  <2>1. u \in Seq(S)
    BY ONLY <1>4, <1>6, <1>7
  <2>3. r \in Seq(S) /\ q \in Seq(S)
    BY <1>4, <1>6
  <2>2. Len(u) = Len(r) + Len(q)
    BY ONLY <1>7, <2>3
  <2> QED
    BY <1>4, <1>6, <2>1, <2>2
<1>9. ASSUME NEW j \in 1..(n + 1)
      PROVE  u[j] = IF j < k THEN t[j] ELSE IF j = k THEN e ELSE t[j - 1]
  <2>1. CASE j <= k
    <3>1. u[j] = r[j]
      BY <1>4, <1>6, <1>7, <2>1
    <3> QED
      BY <1>6, <2>1, <3>1
  <2>2. CASE k < j
    <3>1. j - k \in 1..(n - k + 1) /\ (j - k) + k - 1 = j - 1
      BY <2>2
    <3>2. u[j] = q[j - k]
      BY <1>4, <1>6, <1>7, <2>2
    <3> QED
      BY <1>4, <2>2, <3>1, <3>2
  <2> QED
    BY <2>1, <2>2
<1> QED
  BY <1>8, <1>9 DEF With

\* ngtcp2_idtr_open takes the id out of the gaps, and puts none back.
LEMMA IdtrOpen ==
    ASSUME NEW t, Tracker(t), NEW id \in Nat, Free(t, id), NEW u, u = idtr_open(t, id)
    PROVE  Tracker(u) /\ ~Free(u, id) /\ \A j \in Nat : Free(u, j) => Free(t, j)
<1>1. PICK k : k = GapAt(t, id)
  OBVIOUS
<1>2. k \in DOMAIN t /\ t[k][1] <= id /\ id < t[k][2]
  BY <1>1, FreeInGap
<1>3. PICK a \in Nat, b \in Nat : t[k] = <<a, b>> /\ t[k][1] = a /\ t[k][2] = b
  <2>1. t[k] \in Nat \X Nat
    BY <1>2 DEF Tracker
  <2> QED
    BY <2>1
<1>4. a <= id /\ id < b
  BY <1>2, <1>3
<1>5. u = IF id = a
          THEN IF b - a = 1 THEN RemoveAt(t, k) ELSE [t EXCEPT ![k] = <<id + 1, b>>]
          ELSE InsertAt([t EXCEPT ![k] = <<id + 1, b>>], k, <<a, id>>)
  BY <1>1, <1>3 DEF idtr_open
<1>6. PICK n \in Nat : n = Len(t)
  BY DEF Tracker
<1>7. t \in Seq(Nat \X Nat) /\ DOMAIN t = 1..n /\ k \in 1..n
  BY <1>2, <1>6 DEF Tracker
<1>8. \A j \in 1..n : t[j][1] \in Nat /\ t[j][2] \in Nat /\ t[j][1] <= t[j][2]
  <2> TAKE j \in 1..n
  <2>1. t[j] \in Nat \X Nat
    BY <1>7
  <2>2. t[j][1] <= t[j][2]
    BY <1>7 DEF Tracker
  <2> QED
    BY <2>1, <2>2
<1>9. \A j, l \in 1..n : j < l => t[j][2] < t[l][1]
  BY <1>7 DEF Tracker
<1>10. /\ \A j \in 1..n : j < k => t[j][2] < a
       /\ \A j \in 1..n : k < j => b < t[j][1]
  BY <1>3, <1>7, <1>9
<1>11. ASSUME u \in Seq(Nat \X Nat), NEW m \in Nat, Len(u) = m,
              \A j \in 1..m : u[j][1] <= u[j][2],
              \A j, l \in 1..m : j < l => u[j][2] < u[l][1],
              \A j \in 1..m : \/ u[j][2] <= id \/ id < u[j][1],
              \A j \in 1..m : \E l \in 1..n : t[l][1] <= u[j][1] /\ u[j][2] <= t[l][2]
       PROVE  Tracker(u) /\ ~Free(u, id) /\ \A j \in Nat : Free(u, j) => Free(t, j)
  <2>1. DOMAIN u = 1..m
    BY <1>11
  <2>2. Tracker(u)
    BY <1>11, <2>1 DEF Tracker
  <2>3. \A j \in 1..m : u[j][1] \in Nat /\ u[j][2] \in Nat
    <3> TAKE j \in 1..m
    <3>1. u[j] \in Nat \X Nat
      BY <1>11, <2>1
    <3> QED
      BY <3>1
  <2>4. ~Free(u, id)
    <3> SUFFICES ASSUME Free(u, id) PROVE FALSE
      OBVIOUS
    <3>1. PICK j \in 1..m : u[j][1] <= id /\ id < u[j][2]
      BY <2>1, <2>2, FreeInGap
    <3> QED
      <4>1. u[j][2] <= id \/ id < u[j][1]
        BY <1>11
      <4>2. u[j][1] \in Nat /\ u[j][2] \in Nat
        BY <2>3
      <4> QED
        BY <3>1, <4>1, <4>2
  <2>5. ASSUME NEW x \in Nat, Free(u, x) PROVE Free(t, x)
    <3>1. PICK j \in 1..m : u[j][1] <= x /\ x < u[j][2]
      BY <2>1, <2>2, <2>5, FreeInGap
    <3>2. PICK l \in 1..n : t[l][1] <= u[j][1] /\ u[j][2] <= t[l][2]
      BY <1>11
    <3>3. t[l][1] \in Nat /\ t[l][2] \in Nat /\ u[j][1] \in Nat /\ u[j][2] \in Nat
      BY <1>8, <2>3
    <3>4. t[l][1] <= x /\ x < t[l][2]
      BY ONLY <3>1, <3>2, <3>3, x \in Nat
    <3>5. l \in DOMAIN t
      BY <1>7
    <3> QED
      BY ONLY <3>4, <3>5, x \in Nat, Tracker(t), FreeInGap
  <2> QED
    BY <2>2, <2>4, <2>5
<1>12. CASE id = a /\ b - a = 1
  <2>0. PICK S : S = Nat \X Nat
    OBVIOUS
  <2>1. u = RemoveAt(t, k) /\ t \in Seq(S) /\ Len(t) = n /\ k \in 1..n /\ n \in Nat
    BY <1>5, <1>6, <1>7, <1>12, <2>0
  <2>2. u \in Seq(S) /\ Len(u) = n - 1 /\ Without(u, t, n, k)
    BY ONLY <2>1, RemovedAt
  <2>3. \A j \in 1..(n - 1) : u[j] = IF j < k THEN t[j] ELSE t[j + 1]
    BY <2>2 DEF Without
  <2>10. u \in Seq(Nat \X Nat)
    BY <2>0, <2>2
  <2>4. PICK m \in Nat : m = n - 1
    BY <1>7
  <2>5. Len(u) = m /\ \A j \in 1..m : u[j] = IF j < k THEN t[j] ELSE t[j + 1]
    BY <2>2, <2>3, <2>4
  <2>11. \A j \in 1..m : j \in 1..n /\ j + 1 \in 1..n
    BY <1>7, <2>4
  <2>6. \A j \in 1..m : u[j][1] <= u[j][2]
    <3> TAKE j \in 1..m
    <3>1. u[j] = t[j] \/ u[j] = t[j + 1]
      BY <2>5
    <3> QED
      BY <1>8, <2>11, <3>1
  <2>7. \A j, l \in 1..m : j < l => u[j][2] < u[l][1]
    <3> SUFFICES ASSUME NEW j \in 1..m, NEW l \in 1..m, j < l PROVE u[j][2] < u[l][1]
      OBVIOUS
    <3>1. CASE l < k
      <4>1. u[j] = t[j] /\ u[l] = t[l]
        BY <1>7, <2>5, <3>1
      <4> QED
        BY <1>9, <2>11, <4>1
    <3>2. CASE j < k /\ ~(l < k)
      <4>1. u[j] = t[j] /\ u[l] = t[l + 1] /\ j < l + 1
        BY <2>5, <3>2
      <4> QED
        BY <1>9, <2>11, <4>1
    <3>3. CASE ~(j < k)
      <4>0. ~(l < k) /\ j + 1 < l + 1
        BY <1>7, <3>3
      <4>1. u[j] = t[j + 1] /\ u[l] = t[l + 1] /\ j + 1 < l + 1
        BY <2>5, <3>3, <4>0
      <4> QED
        BY <1>9, <2>11, <4>1
    <3> QED
      BY <3>1, <3>2, <3>3
  <2>8. \A j \in 1..m : u[j][2] <= id \/ id < u[j][1]
    <3> TAKE j \in 1..m
    <3>1. CASE j < k
      BY <1>7, <1>8, <1>10, <1>12, <2>4, <2>5, <3>1
    <3>2. CASE ~(j < k)
      <4>1. k < j + 1 /\ j + 1 \in 1..n
        BY <1>7, <2>4, <3>2
      <4>2. b < t[j + 1][1] /\ t[j + 1][1] \in Nat
        BY <1>8, <1>10, <4>1
      <4> QED
        BY <1>4, <2>5, <3>2, <4>2
    <3> QED
      BY <3>1, <3>2
  <2>9. \A j \in 1..m : \E l \in 1..n : t[l][1] <= u[j][1] /\ u[j][2] <= t[l][2]
    <3> TAKE j \in 1..m
    <3>1. PICK l \in 1..n : u[j] = t[l]
      BY <2>4, <2>5
    <3> QED
      BY <1>8, <3>1
  <2> QED
    BY ONLY <1>11, <2>4, <2>10, <2>5, <2>6, <2>7, <2>8, <2>9
<1>13. CASE id = a /\ b - a # 1
  <2>1. u = [t EXCEPT ![k] = <<id + 1, b>>]
    BY <1>5, <1>13
  <2>2. u \in Seq(Nat \X Nat) /\ Len(u) = n /\ u[k] = <<id + 1, b>>
        /\ \A j \in 1..n : j # k => u[j] = t[j]
    BY <1>6, <1>7, <2>1
  <2>3. u[k][1] = id + 1 /\ u[k][2] = b
    BY <2>2
  <2>4. id + 1 < b
    BY <1>4, <1>13
  <2>5. \A j \in 1..n : u[j][1] <= u[j][2]
    <3> TAKE j \in 1..n
    <3>1. CASE j = k
      BY <2>3, <2>4, <3>1
    <3>2. CASE j # k
      BY <1>8, <2>2, <3>2
    <3> QED
      BY <3>1, <3>2
  <2>6. \A j, l \in 1..n : j < l => u[j][2] < u[l][1]
    <3> TAKE j, l \in 1..n
    <3> HAVE j < l
    <3>1. CASE j = k
      <4>1. l # k /\ b < t[l][1]
        BY <1>7, <1>10, <3>1
      <4> QED
        BY <2>2, <2>3, <3>1, <4>1
    <3>2. CASE l = k
      <4>1. t[j][2] < a /\ t[j][2] \in Nat
        BY <1>8, <1>10, <3>2
      <4> QED
        BY <1>13, <2>2, <2>3, <3>2, <4>1
    <3>3. CASE j # k /\ l # k
      BY <1>9, <2>2, <3>3
    <3> QED
      BY <3>1, <3>2, <3>3
  <2>7. \A j \in 1..n : u[j][2] <= id \/ id < u[j][1]
    <3> TAKE j \in 1..n
    <3>1. CASE j = k
      BY <2>3, <3>1
    <3>2. CASE j < k
      <4>1. t[j][2] < a /\ t[j][2] \in Nat
        BY <1>8, <1>10, <3>2
      <4> QED
        BY <1>7, <1>13, <2>2, <3>2, <4>1
    <3>3. CASE k < j
      <4>1. b < t[j][1] /\ t[j][1] \in Nat
        BY <1>8, <1>10, <3>3
      <4>2. u[j] = t[j]
        BY <1>7, <2>2, <3>3
      <4> QED
        BY <1>4, <4>1, <4>2
    <3> QED
      BY <1>7, <3>1, <3>2, <3>3
  <2>8. \A j \in 1..n : \E l \in 1..n : t[l][1] <= u[j][1] /\ u[j][2] <= t[l][2]
    <3> TAKE j \in 1..n
    <3> WITNESS j \in 1..n
    <3>1. CASE j = k
      BY <1>3, <1>13, <2>3, <3>1
    <3>2. CASE j # k
      BY <1>8, <2>2, <3>2
    <3> QED
      BY <3>1, <3>2
  <2>9. n \in Nat /\ u \in Seq(Nat \X Nat) /\ Len(u) = n
    BY <2>2
  <2> QED
    BY ONLY <1>11, <2>9, <2>5, <2>6, <2>7, <2>8
<1>14. CASE id # a
  <2>1. PICK v : v = [t EXCEPT ![k] = <<id + 1, b>>]
    OBVIOUS
  <2>2. v \in Seq(Nat \X Nat) /\ Len(v) = n /\ v[k] = <<id + 1, b>>
        /\ \A j \in 1..n : j # k => v[j] = t[j]
    BY <1>6, <1>7, <2>1
  <2>3. PICK e \in Nat \X Nat : e = <<a, id>>
    OBVIOUS
  <2>0. PICK S : S = Nat \X Nat
    OBVIOUS
  <2>4. /\ u = InsertAt(v, k, e) /\ v \in Seq(S) /\ Len(v) = n /\ k \in 1..n
        /\ n \in Nat /\ e \in S
    BY <1>5, <1>7, <1>14, <2>0, <2>1, <2>2, <2>3
  <2>15. u \in Seq(S) /\ Len(u) = n + 1 /\ With(u, v, n, k, e)
    BY ONLY <2>4, InsertedAt
  <2>5. u \in Seq(Nat \X Nat) /\ Len(u) = n + 1
    BY <2>0, <2>15
  <2>6. \A j \in 1..(n + 1) : u[j] = IF j < k THEN v[j] ELSE IF j = k THEN e ELSE v[j - 1]
    BY <2>15 DEF With
  <2>7. PICK m \in Nat : m = n + 1
    OBVIOUS
  <2>8. /\ Len(u) = m
        /\ \A j \in 1..m : /\ j < k => j \in 1..n /\ u[j] = t[j]
                           /\ j = k => u[j][1] = a /\ u[j][2] = id
                           /\ j = k + 1 => u[j][1] = id + 1 /\ u[j][2] = b
                           /\ k + 1 < j => j - 1 \in 1..n /\ k < j - 1 /\ u[j] = t[j - 1]
    <3>1. Len(u) = m
      BY <2>5, <2>7
    <3>2. ASSUME NEW j \in 1..m, j < k PROVE j \in 1..n /\ u[j] = t[j]
      <4>1. j \in 1..n /\ j # k
        BY <1>7, <2>7, <3>2
      <4> QED
        BY <2>2, <2>6, <2>7, <3>2, <4>1
    <3>3. ASSUME NEW j \in 1..m, j = k PROVE u[j][1] = a /\ u[j][2] = id
      BY <1>7, <2>3, <2>6, <2>7, <3>3
    <3>4. ASSUME NEW j \in 1..m, j = k + 1 PROVE u[j][1] = id + 1 /\ u[j][2] = b
      <4>1. ~(j < k) /\ j # k /\ j - 1 = k
        BY <1>7, <3>4
      <4>2. u[j] = v[k]
        BY <2>6, <2>7, <4>1
      <4> QED
        BY <2>2, <4>2
    <3>5. ASSUME NEW j \in 1..m, k + 1 < j
          PROVE  j - 1 \in 1..n /\ k < j - 1 /\ u[j] = t[j - 1]
      <4>1. ~(j < k) /\ j # k /\ j - 1 # k /\ j - 1 \in 1..n /\ k < j - 1
        BY <1>7, <2>7, <3>5
      <4>2. u[j] = v[j - 1]
        BY <2>6, <2>7, <4>1
      <4> QED
        BY <2>2, <4>1, <4>2
    <3> QED
      BY <3>1, <3>2, <3>3, <3>4, <3>5
  <2>9. \A j \in 1..m : j \in Nat /\ (j < k \/ j = k \/ j = k + 1 \/ k + 1 < j)
    BY <1>7
  <2>10. \A j \in 1..m : u[j][1] \in Nat /\ u[j][2] \in Nat /\ u[j][1] <= u[j][2]
    <3> TAKE j \in 1..m
    <3>1. CASE j < k
      BY <1>8, <2>8, <3>1
    <3>2. CASE j = k \/ j = k + 1
      BY <1>4, <2>8, <3>2
    <3>3. CASE k + 1 < j
      BY <1>8, <2>8, <3>3
    <3> QED
      BY <2>9, <3>1, <3>2, <3>3
  <2>11. \A j, l \in 1..m : j < l => u[j][2] < u[l][1]
    <3> SUFFICES ASSUME NEW j \in 1..m, NEW l \in 1..m, j < l PROVE u[j][2] < u[l][1]
      OBVIOUS
    <3>1. CASE k + 1 < j
      <4>1. k + 1 < l /\ j - 1 < l - 1
        BY <1>7, <3>1
      <4> QED
        BY <1>9, <2>8, <3>1, <4>1
    <3>2. CASE j = k + 1
      <4>1. k + 1 < l
        BY <1>7, <3>2
      <4> QED
        BY <1>10, <2>8, <3>2, <4>1
    <3>3. CASE j = k
      <4>1. CASE l = k + 1
        BY <2>8, <3>3, <4>1
      <4>2. CASE k + 1 < l
        <5>1. b < u[l][1] /\ u[j][2] = id /\ u[l][1] \in Nat
          BY <1>10, <2>8, <2>10, <3>3, <4>2
        <5> QED
          BY <1>4, <5>1
      <4> QED
        BY <1>7, <2>9, <3>3, <4>1, <4>2
    <3>4. CASE j < k
      <4>0. u[j] = t[j] /\ j \in 1..n /\ u[j][2] < a /\ u[j][2] \in Nat
        BY <1>10, <2>8, <2>10, <3>4
      <4>1. CASE l < k
        BY <1>9, <2>8, <4>0, <4>1
      <4>2. CASE l = k
        BY <2>8, <4>0, <4>2
      <4>3. CASE l = k + 1
        BY <1>4, <2>8, <4>0, <4>3
      <4>4. CASE k + 1 < l
        <5>1. b < u[l][1] /\ u[l][1] \in Nat
          BY <1>10, <2>8, <2>10, <4>4
        <5> QED
          BY <1>4, <4>0, <5>1
      <4> QED
        BY <2>9, <4>1, <4>2, <4>3, <4>4
    <3> QED
      BY <2>9, <3>1, <3>2, <3>3, <3>4
  <2>12. \A j \in 1..m : u[j][2] <= id \/ id < u[j][1]
    <3> TAKE j \in 1..m
    <3>1. CASE k + 1 < j
      <4>1. b < u[j][1] /\ u[j][1] \in Nat
        BY <1>10, <2>8, <2>10, <3>1
      <4> QED
        BY <1>4, <4>1
    <3>2. CASE j = k + 1 \/ j = k
      BY <2>8, <3>2
    <3>3. CASE j < k
      <4>1. u[j][2] < a /\ u[j][2] \in Nat
        BY <1>10, <2>8, <2>10, <3>3
      <4> QED
        BY <1>4, <4>1
    <3> QED
      BY <2>9, <3>1, <3>2, <3>3
  <2>13. \A j \in 1..m : \E l \in 1..n : t[l][1] <= u[j][1] /\ u[j][2] <= t[l][2]
    <3> TAKE j \in 1..m
    <3>1. CASE k + 1 < j
      <4>1. j - 1 \in 1..n /\ u[j] = t[j - 1]
        BY <2>8, <3>1
      <4>2. t[j - 1][1] <= u[j][1] /\ u[j][2] <= t[j - 1][2]
        BY <1>8, <4>1
      <4> QED
        BY <4>1, <4>2
    <3>2. CASE j = k + 1 \/ j = k
      <4>1. t[k][1] <= u[j][1] /\ u[j][2] <= t[k][2]
        BY <1>3, <1>4, <2>8, <3>2
      <4> QED
        BY <1>7, <4>1
    <3>3. CASE j < k
      <4>1. j \in 1..n /\ u[j] = t[j]
        BY <2>8, <3>3
      <4>2. t[j][1] <= u[j][1] /\ u[j][2] <= t[j][2]
        BY <1>8, <4>1
      <4> QED
        BY <4>1, <4>2
    <3> QED
      BY <2>9, <3>1, <3>2, <3>3
  <2>14. \A j \in 1..m : u[j][1] <= u[j][2]
    BY <2>10
  <2> QED
    BY ONLY <1>11, <2>5, <2>8, <2>14, <2>11, <2>12, <2>13
<1> QED
  BY <1>12, <1>13, <1>14

-----------------------------------------------------------------------------
(* The server's application.                                               *)

\* A unit of the request is read.
UnitRead(c, i) == [c EXCEPT !.streams[i].exists = TRUE, !.streams[i].nread = @ + 1]

\* This changes no more than the count.
LEMMA OneUnitRead ==
    ASSUME NEW c, ConnInv(c), NEW i \in Ids, page \in Pages,
           NEW d, d = UnitRead(c, i)
    PROVE  /\ ConnInv(d) /\ Grows(c, d) /\ d.strms = c.strms /\ d.answers = c.answers
           /\ d.streams[i].completed = c.streams[i].completed
           /\ d.streams[i].parse_error = c.streams[i].parse_error
           /\ d.streams[i].nread = c.streams[i].nread + 1
<1> PICK r : r = [c.streams[i] EXCEPT !.exists = TRUE, !.nread = @ + 1]
  OBVIOUS
<1>1. Shape(c) /\ c.server \in BOOLEAN
  BY DEF ConnInv
<1>2. c.max_local \in Nat /\ page.req \in Nat
  BY ExchangeAssumption DEF ConnInv
<1>3. /\ DOMAIN d = ConnFields
      /\ \A k \in ConnFields \ {"streams"} : d[k] = c[k]
      /\ d.streams = [c.streams EXCEPT ![i] = r]
  BY <1>1 DEF UnitRead, Shape, ConnFields
<1>4. /\ DOMAIN r = StreamFields
      /\ r.completed = c.streams[i].completed /\ r.parse_error = c.streams[i].parse_error
      /\ r.nread = c.streams[i].nread + 1
  BY <1>1 DEF Shape, StreamFields
<1>5. /\ DOMAIN d.streams = Ids /\ d.streams[i] = r
      /\ \A j \in Ids : j # i => d.streams[j] = c.streams[j]
  BY <1>1, <1>3 DEF Shape
<1>6. /\ d.server = c.server /\ d.max_remote = c.max_remote /\ d.max_local = c.max_local
      /\ d.rtb = c.rtb /\ d.unsent_max = c.unsent_max /\ d.frq = c.frq /\ d.strms = c.strms
      /\ d.answers = c.answers /\ d.idtr = c.idtr
  BY <1>3 DEF ConnFields
<1>7. Shape(d)
  BY <1>1, <1>3, <1>4, <1>5, <1>6 DEF Shape
<1>8. Grows(c, d)
  BY ONLY <1>2, <1>6 DEF Grows
<1>9. c.server => ServerInv(d)
  <2> SUFFICES ASSUME c.server PROVE ServerInv(d)
    OBVIOUS
  <2>1. ServerInv(c)
    BY DEF ConnInv
  <2>2. \A j \in Ids : (Opened(d, j) <=> Opened(c, j)) /\ (Closed(d, j) <=> Closed(c, j))
    BY <1>6 DEF Opened, Closed
  <2>3. \A j \in Ids : Answers(d, j)
    <3> SUFFICES ASSUME NEW j \in Ids PROVE Answers(d, j)
      OBVIOUS
    <3>1. Answers(c, j)
      BY <2>1 DEF ServerInv
    <3>2. CASE j = i
      <4>1. c.streams[i].nread \in Nat
        BY <3>1, <3>2 DEF Answers
      <4>2. d.streams[i].nread \in Nat /\ d.streams[i].nread >= c.streams[i].nread
        BY <1>4, <1>5, <4>1
      <4>3. /\ d.streams[i].completed = c.streams[i].completed
            /\ d.streams[i].parse_error = c.streams[i].parse_error
        BY <1>4, <1>5
      <4>4. d.strms = c.strms /\ d.answers = c.answers /\ d.idtr = c.idtr
        BY <1>6
      <4>5. c.streams[i].nread >= page.req => d.streams[i].nread >= page.req
        BY <1>2, <4>1, <4>2
      <4> QED
        BY ONLY <3>1, <3>2, <4>2, <4>3, <4>4, <4>5 DEF Answers
    <3>3. CASE j # i
      BY <1>5, <1>6, <3>1, <3>3 DEF Answers
    <3> QED
      BY <3>2, <3>3
  <2> QED
    BY <1>6, <2>1, <2>2, <2>3 DEF ServerInv
<1>10. ConnInv(d)
  BY <1>1, <1>6, <1>7, <1>9 DEF ConnInv
<1> QED
  BY <1>4, <1>5, <1>6, <1>8, <1>10

\* The response to a request that has none.
LEMMA Responded ==
    ASSUME NEW c, ConnInv(c), c.server, NEW i \in Ids, page \in Pages,
           c.strms[i].open, ~c.streams[i].completed,
           NEW bufs, NEW bad \in BOOLEAN, bad \/ c.streams[i].nread >= page.req,
           NEW d, d = Respond(c, i, bufs, bad)
    PROVE  ConnInv(d) /\ Grows(c, d) /\ d.strms = c.strms
<1> PICK r : r = [c.streams[i] EXCEPT !.streambuf = bufs, !.completed = TRUE,
                                      !.should_send_fin = TRUE, !.parse_error = bad]
  OBVIOUS
<1>1. Shape(c) /\ c.server \in BOOLEAN
  BY DEF ConnInv
<1>2. c.max_local \in Nat /\ page.req \in Nat
  BY ExchangeAssumption DEF ConnInv
<1>3. /\ DOMAIN d = ConnFields
      /\ \A k \in ConnFields \ {"streams", "answers", "empty"} : d[k] = c[k]
      /\ d.streams = [c.streams EXCEPT ![i] = r]
      /\ d.answers = [c.answers EXCEPT ![i] = @ + 1]
  BY <1>1 DEF Respond, Shape, ConnFields
<1>4. /\ DOMAIN r = StreamFields
      /\ r.completed = TRUE /\ r.parse_error = bad
      /\ r.nread = c.streams[i].nread
  BY <1>1 DEF Shape, StreamFields
<1>5. /\ DOMAIN d.streams = Ids /\ d.streams[i] = r
      /\ \A j \in Ids : j # i => d.streams[j] = c.streams[j] /\ d.answers[j] = c.answers[j]
      /\ DOMAIN d.answers = Ids /\ d.answers[i] = c.answers[i] + 1
  BY <1>1, <1>3 DEF Shape
<1>6. /\ d.server = c.server /\ d.max_remote = c.max_remote /\ d.max_local = c.max_local
      /\ d.rtb = c.rtb /\ d.unsent_max = c.unsent_max /\ d.frq = c.frq /\ d.strms = c.strms
      /\ d.idtr = c.idtr
  BY <1>3 DEF ConnFields
<1>7. Shape(d)
  BY <1>1, <1>3, <1>4, <1>5, <1>6 DEF Shape
<1>8. Grows(c, d)
  BY ONLY <1>2, <1>6 DEF Grows
<1>9. ServerInv(d)
  <2>1. ServerInv(c)
    BY DEF ConnInv
  <2>2. \A j \in Ids : (Opened(d, j) <=> Opened(c, j)) /\ (Closed(d, j) <=> Closed(c, j))
    BY <1>6 DEF Opened, Closed
  <2>3. \A j \in Ids : Answers(d, j)
    <3> SUFFICES ASSUME NEW j \in Ids PROVE Answers(d, j)
      OBVIOUS
    <3>1. Answers(c, j)
      BY <2>1 DEF ServerInv
    <3>2. CASE j = i
      <4>1. c.answers[i] = 0
        BY <3>1, <3>2 DEF Answers
      <4>2. ~Free(c.idtr, i)
        BY <2>1 DEF ServerInv, Opened
      <4>3. c.streams[i].nread \in Nat
        BY <3>1, <3>2 DEF Answers
      <4>4. d.answers[i] = 1 /\ ~Free(d.idtr, i) /\ d.streams[i].nread = c.streams[i].nread
        BY <1>4, <1>5, <1>6, <4>1, <4>2
      <4>5. d.streams[i].completed /\ d.streams[i].parse_error = bad
        BY <1>4, <1>5
      <4>6. ~d.streams[i].parse_error => d.streams[i].nread >= page.req
        BY <4>4, <4>5
      <4> QED
        BY ONLY <3>2, <4>3, <4>4, <4>5, <4>6 DEF Answers
    <3>3. CASE j # i
      BY <1>5, <1>6, <3>1, <3>3 DEF Answers
    <3> QED
      BY <3>2, <3>3
  <2> QED
    BY <1>6, <2>1, <2>2, <2>3 DEF ServerInv
<1>10. ConnInv(d)
  BY <1>1, <1>6, <1>7, <1>9 DEF ConnInv
<1> QED
  BY <1>6, <1>8, <1>10

\* Handler::recv_stream_data: a stream that is open is answered once.
LEMMA ServerRecvData ==
    ASSUME NEW c, ConnInv(c), c.server, NEW i \in Ids, page \in Pages,
           c.strms[i].open, NEW w, NEW d, d = server_recv_data(c, i, w)
    PROVE  ConnInv(d) /\ Grows(c, d) /\ d.strms[i].open
<1>0. PICK b : b = UnitRead(c, i)
  OBVIOUS
<1>1. /\ ConnInv(b) /\ Grows(c, b) /\ b.strms = c.strms
      /\ b.streams[i].completed = c.streams[i].completed
      /\ b.streams[i].parse_error = c.streams[i].parse_error
      /\ b.streams[i].nread = c.streams[i].nread + 1
  BY ONLY <1>0, ConnInv(c), i \in Ids, page \in Pages, OneUnitRead
<1> PICK a : a = c.streams[i]
  OBVIOUS
<1>2. /\ b.server /\ b.strms[i].open
  BY <1>1 DEF Grows
<1>3. /\ b.streams[i].completed = a.completed
      /\ b.streams[i].parse_error = a.parse_error
      /\ b.streams[i].nread = a.nread + 1
  BY <1>1
<1>4. Answers(c, i)
  BY DEF ConnInv, ServerInv
<1>5. a.nread \in Nat
  BY <1>4 DEF Answers
<1>6. (a.completed /\ ~a.parse_error) => a.nread >= page.req
  BY <1>4 DEF Answers
<1>7. a.parse_error => a.completed
  BY <1>4 DEF Answers
<1>8. c.max_local \in Nat /\ page.req \in Nat
  BY ExchangeAssumption DEF ConnInv
<1>9. d = IF a.parse_error \/ (w = "bad" /\ ~a.completed)
          THEN IF a.completed THEN shutdown_stream(b, i)
               ELSE Respond(b, i, << [len |-> 1, what |-> "STATUS"] >>, TRUE)
          ELSE IF a.nread + 1 = page.req THEN start_response(b, i, w) ELSE b
  BY <1>0 DEF server_recv_data, send_status_response, UnitRead
<1>10. CASE d = b
  BY <1>1, <1>2, <1>10
<1>11. CASE d = shutdown_stream(b, i)
  <2>1. Kept(b, d)
    BY <1>1, <1>11, ShutdownStream
  <2>2. ConnInv(d) /\ Grows(b, d)
    BY <1>1, <2>1, KeptInv
  <2>3. d.strms[i].open
    BY <1>2, <2>1 DEF Kept, Same, SameStream
  <2> QED
    BY <1>1, <1>8, <2>2, <2>3, GrowsTwice
<1>12. ASSUME NEW bufs, NEW bad \in BOOLEAN, d = Respond(b, i, bufs, bad), ~a.completed,
              bad \/ a.nread + 1 >= page.req
       PROVE  ConnInv(d) /\ Grows(c, d) /\ d.strms[i].open
  <2>1. ~b.streams[i].completed
    BY <1>3, <1>12
  <2>2. bad \/ b.streams[i].nread >= page.req
    BY <1>3, <1>12
  <2>3. ConnInv(d) /\ Grows(b, d) /\ d.strms = b.strms
    BY ONLY <1>1, <1>2, <1>12, <2>1, <2>2, i \in Ids, page \in Pages, Responded
  <2> QED
    BY <1>1, <1>2, <1>8, <2>3, GrowsTwice
<1>13. CASE ~a.completed /\ d = Respond(b, i, << [len |-> 1, what |-> "STATUS"] >>, TRUE)
  <2>1. PICK bufs : bufs = << [len |-> 1, what |-> "STATUS"] >>
    OBVIOUS
  <2>2. d = Respond(b, i, bufs, TRUE)
    BY <1>13, <2>1
  <2>3. PICK bad \in BOOLEAN : bad = TRUE
    OBVIOUS
  <2>4. d = Respond(b, i, bufs, bad) /\ bad
    BY <2>2, <2>3
  <2> QED
    BY ONLY <1>12, <1>13, <2>4
<1>14. CASE ~a.parse_error /\ a.nread + 1 = page.req /\ d = start_response(b, i, w)
  <2>1. PICK bufs : d = Respond(b, i, bufs, FALSE)
    BY <1>14 DEF start_response, send_status_response
  <2>2. PICK bad \in BOOLEAN : bad = FALSE
    OBVIOUS
  <2>3. d = Respond(b, i, bufs, bad)
    BY <2>1, <2>2
  <2>4. ~(a.nread >= page.req) /\ a.nread + 1 >= page.req
    BY <1>5, <1>8, <1>14
  <2>5. ~a.completed
    BY <1>6, <1>14, <2>4
  <2> QED
    BY ONLY <1>12, <2>3, <2>4, <2>5
<1> QED
  BY ONLY <1>9, <1>10, <1>11, <1>13, <1>14

-----------------------------------------------------------------------------
(* The client's application.                                               *)

\* A call on the client's side that sends nothing.
LEMMA ClientKept ==
    ASSUME NEW c, ConnInv(c), ~c.server, NEW d, Shape(d), d.server = c.server,
           d.rtb = c.rtb, d.frq = c.frq, d.max_remote = c.max_remote,
           d.unsent_max = c.unsent_max, d.max_local \in Nat, c.max_local <= d.max_local
    PROVE  Kept(c, d)
BY DEF Kept, Grows

\* A request.
LEMMA RequestKept ==
    ASSUME NEW c, ConnInv(c), ~c.server, NEW d, d = http_resq(c)
    PROVE  Kept(c, d)
<1>1. CASE ~open_bidi_stream(c) \/ c.next > MaxStream
  BY <1>1, KeptItself DEF http_resq
<1>2. CASE ~(~open_bidi_stream(c) \/ c.next > MaxStream)
  <2> PICK i : i = c.next
    OBVIOUS
  <2> PICK q : q = [NoStream EXCEPT !.exists = TRUE, !.should_send_fin = TRUE,
                       !.streambuf = [k \in 1..page.req |-> [len |-> 1, what |-> "REQUEST"]]]
    OBVIOUS
  <2>1. d = [c EXCEPT !.next = @ + 1, !.strms[i].open = TRUE, !.streams[i] = q]
    BY <1>2 DEF http_resq
  <2>2. Shape(c) /\ c.max_local \in Nat
    BY DEF ConnInv
  <2>3. /\ DOMAIN d = ConnFields
        /\ \A k \in ConnFields \ {"next", "strms", "streams"} : d[k] = c[k]
        /\ d.streams = [c.streams EXCEPT ![i] = q]
        /\ d.strms = [c.strms EXCEPT ![i].open = TRUE]
    BY <2>1, <2>2 DEF Shape, ConnFields
  <2>4. DOMAIN q = StreamFields
    BY DEF NoStream, StreamFields
  <2>5. DOMAIN d.streams = Ids /\ \A j \in Ids : DOMAIN d.streams[j] = StreamFields
    BY <2>2, <2>3, <2>4 DEF Shape
  <2>6. DOMAIN d.strms = Ids /\ \A j \in Ids : DOMAIN d.strms[j] = StrmFields
    BY <2>2, <2>3 DEF Shape
  <2>7. Shape(d)
    BY <2>2, <2>3, <2>5, <2>6 DEF Shape, ConnFields
  <2>8. /\ d.server = c.server /\ d.rtb = c.rtb /\ d.frq = c.frq
        /\ d.max_remote = c.max_remote /\ d.unsent_max = c.unsent_max
        /\ d.max_local = c.max_local
    BY <2>3 DEF ConnFields
  <2> QED
    BY <2>2, <2>7, <2>8, ClientKept
<1> QED
  BY <1>1, <1>2

\* Another value for a field of the client that nothing else is about.
LEMMA ClientField ==
    ASSUME NEW c, ConnInv(c), ~c.server, NEW d, DOMAIN d = ConnFields,
           NEW x \in {"nstreams_done", "last_stream_id", "htp", "complete", "crashed"},
           \A k \in ConnFields \ {x} : d[k] = c[k]
    PROVE  Kept(c, d)
<1>1. Shape(c) /\ c.max_local \in Nat
  BY DEF ConnInv
<1>2. /\ d.server = c.server /\ d.rtb = c.rtb /\ d.frq = c.frq
      /\ d.max_remote = c.max_remote /\ d.unsent_max = c.unsent_max
      /\ d.max_local = c.max_local /\ d.strms = c.strms /\ d.streams = c.streams
      /\ d.answers = c.answers
  BY DEF ConnFields
<1>3. Shape(d)
  BY <1>1, <1>2 DEF Shape
<1> QED
  BY <1>1, <1>2, <1>3, ClientKept

\* The requests for the resources of a page.
ResqEq(f, c, m) ==
    f = [k \in 0..m |-> IF k = 0 THEN c ELSE http_resq(f[k - 1])]

\* There is a function that makes one after the other.
LEMMA ResqExists ==
    ASSUME NEW c, NEW m \in Nat
    PROVE  \E f : ResqEq(f, c, m)
<1> DEFINE P == {n \in Nat : \E f : ResqEq(f, c, n)}
<1>1. 0 \in P
  <2>1. PICK f : f = [k \in 0..0 |-> c]
    OBVIOUS
  <2>2. ResqEq(f, c, 0)
    <3>1. \A k \in 0..0 : k = 0
      OBVIOUS
    <3> QED
      BY <2>1, <3>1 DEF ResqEq
  <2> QED
    BY <2>2
<1>2. ASSUME NEW n \in P PROVE n + 1 \in P
  <2>1. PICK f : ResqEq(f, c, n)
    OBVIOUS
  <2>2. PICK g : g = [k \in 0..(n + 1) |-> IF k = n + 1 THEN http_resq(f[n]) ELSE f[k]]
    OBVIOUS
  <2>3. ASSUME NEW k \in 0..(n + 1)
        PROVE  g[k] = IF k = 0 THEN c ELSE http_resq(g[k - 1])
    <3>1. CASE k = n + 1
      <4>1. g[k] = http_resq(f[n]) /\ g[n] = f[n] /\ k - 1 = n /\ k # 0
        BY <2>2, <3>1
      <4> QED
        BY <4>1
    <3>2. CASE k # n + 1
      <4>1. k \in 0..n /\ g[k] = f[k] /\ (k # 0 => k - 1 \in 0..n)
        BY <2>2, <3>2
      <4>2. f[k] = IF k = 0 THEN c ELSE http_resq(f[k - 1])
        BY <2>1, <4>1 DEF ResqEq
      <4>3. k # 0 => g[k - 1] = f[k - 1]
        BY <2>2, <4>1
      <4> QED
        BY <4>1, <4>2, <4>3
    <3> QED
      BY <3>1, <3>2
  <2>4. ResqEq(g, c, n + 1)
    BY <2>2, <2>3 DEF ResqEq
  <2> QED
    BY <2>4
<1>3. P \in SUBSET Nat
  OBVIOUS
<1> HIDE DEF P
<1>4. P = Nat
  BY <1>1, <1>2, <1>3, SetInduction
<1> QED
  BY <1>4 DEF P

\* They are requests, as many as are allowed.
LEMMA ResourcesKept ==
    ASSUME NEW c, ConnInv(c), ~c.server, page \in Pages, NEW d, d = http_req_resourse(c)
    PROVE  Kept(c, d)
<1> PICK m \in Nat : m = page.n
  BY ExchangeAssumption
<1> DEFINE f == CHOOSE f : ResqEq(f, c, m)
<1>1. ResqEq(f, c, m)
  BY ResqExists
<1>2. d = f[m]
  BY DEF http_req_resourse, ResqEq
<1> HIDE DEF f
<1>3. \A k \in 0..m : f[k] = IF k = 0 THEN c ELSE http_resq(f[k - 1])
  BY <1>1 DEF ResqEq
<1> DEFINE P == {k \in Nat : k <= m => Kept(c, f[k])}
<1>4. 0 \in P
  <2>1. f[0] = c
    BY <1>3
  <2> QED
    BY <2>1, KeptItself
<1>5. ASSUME NEW n \in Nat, n \in P PROVE n + 1 \in P
  <2> SUFFICES ASSUME n + 1 <= m PROVE Kept(c, f[n + 1])
    OBVIOUS
  <2> PICK e : e = f[n]
    OBVIOUS
  <2> PICK g : g = f[n + 1]
    OBVIOUS
  <2>1. n + 1 \in 0..m /\ n + 1 # 0 /\ (n + 1) - 1 = n
    OBVIOUS
  <2>2. g = http_resq(e)
    BY <1>3, <2>1
  <2>3. Kept(c, e)
    <3>1. n <= m /\ n \in Nat
      OBVIOUS
    <3>2. n \in P => (n <= m => Kept(c, f[n]))
      BY ONLY n \in Nat
    <3> QED
      BY <1>5, <3>1, <3>2
  <2>4. ConnInv(e) /\ e.server = c.server
    BY <2>3, KeptInv DEF Grows
  <2>5. Kept(e, g)
    BY <2>2, <2>4, RequestKept
  <2>6. c.max_local \in Nat
    BY DEF ConnInv
  <2> QED
    BY <2>3, <2>5, <2>6, KeptTwice
<1> HIDE DEF P
<1>6. m \in P
  BY <1>4, <1>5, SetInduction
<1> QED
  BY <1>2, <1>6 DEF P

\* One stream more of those that the client is to open.
OneMore(d) ==
    LET o == http_resq(d)
    IN  IF d.nstreams_done < page.n /\ o.next # d.next
        THEN [o EXCEPT !.nstreams_done = @ + 1] ELSE d

\* This is a request or nothing.
LEMMA OneMoreKept ==
    ASSUME NEW c, ConnInv(c), ~c.server, NEW d, d = OneMore(c)
    PROVE  Kept(c, d)
<1> PICK o : o = http_resq(c)
  OBVIOUS
<1>1. Kept(c, o)
  BY RequestKept
<1>2. ConnInv(o) /\ o.server = c.server
  BY <1>1, KeptInv DEF Grows
<1>3. CASE d = c
  BY <1>3, KeptItself
<1>4. CASE d = [o EXCEPT !.nstreams_done = @ + 1]
  <2>1. DOMAIN o = ConnFields
    BY <1>2 DEF ConnInv, Shape
  <2>2. DOMAIN d = ConnFields /\ \A k \in ConnFields \ {"nstreams_done"} : d[k] = o[k]
    BY <1>4, <2>1
  <2> PICK x \in {"nstreams_done", "last_stream_id", "htp", "complete", "crashed"} :
        x = "nstreams_done"
    OBVIOUS
  <2>3. \A k \in ConnFields \ {x} : d[k] = o[k]
    BY <2>2
  <2>4. Kept(o, d)
    BY <1>2, <2>2, <2>3, ClientField
  <2>5. c.max_local \in Nat
    BY DEF ConnInv
  <2> QED
    BY <1>1, <2>4, <2>5, KeptTwice
<1> QED
  BY <1>3, <1>4 DEF OneMore

\* One after the other.
OpenEq(f, c, m) ==
    f = [k \in 0..m |-> IF k = 0 THEN c ELSE OneMore(f[k - 1])]

AllStreams(c) == LET f == CHOOSE f : OpenEq(f, c, page.n) IN f[page.n]

\* There is a function that makes one after the other.
LEMMA OpenExists ==
    ASSUME NEW c, NEW m \in Nat
    PROVE  \E f : OpenEq(f, c, m)
<1> DEFINE P == {n \in Nat : \E f : OpenEq(f, c, n)}
<1>1. 0 \in P
  <2>1. PICK f : f = [k \in 0..0 |-> c]
    OBVIOUS
  <2>2. OpenEq(f, c, 0)
    <3>1. \A k \in 0..0 : k = 0
      OBVIOUS
    <3> QED
      BY <2>1, <3>1 DEF OpenEq
  <2> QED
    BY <2>2
<1>2. ASSUME NEW n \in P PROVE n + 1 \in P
  <2>1. PICK f : OpenEq(f, c, n)
    OBVIOUS
  <2>2. PICK g : g = [k \in 0..(n + 1) |-> IF k = n + 1 THEN OneMore(f[n]) ELSE f[k]]
    OBVIOUS
  <2>3. ASSUME NEW k \in 0..(n + 1)
        PROVE  g[k] = IF k = 0 THEN c ELSE OneMore(g[k - 1])
    <3>1. CASE k = n + 1
      <4>1. g[k] = OneMore(f[n]) /\ g[n] = f[n] /\ k - 1 = n /\ k # 0
        BY <2>2, <3>1
      <4> QED
        BY <4>1
    <3>2. CASE k # n + 1
      <4>1. k \in 0..n /\ g[k] = f[k] /\ (k # 0 => k - 1 \in 0..n)
        BY <2>2, <3>2
      <4>2. f[k] = IF k = 0 THEN c ELSE OneMore(f[k - 1])
        BY <2>1, <4>1 DEF OpenEq
      <4>3. k # 0 => g[k - 1] = f[k - 1]
        BY <2>2, <4>1
      <4> QED
        BY <4>1, <4>2, <4>3
    <3> QED
      BY <3>1, <3>2
  <2>4. OpenEq(g, c, n + 1)
    BY <2>2, <2>3 DEF OpenEq
  <2> QED
    BY <2>4
<1>3. P \in SUBSET Nat
  OBVIOUS
<1> HIDE DEF P
<1>4. P = Nat
  BY <1>1, <1>2, <1>3, SetInduction
<1> QED
  BY <1>4 DEF P

\* They are requests, as many as are allowed.
LEMMA StreamsOpenedKept ==
    ASSUME NEW c, ConnInv(c), ~c.server, page \in Pages, NEW d, d = AllStreams(c)
    PROVE  Kept(c, d)
<1> PICK m \in Nat : m = page.n
  BY ExchangeAssumption
<1> DEFINE f == CHOOSE f : OpenEq(f, c, m)
<1>1. OpenEq(f, c, m)
  BY OpenExists
<1>2. d = f[m]
  BY DEF AllStreams, OpenEq
<1> HIDE DEF f
<1>3. \A k \in 0..m : f[k] = IF k = 0 THEN c ELSE OneMore(f[k - 1])
  BY <1>1 DEF OpenEq
<1> DEFINE P == {k \in Nat : k <= m => Kept(c, f[k])}
<1>4. 0 \in P
  <2>1. f[0] = c
    BY <1>3
  <2> QED
    BY <2>1, KeptItself
<1>5. ASSUME NEW n \in Nat, n \in P PROVE n + 1 \in P
  <2> SUFFICES ASSUME n + 1 <= m PROVE Kept(c, f[n + 1])
    OBVIOUS
  <2> PICK e : e = f[n]
    OBVIOUS
  <2> PICK g : g = f[n + 1]
    OBVIOUS
  <2>1. n + 1 \in 0..m /\ n + 1 # 0 /\ (n + 1) - 1 = n
    OBVIOUS
  <2>2. g = OneMore(e)
    BY <1>3, <2>1
  <2>3. Kept(c, e)
    <3>1. n <= m /\ n \in Nat
      OBVIOUS
    <3>2. n \in P => (n <= m => Kept(c, f[n]))
      BY ONLY n \in Nat
    <3> QED
      BY <1>5, <3>1, <3>2
  <2>4. ConnInv(e) /\ e.server = c.server
    BY <2>3, KeptInv DEF Grows
  <2>5. Kept(e, g)
    BY <2>2, <2>4, OneMoreKept
  <2>6. c.max_local \in Nat
    BY DEF ConnInv
  <2> QED
    BY <2>3, <2>5, <2>6, KeptTwice
<1> HIDE DEF P
<1>6. m \in P
  BY <1>4, <1>5, SetInduction
<1> QED
  BY <1>2, <1>6 DEF P

\* The streams that a new limit allows.
LEMMA ExtendKept ==
    ASSUME NEW c, ConnInv(c), ~c.server, page \in Pages, NEW d, d = on_extend_max_stream_id(c)
    PROVE  Kept(c, d)
<1>1. CASE ~page.interactive
  <2>1. d = AllStreams(c)
    BY <1>1 DEF on_extend_max_stream_id, AllStreams, OpenEq, OneMore
  <2> QED
    BY <2>1, StreamsOpenedKept
<1>2. CASE page.interactive /\ d = c
  BY <1>2, KeptItself
<1>3. CASE page.interactive /\ d = start_interactive_input(c)
  <2> PICK o : o = http_resq(c)
    OBVIOUS
  <2>1. Kept(c, o)
    BY RequestKept
  <2>2. ConnInv(o) /\ o.server = c.server
    BY <2>1, KeptInv DEF Grows
  <2>3. DOMAIN o = ConnFields
    BY <2>2 DEF ConnInv, Shape
  <2>4. d = [o EXCEPT !.last_stream_id = o.next - 1]
    BY <1>3 DEF start_interactive_input
  <2>5. DOMAIN d = ConnFields /\ \A k \in ConnFields \ {"last_stream_id"} : d[k] = o[k]
    BY <2>3, <2>4
  <2> PICK x \in {"nstreams_done", "last_stream_id", "htp", "complete", "crashed"} :
        x = "last_stream_id"
    OBVIOUS
  <2>6. \A k \in ConnFields \ {x} : d[k] = o[k]
    BY <2>5
  <2>7. Kept(o, d)
    BY <2>2, <2>5, <2>6, ClientField
  <2>8. c.max_local \in Nat
    BY DEF ConnInv
  <2> QED
    BY <2>1, <2>7, <2>8, KeptTwice
<1> QED
  BY <1>1, <1>2, <1>3 DEF on_extend_max_stream_id

\* A message is complete.
LEMMA MessageKept ==
    ASSUME NEW c, ConnInv(c), ~c.server, page \in Pages, NEW d, d = message_complete_cb(c)
    PROVE  Kept(c, d)
<1> PICK o : o = [c EXCEPT !.complete = TRUE]
  OBVIOUS
<1>1. DOMAIN c = ConnFields
  BY DEF ConnInv, Shape
<1>2. DOMAIN o = ConnFields /\ \A k \in ConnFields \ {"complete"} : o[k] = c[k]
  BY <1>1
<1> PICK x \in {"nstreams_done", "last_stream_id", "htp", "complete", "crashed"} :
      x = "complete"
  OBVIOUS
<1>3. \A k \in ConnFields \ {x} : o[k] = c[k]
  BY <1>2
<1>4. Kept(c, o)
  BY <1>2, <1>3, ClientField
<1>5. ConnInv(o) /\ o.server = c.server
  BY <1>4, KeptInv DEF Grows
<1>6. CASE d = c
  BY <1>6, KeptItself
<1>7. CASE d = o
  BY <1>4, <1>7
<1>8. CASE d = http_req_resourse(o)
  <2>1. Kept(o, d)
    BY <1>5, <1>8, ResourcesKept
  <2>2. c.max_local \in Nat
    BY DEF ConnInv
  <2> QED
    BY <1>4, <2>1, <2>2, KeptTwice
<1> QED
  BY <1>6, <1>7, <1>8 DEF message_complete_cb

\* The client reads a unit.
LEMMA ClientRecvData ==
    ASSUME NEW c, ConnInv(c), ~c.server, NEW i \in Ids, page \in Pages, NEW what, NEW w,
           NEW d, d = client_recv_data(c, i, what, w)
    PROVE  Kept(c, d)
<1> PICK h : h = IF c.htp = "error" THEN "error"
                 ELSE IF c.htp = "idle"
                 THEN CASE what = "HEADER" -> "body"
                        [] what = "BODY" -> "error"
                        [] OTHER -> "idle"
                 ELSE IF what = "BODY" THEN "idle" ELSE w
  OBVIOUS
<1> PICK o : o = [c EXCEPT !.htp = h]
  OBVIOUS
<1>1. DOMAIN c = ConnFields
  BY DEF ConnInv, Shape
<1>2. DOMAIN o = ConnFields /\ \A k \in ConnFields \ {"htp"} : o[k] = c[k]
  BY <1>1
<1> PICK x \in {"nstreams_done", "last_stream_id", "htp", "complete", "crashed"} :
      x = "htp"
  OBVIOUS
<1>3. \A k \in ConnFields \ {x} : o[k] = c[k]
  BY <1>2
<1>4. Kept(c, o)
  BY <1>2, <1>3, ClientField
<1>5. ConnInv(o) /\ o.server = c.server
  BY <1>4, KeptInv DEF Grows
<1>6. d = CASE h = "idle" -> message_complete_cb(o)
            [] h = "error" -> shutdown_stream(o, i)
            [] OTHER -> o
  BY DEF client_recv_data
<1>7. Kept(o, d)
  <2>1. CASE d = message_complete_cb(o)
    BY <1>5, <2>1, MessageKept
  <2>2. CASE d = shutdown_stream(o, i)
    BY <1>5, <2>2, ShutdownStream
  <2>3. CASE d = o
    BY <1>5, <2>3, KeptItself
  <2> QED
    BY <1>6, <2>1, <2>2, <2>3
<1>8. c.max_local \in Nat
  BY DEF ConnInv
<1> QED
  BY <1>4, <1>7, <1>8, KeptTwice

-----------------------------------------------------------------------------
(* Receiving frames.                                                       *)

\* Either application reads a unit of an open stream.
LEMMA RecvData ==
    ASSUME NEW c, ConnInv(c), NEW i \in Ids, c.server => c.strms[i].open, page \in Pages,
           NEW what, NEW w, NEW d, d = recv_stream_data(c, i, what, w)
    PROVE  ConnInv(d) /\ Grows(c, d) /\ (d.server => d.strms[i].open)
<1>1. CASE c.server
  <2>1. d = server_recv_data(c, i, w)
    BY <1>1 DEF recv_stream_data
  <2> QED
    BY <1>1, <2>1, ServerRecvData
<1>2. CASE ~c.server
  <2>1. d = client_recv_data(c, i, what, w)
    BY <1>2 DEF recv_stream_data
  <2>2. Kept(c, d)
    BY <1>2, <2>1, ClientRecvData
  <2> QED
    BY <1>2, <2>2, KeptInv DEF Grows
<1> QED
  BY <1>1, <1>2

\* Data in order is read with what waited for it.
LEMMA Delivered ==
    ASSUME NEW c, ConnInv(c), NEW f, f.id \in Ids, c.server => c.strms[f.id].open,
           page \in Pages, NEW w, NEW d, d = Deliver(c, f, w)
    PROVE  ConnInv(d) /\ Grows(c, d)
<1> DEFINE i    == f.id
           n    == f.off + f.len
           up   == {u \in c.strms[i].rob : u[1] = n}
           rest == {u \in c.strms[i].rob : u[1] > n}
<1>1. PICK b : b = [c EXCEPT !.strms[i].rx = n + Cardinality(up),
                             !.strms[i].rob = {u \in @ : u[1] > n}]
  OBVIOUS
<1>2. PICK b2 : b2 = recv_stream_data(b, i, f.what, w)
  OBVIOUS
<1>3. PICK what : what = (CHOOSE u \in up : TRUE)[2]
  OBVIOUS
<1>4. d = IF up = {} THEN b2 ELSE recv_stream_data(b2, i, what, w)
  BY <1>1, <1>2, <1>3, SMTT(30) DEF Deliver
<1>5. PICK r : r = [c.strms[i] EXCEPT !.rx = n + Cardinality(up), !.rob = rest]
  OBVIOUS
<1>6. Shape(c)
  BY DEF ConnInv
<1>7. b = WithStrm(c, i, r)
  BY <1>1, <1>5, <1>6 DEF WithStrm, Shape, ConnFields, StrmFields
<1>8. DOMAIN r = StrmFields /\ r.open = c.strms[i].open
  BY <1>5, <1>6 DEF Shape, StrmFields
<1> HIDE DEF n, up, rest
<1>9. Kept(c, b) /\ b.strms[i] = r
  BY ONLY <1>7, <1>8, ConnInv(c), f.id \in Ids, StrmKept
<1>10. c.max_local \in Nat
  BY DEF ConnInv
<1>11. ConnInv(b) /\ Grows(c, b)
  BY <1>9, KeptInv
<1>12. b.server => b.strms[i].open
  BY <1>8, <1>9, <1>11 DEF Grows
<1>13. ConnInv(b2) /\ Grows(b, b2) /\ (b2.server => b2.strms[i].open)
  BY ONLY <1>2, <1>11, <1>12, f.id \in Ids, page \in Pages, RecvData
<1>14. Grows(c, b2)
  BY <1>10, <1>11, <1>13, GrowsTwice
<1>15. CASE d = b2
  BY <1>13, <1>14, <1>15
<1>16. CASE d = recv_stream_data(b2, i, what, w)
  <2>1. ConnInv(d) /\ Grows(b2, d)
    BY ONLY <1>13, <1>16, f.id \in Ids, page \in Pages, RecvData
  <2> QED
    BY <1>10, <1>14, <2>1, GrowsTwice
<1> QED
  BY <1>4, <1>15, <1>16

\* An id that was free is taken, and its stream may be opened.
LEMMA IdTaken ==
    ASSUME NEW c, ConnInv(c), c.server, NEW i \in Ids, Free(c.idtr, i), i <= c.max_remote,
           NEW d, Shape(d), Grows(c, d), d.rtb = c.rtb, d.frq = c.frq,
           d.unsent_max = c.unsent_max, d.answers = c.answers, d.streams = c.streams,
           d.idtr = idtr_open(c.idtr, i),
           \A j \in Ids : j # i => d.strms[j].open = c.strms[j].open
    PROVE  ConnInv(d)
<1>1. /\ c.server \in BOOLEAN /\ c.max_remote \in Nat /\ c.unsent_max \in Nat
      /\ c.max_remote <= c.unsent_max
      /\ \A f \in c.rtb : OfSide(c.server, f)
      /\ \A f \in c.frq : OfStream(c.server, f)
      /\ ServerInv(c)
  BY DEF ConnInv
<1>2. d.server = c.server /\ d.max_remote = c.max_remote /\ d.max_local \in Nat
  BY DEF Grows
<1>3. i \in Nat
  BY ExchangeAssumption DEF Ids
<1>4. Tracker(c.idtr)
  BY <1>1 DEF ServerInv
<1>5. Tracker(d.idtr) /\ ~Free(d.idtr, i) /\ \A j \in Nat : Free(d.idtr, j) => Free(c.idtr, j)
  BY <1>3, <1>4, IdtrOpen
<1>6. \A j \in Ids : Free(d.idtr, j) => Free(c.idtr, j)
  <2>1. Ids \subseteq Nat
    BY ExchangeAssumption DEF Ids
  <2> QED
    BY <1>5, <2>1
<1>7. \A j \in Ids : Opened(c, j) => Opened(d, j)
  BY <1>2, <1>6 DEF Opened
<1>8. \A j \in Ids : d.strms[j].open => Opened(d, j)
  <2> SUFFICES ASSUME NEW j \in Ids, d.strms[j].open PROVE Opened(d, j)
    OBVIOUS
  <2>1. CASE j = i
    BY <1>2, <1>5, <2>1 DEF Opened
  <2>2. CASE j # i
    BY <1>1, <1>7, <2>2 DEF ServerInv
  <2> QED
    BY <2>1, <2>2
<1>9. \A j \in Ids : Answers(d, j)
  <2> SUFFICES ASSUME NEW j \in Ids PROVE Answers(d, j)
    OBVIOUS
  <2>1. Answers(c, j)
    BY <1>1 DEF ServerInv
  <2>2. CASE j = i
    <3>1. c.answers[j] = 0
      BY <2>1, <2>2 DEF Answers
    <3> QED
      BY <2>1, <3>1 DEF Answers
  <2>3. CASE j # i
    BY <1>6, <2>1, <2>3 DEF Answers
  <2> QED
    BY <2>2, <2>3
<1>10. \E C \in SUBSET Ids : /\ \A j \in C : Closed(d, j)
                             /\ d.unsent_max <= page.limit + Cardinality(C)
  <2>1. PICK C \in SUBSET Ids : /\ \A j \in C : Closed(c, j)
                                /\ c.unsent_max <= page.limit + Cardinality(C)
    BY <1>1 DEF ServerInv
  <2>2. ASSUME NEW j \in C PROVE Closed(d, j)
    <3>1. Closed(c, j) /\ j \in Ids
      BY <2>1
    <3>2. j # i
      BY <3>1 DEF Closed, Opened
    <3> QED
      BY <1>7, <3>1, <3>2 DEF Closed
  <2>3. d.unsent_max <= page.limit + Cardinality(C)
    BY <2>1
  <2> QED
    BY <2>2, <2>3
<1>11. ServerInv(d)
  BY <1>5, <1>8, <1>9, <1>10 DEF ServerInv
<1> QED
  BY <1>1, <1>2, <1>11 DEF ConnInv

\* A new value for one stream of an application.
WithStream(c, i, q) == [c EXCEPT !.streams[i] = q]

\* It is nothing new when the parse is where it was.
LEMMA AppKept ==
    ASSUME NEW c, ConnInv(c), NEW i \in Ids, NEW q, DOMAIN q = StreamFields,
           q.completed = c.streams[i].completed, q.parse_error = c.streams[i].parse_error,
           q.nread = c.streams[i].nread, NEW d, d = WithStream(c, i, q)
    PROVE  Kept(c, d) /\ d.strms = c.strms
<1>1. Shape(c)
  BY DEF ConnInv
<1>2. c.max_local \in Nat
  BY DEF ConnInv
<1>3. /\ DOMAIN d = ConnFields
      /\ \A k \in ConnFields \ {"streams"} : d[k] = c[k]
      /\ d.streams = [c.streams EXCEPT ![i] = q]
  BY <1>1 DEF WithStream, Shape, ConnFields
<1>4. /\ DOMAIN d.streams = Ids /\ d.streams[i] = q
      /\ \A j \in Ids : j # i => d.streams[j] = c.streams[j]
  BY <1>1, <1>3 DEF Shape
<1>5. /\ d.server = c.server /\ d.rtb = c.rtb /\ d.frq = c.frq
      /\ d.max_remote = c.max_remote /\ d.unsent_max = c.unsent_max
      /\ d.max_local = c.max_local /\ d.strms = c.strms /\ d.answers = c.answers
      /\ d.idtr = c.idtr
  BY <1>3 DEF ConnFields
<1>6. Shape(d)
  BY <1>1, <1>3, <1>4, <1>5 DEF Shape
<1>7. Grows(c, d)
  BY ONLY <1>2, <1>5 DEF Grows
<1>8. Same(c, d)
  BY <1>4, <1>5 DEF Same, SameStream
<1> QED
  BY <1>5, <1>6, <1>7, <1>8 DEF Kept

\* A frame for a stream that is open.
LEMMA RecvStreamOpen ==
    ASSUME NEW c, ConnInv(c), NEW f, f.id \in Ids, c.server => c.strms[f.id].open,
           page \in Pages, NEW w, NEW d, d = recv_stream_open(c, f, w)
    PROVE  ConnInv(d) /\ Grows(c, d)
<1> DEFINE i    == f.id
           end  == f.off + f.len
           last == [c EXCEPT !.strms[i].last_rx = IF @ < end THEN end ELSE @,
                             !.strms[i].shut_rd = @ \/ f.fin]
           data == IF f.off <= c.strms[i].rx THEN Deliver(last, f, w)
                   ELSE IF f.len = 0 THEN last
                   ELSE [last EXCEPT !.strms[i].rob = @ \cup {<<f.off, f.what>>}]
           eof  == [last EXCEPT !.streams[i].exists = @ \/ c.server]
<1>1. d = IF c.strms[i].shut_rd /\ ((f.fin /\ c.strms[i].last_rx # end)
                                     \/ c.strms[i].last_rx < end) THEN Error(c)
          ELSE IF f.fin /\ c.strms[i].shut_rd THEN c
          ELSE IF f.fin /\ c.strms[i].last_rx > end THEN Error(c)
          ELSE IF f.fin /\ c.strms[i].stop_sending THEN close_stream_if_shut_rdwr(last, i)
          ELSE IF f.fin /\ end = c.strms[i].rx THEN close_stream_if_shut_rdwr(eof, i)
          ELSE IF ~f.fin /\ (end <= c.strms[i].rx \/ c.strms[i].stop_sending) THEN last
          ELSE close_stream_if_shut_rdwr(data, i)
  BY DEF recv_stream_open
<1>2. Shape(c)
  BY DEF ConnInv
<1>3. c.max_local \in Nat
  BY DEF ConnInv
<1>4. PICK l : l = last
  OBVIOUS
<1>22. PICK x : x = IF c.strms[i].last_rx < end THEN end ELSE c.strms[i].last_rx
  OBVIOUS
<1>23. PICK y : y = (c.strms[i].shut_rd \/ f.fin)
  OBVIOUS
<1>5. PICK r : r = [c.strms[i] EXCEPT !.last_rx = x, !.shut_rd = y]
  OBVIOUS
<1>24. l = [c EXCEPT !.strms[i].last_rx = x, !.strms[i].shut_rd = y]
  BY <1>2, <1>4, <1>22, <1>23 DEF Shape, ConnFields, StrmFields
<1>6. DOMAIN r = StrmFields /\ r.open = c.strms[i].open
  BY <1>2, <1>5 DEF Shape, StrmFields
<1>7. l = WithStrm(c, i, r)
  <2>1. [c EXCEPT !.strms[i].last_rx = x, !.strms[i].shut_rd = y]
        = [c EXCEPT !.strms[i] = [c.strms[i] EXCEPT !.last_rx = x, !.shut_rd = y]]
    BY <1>2 DEF Shape, ConnFields
  <2> QED
    BY <1>5, <1>24, <2>1 DEF WithStrm
<1>8. PICK dt : dt = data
  <2> HIDE DEF data
  <2> QED
    OBVIOUS
<1>9. PICK ef : ef = eof
  OBVIOUS
<1>10. \/ d = Error(c) \/ d = c \/ d = l
       \/ d = close_stream_if_shut_rdwr(l, i)
       \/ d = close_stream_if_shut_rdwr(ef, i)
       \/ d = close_stream_if_shut_rdwr(dt, i)
  <2> HIDE DEF end, last, data, eof
  <2> QED
    BY ONLY <1>1, <1>4, <1>8, <1>9, SMTT(30)
<1>11. dt = Deliver(l, f, w) \/ dt = l \/ dt = [l EXCEPT !.strms[i].rob = @ \cup {<<f.off, f.what>>}]
  BY ONLY <1>4, <1>8
<1>12. ef = [l EXCEPT !.streams[i].exists = @ \/ c.server]
  BY ONLY <1>4, <1>9
<1> HIDE DEF end, last, data, eof
<1>13. Kept(c, l) /\ l.strms[i] = r
  BY ONLY <1>6, <1>7, ConnInv(c), f.id \in Ids, StrmKept
<1>14. ConnInv(l) /\ Grows(c, l)
  BY <1>13, KeptInv
<1>15. l.server => l.strms[i].open
  BY <1>6, <1>13, <1>14 DEF Grows
<1>16. Shape(l)
  BY <1>14 DEF ConnInv
<1>17. ConnInv(dt) /\ Grows(c, dt)
  <2>1. CASE dt = l
    BY <1>14, <2>1
  <2>2. CASE dt = Deliver(l, f, w)
    <3>1. ConnInv(dt) /\ Grows(l, dt)
      BY ONLY <1>14, <1>15, <2>2, f.id \in Ids, page \in Pages, Delivered
    <3> QED
      BY <1>3, <1>14, <3>1, GrowsTwice
  <2>3. CASE dt = [l EXCEPT !.strms[i].rob = @ \cup {<<f.off, f.what>>}]
    <3>1. PICK s : s = [l.strms[i] EXCEPT !.rob = @ \cup {<<f.off, f.what>>}]
      OBVIOUS
    <3>2. DOMAIN s = StrmFields /\ s.open = l.strms[i].open
      BY <1>16, <3>1 DEF Shape, StrmFields
    <3>3. dt = WithStrm(l, i, s)
      BY <1>16, <2>3, <3>1 DEF WithStrm, Shape, ConnFields, StrmFields
    <3>4. Kept(l, dt)
      BY ONLY <1>14, <3>2, <3>3, f.id \in Ids, StrmKept
    <3>5. ConnInv(dt) /\ Grows(l, dt)
      BY <1>14, <3>4, KeptInv
    <3> QED
      BY <1>3, <1>14, <3>5, GrowsTwice
  <2> QED
    BY <1>11, <2>1, <2>2, <2>3
<1>18. ConnInv(ef) /\ Grows(c, ef)
  <2>1. PICK q : q = [l.streams[i] EXCEPT !.exists = @ \/ c.server]
    OBVIOUS
  <2>2. /\ DOMAIN q = StreamFields /\ q.completed = l.streams[i].completed
        /\ q.parse_error = l.streams[i].parse_error /\ q.nread = l.streams[i].nread
    BY <1>16, <2>1 DEF Shape, StreamFields
  <2>3. ef = WithStream(l, i, q)
    BY <1>12, <1>16, <2>1 DEF WithStream, Shape, ConnFields, StreamFields
  <2>4. Kept(l, ef)
    BY ONLY <1>14, <2>2, <2>3, f.id \in Ids, AppKept
  <2>5. ConnInv(ef) /\ Grows(l, ef)
    BY <1>14, <2>4, KeptInv
  <2> QED
    BY <1>3, <1>14, <2>5, GrowsTwice
<1>19. ASSUME NEW b, ConnInv(b), Grows(c, b), d = close_stream_if_shut_rdwr(b, i)
       PROVE  ConnInv(d) /\ Grows(c, d)
  <2>1. ConnInv(d) /\ Grows(b, d)
    BY ONLY <1>19, f.id \in Ids, page \in Pages, CloseIfShut
  <2> QED
    BY <1>3, <1>19, <2>1, GrowsTwice
<1>20. CASE d = Error(c)
  <2>1. Kept(c, d)
    BY <1>20, KeptError
  <2> QED
    BY <2>1, KeptInv
<1>21. CASE d = c
  BY <1>21, KeptItself
<1> QED
  BY ONLY <1>10, <1>14, <1>17, <1>18, <1>19, <1>20, <1>21, ConnInv(c)

\* conn_recv_stream.
LEMMA RecvStream ==
    ASSUME NEW c, ConnInv(c), NEW f, f.id \in Ids, page \in Pages, NEW w,
           NEW d, d = recv_stream(c, f, w)
    PROVE  ConnInv(d) /\ Grows(c, d)
<1>0. PICK i \in Ids : i = f.id
  OBVIOUS
<1>1. PICK b : b = [c EXCEPT !.idtr = idtr_open(@, i), !.strms[i].open = TRUE]
  OBVIOUS
<1>2. \/ d = Error(c) \/ d = c
      \/ c.strms[i].open /\ d = recv_stream_open(c, f, w)
      \/ c.server /\ ~(c.max_remote < i) /\ Free(c.idtr, i) /\ d = recv_stream_open(b, f, w)
  BY <1>0, <1>1 DEF recv_stream
<1>3. CASE d = Error(c)
  <2>1. Kept(c, d)
    BY <1>3, KeptError
  <2> QED
    BY <2>1, KeptInv
<1>4. CASE d = c
  BY <1>4, KeptItself
<1>5. CASE c.strms[i].open /\ d = recv_stream_open(c, f, w)
  BY <1>0, <1>5, RecvStreamOpen
<1>6. CASE c.server /\ ~(c.max_remote < i) /\ Free(c.idtr, i) /\ d = recv_stream_open(b, f, w)
  <2>1. Shape(c)
    BY DEF ConnInv
  <2>2. c.max_local \in Nat
    BY DEF ConnInv
  <2>3. i <= c.max_remote
    BY <1>6, ExchangeAssumption DEF ConnInv, Ids
  <2>4. /\ DOMAIN b = ConnFields
        /\ \A k \in ConnFields \ {"strms", "idtr"} : b[k] = c[k]
        /\ b.idtr = idtr_open(c.idtr, i)
        /\ b.strms = [c.strms EXCEPT ![i].open = TRUE]
    BY <1>1, <2>1 DEF Shape, ConnFields
  <2>5. /\ DOMAIN b.strms = Ids /\ b.strms[i].open
        /\ \A j \in Ids : j # i => b.strms[j] = c.strms[j]
        /\ \A j \in Ids : DOMAIN b.strms[j] = StrmFields
    BY <2>1, <2>4 DEF Shape, StrmFields
  <2>6. /\ b.server = c.server /\ b.rtb = c.rtb /\ b.frq = c.frq
        /\ b.max_remote = c.max_remote /\ b.unsent_max = c.unsent_max
        /\ b.max_local = c.max_local /\ b.streams = c.streams /\ b.answers = c.answers
    BY <2>4 DEF ConnFields
  <2>7. Shape(b)
    BY <2>1, <2>4, <2>5, <2>6 DEF Shape
  <2>8. Grows(c, b)
    BY ONLY <2>2, <2>6 DEF Grows
  <2>9. \A j \in Ids : j # i => b.strms[j].open = c.strms[j].open
    BY <2>5
  <2>10. ConnInv(b)
    BY ONLY <1>6, <2>3, <2>4, <2>6, <2>7, <2>8, <2>9, ConnInv(c), i \in Ids, IdTaken
  <2>11. b.strms[f.id].open
    BY <1>0, <2>5
  <2>12. ConnInv(d) /\ Grows(b, d)
    BY ONLY <1>6, <2>10, <2>11, f.id \in Ids, page \in Pages, RecvStreamOpen
  <2> QED
    BY <2>2, <2>8, <2>12, GrowsTwice
<1> QED
  BY <1>2, <1>3, <1>4, <1>5, <1>6

\* An id is used up.
LEMMA UsedUp ==
    ASSUME NEW c, ConnInv(c), NEW i \in Ids, ~(c.server /\ c.max_remote < i),
           NEW d, d = UseUp(c, i)
    PROVE  ConnInv(d) /\ Grows(c, d)
<1>1. CASE d = c
  BY <1>1, KeptItself
<1>2. CASE c.server /\ Free(c.idtr, i) /\ d = [c EXCEPT !.idtr = idtr_open(@, i)]
  <2>1. Shape(c)
    BY DEF ConnInv
  <2>2. c.max_local \in Nat
    BY DEF ConnInv
  <2>3. i <= c.max_remote
    BY <1>2, ExchangeAssumption DEF ConnInv, Ids
  <2>4. /\ DOMAIN d = ConnFields
        /\ \A k \in ConnFields \ {"idtr"} : d[k] = c[k]
        /\ d.idtr = idtr_open(c.idtr, i)
    BY <1>2, <2>1 DEF Shape, ConnFields
  <2>5. /\ d.server = c.server /\ d.rtb = c.rtb /\ d.frq = c.frq
        /\ d.max_remote = c.max_remote /\ d.unsent_max = c.unsent_max
        /\ d.max_local = c.max_local /\ d.streams = c.streams /\ d.answers = c.answers
        /\ d.strms = c.strms
    BY <2>4 DEF ConnFields
  <2>6. Shape(d)
    BY <2>1, <2>4, <2>5 DEF Shape
  <2>7. Grows(c, d)
    BY ONLY <2>2, <2>5 DEF Grows
  <2>8. \A j \in Ids : j # i => d.strms[j].open = c.strms[j].open
    BY <2>5
  <2>9. ConnInv(d)
    BY ONLY <1>2, <2>3, <2>4, <2>5, <2>6, <2>7, <2>8, ConnInv(c), i \in Ids, IdTaken
  <2> QED
    BY <2>7, <2>9
<1> QED
  BY <1>1, <1>2 DEF UseUp

\* conn_recv_rst_stream.
LEMMA RecvRst ==
    ASSUME NEW c, ConnInv(c), NEW f, f.id \in Ids, page \in Pages,
           NEW d, d = recv_rst_stream(c, f)
    PROVE  ConnInv(d) /\ Grows(c, d)
<1>0. PICK i \in Ids : i = f.id
  OBVIOUS
<1>1. PICK b : b = [c EXCEPT !.strms[i].shut_rd = TRUE, !.strms[i].recv_rst = TRUE]
  OBVIOUS
<1>2. \/ d = Error(c)
      \/ ~(c.server /\ c.max_remote < i) /\ d = UseUp(c, i)
      \/ d = close_stream_if_shut_rdwr(b, i)
  BY <1>0, <1>1 DEF recv_rst_stream
<1>3. CASE d = Error(c)
  <2>1. Kept(c, d)
    BY <1>3, KeptError
  <2> QED
    BY <2>1, KeptInv
<1>4. CASE ~(c.server /\ c.max_remote < i) /\ d = UseUp(c, i)
  BY <1>4, UsedUp
<1>5. CASE d = close_stream_if_shut_rdwr(b, i)
  <2>1. Shape(c)
    BY DEF ConnInv
  <2>2. c.max_local \in Nat
    BY DEF ConnInv
  <2>3. PICK r : r = [c.strms[i] EXCEPT !.shut_rd = TRUE, !.recv_rst = TRUE]
    OBVIOUS
  <2>4. DOMAIN r = StrmFields /\ r.open = c.strms[i].open
    BY <2>1, <2>3 DEF Shape, StrmFields
  <2>5. b = WithStrm(c, i, r)
    BY <1>1, <2>1, <2>3 DEF WithStrm, Shape, ConnFields, StrmFields
  <2>6. Kept(c, b)
    BY ONLY <2>4, <2>5, ConnInv(c), i \in Ids, StrmKept
  <2>7. ConnInv(b) /\ Grows(c, b)
    BY <2>6, KeptInv
  <2>8. ConnInv(d) /\ Grows(b, d)
    BY <1>5, <2>7, CloseIfShut
  <2> QED
    BY <2>2, <2>7, <2>8, GrowsTwice
<1> QED
  BY <1>2, <1>3, <1>4, <1>5

\* conn_recv_stop_sending.
LEMMA RecvStop ==
    ASSUME NEW c, ConnInv(c), NEW f, f.id \in Ids, page \in Pages,
           NEW d, d = recv_stop_sending(c, f)
    PROVE  ConnInv(d) /\ Grows(c, d)
<1>0. PICK i \in Ids : i = f.id
  OBVIOUS
<1>1. PICK g : g = Frame(c, "RST", i, c.strms[i].tx, 0, FALSE, "STOPPING")
  OBVIOUS
<1>2. PICK b : b = [c EXCEPT !.strms[i].shut_wr = TRUE, !.strms[i].sent_rst = TRUE,
                             !.frq = @ \cup {g}]
  OBVIOUS
<1>3. \/ d = Error(c)
      \/ ~(c.server /\ c.max_remote < i) /\ d = UseUp(c, i)
      \/ d = close_stream_if_shut_rdwr(b, i)
  BY <1>0, <1>1, <1>2 DEF recv_stop_sending
<1>4. CASE d = Error(c)
  <2>1. Kept(c, d)
    BY <1>4, KeptError
  <2> QED
    BY <2>1, KeptInv
<1>5. CASE ~(c.server /\ c.max_remote < i) /\ d = UseUp(c, i)
  BY <1>5, UsedUp
<1>6. CASE d = close_stream_if_shut_rdwr(b, i)
  <2>1. Shape(c)
    BY DEF ConnInv
  <2>2. c.max_local \in Nat
    BY DEF ConnInv
  <2>3. OfStream(c.server, g)
    BY <1>1 DEF Frame, OfStream, Other
  <2>4. /\ DOMAIN b = ConnFields
        /\ \A k \in ConnFields \ {"strms", "frq"} : b[k] = c[k]
        /\ b.frq = c.frq \cup {g}
    BY <1>2, <2>1 DEF Shape, ConnFields
  <2>5. /\ DOMAIN b.strms = Ids
        /\ \A j \in Ids : DOMAIN b.strms[j] = StrmFields /\ b.strms[j].open = c.strms[j].open
    <3>1. PICK r : r = [c.strms[i] EXCEPT !.shut_wr = TRUE, !.sent_rst = TRUE]
      OBVIOUS
    <3>2. DOMAIN r = StrmFields /\ r.open = c.strms[i].open
      BY <2>1, <3>1 DEF Shape, StrmFields
    <3>3. b.strms = [c.strms EXCEPT ![i] = r]
      BY <1>2, <2>1, <3>1 DEF Shape, ConnFields, StrmFields
    <3> QED
      BY <2>1, <3>2, <3>3 DEF Shape
  <2>6. /\ b.server = c.server /\ b.rtb = c.rtb
        /\ b.max_remote = c.max_remote /\ b.unsent_max = c.unsent_max
        /\ b.max_local = c.max_local /\ b.streams = c.streams /\ b.answers = c.answers
        /\ b.idtr = c.idtr
    BY <2>4 DEF ConnFields
  <2>7. Shape(b)
    BY <2>1, <2>4, <2>5, <2>6 DEF Shape
  <2>8. Grows(c, b)
    BY ONLY <2>2, <2>6 DEF Grows
  <2>9. Same(c, b)
    BY <2>5, <2>6 DEF Same, SameStream
  <2>10. Kept(c, b)
    BY <2>3, <2>4, <2>6, <2>7, <2>8, <2>9 DEF Kept
  <2>11. ConnInv(b) /\ Grows(c, b)
    BY <2>10, KeptInv
  <2>12. ConnInv(d) /\ Grows(b, d)
    BY ONLY <1>6, <2>11, i \in Ids, page \in Pages, CloseIfShut
  <2> QED
    BY <2>2, <2>8, <2>12, GrowsTwice
<1> QED
  BY <1>3, <1>4, <1>5, <1>6

\* conn_recv_max_stream_id: the client knows the limit it was told.
LEMMA RecvMax ==
    ASSUME NEW c, ConnInv(c), ~c.server, NEW f, f.id \in Nat, page \in Pages,
           NEW d, d = recv_max_stream_id(c, f)
    PROVE  ConnInv(d) /\ Grows(c, d) /\ f.id <= d.max_local
<1>1. Shape(c)
  BY DEF ConnInv
<1>2. c.max_local \in Nat
  BY DEF ConnInv
<1>3. PICK m \in Nat : m = IF c.max_local < f.id THEN f.id ELSE c.max_local
  BY <1>2
<1>4. c.max_local <= m /\ f.id <= m
  BY <1>2, <1>3
<1>5. PICK b : b = [c EXCEPT !.max_local = m]
  OBVIOUS
<1>6. d = on_extend_max_stream_id(b)
  BY <1>1, <1>3, <1>5 DEF recv_max_stream_id, Shape, ConnFields
<1>7. /\ DOMAIN b = ConnFields
      /\ \A k \in ConnFields \ {"max_local"} : b[k] = c[k]
      /\ b.max_local = m
  BY <1>1, <1>5 DEF Shape, ConnFields
<1>8. /\ b.server = c.server /\ b.rtb = c.rtb /\ b.frq = c.frq
      /\ b.max_remote = c.max_remote /\ b.unsent_max = c.unsent_max
      /\ b.streams = c.streams /\ b.answers = c.answers /\ b.strms = c.strms
  BY <1>7 DEF ConnFields
<1>9. Shape(b)
  BY <1>1, <1>7, <1>8 DEF Shape
<1>10. b.max_local \in Nat /\ c.max_local <= b.max_local
  BY <1>4, <1>7
<1>11. Kept(c, b)
  BY ONLY <1>8, <1>9, <1>10, ConnInv(c), ~c.server, ClientKept
<1>12. ConnInv(b) /\ Grows(c, b)
  BY <1>11, KeptInv
<1>13. ~b.server
  BY <1>8
<1>14. Kept(b, d)
  BY ONLY <1>6, <1>12, <1>13, page \in Pages, ExtendKept
<1>15. ConnInv(d) /\ Grows(b, d)
  BY <1>12, <1>14, KeptInv
<1>16. d.max_local \in Nat /\ m <= d.max_local
  BY <1>7, <1>15 DEF Grows
<1> QED
  BY <1>2, <1>4, <1>12, <1>15, <1>16, GrowsTwice

\* Any frame of the other side.
LEMMA ConnRecv ==
    ASSUME NEW c, ConnInv(c), NEW f, OfSide(~c.server, f), page \in Pages, NEW w,
           NEW d, d = conn_recv(c, f, w)
    PROVE  ConnInv(d) /\ Grows(c, d) /\ (f.type = "MAXID" => f.id <= d.max_local)
<1>1. CASE OfStream(~c.server, f)
  <2>1. f.id \in Ids /\ f.type \in {"STREAM", "RST", "STOP"}
    BY <1>1 DEF OfStream
  <2>2. f.type # "MAXID"
    BY <2>1
  <2>3. CASE f.type = "STREAM"
    <3>1. d = recv_stream(c, f, w)
      BY <2>3 DEF conn_recv
    <3> QED
      BY <2>1, <2>2, <3>1, RecvStream
  <2>4. CASE f.type = "RST"
    <3>1. d = recv_rst_stream(c, f)
      BY <2>4 DEF conn_recv
    <3> QED
      BY <2>1, <2>2, <3>1, RecvRst
  <2>5. CASE f.type = "STOP"
    <3>1. d = recv_stop_sending(c, f)
      BY <2>5 DEF conn_recv
    <3> QED
      BY <2>1, <2>2, <3>1, RecvStop
  <2> QED
    BY <2>1, <2>3, <2>4, <2>5
<1>2. CASE OfLimit(~c.server, f)
  <2>1. f.id \in Nat /\ f.type = "MAXID" /\ ~c.server
    BY <1>2 DEF OfLimit
  <2>2. d = recv_max_stream_id(c, f)
    BY <2>1 DEF conn_recv
  <2> QED
    BY <2>1, <2>2, RecvMax
<1> QED
  BY <1>1, <1>2 DEF OfSide

-----------------------------------------------------------------------------
(* Acknowledgements.                                                       *)

\* A crash.
Crash(c, x) == [c EXCEPT !.crashed = x]

\* It changes nothing else.
LEMMA CrashKept ==
    ASSUME NEW c, ConnInv(c), NEW x, NEW d, d = Crash(c, x)
    PROVE  Kept(c, d)
<1>1. Shape(c)
  BY DEF ConnInv
<1>2. c.max_local \in Nat
  BY DEF ConnInv
<1>3. DOMAIN d = ConnFields /\ \A k \in ConnFields \ {"crashed"} : d[k] = c[k]
  BY <1>1 DEF Crash, Shape
<1>4. /\ d.server = c.server /\ d.rtb = c.rtb /\ d.frq = c.frq
      /\ d.max_remote = c.max_remote /\ d.unsent_max = c.unsent_max
      /\ d.max_local = c.max_local /\ d.strms = c.strms /\ d.answers = c.answers
      /\ d.idtr = c.idtr /\ d.streams = c.streams
  BY <1>3 DEF ConnFields
<1>5. Shape(d)
  BY <1>1, <1>3, <1>4 DEF Shape
<1>6. Grows(c, d)
  BY ONLY <1>2, <1>4 DEF Grows
<1>7. Same(c, d)
  BY <1>4 DEF Same, SameStream
<1> QED
  BY <1>4, <1>5, <1>6, <1>7 DEF Kept

\* Buffers are freed.
LEMMA RemoveTx ==
    ASSUME NEW c, ConnInv(c), NEW i \in Ids, NEW offset,
           NEW d, d = remove_tx_stream_data(c, i, offset)
    PROVE  Kept(c, d)
<1>0. PICK n, t, b, x :
         /\ b = [c EXCEPT !.streams[i].streambuf = SubSeq(@, n + 1, Len(@)),
                          !.streams[i].idx = @ - n, !.streams[i].tx_offset = t]
         /\ d = Crash(c, x) \/ d = shutdown_stream_read(b, i) \/ d = b
  BY DEF remove_tx_stream_data, Crash
<1>2. CASE d = Crash(c, x)
  BY <1>2, CrashKept
<1>3. Shape(c)
  BY DEF ConnInv
<1>10. PICK u : u = SubSeq(c.streams[i].streambuf, n + 1, Len(c.streams[i].streambuf))
  OBVIOUS
<1>11. PICK v : v = c.streams[i].idx - n
  OBVIOUS
<1>1. b = [c EXCEPT !.streams[i].streambuf = u, !.streams[i].idx = v,
                    !.streams[i].tx_offset = t]
  BY <1>0, <1>3, <1>10, <1>11 DEF Shape, ConnFields, StreamFields
<1>4. PICK q : q = [c.streams[i] EXCEPT !.streambuf = u, !.idx = v, !.tx_offset = t]
  OBVIOUS
<1>5. /\ DOMAIN q = StreamFields /\ q.completed = c.streams[i].completed
      /\ q.parse_error = c.streams[i].parse_error /\ q.nread = c.streams[i].nread
  BY <1>3, <1>4 DEF Shape, StreamFields
<1>6. b = WithStream(c, i, q)
  <2>1. [c EXCEPT !.streams[i].streambuf = u, !.streams[i].idx = v,
                  !.streams[i].tx_offset = t]
        = [c EXCEPT !.streams[i] = [c.streams[i] EXCEPT !.streambuf = u, !.idx = v,
                                                        !.tx_offset = t]]
    BY <1>3 DEF Shape, ConnFields
  <2> QED
    BY <1>1, <1>4, <2>1 DEF WithStream
<1>7. Kept(c, b)
  BY ONLY <1>5, <1>6, ConnInv(c), i \in Ids, AppKept
<1>8. CASE d = b
  BY <1>7, <1>8
<1>9. CASE d = shutdown_stream_read(b, i)
  <2>1. ConnInv(b)
    BY <1>7, KeptInv
  <2>2. Kept(b, d)
    BY <1>9, <2>1, ShutdownRead
  <2>3. c.max_local \in Nat
    BY DEF ConnInv
  <2> QED
    BY <1>7, <2>2, <2>3, KeptTwice
<1> QED
  BY <1>0, <1>2, <1>8, <1>9

\* call_acked_stream_offset.
LEMMA AckedOffset ==
    ASSUME NEW c, ConnInv(c), NEW f, OfSide(c.server, f), page \in Pages,
           NEW d, d = acked_stream_offset(c, f)
    PROVE  ConnInv(d) /\ Grows(c, d)
<1>1. CASE f.type # "STREAM" \/ ~c.strms[f.id].open
  <2>1. d = c
    BY <1>1 DEF acked_stream_offset
  <2> QED
    BY <2>1, KeptItself
<1>2. CASE ~(f.type # "STREAM" \/ ~c.strms[f.id].open)
  <2>1. PICK i \in Ids : i = f.id
    BY <1>2 DEF OfSide, OfStream, OfLimit
  <2>2. PICK b : b = [c EXCEPT !.strms[i].acked = IF f.len = 0 THEN @ ELSE @ \cup {f.off}]
    OBVIOUS
  <2>3. PICK now : now = Prefix(b.strms[i].acked)
    OBVIOUS
  <2>4. PICK e : e = remove_tx_stream_data(b, i, now)
    OBVIOUS
  <2>5. d = b \/ d = close_stream_if_shut_rdwr(e, i)
    BY <1>2, <2>1, <2>2, <2>3, <2>4 DEF acked_stream_offset
  <2>6. Shape(c)
    BY DEF ConnInv
  <2>7. c.max_local \in Nat
    BY DEF ConnInv
  <2>8. PICK r : r = [c.strms[i] EXCEPT !.acked = IF f.len = 0 THEN @ ELSE @ \cup {f.off}]
    OBVIOUS
  <2>9. DOMAIN r = StrmFields /\ r.open = c.strms[i].open
    BY <2>6, <2>8 DEF Shape, StrmFields
  <2>10. b = WithStrm(c, i, r)
    BY <2>2, <2>6, <2>8 DEF WithStrm, Shape, ConnFields, StrmFields
  <2>11. Kept(c, b)
    BY ONLY <2>9, <2>10, ConnInv(c), i \in Ids, StrmKept
  <2>12. ConnInv(b) /\ Grows(c, b)
    BY <2>11, KeptInv
  <2>13. Kept(b, e)
    BY ONLY <2>4, <2>12, i \in Ids, RemoveTx
  <2>14. ConnInv(e) /\ Grows(b, e)
    BY <2>12, <2>13, KeptInv
  <2>15. CASE d = b
    BY <2>12, <2>15
  <2>16. CASE d = close_stream_if_shut_rdwr(e, i)
    <3>1. ConnInv(d) /\ Grows(e, d)
      BY ONLY <2>14, <2>16, i \in Ids, page \in Pages, CloseIfShut
    <3>2. Grows(c, e)
      BY <2>7, <2>12, <2>14, GrowsTwice
    <3> QED
      BY <2>7, <3>1, <3>2, GrowsTwice
  <2> QED
    BY <2>5, <2>15, <2>16
<1> QED
  BY <1>1, <1>2

\* A packet is no longer kept.
Less(c, f) == [c EXCEPT !.rtb = @ \ {f}]

\* The rest is as before.
LEMMA LessInv ==
    ASSUME NEW c, ConnInv(c), NEW f, NEW d, d = Less(c, f)
    PROVE  /\ ConnInv(d) /\ d.rtb = c.rtb \ {f} /\ d.server = c.server
           /\ d.max_local = c.max_local /\ d.max_remote = c.max_remote
<1>1. Shape(c)
  BY DEF ConnInv
<1>2. DOMAIN d = ConnFields /\ \A k \in ConnFields \ {"rtb"} : d[k] = c[k]
  BY <1>1 DEF Less, Shape
<1>3. d.rtb = c.rtb \ {f}
  BY <1>1 DEF Less, Shape, ConnFields
<1>4. /\ d.server = c.server /\ d.frq = c.frq
      /\ d.max_remote = c.max_remote /\ d.unsent_max = c.unsent_max
      /\ d.max_local = c.max_local /\ d.strms = c.strms /\ d.answers = c.answers
      /\ d.idtr = c.idtr /\ d.streams = c.streams
  BY <1>2 DEF ConnFields
<1>5. Shape(d)
  BY <1>1, <1>2, <1>4 DEF Shape
<1>6. c.server => ServerInv(d)
  <2> SUFFICES ASSUME c.server PROVE ServerInv(d)
    OBVIOUS
  <2>1. ServerInv(c)
    BY DEF ConnInv
  <2>2. \A j \in Ids : (Opened(d, j) <=> Opened(c, j)) /\ (Closed(d, j) <=> Closed(c, j))
    BY <1>4 DEF Opened, Closed
  <2>3. \A j \in Ids : Answers(d, j)
    BY <1>4, <2>1 DEF ServerInv, Answers
  <2> QED
    BY <1>4, <2>1, <2>2, <2>3 DEF ServerInv
<1>7. \A g \in d.rtb : OfSide(d.server, g)
  BY <1>3, <1>4 DEF ConnInv
<1>8. ConnInv(d)
  BY <1>4, <1>5, <1>6, <1>7 DEF ConnInv
<1> QED
  BY <1>3, <1>4, <1>8

-----------------------------------------------------------------------------
(* Writing.                                                                *)

\* What is written stays to be sent again; a new limit is written.
Wrote(c, d) ==
    /\ ConnInv(d) /\ d.server = c.server /\ c.rtb \subseteq d.rtb
    /\ d.max_local \in Nat /\ c.max_local <= d.max_local
    /\ \/ d.max_remote = c.max_remote
       \/ \E f \in d.rtb : f.type = "MAXID" /\ f.id = d.max_remote

\* conn_write_pkt.
LEMMA PktWritten ==
    ASSUME NEW c, ConnInv(c), NEW d, d = write_pkt(c)
    PROVE  Wrote(c, d)
<1>0. Shape(c)
  BY DEF ConnInv
<1>1. /\ c.max_local \in Nat /\ c.max_remote \in Nat /\ c.unsent_max \in Nat
      /\ c.max_remote <= c.unsent_max /\ c.server \in BOOLEAN
      /\ ~c.server => c.unsent_max = c.max_remote
  BY DEF ConnInv
<1>2. CASE d = c
  BY <1>1, <1>2 DEF Wrote
<1>3. CASE d # c
  <2>1. PICK m : m = Frame(c, "MAXID", c.unsent_max, 0, 0, FALSE, "")
    OBVIOUS
  <2>2. PICK keep, max :
          /\ keep \subseteq c.frq
          /\ max = IF c.unsent_max = c.max_remote THEN {} ELSE {m}
          /\ d = [c EXCEPT !.frq = {}, !.max_remote = c.unsent_max,
                           !.rtb = @ \cup keep \cup max]
    <3>1. PICK keep : keep = {f \in c.frq :
                   IF f.type = "RST"
                   THEN c.strms[f.id].open \/ f.what = "STOPPING"
                   ELSE c.strms[f.id].open /\ ~c.strms[f.id].shut_rd}
      OBVIOUS
    <3>2. PICK max : max = IF c.unsent_max = c.max_remote THEN {} ELSE {m}
      OBVIOUS
    <3>3. d = [c EXCEPT !.frq = {}, !.max_remote = c.unsent_max,
                        !.rtb = @ \cup keep \cup max]
      BY <1>3, <2>1, <3>1, <3>2 DEF write_pkt
    <3>4. keep \subseteq c.frq
      BY <3>1
    <3> QED
      BY <3>2, <3>3, <3>4
  <2>3. /\ DOMAIN d = ConnFields
        /\ \A k \in ConnFields \ {"frq", "max_remote", "rtb"} : d[k] = c[k]
        /\ d.frq = {} /\ d.max_remote = c.unsent_max /\ d.rtb = c.rtb \cup keep \cup max
    BY <1>0, <2>2 DEF Shape, ConnFields
  <2>4. /\ d.server = c.server /\ d.unsent_max = c.unsent_max
        /\ d.max_local = c.max_local /\ d.strms = c.strms /\ d.answers = c.answers
        /\ d.idtr = c.idtr /\ d.streams = c.streams
    BY <2>3 DEF ConnFields
  <2>5. Shape(d)
    BY <1>0, <2>3, <2>4 DEF Shape
  <2>6. \A f \in d.rtb : OfSide(d.server, f)
    <3> SUFFICES ASSUME NEW f \in d.rtb PROVE OfSide(c.server, f)
      BY <2>4
    <3>1. CASE f \in c.rtb
      BY <3>1 DEF ConnInv
    <3>2. CASE f \in keep
      BY <2>2, <3>2 DEF ConnInv, OfSide
    <3>3. CASE f \in max
      <4>1. f = m /\ c.server
        BY <1>1, <2>2, <3>3
      <4> QED
        BY <1>1, <2>1, <4>1 DEF Frame, OfSide, OfLimit, Other
    <3> QED
      BY <2>3, <3>1, <3>2, <3>3
  <2>7. c.server => ServerInv(d)
    <3> SUFFICES ASSUME c.server PROVE ServerInv(d)
      OBVIOUS
    <3>1. ServerInv(c)
      BY DEF ConnInv
    <3>2. \A j \in Ids : Opened(c, j) => Opened(d, j)
      <4>1. \A j \in Ids : j <= c.max_remote => j <= d.max_remote
        BY <1>1, <2>3, ExchangeAssumption DEF Ids
      <4> QED
        BY <2>4, <4>1 DEF Opened
    <3>3. \A j \in Ids : Closed(c, j) => Closed(d, j)
      BY <2>4, <3>2 DEF Closed
    <3>4. \A j \in Ids : Answers(d, j)
      BY <2>4, <3>1 DEF ServerInv, Answers
    <3>5. \A j \in Ids : d.strms[j].open => Opened(d, j)
      BY <2>4, <3>1, <3>2 DEF ServerInv
    <3>6. \E C \in SUBSET Ids : /\ \A j \in C : Closed(d, j)
                                /\ d.unsent_max <= page.limit + Cardinality(C)
      BY <2>4, <3>1, <3>3 DEF ServerInv
    <3>7. Tracker(d.idtr)
      BY <2>4, <3>1 DEF ServerInv
    <3> QED
      BY <3>4, <3>5, <3>6, <3>7 DEF ServerInv
  <2>8. ConnInv(d)
    <3>1. \A f \in d.frq : OfStream(d.server, f)
      BY <2>3
    <3>2. d.max_remote \in Nat /\ d.unsent_max = d.max_remote /\ d.max_remote <= d.unsent_max
      BY <1>1, <2>3, <2>4
    <3> QED
      BY <1>1, <2>4, <2>5, <2>6, <2>7, <3>1, <3>2 DEF ConnInv
  <2>9. d.max_remote = c.max_remote \/ \E f \in d.rtb : f.type = "MAXID" /\ f.id = d.max_remote
    <3>1. m.type = "MAXID" /\ m.id = c.unsent_max
      BY <2>1 DEF Frame
    <3>2. CASE c.unsent_max = c.max_remote
      BY <2>3, <3>2
    <3>3. CASE c.unsent_max # c.max_remote
      <4>1. m \in d.rtb
        BY <2>2, <2>3, <3>3
      <4> QED
        BY <2>3, <3>1, <4>1
    <3> QED
      BY <3>2, <3>3
  <2>10. c.rtb \subseteq d.rtb
    BY <2>3
  <2> QED
    BY <1>1, <2>4, <2>8, <2>9, <2>10 DEF Wrote
<1> QED
  BY <1>2, <1>3

\* One round of on_write_stream.
LEMMA DataWritten ==
    ASSUME NEW c, ConnInv(c), NEW i \in Ids, NEW d, d = write_stream_data(c, i)
    PROVE  Kept(c, d)
<1>1. Shape(c)
  BY DEF ConnInv
<1>2. c.max_local \in Nat
  BY DEF ConnInv
<1>3. PICK fin : fin = (c.streams[i].should_send_fin
                        /\ c.streams[i].idx + 1 = Len(c.streams[i].streambuf))
  OBVIOUS
<1>4. PICK b : b = c.streams[i].streambuf[c.streams[i].idx + 1]
  OBVIOUS
<1>5. PICK g : g = Frame(c, "STREAM", i, c.strms[i].tx, b.len, fin, b.what)
  OBVIOUS
<1>6. PICK e : e = [c EXCEPT !.streams[i].idx = @ + 1,
                             !.streams[i].should_send_fin = @ /\ ~fin]
  OBVIOUS
<1>7. \/ d = c \/ d = e
      \/ d = [e EXCEPT !.strms[i].tx = @ + b.len, !.strms[i].shut_wr = fin,
                       !.rtb = @ \cup {g}]
  BY <1>3, <1>4, <1>5, <1>6 DEF write_stream_data
<1>8. CASE d = c
  BY <1>8, KeptItself
<1>16. PICK x : x = c.streams[i].idx + 1
  OBVIOUS
<1>17. PICK y : y = (c.streams[i].should_send_fin /\ ~fin)
  OBVIOUS
<1>18. e = [c EXCEPT !.streams[i].idx = x, !.streams[i].should_send_fin = y]
  BY <1>1, <1>6, <1>16, <1>17 DEF Shape, ConnFields, StreamFields
<1>9. PICK q : q = [c.streams[i] EXCEPT !.idx = x, !.should_send_fin = y]
  OBVIOUS
<1>10. /\ DOMAIN q = StreamFields /\ q.completed = c.streams[i].completed
       /\ q.parse_error = c.streams[i].parse_error /\ q.nread = c.streams[i].nread
  BY <1>1, <1>9 DEF Shape, StreamFields
<1>11. e = WithStream(c, i, q)
  <2>1. [c EXCEPT !.streams[i].idx = x, !.streams[i].should_send_fin = y]
        = [c EXCEPT !.streams[i] = [c.streams[i] EXCEPT !.idx = x, !.should_send_fin = y]]
    BY <1>1 DEF Shape, ConnFields
  <2> QED
    BY <1>9, <1>18, <2>1 DEF WithStream
<1>12. Kept(c, e)
  BY ONLY <1>10, <1>11, ConnInv(c), i \in Ids, AppKept
<1>13. ConnInv(e) /\ Grows(c, e)
  BY <1>12, KeptInv
<1>14. CASE d = e
  BY <1>12, <1>14
<1>15. CASE d = [e EXCEPT !.strms[i].tx = @ + b.len, !.strms[i].shut_wr = fin,
                          !.rtb = @ \cup {g}]
  <2>1. Shape(e)
    BY <1>13 DEF ConnInv
  <2>2. e.max_local \in Nat
    BY <1>13 DEF ConnInv
  <2>3. OfStream(e.server, g)
    <3>1. e.server = c.server
      BY <1>13 DEF Grows
    <3> QED
      BY <1>5, <3>1 DEF Frame, OfStream, Other
  <2>4. /\ DOMAIN d = ConnFields
        /\ \A k \in ConnFields \ {"strms", "rtb"} : d[k] = e[k]
        /\ d.rtb = e.rtb \cup {g}
    BY <1>15, <2>1 DEF Shape, ConnFields
  <2>5. /\ DOMAIN d.strms = Ids
        /\ \A j \in Ids : DOMAIN d.strms[j] = StrmFields /\ d.strms[j].open = e.strms[j].open
    <3>0. PICK t : t = e.strms[i].tx + b.len
      OBVIOUS
    <3>1. PICK r : r = [e.strms[i] EXCEPT !.tx = t, !.shut_wr = fin]
      OBVIOUS
    <3>4. d = [e EXCEPT !.strms[i].tx = t, !.strms[i].shut_wr = fin, !.rtb = @ \cup {g}]
      BY <1>15, <2>1, <3>0 DEF Shape, ConnFields, StrmFields
    <3>2. DOMAIN r = StrmFields /\ r.open = e.strms[i].open
      BY <2>1, <3>1 DEF Shape, StrmFields
    <3>5. d.strms = [e.strms EXCEPT ![i].tx = t, ![i].shut_wr = fin]
      BY <2>1, <3>4 DEF Shape, ConnFields
    <3>6. d.strms = [e.strms EXCEPT ![i] = [e.strms[i] EXCEPT !.tx = t, !.shut_wr = fin]]
      BY <2>1, <3>5 DEF Shape
    <3>3. d.strms = [e.strms EXCEPT ![i] = r]
      BY <3>1, <3>6
    <3> QED
      BY <2>1, <3>2, <3>3 DEF Shape
  <2>6. /\ d.server = e.server /\ d.frq = e.frq
        /\ d.max_remote = e.max_remote /\ d.unsent_max = e.unsent_max
        /\ d.max_local = e.max_local /\ d.streams = e.streams /\ d.answers = e.answers
        /\ d.idtr = e.idtr
    BY <2>4 DEF ConnFields
  <2>7. Shape(d)
    BY <2>1, <2>4, <2>5, <2>6 DEF Shape
  <2>8. Grows(e, d)
    BY ONLY <2>2, <2>4, <2>6 DEF Grows
  <2>9. Same(e, d)
    BY <2>5, <2>6 DEF Same, SameStream
  <2>10. Kept(e, d)
    BY <2>3, <2>4, <2>6, <2>7, <2>8, <2>9 DEF Kept
  <2> QED
    BY <1>2, <1>12, <2>10, KeptTwice
<1> QED
  BY <1>7, <1>8, <1>14, <1>15

\* on_write_stream.
LEMMA StreamWritten ==
    ASSUME NEW c, ConnInv(c), NEW i \in Ids, NEW d, d = on_write_stream(c, i)
    PROVE  Kept(c, d)
<1>1. PICK e : e = write_stream_data(c, i)
  OBVIOUS
<1>2. Kept(c, e)
  BY <1>1, DataWritten
<1>3. ConnInv(e)
  BY <1>2, KeptInv
<1>4. d = write_stream_data(e, i)
  BY <1>1 DEF on_write_stream
<1>5. Kept(e, d)
  BY ONLY <1>3, <1>4, i \in Ids, DataWritten
<1>6. c.max_local \in Nat
  BY DEF ConnInv
<1> QED
  BY <1>2, <1>5, <1>6, KeptTwice

\* The streams in the order of their ids.
WriteEq(f, c, m) ==
    f = [k \in 0..m |-> IF k = 0 THEN c ELSE on_write_stream(f[k - 1], k)]

AllWritten(c) == LET f == CHOOSE f : WriteEq(f, c, MaxStream) IN f[MaxStream]

\* There is a function that writes one after the other.
LEMMA WriteExists ==
    ASSUME NEW c, NEW m \in Nat
    PROVE  \E f : WriteEq(f, c, m)
<1> DEFINE P == {n \in Nat : \E f : WriteEq(f, c, n)}
<1>1. 0 \in P
  <2>1. PICK f : f = [k \in 0..0 |-> c]
    OBVIOUS
  <2>2. WriteEq(f, c, 0)
    <3>1. \A k \in 0..0 : k = 0
      OBVIOUS
    <3> QED
      BY <2>1, <3>1 DEF WriteEq
  <2> QED
    BY <2>2
<1>2. ASSUME NEW n \in P PROVE n + 1 \in P
  <2>1. PICK f : WriteEq(f, c, n)
    OBVIOUS
  <2>2. PICK g : g = [k \in 0..(n + 1) |-> IF k = n + 1 THEN on_write_stream(f[n], n + 1) ELSE f[k]]
    OBVIOUS
  <2>3. ASSUME NEW k \in 0..(n + 1)
        PROVE  g[k] = IF k = 0 THEN c ELSE on_write_stream(g[k - 1], k)
    <3>1. CASE k = n + 1
      <4>1. g[k] = on_write_stream(f[n], k) /\ g[n] = f[n] /\ k - 1 = n /\ k # 0
        BY <2>2, <3>1
      <4> QED
        BY <4>1
    <3>2. CASE k # n + 1
      <4>1. k \in 0..n /\ g[k] = f[k] /\ (k # 0 => k - 1 \in 0..n)
        BY <2>2, <3>2
      <4>2. f[k] = IF k = 0 THEN c ELSE on_write_stream(f[k - 1], k)
        BY <2>1, <4>1 DEF WriteEq
      <4>3. k # 0 => g[k - 1] = f[k - 1]
        BY <2>2, <4>1
      <4> QED
        BY <4>1, <4>2, <4>3
    <3> QED
      BY <3>1, <3>2
  <2>4. WriteEq(g, c, n + 1)
    BY <2>2, <2>3 DEF WriteEq
  <2> QED
    BY <2>4
<1>3. P \in SUBSET Nat
  OBVIOUS
<1> HIDE DEF P
<1>4. P = Nat
  BY <1>1, <1>2, <1>3, SetInduction
<1> QED
  BY <1>4 DEF P

\* What is written is data.
LEMMA AllWrittenKept ==
    ASSUME NEW c, ConnInv(c), NEW d, d = AllWritten(c)
    PROVE  Kept(c, d)
<1> PICK m \in Nat : m = MaxStream
  BY ExchangeAssumption
<1> DEFINE f == CHOOSE f : WriteEq(f, c, m)
<1>1. WriteEq(f, c, m)
  BY WriteExists
<1>2. d = f[m]
  BY DEF AllWritten, WriteEq
<1> HIDE DEF f
<1>3. \A k \in 0..m : f[k] = IF k = 0 THEN c ELSE on_write_stream(f[k - 1], k)
  BY <1>1 DEF WriteEq
<1> DEFINE P == {k \in Nat : k <= m => Kept(c, f[k])}
<1>4. 0 \in P
  <2>1. f[0] = c
    BY <1>3
  <2> QED
    BY <2>1, KeptItself
<1>5. ASSUME NEW n \in Nat, n \in P PROVE n + 1 \in P
  <2> SUFFICES ASSUME n + 1 <= m PROVE Kept(c, f[n + 1])
    OBVIOUS
  <2> PICK e : e = f[n]
    OBVIOUS
  <2> PICK g : g = f[n + 1]
    OBVIOUS
  <2>1. n + 1 \in 0..m /\ n + 1 # 0 /\ (n + 1) - 1 = n
    OBVIOUS
  <2>2. g = on_write_stream(e, n + 1)
    BY <1>3, <2>1
  <2>3. Kept(c, e)
    <3>1. n <= m /\ n \in Nat
      OBVIOUS
    <3>2. n \in P => (n <= m => Kept(c, f[n]))
      BY ONLY n \in Nat
    <3> QED
      BY <1>5, <3>1, <3>2
  <2>4. ConnInv(e) /\ e.server = c.server
    BY <2>3, KeptInv DEF Grows
  <2>5. Kept(e, g)
    <3>1. n + 1 \in Ids
      BY <2>1 DEF Ids
    <3> QED
      BY <2>2, <2>4, <3>1, StreamWritten
  <2>6. c.max_local \in Nat
    BY DEF ConnInv
  <2> QED
    BY <2>3, <2>5, <2>6, KeptTwice
<1> HIDE DEF P
<1>6. m \in P
  BY <1>4, <1>5, SetInduction
<1> QED
  BY <1>2, <1>6 DEF P


\* on_write of Handler and Client.
LEMMA OnWrite ==
    ASSUME NEW c, ConnInv(c), NEW d, d = on_write(c)
    PROVE  Wrote(c, d)
<1>1. CASE d = c
  <2>1. c.max_local \in Nat
    BY DEF ConnInv
  <2> QED
    BY <1>1, <2>1 DEF Wrote
<1>2. CASE d # c
  <2>1. PICK e : e = write_pkt(c)
    OBVIOUS
  <2>2. d = AllWritten(e)
    BY <1>2, <2>1 DEF on_write, AllWritten, WriteEq
  <2>3. Wrote(c, e)
    BY <2>1, PktWritten
  <2>4. ConnInv(e)
    BY <2>3 DEF Wrote
  <2>5. Kept(e, d)
    BY <2>2, <2>4, AllWrittenKept
  <2>6. ConnInv(d) /\ Grows(e, d)
    BY <2>4, <2>5, KeptInv
  <2>7. /\ d.server = e.server /\ d.max_remote = e.max_remote /\ e.rtb \subseteq d.rtb
        /\ d.max_local \in Nat /\ e.max_local <= d.max_local
    BY <2>6 DEF Grows
  <2>8. c.max_local \in Nat /\ c.max_local <= d.max_local
    BY <2>3, <2>7 DEF Wrote, ConnInv
  <2>9. e.max_remote = c.max_remote \/ \E f \in e.rtb : f.type = "MAXID" /\ f.id = e.max_remote
    BY <2>3 DEF Wrote
  <2>10. d.max_remote = c.max_remote \/ \E f \in d.rtb : f.type = "MAXID" /\ f.id = d.max_remote
    BY <2>7, <2>9
  <2>11. d.server = c.server /\ c.rtb \subseteq d.rtb
    BY <2>3, <2>7 DEF Wrote
  <2> QED
    BY <2>6, <2>7, <2>8, <2>10, <2>11 DEF Wrote
<1> QED
  BY <1>1, <1>2

-----------------------------------------------------------------------------
(* Invariance.                                                             *)

\* A new connection.
LEMMA NewConn ==
    ASSUME page \in Pages, NEW s \in BOOLEAN, NEW c, c = conn_new(s)
    PROVE  /\ ConnInv(c) /\ c.server = s /\ c.rtb = {}
           /\ c.max_local = page.limit /\ c.max_remote = page.limit
<1>0. page.limit \in Nat /\ page.req \in Nat /\ MaxStream \in Nat
  BY ExchangeAssumption
<1>1. /\ DOMAIN c = ConnFields
      /\ c.server = s /\ c.rtb = {} /\ c.frq = {}
      /\ c.max_local = page.limit /\ c.max_remote = page.limit /\ c.unsent_max = page.limit
      /\ c.strms = [i \in Ids |-> NoStrm] /\ c.streams = [i \in Ids |-> NoStream]
      /\ c.answers = [i \in Ids |-> 0]
      /\ c.idtr = idtr_open(idtr_init, 0)
  BY DEF conn_new, ConnFields
<1>2. DOMAIN NoStrm = StrmFields /\ DOMAIN NoStream = StreamFields
  BY DEF NoStrm, NoStream, StrmFields, StreamFields
<1>3. Shape(c)
  BY <1>1, <1>2 DEF Shape
<1>4. Tracker(c.idtr)
  <2>1. PICK t : t = idtr_init
    OBVIOUS
  <2>2. PICK m \in Nat : m = UINT64_MAX /\ 0 < m
    BY <1>0 DEF UINT64_MAX
  <2>3. t = << <<0, m>> >>
    BY <2>1, <2>2 DEF idtr_init
  <2>4. t \in Seq(Nat \X Nat) /\ DOMAIN t = {1} /\ t[1][1] = 0 /\ t[1][2] = m
    BY <2>3
  <2>5. Tracker(t)
    BY <2>2, <2>4 DEF Tracker
  <2>6. PICK z \in Nat : z = 0
    OBVIOUS
  <2>7. \E k \in DOMAIN t : t[k][1] <= z /\ z < t[k][2]
    BY <2>2, <2>4, <2>6
  <2>8. Free(t, z)
    BY ONLY <2>5, <2>7, z \in Nat, FreeInGap
  <2>9. c.idtr = idtr_open(t, z)
    BY <1>1, <2>1, <2>6
  <2> QED
    BY ONLY <2>5, <2>8, <2>9, z \in Nat, IdtrOpen
<1>5. \A i \in Ids : Answers(c, i) /\ ~c.strms[i].open
  <2> SUFFICES ASSUME NEW i \in Ids PROVE Answers(c, i) /\ ~c.strms[i].open
    OBVIOUS
  <2>1. /\ c.answers[i] = 0 /\ c.strms[i].open = FALSE /\ c.streams[i].nread = 0
        /\ c.streams[i].parse_error = FALSE /\ c.streams[i].completed = FALSE
    BY <1>1 DEF NoStrm, NoStream
  <2> QED
    BY <2>1 DEF Answers
<1>6. \E C \in SUBSET Ids : /\ \A i \in C : Closed(c, i)
                            /\ c.unsent_max <= page.limit + Cardinality(C)
  <2>1. PICK C : C = {}
    OBVIOUS
  <2>2. Cardinality(C) = 0
    BY <2>1, FS_EmptySet
  <2>3. C \in SUBSET Ids /\ \A i \in C : Closed(c, i)
    BY <2>1
  <2>4. c.unsent_max <= page.limit + Cardinality(C)
    BY <1>0, <1>1, <2>2
  <2> QED
    BY <2>3, <2>4
<1>7. ServerInv(c)
  BY <1>4, <1>5, <1>6 DEF ServerInv
<1>8. ConnInv(c)
  BY <1>0, <1>1, <1>3, <1>7 DEF ConnInv
<1> QED
  BY <1>1, <1>8

\* The invariant holds at first.
LEMMA InvInit == Init => Inv
<1> SUFFICES ASSUME Init PROVE Inv
  OBVIOUS
<1>1. page \in Pages /\ net = {} /\ got = {} /\ DOMAIN ep = Sides
  BY DEF Init
<1>2. ASSUME NEW s \in Sides
      PROVE  /\ ConnInv(ep[s]) /\ ep[s].server = (s = "server") /\ ep[s].rtb = {}
             /\ ep[s].max_local = page.limit /\ ep[s].max_remote = page.limit
  <2>1. PICK b \in BOOLEAN : b = (s = "server")
    OBVIOUS
  <2>2. ep[s] = conn_new(b)
    BY <2>1 DEF Init
  <2>3. /\ ConnInv(ep[s]) /\ ep[s].server = b /\ ep[s].rtb = {}
        /\ ep[s].max_local = page.limit /\ ep[s].max_remote = page.limit
    BY <1>1, <2>2, NewConn
  <2> QED
    BY <2>1, <2>3
<1>3. CreditNotLost
  <2>1. "client" \in Sides /\ "server" \in Sides
    BY DEF Sides
  <2>2. ep["client"].max_local = ep["server"].max_remote /\ page.limit \in Nat
    BY <1>1, <1>2, <2>1, ExchangeAssumption
  <2> QED
    BY <1>2, <2>1, <2>2 DEF CreditNotLost
<1> QED
  BY <1>1, <1>2, <1>3 DEF Inv

\* A connection is what it was as long as the page is.
LEMMA SamePage ==
    ASSUME NEW d, ConnInv(d), UNCHANGED page
    PROVE  (ConnInv(d))'
BY DEF ConnInv, ServerInv, Answers, Opened, Closed

\* A step of side s that has come to c before it writes: what has left its
\* buffer is no limit that the client still waits for, and a limit that has
\* arrived is known.
LEMMA TurnInv ==
    ASSUME Inv, NEW s \in Sides, NEW c, ConnInv(c), c.server = (s = "server"),
           c.max_local \in Nat, ep[s].max_local <= c.max_local,
           c.max_remote = ep[s].max_remote, Turn(s, c), got' \subseteq net,
           \A f \in c.rtb : f \in ep[s].rtb \/ OfSide(c.server, f),
           \A f \in ep[s].rtb \ c.rtb :
              s = "server" /\ f.type = "MAXID" /\ f.id = ep["server"].max_remote
              => f.id <= ep["client"].max_local,
           \A f \in got' : f.type = "MAXID" =>
              f \in got \/ (s = "client" /\ f.id <= c.max_local)
    PROVE  Inv'
<1>1. PICK d : d = on_write(c)
  OBVIOUS
<1>2. Wrote(c, d)
  BY <1>1, OnWrite
<1>3. /\ ConnInv(d) /\ d.server = c.server /\ c.rtb \subseteq d.rtb
      /\ d.max_local \in Nat /\ c.max_local <= d.max_local
      /\ \/ d.max_remote = c.max_remote
         \/ \E f \in d.rtb : f.type = "MAXID" /\ f.id = d.max_remote
  BY <1>2 DEF Wrote
<1>4. /\ page \in Pages /\ DOMAIN ep = Sides
      /\ \A t \in Sides : ConnInv(ep[t]) /\ ep[t].server = (t = "server")
      /\ \A f \in net : OfSide(TRUE, f) \/ OfSide(FALSE, f)
      /\ \A t \in Sides : ep[t].rtb \subseteq net
      /\ \A f \in got : f.type = "MAXID" => f.id <= ep["client"].max_local
      /\ CreditNotLost
  BY DEF Inv
<1>5. /\ page' = page
      /\ DOMAIN ep' = Sides /\ ep'[s] = d /\ \A t \in Sides : t # s => ep'[t] = ep[t]
      /\ net' = net \cup d.rtb
  BY <1>1, <1>4 DEF Turn
<1>6. ASSUME NEW t \in Sides PROVE ConnInv(ep[t])' /\ ep'[t].server = (t = "server")
  <2>1. PICK e : e = ep'[t]
    OBVIOUS
  <2>2. ConnInv(e) /\ e.server = (t = "server")
    <3>1. CASE t = s
      BY <1>3, <1>5, <2>1, <3>1
    <3>2. CASE t # s
      BY <1>4, <1>5, <2>1, <3>2
    <3> QED
      BY <3>1, <3>2
  <2>3. (ConnInv(e))'
    BY <1>5, <2>2, SamePage
  <2> QED
    BY <2>1, <2>2, <2>3
<1>7. \A f \in net' : OfSide(TRUE, f) \/ OfSide(FALSE, f)
  <2> SUFFICES ASSUME NEW f \in d.rtb PROVE OfSide(TRUE, f) \/ OfSide(FALSE, f)
    BY <1>4, <1>5
  <2>1. OfSide(d.server, f) /\ d.server \in BOOLEAN
    BY <1>3 DEF ConnInv
  <2> QED
    BY <2>1
<1>8. \A t \in Sides : ep'[t].rtb \subseteq net'
  BY <1>4, <1>5
<1>9. "client" \in Sides /\ "server" \in Sides /\ s \in {"client", "server"}
  BY DEF Sides
<1>10. /\ ep["client"].max_local \in Nat /\ ep["server"].max_remote \in Nat
       /\ ep'["client"].max_local \in Nat /\ ep["client"].max_local <= ep'["client"].max_local
  <2>1. ep["client"].max_local \in Nat /\ ep["server"].max_remote \in Nat
    BY <1>4, <1>9 DEF ConnInv
  <2>2. CASE s = "client"
    BY <1>3, <1>5, <2>1, <2>2
  <2>3. CASE s # "client"
    BY <1>5, <1>9, <2>1, <2>3
  <2> QED
    BY <2>1, <2>2, <2>3
<1>11. ASSUME NEW f \in got', f.type = "MAXID" PROVE f.id <= ep'["client"].max_local
  <2>1. f.id \in Nat
    <3>1. OfSide(TRUE, f) \/ OfSide(FALSE, f)
      BY <1>4
    <3> QED
      BY <1>11, <3>1 DEF OfSide, OfStream, OfLimit
  <2>2. f \in got \/ (s = "client" /\ f.id <= c.max_local)
    BY <1>11
  <2>3. CASE f \in got
    BY <1>4, <1>10, <1>11, <2>1, <2>3
  <2>4. CASE s = "client" /\ f.id <= c.max_local
    <3>1. ep'["client"] = d
      BY <1>5, <2>4
    <3> QED
      BY <1>3, <2>1, <2>4, <3>1
  <2> QED
    BY <2>2, <2>3, <2>4
<1>12. CreditNotLost'
  <2> SUFFICES ASSUME ep'["client"].max_local < ep'["server"].max_remote
               PROVE  \E f \in ep'["server"].rtb :
                        f.type = "MAXID" /\ f.id = ep'["server"].max_remote
    BY DEF CreditNotLost
  <2>1. CASE s = "client"
    <3>1. ep'["server"] = ep["server"]
      BY <1>5, <1>9, <2>1
    <3>2. ep["client"].max_local < ep["server"].max_remote
      BY <1>10, <3>1
    <3> QED
      BY <1>4, <3>1, <3>2 DEF CreditNotLost
  <2>2. CASE s = "server"
    <3>1. ep'["client"] = ep["client"] /\ ep'["server"] = d
      BY <1>5, <1>9, <2>2
    <3>2. CASE d.max_remote = c.max_remote
      <4>1. ep["client"].max_local < ep["server"].max_remote
        BY <2>2, <3>1, <3>2
      <4>2. PICK f \in ep["server"].rtb : f.type = "MAXID" /\ f.id = ep["server"].max_remote
        BY <1>4, <4>1 DEF CreditNotLost
      <4>3. ~(f.id <= ep["client"].max_local)
        BY <1>10, <4>1, <4>2
      <4>4. f \in c.rtb
        BY <2>2, <4>2, <4>3
      <4>5. f \in d.rtb
        BY <1>3, <4>4
      <4> QED
        BY <2>2, <3>1, <3>2, <4>2, <4>5
    <3>3. CASE \E f \in d.rtb : f.type = "MAXID" /\ f.id = d.max_remote
      BY <3>1, <3>3
    <3> QED
      BY <1>3, <3>2, <3>3
  <2> QED
    BY <1>9, <2>1, <2>2
<1>13. got' \subseteq net'
  BY <1>5
<1> QED
  BY <1>4, <1>5, <1>6, <1>7, <1>8, <1>11, <1>12, <1>13 DEF Inv

\* Start.
LEMMA StartInv ==
    ASSUME Inv, Start
    PROVE  Inv'
<1>1. PICK s \in Sides : s = "client"
  BY DEF Sides
<1>2. page \in Pages /\ ConnInv(ep[s]) /\ ep[s].server = (s = "server") /\ got \subseteq net
  BY DEF Inv
<1>3. PICK c : c = on_extend_max_stream_id(ep[s])
  OBVIOUS
<1>4. ~ep[s].server
  BY <1>1, <1>2
<1>5. Kept(ep[s], c)
  BY <1>2, <1>3, <1>4, ExtendKept
<1>6. ConnInv(c) /\ Grows(ep[s], c)
  BY <1>2, <1>5, KeptInv
<1>7. /\ c.server = (s = "server") /\ c.max_local \in Nat /\ ep[s].max_local <= c.max_local
      /\ c.max_remote = ep[s].max_remote /\ ep[s].rtb \subseteq c.rtb
  BY <1>2, <1>6 DEF Grows
<1>8. Turn(s, c) /\ got' = got
  BY <1>1, <1>3 DEF Start
<1>9. \A f \in c.rtb : f \in ep[s].rtb \/ OfSide(c.server, f)
  BY <1>6 DEF ConnInv
<1>10. /\ got' \subseteq net
       /\ \A f \in ep[s].rtb \ c.rtb :
            s = "server" /\ f.type = "MAXID" /\ f.id = ep["server"].max_remote
            => f.id <= ep["client"].max_local
       /\ \A f \in got' : f.type = "MAXID" =>
            f \in got \/ (s = "client" /\ f.id <= c.max_local)
  BY <1>2, <1>7, <1>8
<1> QED
  BY ONLY <1>6, <1>7, <1>8, <1>9, <1>10, Inv, s \in Sides, TurnInv

\* Recv.
LEMMA RecvInv ==
    ASSUME Inv, NEW s \in Sides, NEW f \in net, NEW w, Recv(s, f, w)
    PROVE  Inv'
<1>2. page \in Pages /\ ConnInv(ep[s]) /\ ep[s].server = (s = "server") /\ got \subseteq net
  BY DEF Inv
<1>3. PICK c : c = conn_recv(ep[s], f, w)
  OBVIOUS
<1>4. f.to = s /\ Turn(s, c) /\ got' = got \cup {f}
  BY <1>3 DEF Recv
<1>5. OfSide(~ep[s].server, f)
  <2>1. OfSide(TRUE, f) \/ OfSide(FALSE, f)
    BY DEF Inv
  <2>2. CASE OfSide(TRUE, f)
    <3>1. f.to = "client"
      BY <2>2 DEF OfSide, OfStream, OfLimit, Other
    <3>2. ep[s].server = FALSE
      BY <1>2, <1>4, <3>1
    <3> QED
      BY <2>2, <3>2
  <2>3. CASE OfSide(FALSE, f)
    <3>1. f.to = "server"
      BY <2>3 DEF OfSide, OfStream, OfLimit, Other
    <3>2. ep[s].server = TRUE
      BY <1>2, <1>4, <3>1
    <3> QED
      BY <2>3, <3>2
  <2> QED
    BY <2>1, <2>2, <2>3
<1>6. ConnInv(c) /\ Grows(ep[s], c) /\ (f.type = "MAXID" => f.id <= c.max_local)
  BY ONLY <1>2, <1>3, <1>5, ConnRecv
<1>7. /\ c.server = (s = "server") /\ c.max_local \in Nat /\ ep[s].max_local <= c.max_local
      /\ c.max_remote = ep[s].max_remote /\ ep[s].rtb \subseteq c.rtb
  BY <1>2, <1>6 DEF Grows
<1>8. f.type = "MAXID" => s = "client"
  <2> SUFFICES ASSUME f.type = "MAXID" PROVE s = "client"
    OBVIOUS
  <2>1. OfLimit(~ep[s].server, f)
    BY <1>5 DEF OfSide, OfStream
  <2>2. ~ep[s].server
    BY <2>1 DEF OfLimit
  <2>3. s \in {"client", "server"}
    BY DEF Sides
  <2> QED
    BY <1>2, <2>2, <2>3
<1>9. \A g \in c.rtb : g \in ep[s].rtb \/ OfSide(c.server, g)
  BY <1>6 DEF ConnInv
<1>10. /\ got' \subseteq net
       /\ \A g \in ep[s].rtb \ c.rtb :
            s = "server" /\ g.type = "MAXID" /\ g.id = ep["server"].max_remote
            => g.id <= ep["client"].max_local
       /\ \A g \in got' : g.type = "MAXID" =>
            g \in got \/ (s = "client" /\ g.id <= c.max_local)
  BY <1>2, <1>4, <1>6, <1>7, <1>8
<1> QED
  BY ONLY <1>4, <1>6, <1>7, <1>9, <1>10, Inv, s \in Sides, TurnInv

\* Ack: what is acknowledged has arrived, so a limit is known.
LEMMA AckInv ==
    ASSUME Inv, NEW s \in Sides, NEW f \in ep[s].rtb, Ack(s, f)
    PROVE  Inv'
<1>2. page \in Pages /\ ConnInv(ep[s]) /\ ep[s].server = (s = "server") /\ got \subseteq net
  BY DEF Inv
<1>3. PICK b : b = Less(ep[s], f)
  OBVIOUS
<1>4. /\ ConnInv(b) /\ b.rtb = ep[s].rtb \ {f} /\ b.server = ep[s].server
      /\ b.max_local = ep[s].max_local /\ b.max_remote = ep[s].max_remote
  BY <1>2, <1>3, LessInv
<1>5. OfSide(b.server, f)
  BY <1>2, <1>4 DEF ConnInv
<1>6. PICK c : c = acked_stream_offset(b, f)
  OBVIOUS
<1>7. ConnInv(c) /\ Grows(b, c)
  BY ONLY <1>2, <1>4, <1>5, <1>6, AckedOffset
<1>8. Turn(s, c) /\ got' = got /\ f \in got
  BY <1>3, <1>6 DEF Ack, rtb_recv_ack, Less
<1>9. /\ c.server = (s = "server") /\ c.max_local \in Nat /\ ep[s].max_local <= c.max_local
      /\ c.max_remote = ep[s].max_remote /\ ep[s].rtb \ {f} \subseteq c.rtb
  BY <1>2, <1>4, <1>7 DEF Grows
<1>10. \A g \in c.rtb : g \in ep[s].rtb \/ OfSide(c.server, g)
  BY <1>7 DEF ConnInv
<1>11. f.type = "MAXID" => f.id <= ep["client"].max_local
  BY <1>8 DEF Inv
<1>12. \A g \in ep[s].rtb \ c.rtb : g = f
  BY <1>9
<1>13. /\ got' \subseteq net
       /\ \A g \in ep[s].rtb \ c.rtb :
            s = "server" /\ g.type = "MAXID" /\ g.id = ep["server"].max_remote
            => g.id <= ep["client"].max_local
       /\ \A g \in got' : g.type = "MAXID" =>
            g \in got \/ (s = "client" /\ g.id <= c.max_local)
  BY <1>2, <1>8, <1>11, <1>12
<1> QED
  BY ONLY <1>7, <1>8, <1>9, <1>10, <1>13, Inv, s \in Sides, TurnInv

\* Retransmit: the newest limit is not cancelled.
LEMMA RetransmitInv ==
    ASSUME Inv, NEW s \in Sides, NEW f \in ep[s].rtb, Retransmit(s, f)
    PROVE  Inv'
<1>2. page \in Pages /\ ConnInv(ep[s]) /\ ep[s].server = (s = "server") /\ got \subseteq net
  BY DEF Inv
<1>3. PICK b : b = Less(ep[s], f)
  OBVIOUS
<1>4. /\ ConnInv(b) /\ b.rtb = ep[s].rtb \ {f} /\ b.server = ep[s].server
      /\ b.max_local = ep[s].max_local /\ b.max_remote = ep[s].max_remote
  BY <1>2, <1>3, LessInv
<1>5. PICK x : x = IF f.type = "STOP" THEN "null" ELSE ep[s].crashed
  OBVIOUS
<1>6. PICK c : c = Crash(b, x)
  OBVIOUS
<1>7. Kept(b, c)
  BY <1>4, <1>6, CrashKept
<1>8. ConnInv(c) /\ Grows(b, c)
  BY <1>4, <1>7, KeptInv
<1>9. c = [ep[s] EXCEPT !.rtb = @ \ {f}, !.crashed = IF f.type = "STOP" THEN "null" ELSE @]
  <2>1. DOMAIN ep[s] = ConnFields
    BY <1>2 DEF ConnInv, Shape
  <2> QED
    BY <1>3, <1>5, <1>6, <2>1 DEF Less, Crash, ConnFields
<1>10. Turn(s, c) /\ got' = got /\ Cancelled(ep[s], f)
  BY <1>9 DEF Retransmit
<1>11. /\ c.server = (s = "server") /\ c.max_local \in Nat /\ ep[s].max_local <= c.max_local
       /\ c.max_remote = ep[s].max_remote /\ ep[s].rtb \ {f} \subseteq c.rtb
  BY <1>2, <1>4, <1>8 DEF Grows
<1>12. \A g \in c.rtb : g \in ep[s].rtb \/ OfSide(c.server, g)
  BY <1>8 DEF ConnInv
<1>13. (f.type = "MAXID" /\ s = "server") => f.id # ep["server"].max_remote
  <2> SUFFICES ASSUME f.type = "MAXID", s = "server" PROVE f.id # ep["server"].max_remote
    OBVIOUS
  <2>1. f.id < ep[s].max_remote
    BY <1>10 DEF Cancelled
  <2>2. OfSide(ep[s].server, f) /\ ep[s].max_remote \in Nat
    BY <1>2 DEF ConnInv
  <2>3. f.id \in Nat
    BY <2>2 DEF OfSide, OfStream, OfLimit
  <2> QED
    BY <2>1, <2>2, <2>3
<1>14. \A g \in ep[s].rtb \ c.rtb : g = f
  BY <1>11
<1>15. /\ got' \subseteq net
       /\ \A g \in ep[s].rtb \ c.rtb :
            s = "server" /\ g.type = "MAXID" /\ g.id = ep["server"].max_remote
            => g.id <= ep["client"].max_local
       /\ \A g \in got' : g.type = "MAXID" =>
            g \in got \/ (s = "client" /\ g.id <= c.max_local)
  BY <1>2, <1>10, <1>13, <1>14
<1> QED
  BY ONLY <1>8, <1>10, <1>11, <1>12, <1>15, Inv, s \in Sides, TurnInv

\* Every step keeps the invariant.
LEMMA InvNext == Inv /\ [Next]_vars => Inv'
<1> SUFFICES ASSUME Inv, [Next]_vars PROVE Inv'
  OBVIOUS
<1>1. CASE Start
  BY <1>1, StartInv
<1>2. ASSUME NEW s \in Sides, NEW f \in net, NEW w \in Outcomes(s = "server"), Recv(s, f, w)
      PROVE  Inv'
  BY <1>2, RecvInv
<1>3. ASSUME NEW s \in Sides, NEW f \in ep[s].rtb, Ack(s, f)
      PROVE  Inv'
  BY <1>3, AckInv
<1>4. ASSUME NEW s \in Sides, NEW f \in ep[s].rtb, Retransmit(s, f)
      PROVE  Inv'
  BY <1>4, RetransmitInv
<1>5. CASE UNCHANGED vars
  <2>1. page' = page /\ ep' = ep /\ net' = net /\ got' = got
    BY <1>5 DEF vars
  <2>2. ASSUME NEW t \in Sides PROVE ConnInv(ep[t])' /\ ep'[t].server = (t = "server")
    <3>1. PICK e : e = ep'[t]
      OBVIOUS
    <3>2. ConnInv(e) /\ e.server = (t = "server")
      BY <2>1, <3>1 DEF Inv
    <3>3. (ConnInv(e))'
      BY <2>1, <3>2, SamePage
    <3> QED
      BY <3>1, <3>2, <3>3
  <2>3. CreditNotLost'
    BY <2>1 DEF Inv, CreditNotLost
  <2>4. /\ page' \in Pages /\ DOMAIN ep' = Sides
        /\ \A f \in net' : OfSide(TRUE, f) \/ OfSide(FALSE, f)
        /\ \A t \in Sides : ep'[t].rtb \subseteq net'
        /\ got' \subseteq net'
        /\ \A f \in got' : f.type = "MAXID" => f.id <= ep'["client"].max_local
    BY <2>1 DEF Inv
  <2> QED
    BY <2>2, <2>3, <2>4 DEF Inv
<1> QED
  BY <1>1, <1>2, <1>3, <1>4, <1>5 DEF Next

-----------------------------------------------------------------------------
(* The theorems.                                                           *)

\* The server's side in every state.
LEMMA ServerHas ==
    ASSUME Inv
    PROVE  ConnInv(ep["server"]) /\ ServerInv(ep["server"]) /\ page \in Pages
<1>1. "server" \in Sides
  BY DEF Sides
<1>2. ConnInv(ep["server"]) /\ ep["server"].server = ("server" = "server") /\ page \in Pages
  BY <1>1 DEF Inv
<1> QED
  BY <1>2 DEF ConnInv

\* The streams that are open, counted against the limit: open ones and the
\* closed ones that raised the limit have different ids under the limit.
LEMMA OpenBounded ==
    ASSUME Inv
    PROVE  ConcurrencyBounded
<1>1. PICK e : e = ep["server"]
  OBVIOUS
<1>2. ConnInv(e) /\ ServerInv(e) /\ page \in Pages
  BY <1>1, ServerHas
<1>3. page.limit \in Nat /\ MaxStream \in Nat
  BY <1>2, ExchangeAssumption
<1>4. e.max_remote \in Nat /\ e.unsent_max \in Nat /\ e.max_remote <= e.unsent_max
  BY <1>2 DEF ConnInv
<1>5. PICK C \in SUBSET Ids : /\ \A i \in C : Closed(e, i)
                              /\ e.unsent_max <= page.limit + Cardinality(C)
  BY <1>2 DEF ServerInv
<1>6. PICK O : O = {i \in Ids : e.strms[i].open}
  OBVIOUS
<1>7. PICK n \in Nat : n = e.max_remote
  BY <1>4
<1>8. O \subseteq 1..n /\ C \subseteq 1..n
  <2>1. \A i \in Ids : i \in Nat /\ 1 <= i
    BY <1>3 DEF Ids
  <2>2. \A i \in O : i \in Ids /\ i <= n
    BY <1>2, <1>6, <1>7 DEF ServerInv, Opened
  <2>3. \A i \in C : i \in Ids /\ i <= n
    BY <1>5, <1>7 DEF Closed, Opened
  <2> QED
    BY <2>1, <2>2, <2>3
<1>9. O \cap C = {}
  BY <1>5, <1>6 DEF Closed
<1>10. IsFiniteSet(1..n) /\ Cardinality(1..n) = n
  <2>1. 1 \in Int /\ n \in Int
    OBVIOUS
  <2>2. IsFiniteSet(1..n) /\ Cardinality(1..n) = IF 1 > n THEN 0 ELSE n - 1 + 1
    BY ONLY <2>1, FS_Interval
  <2> QED
    BY <2>2
<1>11. IsFiniteSet(O) /\ IsFiniteSet(C)
  BY <1>8, <1>10, FS_Subset
<1>12. Cardinality(O) \in Nat /\ Cardinality(C) \in Nat
  BY <1>11, FS_CardinalityType
<1>13. Cardinality(O \cup C) = Cardinality(O) + Cardinality(C)
  <2>1. Cardinality(O \cup C) = Cardinality(O) + Cardinality(C) - Cardinality(O \cap C)
    BY <1>11, FS_Union
  <2>2. Cardinality(O \cap C) = 0
    BY <1>9, FS_EmptySet
  <2> QED
    BY <1>12, <2>1, <2>2
<1>14. Cardinality(O \cup C) <= n
  <2>1. O \cup C \subseteq 1..n
    BY <1>8
  <2> QED
    BY <1>10, <2>1, FS_Subset
<1>15. Cardinality(O) <= page.limit
  BY <1>3, <1>4, <1>5, <1>7, <1>12, <1>13, <1>14
<1> QED
  BY <1>1, <1>6, <1>15 DEF ConcurrencyBounded

\* CreditNotLost holds: a stream limit that conn_write_pkt has raised stays in
\* the retransmission buffer until the client knows it, however the
\* MAX_STREAM_ID frames are lost, reordered and cancelled by newer ones.
THEOREM CreditKept == Spec => []CreditNotLost
<1>1. Inv => CreditNotLost
  BY DEF Inv
<1> QED
  BY <1>1, InvInit, InvNext, PTL DEF Spec

\* AnsweredOnce holds: a frame of a request that comes again, late or after the
\* stream has been closed, never makes the server answer twice.
THEOREM OneAnswer == Spec => []AnsweredOnce
<1>1. Inv => AnsweredOnce
  <2> SUFFICES ASSUME Inv PROVE AnsweredOnce
    OBVIOUS
  <2>1. ServerInv(ep["server"])
    BY ServerHas
  <2>2. \A i \in Ids : ep["server"].answers[i] \in {0, 1}
    BY <2>1 DEF ServerInv, Answers
  <2> QED
    BY <2>2 DEF AnsweredOnce
<1> QED
  BY <1>1, InvInit, InvNext, PTL DEF Spec

\* ConcurrencyBounded holds: although the window of stream ids never moves
\* (handle_remote_stream_id_extension), no more streams are open at once than
\* the server's settings allow.
THEOREM StreamsBounded == Spec => []ConcurrencyBounded
<1>1. Inv => ConcurrencyBounded
  BY OpenBounded
<1> QED
  BY <1>1, InvInit, InvNext, PTL DEF Spec

-----------------------------------------------------------------------------
(* One side between the calls of a turn.                                   *)

\* What a side relies on: the frames between the two, of which those for this
\* side are of streams in K, and RST and STOP for the server of answered ones.
\* What ep has answered is answered, and its limit holds.
Context(c, N, A, K) ==
    /\ A \subseteq N /\ c.rtb \subseteq N /\ K \subseteq Ids
    /\ \A to \in Sides, j \in Ids : Wire(FramesTo(N, to, j))
    /\ \A f \in N : (f.to = Other(~c.server) /\ f.type # "MAXID") =>
         /\ f.id \in K
         /\ (c.server /\ f.type \in {"RST", "STOP"}) => c.answers[f.id] = 1
    /\ c.server => \A j \in Ids : c.answers[j] = 1 => j \in K
    /\ ~c.server => /\ \A j \in K : j < c.next
                    /\ c.next \in Nat \ {0} /\ c.next <= c.max_local + 1
                    /\ c.max_local <= ep["server"].max_remote
    /\ c.server => \A j \in Ids : ep["server"].answers[j] = 1 => c.answers[j] = 1

Mid(c, N, A, K) == SideInv(c, N, A, K) /\ Context(c, N, A, K)

\* A call that is about stream i leaves the others as they are.
Alike(c, d, j) ==
    /\ d.strms[j] = c.strms[j] /\ d.streams[j] = c.streams[j]
    /\ d.answers[j] = c.answers[j]
    /\ j \in d.empty <=> j \in c.empty
    /\ j \in d.reset <=> j \in c.reset
    /\ Free(d.idtr, j) <=> Free(c.idtr, j)

Base(c, d) ==
    /\ d.server = c.server /\ d.rtb = c.rtb /\ d.error = c.error
    /\ d.next = c.next /\ d.max_remote = c.max_remote /\ d.max_local = c.max_local

About(c, d, i) == Base(c, d) /\ \A j \in Ids : j # i => Alike(c, d, j)

\* What the call adds to the queue, and what it does to the history.
Adds(c, d, N, K) ==
    /\ \A f \in d.frq : f \in c.frq \/ (FrameInv(d, N, K, f) /\ f.type # "STREAM")
    /\ IsFiniteSet(d.frq)
    /\ \A j \in Ids : c.answers[j] = 1 => d.answers[j] = 1
    /\ c.reset \subseteq d.reset

\* A stream that is as it was.
LEMMA AlikeStream ==
    ASSUME NEW c, NEW d, NEW N, NEW A, NEW j \in Ids, StreamInv(c, N, A, j),
           d.server = c.server, d.rtb = c.rtb, d.next = c.next, Alike(c, d, j)
    PROVE  StreamInv(d, N, A, j)
<1> DEFINE F == FramesTo(N, Other(c.server), j)
<1>1. /\ d.strms[j] = c.strms[j] /\ d.streams[j] = c.streams[j]
      /\ d.answers[j] = c.answers[j]
      /\ j \in d.empty <=> j \in c.empty
      /\ OwnReset(d, N, j) <=> OwnReset(c, N, j)
      /\ Free(d.idtr, j) <=> Free(c.idtr, j)
  BY DEF Alike, OwnReset
<1> HIDE DEF F
<1>2. Sending(c.strms[j], c.streams[j], F, A, c.rtb, c.empty, j)
      => Sending(d.strms[j], d.streams[j], F, A, d.rtb, d.empty, j)
  BY <1>1 DEF Sending
<1>3. c.strms[j].open => Outbox(d, N, A, j) /\ Resets(d, N, j)
  <2> SUFFICES ASSUME c.strms[j].open PROVE Outbox(d, N, A, j) /\ Resets(d, N, j)
    OBVIOUS
  <2>1. Outbox(c, N, A, j) /\ Resets(c, N, j)
    BY DEF StreamInv
  <2>2. Outbox(d, N, A, j)
    BY <1>1, <1>2, <2>1 DEF Outbox, F
  <2>3. Resets(d, N, j)
    BY <1>1, <2>1 DEF Resets
  <2> QED
    BY <2>2, <2>3
<1>4. ~c.strms[j].open => Gone(d, j) /\ Done(d, N, A, j)
  <2> SUFFICES ASSUME ~c.strms[j].open PROVE Gone(d, j) /\ Done(d, N, A, j)
    OBVIOUS
  <2>1. Gone(c, j) /\ Done(c, N, A, j)
    BY DEF StreamInv
  <2> QED
    BY <1>1, <2>1 DEF Gone, Done
<1>5. IF d.server THEN Response(d, j) ELSE Request(d, j)
  <2>1. IF c.server THEN Response(c, j) ELSE Request(c, j)
    BY DEF StreamInv
  <2> QED
    BY <1>1, <2>1 DEF Response, Request
<1> QED
  BY <1>1, <1>3, <1>4, <1>5 DEF StreamInv

\* A frame that was right before a call is right after it.
LEMMA FrameKept ==
    ASSUME NEW c, NEW d, NEW N, NEW K, NEW f, FrameInv(c, N, K, f),
           f.type # "MAXID" => f.id \in Ids,
           d.server = c.server, d.next = c.next, d.max_remote = c.max_remote,
           \A j \in Ids : c.answers[j] = 1 => d.answers[j] = 1, c.reset \subseteq d.reset
    PROVE  FrameInv(d, N, K, f)
<1>1. OwnReset(c, N, f.id) => OwnReset(d, N, f.id)
  BY DEF OwnReset
<1> QED
  BY <1>1 DEF FrameInv

\* The frames of a side are of its streams, or limits.
FramesTyped(N) ==
    \A f \in N : (f.type # "MAXID" => f.id \in Ids) /\ (f.type = "MAXID" => f.id \in Nat)

\* A call about stream i that keeps stream i keeps the side.
LEMMA MidStep ==
    ASSUME NEW c, NEW d, NEW N, NEW A, NEW K, NEW i \in Ids, ConnInv(c), Mid(c, N, A, K),
           FramesTyped(N), About(c, d, i), Adds(c, d, N, K), StreamInv(d, N, A, i),
           d.crashed # "assert", d.server /\ d.answers[i] = 1 => i \in K
    PROVE  Mid(d, N, A, K)
<1> USE DEF About, Base
<1>1. \A j \in Ids : StreamInv(d, N, A, j)
  <2> SUFFICES ASSUME NEW j \in Ids, j # i PROVE StreamInv(d, N, A, j)
    OBVIOUS
  <2>1. StreamInv(c, N, A, j)
    BY DEF Mid, SideInv
  <2> QED
    BY <2>1, AlikeStream
<1>2. FramesInv(d, N, K)
  <2>1. FramesInv(c, N, K)
    BY DEF Mid, SideInv
  <2>2. ASSUME NEW f \in N, f.to = Other(d.server) PROVE FrameInv(d, N, K, f)
    <3>1. FrameInv(c, N, K, f) /\ (f.type # "MAXID" => f.id \in Ids)
      BY <2>1, <2>2 DEF FramesInv, FramesTyped
    <3> QED
      BY <3>1, FrameKept DEF Adds
  <2>3. ASSUME NEW f \in d.frq PROVE FrameInv(d, N, K, f)
    <3>1. CASE f \in c.frq
      <4>1. FrameInv(c, N, K, f) /\ (f.type # "MAXID" => f.id \in Ids)
        BY <2>1, <3>1 DEF FramesInv, ConnInv, OfStream
      <4> QED
        BY <4>1, FrameKept DEF Adds
    <3> QED
      BY <3>1 DEF Adds
  <2>4. \A f \in d.frq : f.type # "STREAM"
    BY <2>1 DEF FramesInv, Adds
  <2> QED
    BY <2>1, <2>2, <2>3, <2>4 DEF FramesInv, Adds
<1>3. Context(d, N, A, K)
  <2>1. Context(c, N, A, K)
    BY DEF Mid
  <2>2. \A f \in N : (f.to = Other(~d.server) /\ f.type # "MAXID") =>
         /\ f.id \in K
         /\ (d.server /\ f.type \in {"RST", "STOP"}) => d.answers[f.id] = 1
    BY <2>1 DEF Context, FramesTyped, Adds
  <2>3. d.server => \A j \in Ids : d.answers[j] = 1 => j \in K
    BY <2>1 DEF Context, Alike
  <2>4. ~d.server => /\ \A j \in K : j < d.next
                     /\ d.next \in Nat \ {0} /\ d.next <= d.max_local + 1
                     /\ d.max_local <= ep["server"].max_remote
    BY <2>1 DEF Context
  <2>5. d.server => \A j \in Ids : ep["server"].answers[j] = 1 => d.answers[j] = 1
    BY <2>1 DEF Context, Adds
  <2> QED
    BY <2>1, <2>2, <2>3, <2>4, <2>5 DEF Context
<1> QED
  BY <1>1, <1>2, <1>3 DEF Mid, SideInv

\* What has arrived, and what was read of it.
LEMMA InboxStep ==
    ASSUME NEW c, NEW d, NEW A, NEW i \in Ids, About(c, d, i),
           \A j \in Ids : Inbox(c, A, j), Inbox(d, A, i)
    PROVE  \A j \in Ids : Inbox(d, A, j)
<1> SUFFICES ASSUME NEW j \in Ids, j # i PROVE Inbox(d, A, j)
  OBVIOUS
<1>1. Inbox(c, A, j)
  OBVIOUS
<1> QED
  BY <1>1 DEF About, Base, Alike, Inbox

LEMMA CountedStep ==
    ASSUME NEW c, NEW d, NEW i \in Ids, About(c, d, i), NEW j \in Ids, j # i, NEW k,
           Counted(c, j, k)
    PROVE  Counted(d, j, k)
BY DEF About, Base, Alike, Counted

-----------------------------------------------------------------------------
(* What the calls change, field by field.                                  *)

\* Nothing is sent, answered, reset, opened.
Quiet(c, d) ==
    /\ d.frq = c.frq /\ d.answers = c.answers /\ d.empty = c.empty /\ d.reset = c.reset
    /\ d.idtr = c.idtr /\ d.crashed = c.crashed

\* What most calls leave alone.
Others(c, d) ==
    /\ d.server = c.server /\ d.rtb = c.rtb /\ d.error = c.error
    /\ d.next = c.next /\ d.max_remote = c.max_remote /\ d.max_local = c.max_local
    /\ d.answers = c.answers /\ d.empty = c.empty /\ d.reset = c.reset /\ d.idtr = c.idtr

LEMMA FieldsAbout ==
    ASSUME NEW c, NEW d, NEW i \in Ids, Others(c, d),
           \A j \in Ids : j # i => d.strms[j] = c.strms[j] /\ d.streams[j] = c.streams[j]
    PROVE  About(c, d, i)
BY DEF About, Base, Alike, Others

LEMMA StrmSet ==
    ASSUME NEW c, Shape(c), NEW i \in Ids, NEW r, NEW d, d = WithStrm(c, i, r)
    PROVE  /\ About(c, d, i) /\ Quiet(c, d)
           /\ d.strms[i] = r /\ d.streams[i] = c.streams[i] /\ d.streams = c.streams
<1>1. /\ DOMAIN d = ConnFields
      /\ \A k \in ConnFields \ {"strms"} : d[k] = c[k]
      /\ d.strms = [c.strms EXCEPT ![i] = r]
  BY DEF WithStrm, Shape, ConnFields
<1>2. /\ d.strms[i] = r /\ d.streams = c.streams /\ d.frq = c.frq /\ d.crashed = c.crashed
      /\ \A j \in Ids : j # i => d.strms[j] = c.strms[j] /\ d.streams[j] = c.streams[j]
  BY <1>1 DEF Shape, ConnFields
<1>3. Others(c, d)
  BY <1>1 DEF Others, ConnFields
<1>4. About(c, d, i)
  BY <1>2, <1>3, FieldsAbout
<1> QED
  BY <1>2, <1>3, <1>4 DEF Quiet, Others

LEMMA StreamSet ==
    ASSUME NEW c, Shape(c), NEW i \in Ids, NEW q, NEW d, d = WithStream(c, i, q)
    PROVE  /\ About(c, d, i) /\ Quiet(c, d)
           /\ d.streams[i] = q /\ d.strms[i] = c.strms[i] /\ d.strms = c.strms
<1>1. /\ DOMAIN d = ConnFields
      /\ \A k \in ConnFields \ {"streams"} : d[k] = c[k]
      /\ d.streams = [c.streams EXCEPT ![i] = q]
  BY DEF WithStream, Shape, ConnFields
<1>2. /\ d.streams[i] = q /\ d.strms = c.strms /\ d.frq = c.frq /\ d.crashed = c.crashed
      /\ \A j \in Ids : j # i => d.strms[j] = c.strms[j] /\ d.streams[j] = c.streams[j]
  BY <1>1 DEF Shape, ConnFields
<1>3. Others(c, d)
  BY <1>1 DEF Others, ConnFields
<1>4. About(c, d, i)
  BY <1>2, <1>3, FieldsAbout
<1> QED
  BY <1>2, <1>3, <1>4 DEF Quiet, Others

\* A unit is read.
OneMoreRead(a, q) ==
    /\ q.exists /\ q.nread = a.nread + 1 /\ q.streambuf = a.streambuf /\ q.idx = a.idx
    /\ q.tx_offset = a.tx_offset /\ q.should_send_fin = a.should_send_fin
    /\ q.completed = a.completed /\ q.parse_error = a.parse_error

LEMMA UnitSet ==
    ASSUME NEW c, Shape(c), NEW i \in Ids, NEW d, d = UnitRead(c, i)
    PROVE  /\ About(c, d, i) /\ Quiet(c, d)
           /\ d.strms[i] = c.strms[i] /\ OneMoreRead(c.streams[i], d.streams[i])
<1> PICK q : q = [c.streams[i] EXCEPT !.exists = TRUE, !.nread = @ + 1]
  OBVIOUS
<1>1. d = WithStream(c, i, q)
  BY DEF UnitRead, WithStream, Shape, ConnFields
<1>2. OneMoreRead(c.streams[i], q)
  BY DEF OneMoreRead, Shape, StreamFields
<1> QED
  BY ONLY <1>1, <1>2, Shape(c), i \in Ids, StreamSet

\* An answer.
AnswerIn(a, q, bufs) ==
    /\ q.streambuf = bufs /\ q.completed /\ q.should_send_fin /\ q.exists = a.exists
    /\ q.nread = a.nread /\ q.idx = a.idx /\ q.tx_offset = a.tx_offset

LEMMA AnswerSet ==
    ASSUME NEW c, Shape(c), NEW i \in Ids, NEW bufs, NEW bad, NEW d,
           d = Respond(c, i, bufs, bad)
    PROVE  /\ About(c, d, i) /\ d.frq = c.frq /\ d.reset = c.reset /\ d.idtr = c.idtr
           /\ d.crashed = c.crashed /\ d.strms[i] = c.strms[i]
           /\ AnswerIn(c.streams[i], d.streams[i], bufs) /\ d.answers[i] = c.answers[i] + 1
           /\ Last(bufs).len = 0 => i \in d.empty
<1> PICK q : q = [c.streams[i] EXCEPT !.streambuf = bufs, !.completed = TRUE,
                                 !.should_send_fin = TRUE, !.parse_error = bad]
  OBVIOUS
<1> PICK e : e = IF Last(bufs).len = 0 THEN c.empty \cup {i} ELSE c.empty
  OBVIOUS
<1>2. /\ DOMAIN d = ConnFields
      /\ \A k \in ConnFields \ {"streams", "answers", "empty"} : d[k] = c[k]
      /\ d.streams = [c.streams EXCEPT ![i] = q]
      /\ d.answers = [c.answers EXCEPT ![i] = @ + 1]
      /\ d.empty = e
  BY DEF Respond, Shape, ConnFields
<1>3. /\ d.streams[i] = q
      /\ \A j \in Ids : j # i => d.streams[j] = c.streams[j] /\ d.answers[j] = c.answers[j]
      /\ d.answers[i] = c.answers[i] + 1
  BY <1>2 DEF Shape
<1>4. /\ d.server = c.server /\ d.rtb = c.rtb /\ d.error = c.error
      /\ d.next = c.next /\ d.max_remote = c.max_remote /\ d.max_local = c.max_local
      /\ d.reset = c.reset /\ d.idtr = c.idtr /\ d.frq = c.frq /\ d.crashed = c.crashed
      /\ d.strms = c.strms
  BY <1>2 DEF ConnFields
<1>5. \A j \in Ids : j # i => (j \in d.empty <=> j \in c.empty)
  BY <1>2
<1>6. About(c, d, i)
  BY <1>3, <1>4, <1>5 DEF About, Base, Alike
<1>7. AnswerIn(c.streams[i], q, bufs)
  BY DEF AnswerIn, Shape, StreamFields
<1>8. Last(bufs).len = 0 => i \in d.empty
  BY <1>2
<1> QED
  BY ONLY <1>3, <1>4, <1>6, <1>7, <1>8

\* The receiving half is the same.
SameRecv(s, r) ==
    /\ r.open = s.open /\ r.rx = s.rx /\ r.rob = s.rob /\ r.last_rx = s.last_rx
    /\ r.shut_rd = s.shut_rd /\ r.recv_rst = s.recv_rst

\* The frames.
StopFrame(c, i) == Frame(c, "STOP", i, 0, 0, FALSE, "")
RstFrame(c, i, what) == Frame(c, "RST", i, c.strms[i].tx, 0, FALSE, what)

\* STOP_SENDING.
StopIn(s, r) ==
    /\ SameRecv(s, r) /\ r.stop_sending /\ r.tx = s.tx /\ r.acked = s.acked
    /\ r.shut_wr = s.shut_wr /\ r.sent_rst = s.sent_rst

LEMMA StopSet ==
    ASSUME NEW c, Shape(c), NEW i \in Ids, c.strms[i].open, ~c.strms[i].stop_sending,
           NEW d, d = shutdown_stream_read(c, i)
    PROVE  /\ About(c, d, i) /\ d.answers = c.answers /\ d.empty = c.empty
           /\ d.reset = c.reset /\ d.idtr = c.idtr /\ d.crashed = c.crashed
           /\ d.frq = c.frq \cup {StopFrame(c, i)}
           /\ StopIn(c.strms[i], d.strms[i]) /\ d.streams = c.streams
<1> PICK g : g = StopFrame(c, i)
  OBVIOUS
<1> PICK r : r = [c.strms[i] EXCEPT !.stop_sending = TRUE]
  OBVIOUS
<1>1. d = [c EXCEPT !.strms[i] = r, !.frq = @ \cup {g}]
  BY DEF shutdown_stream_read, Shape, ConnFields, StopFrame, Frame
<1>2. /\ DOMAIN d = ConnFields
      /\ \A k \in ConnFields \ {"strms", "frq"} : d[k] = c[k]
      /\ d.strms = [c.strms EXCEPT ![i] = r] /\ d.frq = c.frq \cup {g}
  BY <1>1 DEF Shape, ConnFields
<1>3. /\ d.strms[i] = r /\ d.streams = c.streams /\ d.crashed = c.crashed
      /\ \A j \in Ids : j # i => d.strms[j] = c.strms[j] /\ d.streams[j] = c.streams[j]
  BY <1>2 DEF Shape, ConnFields
<1>4. Others(c, d)
  BY <1>2 DEF Others, ConnFields
<1>5. About(c, d, i)
  BY <1>3, <1>4, FieldsAbout
<1>6. StopIn(c.strms[i], r)
  BY DEF StopIn, SameRecv, Shape, StrmFields
<1>7. d.frq = c.frq \cup {g}
  BY <1>2
<1> QED
  BY ONLY <1>3, <1>4, <1>5, <1>6, <1>7, g = StopFrame(c, i) DEF Others

\* RST_STREAM.
RstIn(s, r) ==
    /\ SameRecv(s, r) /\ r.stop_sending = s.stop_sending /\ r.tx = s.tx
    /\ r.acked = s.acked /\ r.shut_wr /\ r.sent_rst

LEMMA RstSet ==
    ASSUME NEW c, Shape(c), NEW i \in Ids, ~c.strms[i].sent_rst,
           NEW d, d = shutdown_stream_write(c, i)
    PROVE  /\ About(c, d, i) /\ d.answers = c.answers /\ d.empty = c.empty
           /\ d.reset = c.reset \cup {i} /\ d.idtr = c.idtr /\ d.crashed = c.crashed
           /\ d.frq = c.frq \cup {RstFrame(c, i, "APP_PROTO")}
           /\ RstIn(c.strms[i], d.strms[i]) /\ d.streams = c.streams
<1> PICK g : g = RstFrame(c, i, "APP_PROTO")
  OBVIOUS
<1> PICK r : r = [c.strms[i] EXCEPT !.shut_wr = TRUE, !.sent_rst = TRUE]
  OBVIOUS
<1>1. d = [c EXCEPT !.strms[i] = r, !.reset = @ \cup {i}, !.frq = @ \cup {g}]
  BY DEF shutdown_stream_write, Shape, ConnFields, RstFrame, Frame
<1>2. /\ DOMAIN d = ConnFields
      /\ \A k \in ConnFields \ {"strms", "reset", "frq"} : d[k] = c[k]
      /\ d.strms = [c.strms EXCEPT ![i] = r] /\ d.frq = c.frq \cup {g}
      /\ d.reset = c.reset \cup {i}
  BY <1>1 DEF Shape, ConnFields
<1>3. /\ d.strms[i] = r /\ d.streams = c.streams
      /\ \A j \in Ids : j # i => d.strms[j] = c.strms[j]
  BY <1>2 DEF Shape, ConnFields
<1>4. /\ d.server = c.server /\ d.rtb = c.rtb /\ d.error = c.error
      /\ d.next = c.next /\ d.max_remote = c.max_remote /\ d.max_local = c.max_local
      /\ d.idtr = c.idtr /\ d.crashed = c.crashed /\ d.answers = c.answers
      /\ d.empty = c.empty
  BY <1>2 DEF ConnFields
<1>5. \A j \in Ids : j # i => (j \in d.reset <=> j \in c.reset)
  BY <1>2
<1>6. About(c, d, i)
  BY <1>3, <1>4, <1>5 DEF About, Base, Alike
<1>7. RstIn(c.strms[i], r)
  BY DEF RstIn, SameRecv, Shape, StrmFields
<1>8. d.frq = c.frq \cup {g} /\ d.reset = c.reset \cup {i}
  BY <1>2
<1> QED
  BY ONLY <1>3, <1>4, <1>6, <1>7, <1>8,
          g = RstFrame(c, i, "APP_PROTO")

\* The end of a stream.
LEMMA CloseSet ==
    ASSUME NEW c, Shape(c), NEW i \in Ids, NEW d, d = close_stream(c, i)
    PROVE  /\ About(c, d, i) /\ d.frq = c.frq /\ d.answers = c.answers /\ d.empty = c.empty
           /\ d.reset = c.reset /\ d.idtr = c.idtr
           /\ (c.server => c.streams[i].exists) => d.crashed = c.crashed
           /\ d.strms[i] = NoStrm /\ d.streams[i] = NoStream
<1> PICK e : e = on_stream_close([c EXCEPT !.strms[i] = NoStrm], i)
  OBVIOUS
<1> PICK x : x = IF c.server /\ ~c.streams[i].exists THEN "assert" ELSE c.crashed
  OBVIOUS
<1>1. e = [c EXCEPT !.strms[i] = NoStrm, !.streams[i] = NoStream, !.crashed = x]
  BY DEF on_stream_close, Shape, ConnFields
<1>2. /\ DOMAIN e = ConnFields
      /\ \A k \in ConnFields \ {"strms", "streams", "crashed"} : e[k] = c[k]
      /\ e.strms = [c.strms EXCEPT ![i] = NoStrm]
      /\ e.streams = [c.streams EXCEPT ![i] = NoStream] /\ e.crashed = x
  BY <1>1 DEF Shape, ConnFields
<1>3. d = e \/ d = remote_stream_id_extension(e)
  BY DEF close_stream
<1>4. /\ DOMAIN d = ConnFields
      /\ \A k \in ConnFields \ {"unsent_max"} : d[k] = e[k]
  BY <1>2, <1>3 DEF remote_stream_id_extension, ConnFields
<1>5. /\ \A k \in ConnFields \ {"strms", "streams", "crashed", "unsent_max"} : d[k] = c[k]
      /\ d.strms = [c.strms EXCEPT ![i] = NoStrm]
      /\ d.streams = [c.streams EXCEPT ![i] = NoStream] /\ d.crashed = x /\ d.frq = c.frq
  BY <1>2, <1>4 DEF ConnFields
<1>6. /\ d.strms[i] = NoStrm /\ d.streams[i] = NoStream
      /\ \A j \in Ids : j # i => d.strms[j] = c.strms[j] /\ d.streams[j] = c.streams[j]
  BY <1>5 DEF Shape
<1>7. Others(c, d)
  BY <1>5 DEF Others, ConnFields
<1>8. About(c, d, i)
  BY <1>6, <1>7, FieldsAbout
<1>9. (c.server => c.streams[i].exists) => d.crashed = c.crashed
  BY <1>5
<1>10. d.frq = c.frq
  BY <1>5
<1> QED
  BY ONLY <1>6, <1>7, <1>8, <1>9, <1>10 DEF Others

-----------------------------------------------------------------------------
(* The calls of a turn keep the side.                                      *)

\* A call that sends nothing.
LEMMA QuietStep ==
    ASSUME NEW c, NEW d, NEW N, NEW A, NEW K, NEW i \in Ids, ConnInv(c), Mid(c, N, A, K),
           FramesTyped(N), About(c, d, i), Quiet(c, d), StreamInv(d, N, A, i)
    PROVE  Mid(d, N, A, K)
<1>1. Adds(c, d, N, K) /\ d.crashed # "assert"
  BY DEF Quiet, Adds, Mid, SideInv, FramesInv
<1>2. d.server /\ d.answers[i] = 1 => i \in K
  BY DEF Mid, Context, Quiet, About, Base
<1> QED
  BY <1>1, <1>2, MidStep

\* The sending half is the same.
SameOut(s, a, r, q) ==
    /\ r.tx = s.tx /\ r.acked = s.acked /\ r.shut_wr = s.shut_wr
    /\ r.sent_rst = s.sent_rst /\ r.stop_sending = s.stop_sending
    /\ q.streambuf = a.streambuf /\ q.idx = a.idx /\ q.tx_offset = a.tx_offset
    /\ q.should_send_fin = a.should_send_fin

LEMMA OutboxSame ==
    ASSUME NEW c, NEW d, NEW N, NEW A, NEW j, Outbox(c, N, A, j), d.server = c.server,
           d.rtb = c.rtb, d.answers[j] = c.answers[j], j \in d.empty <=> j \in c.empty,
           SameOut(c.strms[j], c.streams[j], d.strms[j], d.streams[j])
    PROVE  Outbox(d, N, A, j)
<1> DEFINE s == c.strms[j]
           a == c.streams[j]
           r == d.strms[j]
           q == d.streams[j]
           F == FramesTo(N, Other(c.server), j)
<1>1. SameOut(s, a, r, q) /\ (j \in d.empty <=> j \in c.empty)
  OBVIOUS
<1> HIDE DEF s, a, r, q, F
<1>2. Buffers(s, a) => Buffers(r, q)
  BY <1>1 DEF SameOut, Buffers
<1>3. AtRest(a) => AtRest(q)
  BY <1>1 DEF SameOut, AtRest
<1>4. Unstarted(s, a) => Unstarted(r, q)
  BY <1>1 DEF SameOut, Unstarted
<1>5. Sending(s, a, F, A, c.rtb, c.empty, j) => Sending(r, q, F, A, c.rtb, d.empty, j)
  BY <1>1 DEF SameOut, Sending
<1> QED
  BY <1>2, <1>3, <1>4, <1>5 DEF Outbox, s, a, r, q, F

\* What a stream that is open has.
LEMMA OpenHas ==
    ASSUME NEW c, NEW N, NEW A, NEW j \in Ids, StreamInv(c, N, A, j), c.strms[j].open
    PROVE  /\ Outbox(c, N, A, j) /\ Resets(c, N, j)
           /\ c.server => Response(c, j)
           /\ ~c.server => Request(c, j)
BY DEF StreamInv

\* Fields of the receiving half change.
SameSend(s, r) ==
    /\ r.open = s.open /\ r.tx = s.tx /\ r.acked = s.acked /\ r.shut_wr = s.shut_wr
    /\ r.sent_rst = s.sent_rst /\ r.stop_sending = s.stop_sending

LEMMA ReceivedMid ==
    ASSUME NEW c, NEW N, NEW A, NEW K, NEW i \in Ids, ConnInv(c), Mid(c, N, A, K),
           FramesTyped(N), c.strms[i].open, NEW r, SameSend(c.strms[i], r),
           r.recv_rst => \/ c.strms[i].recv_rst
                         \/ \E f \in N : f.type = "RST" /\ f.id = i /\ f.to = Other(~c.server),
           NEW d, d = WithStrm(c, i, r)
    PROVE  Mid(d, N, A, K)
<1>1. /\ About(c, d, i) /\ Quiet(c, d) /\ d.strms[i] = r /\ d.streams[i] = c.streams[i]
  BY StrmSet DEF ConnInv
<1>2. StreamInv(c, N, A, i)
  BY DEF Mid, SideInv
<1>3. /\ d.server = c.server /\ d.rtb = c.rtb /\ d.answers = c.answers /\ d.empty = c.empty
      /\ d.reset = c.reset /\ d.idtr = c.idtr /\ d.next = c.next
  BY <1>1 DEF About, Base, Quiet
<1>4. Outbox(d, N, A, i)
  <2>1. SameOut(c.strms[i], c.streams[i], d.strms[i], d.streams[i])
    BY <1>1 DEF SameSend, SameOut
  <2> QED
    BY <1>2, <1>3, <2>1, OutboxSame, OpenHas
<1>5. Resets(d, N, i)
  BY <1>1, <1>2, <1>3, OpenHas DEF Resets, SameSend, OwnReset
<1>6. IF d.server THEN Response(d, i) ELSE Request(d, i)
  BY <1>1, <1>2, <1>3 DEF StreamInv, Response, Request, SameSend
<1>7. StreamInv(d, N, A, i)
  BY <1>1, <1>4, <1>5, <1>6 DEF StreamInv, SameSend
<1> QED
  BY <1>1, <1>7, QuietStep

\* The application's entry is there, and has read more.
LEMMA EntryMid ==
    ASSUME NEW c, NEW N, NEW A, NEW K, NEW i \in Ids, ConnInv(c), Mid(c, N, A, K),
           FramesTyped(N), c.strms[i].open, NEW q,
           q.streambuf = c.streams[i].streambuf, q.idx = c.streams[i].idx,
           q.tx_offset = c.streams[i].tx_offset,
           q.should_send_fin = c.streams[i].should_send_fin,
           q.completed = c.streams[i].completed, c.streams[i].exists => q.exists,
           NEW d, d = WithStream(c, i, q)
    PROVE  Mid(d, N, A, K)
<1>1. /\ About(c, d, i) /\ Quiet(c, d) /\ d.streams[i] = q /\ d.strms[i] = c.strms[i]
  BY StreamSet DEF ConnInv
<1>2. StreamInv(c, N, A, i)
  BY DEF Mid, SideInv
<1>3. /\ d.server = c.server /\ d.rtb = c.rtb /\ d.answers = c.answers /\ d.empty = c.empty
      /\ d.reset = c.reset /\ d.idtr = c.idtr /\ d.next = c.next
  BY <1>1 DEF About, Base, Quiet
<1>4. Outbox(d, N, A, i)
  <2>1. SameOut(c.strms[i], c.streams[i], d.strms[i], d.streams[i])
    BY <1>1 DEF SameOut
  <2> QED
    BY <1>2, <1>3, <2>1, OutboxSame, OpenHas
<1>5. Resets(d, N, i)
  BY <1>1, <1>2, <1>3, OpenHas DEF Resets, OwnReset
<1>6. IF d.server THEN Response(d, i) ELSE Request(d, i)
  BY <1>1, <1>2, <1>3 DEF StreamInv, Response, Request
<1>7. StreamInv(d, N, A, i)
  BY <1>1, <1>4, <1>5, <1>6 DEF StreamInv
<1> QED
  BY <1>1, <1>7, QuietStep

\* A stream that is not answered has no frames of the server.
LEMMA NoFrames ==
    ASSUME NEW c, NEW N, NEW A, NEW K, SideInv(c, N, A, K), c.server, NEW j \in Ids,
           c.answers[j] = 0
    PROVE  FramesTo(N, Other(c.server), j) = {}
<1> SUFFICES ASSUME NEW f \in FramesTo(N, Other(c.server), j) PROVE FALSE
  OBVIOUS
<1>1. f \in N /\ f.to = Other(c.server) /\ f.type = "STREAM" /\ f.id = j
  BY DEF FramesTo
<1>2. FrameInv(c, N, K, f)
  BY <1>1 DEF SideInv, FramesInv
<1> QED
  BY <1>1, <1>2 DEF FrameInv

\* What an answer consists of.
GoodBufs(bufs) == /\ bufs \in Bufs /\ Len(bufs) \in 1..2 /\ bufs[1].len = 1

\* A buffer that holds nothing is the last one.
LEMMA EmptyLast ==
    ASSUME NEW bufs, GoodBufs(bufs), NEW k \in 1..Len(bufs), bufs[k].len = 0
    PROVE  Last(bufs).len = 0
<1>1. Len(bufs) \in 1..2 /\ bufs[1].len = 1
  BY DEF GoodBufs
<1>2. PICK n \in 1..2 : n = Len(bufs)
  BY <1>1
<1>3. k \in 1..n /\ k # 1
  BY <1>1, <1>2
<1>4. k = n
  BY ONLY <1>3, n \in 1..2
<1> QED
  BY <1>2, <1>4 DEF Last

LEMMA RespondMid ==
    ASSUME NEW c, NEW N, NEW A, NEW K, NEW i \in Ids, ConnInv(c), Mid(c, N, A, K),
           FramesTyped(N), c.server, c.strms[i].open, c.answers[i] = 0, i \in K,
           c.streams[i].exists, NEW bufs, GoodBufs(bufs), NEW bad,
           NEW d, d = Respond(c, i, bufs, bad)
    PROVE  Mid(d, N, A, K)
<1>0. Shape(c)
  BY DEF ConnInv
<1>1. /\ About(c, d, i) /\ d.frq = c.frq /\ d.reset = c.reset /\ d.idtr = c.idtr
      /\ d.crashed = c.crashed /\ d.strms[i] = c.strms[i]
      /\ AnswerIn(c.streams[i], d.streams[i], bufs) /\ d.answers[i] = c.answers[i] + 1
      /\ Last(bufs).len = 0 => i \in d.empty
  BY ONLY <1>0, i \in Ids, d = Respond(c, i, bufs, bad), AnswerSet
<1>2. StreamInv(c, N, A, i) /\ SideInv(c, N, A, K)
  BY DEF Mid, SideInv
<1>3. /\ d.server /\ d.rtb = c.rtb /\ d.answers[i] = 1
      /\ \A j \in Ids : c.answers[j] = 1 => d.answers[j] = 1
  BY <1>1 DEF About, Base, Alike
<1> PICK s, a, q : s = c.strms[i] /\ a = c.streams[i] /\ q = d.streams[i]
  OBVIOUS
<1>5. /\ q.streambuf = bufs /\ q.completed /\ q.should_send_fin /\ q.idx = a.idx
      /\ q.tx_offset = a.tx_offset /\ q.exists = a.exists
  BY <1>1 DEF AnswerIn
<1>6. Unstarted(s, a) /\ Buffers(s, a)
  BY <1>2, OpenHas DEF Outbox
<1>7. Buffers(s, q) /\ AtRest(q)
  <2>1. a.idx = 0 /\ a.tx_offset = 0 /\ s.tx = 0
    BY <1>6 DEF Unstarted
  <2>2. Len(bufs) \in 1..2 /\ bufs \in Bufs /\ bufs[1].len = 1
    BY DEF GoodBufs
  <2>3. Units(bufs, 0) = 0
    BY DEF Units
  <2>4. q.idx = 0 /\ q.tx_offset = 0 /\ q.streambuf = bufs /\ 0 + 1 = 1
    BY <1>5, <2>1
  <2>5. Buffers(s, q)
    <3>1. 0 + Len(bufs) <= 2 /\ 0 \in 0..Len(bufs) /\ 0 \in Nat
      <4>1. PICK n \in 1..2 : n = Len(bufs)
        BY <2>2
      <4>2. 0 + n <= 2 /\ 0 \in 0..n /\ 0 \in Nat
        OBVIOUS
      <4> QED
        BY <4>1, <4>2
    <3>2. s.tx = 0 + Units(bufs, 0)
      BY <2>1, <2>3
    <3> QED
      BY ONLY <2>2, <2>4, <3>1, <3>2 DEF Buffers
  <2>6. AtRest(q)
    BY ONLY <2>2, <2>4 DEF AtRest
  <2> QED
    BY <2>5, <2>6
<1>8. Sending(s, q, {}, A, d.rtb, d.empty, i)
  <2>1. \A k \in 1..Len(bufs) : bufs[k].len = 0 => i \in d.empty
    BY <1>1, EmptyLast
  <2>2. q.idx = 0 /\ Len(q.streambuf) \in 1..2
    BY <1>5, <1>6 DEF Unstarted, GoodBufs
  <2>3. s.tx = 0 /\ s.acked = {} /\ ~s.shut_wr
    BY <1>6 DEF Unstarted
  <2> QED
    BY <1>5, <2>1, <2>2, <2>3 DEF Sending
<1>9. FramesTo(N, Other(d.server), i) = {}
  BY <1>2, <1>3, NoFrames
<1>10. Outbox(d, N, A, i)
  <2>1. ~(d.server /\ d.answers[i] = 0)
    BY <1>3
  <2>2. s = d.strms[i] /\ q = d.streams[i]
    BY <1>1
  <2> QED
    BY ONLY <1>7, <1>8, <1>9, <2>1, <2>2 DEF Outbox
<1>11. Resets(d, N, i)
  BY <1>1, <1>2, <1>3, OpenHas DEF Resets, OwnReset
<1>12. Response(d, i)
  BY <1>1, <1>3, <1>5 DEF Response
<1>13. StreamInv(d, N, A, i)
  BY <1>1, <1>3, <1>10, <1>11, <1>12 DEF StreamInv
<1>14. Adds(c, d, N, K) /\ d.crashed # "assert"
  BY <1>1, <1>3 DEF Adds, Mid, SideInv, FramesInv
<1> QED
  BY <1>1, <1>3, <1>13, <1>14, MidStep

\* One call about stream i after another.
LEMMA AboutTwice ==
    ASSUME NEW c, NEW d, NEW e, NEW i, About(c, d, i), About(d, e, i)
    PROVE  About(c, e, i)
BY DEF About, Base, Alike

\* STOP_SENDING of the server, when the stream is answered.
LEMMA StopMid ==
    ASSUME NEW c, NEW N, NEW A, NEW K, NEW i \in Ids, ConnInv(c), Mid(c, N, A, K),
           FramesTyped(N), c.server, c.strms[i].open, c.answers[i] = 1,
           NEW d, d = shutdown_stream_read(c, i)
    PROVE  /\ Mid(d, N, A, K) /\ About(c, d, i) /\ d.streams = c.streams
           /\ SameRecv(c.strms[i], d.strms[i]) /\ d.strms[i].stop_sending
           /\ d.idtr = c.idtr
<1>0. Shape(c)
  BY DEF ConnInv
<1>1. CASE c.strms[i].stop_sending
  <2>1. d = c
    BY <1>1 DEF shutdown_stream_read
  <2> QED
    BY <1>1, <2>1 DEF About, Base, Alike, SameRecv
<1>2. CASE ~c.strms[i].stop_sending
  <2> PICK g : g = StopFrame(c, i)
    OBVIOUS
  <2> PICK s, r : s = c.strms[i] /\ r = d.strms[i]
    OBVIOUS
  <2>1. /\ About(c, d, i) /\ d.answers = c.answers /\ d.empty = c.empty
        /\ d.reset = c.reset /\ d.idtr = c.idtr /\ d.crashed = c.crashed
        /\ d.frq = c.frq \cup {g}
        /\ StopIn(s, r) /\ d.streams = c.streams
    BY ONLY <1>0, <1>2, i \in Ids, c.strms[i].open, d = shutdown_stream_read(c, i), StopSet,
            g = StopFrame(c, i), s = c.strms[i], r = d.strms[i]
  <2>2. /\ SameRecv(s, r) /\ r.stop_sending
        /\ r.tx = s.tx /\ r.acked = s.acked /\ r.shut_wr = s.shut_wr /\ r.sent_rst = s.sent_rst
    BY <2>1 DEF StopIn
  <2>3. StreamInv(c, N, A, i)
    BY DEF Mid, SideInv
  <2>4. Outbox(c, N, A, i) /\ Resets(c, N, i) /\ Response(c, i)
    BY <2>3, OpenHas
  <2>5. d.server = c.server /\ d.rtb = c.rtb
    BY <2>1 DEF About, Base
  <2> PICK a, F : a = c.streams[i] /\ F = FramesTo(N, Other(c.server), i)
    OBVIOUS
  <2>6. Buffers(s, a) /\ AtRest(a) /\ Sending(s, a, F, A, c.rtb, c.empty, i)
    <3>1. ~(c.server /\ c.answers[i] = 0)
      OBVIOUS
    <3> QED
      BY <2>4, <3>1 DEF Outbox
  <2>7. Buffers(r, a) /\ Sending(r, a, F, A, c.rtb, c.empty, i)
    BY <2>2, <2>6 DEF Buffers, Sending
  <2>8. Outbox(d, N, A, i)
    <3>1. ~(d.server /\ d.answers[i] = 0)
      BY <2>1, <2>5
    <3> QED
      BY <2>1, <2>5, <2>6, <2>7, <3>1 DEF Outbox
  <2>9. Resets(d, N, i)
    BY <2>1, <2>2, <2>4, <2>5 DEF Resets, OwnReset, SameRecv
  <2>10. Response(d, i)
    BY <2>1, <2>2, <2>4 DEF Response, SameRecv
  <2>11. StreamInv(d, N, A, i)
    BY <2>2, <2>5, <2>8, <2>9, <2>10 DEF StreamInv, SameRecv
  <2>12. FrameInv(d, N, K, g) /\ g.type # "STREAM"
    BY <2>1, <2>5 DEF StopFrame, Frame, FrameInv
  <2>13. IsFiniteSet(d.frq)
    <3>1. IsFiniteSet(c.frq)
      BY DEF Mid, SideInv, FramesInv
    <3> QED
      BY <2>1, <3>1, FS_AddElement
  <2>14. Adds(c, d, N, K) /\ d.crashed # "assert"
    BY <2>1, <2>12, <2>13 DEF Adds, Mid, SideInv
  <2>15. d.server /\ d.answers[i] = 1 => i \in K
    BY <2>1, <2>5 DEF Mid, Context
  <2>16. Mid(d, N, A, K)
    BY <2>1, <2>11, <2>14, <2>15, MidStep
  <2> QED
    BY <2>1, <2>2, <2>16
<1> QED
  BY <1>1, <1>2

\* Finite sets with one element more.
LEMMA AddedFinite ==
    ASSUME NEW S, IsFiniteSet(S), NEW x, NEW T, T \subseteq S \cup {x}
    PROVE  IsFiniteSet(T)
<1>1. IsFiniteSet(S \cup {x})
  BY FS_AddElement
<1> QED
  BY <1>1, FS_Subset

\* Both halves are shut down.
ShutIn(s, r) ==
    /\ SameRecv(s, r) /\ r.stop_sending /\ r.tx = s.tx /\ r.acked = s.acked
    /\ r.sent_rst /\ (r.shut_wr \/ (s.sent_rst /\ r.shut_wr = s.shut_wr))

LEMMA ShutSet ==
    ASSUME NEW c, ConnInv(c), NEW i \in Ids, c.strms[i].open, IsFiniteSet(c.frq),
           NEW d, d = shutdown_stream(c, i)
    PROVE  /\ About(c, d, i) /\ d.answers = c.answers /\ d.empty = c.empty
           /\ d.idtr = c.idtr /\ d.crashed = c.crashed /\ d.streams = c.streams
           /\ c.reset \subseteq d.reset /\ (c.strms[i].sent_rst \/ i \in d.reset)
           /\ ShutIn(c.strms[i], d.strms[i]) /\ IsFiniteSet(d.frq)
           /\ \A f \in d.frq : f \in c.frq \/ f = StopFrame(c, i)
                               \/ (f.type = "RST" /\ f.id = i /\ i \in d.reset)
<1> PICK e : e = shutdown_stream_read(c, i)
  OBVIOUS
<1>1. d = shutdown_stream_write(e, i)
  BY DEF shutdown_stream
<1>2. ConnInv(e)
  BY ShutdownRead, KeptInv
<1> PICK s, t, r : s = c.strms[i] /\ t = e.strms[i] /\ r = d.strms[i]
  OBVIOUS
<1>3. /\ About(c, e, i) /\ e.answers = c.answers /\ e.empty = c.empty
      /\ e.reset = c.reset /\ e.idtr = c.idtr /\ e.crashed = c.crashed
      /\ e.frq \subseteq c.frq \cup {StopFrame(c, i)}
      /\ StopIn(s, t) /\ e.streams = c.streams
  <2>1. CASE s.stop_sending
    <3>1. e = c
      BY <2>1 DEF shutdown_stream_read
    <3> QED
      BY <2>1, <3>1 DEF About, Base, Alike, StopIn, SameRecv
  <2>2. CASE ~s.stop_sending
    <3>1. Shape(c) /\ ~c.strms[i].stop_sending
      BY <2>2 DEF ConnInv
    <3> QED
      BY <3>1, StopSet
  <2> QED
    BY <2>1, <2>2
<1>4. CASE t.sent_rst
  <2>1. d = e
    BY <1>1, <1>4 DEF shutdown_stream_write
  <2>2. ShutIn(s, r) /\ s.sent_rst
    BY <1>3, <1>4, <2>1 DEF StopIn, ShutIn
  <2>3. IsFiniteSet(d.frq)
    BY <1>3, <2>1, AddedFinite
  <2> QED
    BY <1>3, <2>1, <2>2, <2>3
<1>5. CASE ~t.sent_rst
  <2>1. Shape(e) /\ ~e.strms[i].sent_rst
    BY <1>2, <1>5 DEF ConnInv
  <2>2. /\ About(e, d, i) /\ d.answers = e.answers /\ d.empty = e.empty
        /\ d.reset = e.reset \cup {i} /\ d.idtr = e.idtr /\ d.crashed = e.crashed
        /\ d.frq = e.frq \cup {RstFrame(e, i, "APP_PROTO")}
        /\ RstIn(t, r) /\ d.streams = e.streams
    BY <1>1, <2>1, RstSet
  <2>3. About(c, d, i)
    BY <1>3, <2>2, AboutTwice
  <2>4. ShutIn(s, r)
    BY <1>3, <2>2 DEF StopIn, RstIn, ShutIn, SameRecv
  <2>5. IsFiniteSet(e.frq)
    BY <1>3, AddedFinite
  <2>6. IsFiniteSet(d.frq)
    BY <2>2, <2>5, AddedFinite
  <2> PICK g : g = RstFrame(e, i, "APP_PROTO")
    OBVIOUS
  <2>7. g.type = "RST" /\ g.id = i
    BY DEF RstFrame, Frame
  <2>8. i \in d.reset /\ d.frq = e.frq \cup {g}
    BY <2>2
  <2>9. \A f \in d.frq : f \in c.frq \/ f = StopFrame(c, i)
                         \/ (f.type = "RST" /\ f.id = i /\ i \in d.reset)
    BY <1>3, <2>7, <2>8
  <2>10. c.reset \subseteq d.reset
    BY <1>3, <2>2
  <2> QED
    BY <1>3, <2>2, <2>3, <2>4, <2>6, <2>8, <2>9, <2>10
<1> QED
  BY <1>4, <1>5

\* An answered stream is shut down, by the server, or by the client that has
\* got some of the answer.
LEMMA ShutdownMid ==
    ASSUME NEW c, NEW N, NEW A, NEW K, NEW i \in Ids, ConnInv(c), Mid(c, N, A, K),
           FramesTyped(N), c.strms[i].open, c.server => c.answers[i] = 1,
           ~c.server => i \in K,
           NEW d, d = shutdown_stream(c, i)
    PROVE  /\ Mid(d, N, A, K) /\ About(c, d, i) /\ d.streams = c.streams
           /\ SameRecv(c.strms[i], d.strms[i]) /\ d.strms[i].stop_sending
           /\ d.idtr = c.idtr
<1> PICK s, r, a, F : /\ s = c.strms[i] /\ r = d.strms[i] /\ a = c.streams[i]
                      /\ F = FramesTo(N, Other(c.server), i)
  OBVIOUS
<1>0. IsFiniteSet(c.frq)
  BY DEF Mid, SideInv, FramesInv
<1>1. /\ About(c, d, i) /\ d.answers = c.answers /\ d.empty = c.empty
      /\ d.idtr = c.idtr /\ d.crashed = c.crashed /\ d.streams = c.streams
      /\ c.reset \subseteq d.reset /\ (s.sent_rst \/ i \in d.reset)
      /\ ShutIn(s, r) /\ IsFiniteSet(d.frq)
      /\ \A f \in d.frq : f \in c.frq \/ f = StopFrame(c, i)
                          \/ (f.type = "RST" /\ f.id = i /\ i \in d.reset)
  BY <1>0, ShutSet
<1>2. StreamInv(c, N, A, i)
  BY DEF Mid, SideInv
<1>3. Outbox(c, N, A, i) /\ Resets(c, N, i)
  BY <1>2, OpenHas
<1>4. OwnReset(d, N, i) /\ r.shut_wr
  BY <1>1, <1>3 DEF Resets, OwnReset, ShutIn
<1>5. d.server = c.server /\ d.rtb = c.rtb /\ d.next = c.next /\ c.server \in BOOLEAN
  BY <1>1 DEF About, Base, ConnInv
<1>6. ~(c.server /\ c.answers[i] = 0)
  OBVIOUS
<1>7. Buffers(s, a) /\ AtRest(a) /\ Sending(s, a, F, A, c.rtb, c.empty, i)
  BY <1>3, <1>6 DEF Outbox
<1>8. Buffers(r, a)
  BY <1>1, <1>7 DEF Buffers, ShutIn
<1>9. Sending(r, a, F, A, c.rtb, c.empty, i)
  BY <1>1, <1>4, <1>7 DEF Sending, ShutIn
<1>10. Outbox(d, N, A, i)
  BY <1>1, <1>5, <1>6, <1>7, <1>8, <1>9 DEF Outbox
<1>11. SameRecv(s, r) /\ r.stop_sending
  BY <1>1 DEF ShutIn
<1>12. Resets(d, N, i)
  BY <1>3, <1>4, <1>5, <1>11 DEF Resets, SameRecv
<1>13. IF d.server THEN Response(d, i) ELSE Request(d, i)
  BY <1>1, <1>2, <1>5, <1>11 DEF StreamInv, Response, Request, SameRecv
<1>14. StreamInv(d, N, A, i)
  BY <1>10, <1>11, <1>12, <1>13 DEF StreamInv, SameRecv
<1>15. ~c.server => i < c.next
  BY DEF Mid, Context
<1>16. ASSUME NEW f \in d.frq, f \notin c.frq
      PROVE  FrameInv(d, N, K, f) /\ f.type # "STREAM"
  <2>1. f.id = i /\ f.type \in {"STOP", "RST"}
    <3>1. PICK g : g = StopFrame(c, i)
      OBVIOUS
    <3>2. g.type = "STOP" /\ g.id = i
      BY <3>1 DEF StopFrame, Frame
    <3>3. f = g \/ (f.type = "RST" /\ f.id = i)
      BY <1>1, <1>16, <3>1
    <3> QED
      BY <3>2, <3>3
  <2> QED
    BY <1>1, <1>4, <1>5, <1>15, <2>1 DEF FrameInv
<1>17. Adds(c, d, N, K) /\ d.crashed # "assert"
  BY <1>1, <1>16 DEF Adds, Mid, SideInv
<1>18. d.server /\ d.answers[i] = 1 => i \in K
  BY <1>1, <1>5 DEF Mid, Context
<1>19. Mid(d, N, A, K)
  BY <1>1, <1>14, <1>17, <1>18, MidStep
<1> QED
  BY <1>1, <1>11, <1>19

-----------------------------------------------------------------------------
(* Closing.                                                                *)

\* What is acknowledged without a gap, of two units at most.
LEMMA PrefixOf ==
    ASSUME NEW S, S \subseteq 0..1
    PROVE  /\ 0 \notin S => Prefix(S) = 0
           /\ (0 \in S /\ 1 \notin S) => Prefix(S) = 1
           /\ (0 \in S /\ 1 \in S) => Prefix(S) = 2
           /\ Prefix(S) \in 0..2
<1> DEFINE Q(n) == n \notin S /\ \A k \in 0..(n - 1) : k \in S
<1>1. \E n \in 0..2 : Q(n)
  <2>1. 0 \notin S => Q(0)
    OBVIOUS
  <2>2. (0 \in S /\ 1 \notin S) => Q(1)
    OBVIOUS
  <2>3. (0 \in S /\ 1 \in S) => Q(2)
    OBVIOUS
  <2> QED
    BY <2>1, <2>2, <2>3
<1>2. \E n \in 0..3 : Q(n)
  BY <1>1
<1>3. PICK p : p = Prefix(S)
  OBVIOUS
<1>4. p \in 0..3 /\ Q(p)
  BY <1>2, <1>3 DEF Prefix
<1>5. p \in 0..2
  <2>1. p # 3
    BY <1>4
  <2> QED
    BY <1>4, <2>1
<1>6. /\ 0 \notin S => p = 0
      /\ (0 \in S /\ 1 \notin S) => p = 1
      /\ (0 \in S /\ 1 \in S) => p = 2
  BY <1>4, <1>5
<1> QED
  BY <1>3, <1>5, <1>6

\* A buffer holds one unit at most.
LEMMA BufLen ==
    ASSUME NEW bufs \in Bufs, NEW k \in 1..Len(bufs)
    PROVE  bufs[k].len \in {0, 1}
<1> PICK S : S = [len : {0, 1}, what : Whats]
  OBVIOUS
<1>1. bufs \in Seq(S)
  BY DEF Bufs
<1>2. bufs[k] \in S
  BY ONLY <1>1, k \in 1..Len(bufs), ElementOfSeq
<1> QED
  BY <1>2

\* The units of the first buffers.
LEMMA UnitsOf ==
    ASSUME NEW bufs
    PROVE  /\ Units(bufs, 0) = 0 /\ Units(bufs, 1) = bufs[1].len
           /\ Units(bufs, 2) = bufs[1].len + bufs[2].len
BY DEF Units

\* What is acknowledged was sent, and has arrived.
LEMMA AckedSent ==
    ASSUME NEW s, NEW a, NEW F, NEW A, NEW rtb, NEW E, NEW j, Wire(F), Buffers(s, a),
           Sending(s, a, F, A, rtb, E, j)
    PROVE  /\ s.acked \subseteq 0..1 /\ s.tx \in 0..2 /\ \A k \in s.acked : k < s.tx
           /\ Prefix(s.acked) \in 0..2 /\ Prefix(s.acked) <= s.tx
<1>1. s.tx \in 0..2
  <2> PICK n, b, x, t, u : /\ n = Len(a.streambuf) /\ b = a.streambuf /\ x = a.idx
                           /\ t = a.tx_offset /\ u = Units(b, x)
    OBVIOUS
  <2>1. /\ n \in Nat /\ t \in Nat /\ t + n <= 2 /\ x \in 0..n
        /\ b \in Bufs /\ (n > 0 => b[1].len = 1)
        /\ s.tx = t + u
    BY DEF Buffers, Bufs
  <2>2. n = 2 => b[2].len \in {0, 1}
    <3>1. n = 2 => 2 \in 1..Len(b)
      OBVIOUS
    <3> QED
      BY <2>1, <3>1, BufLen
  <2>3. u \in 0..n
    <3>1. x = 0 \/ (x = 1 /\ n > 0) \/ (x = 2 /\ n = 2)
      BY ONLY <2>1
    <3>2. CASE x = 0
      BY <2>1, <3>2, UnitsOf
    <3>3. CASE x = 1 /\ n > 0
      <4>1. u = b[1].len
        BY ONLY <3>3, u = Units(b, x), UnitsOf
      <4>2. b[1].len = 1
        BY <2>1, <3>3
      <4> QED
        BY <2>1, <3>3, <4>1, <4>2
    <3>4. CASE x = 2 /\ n = 2
      <4>1. u = b[1].len + b[2].len
        BY ONLY <3>4, u = Units(b, x), UnitsOf
      <4>2. b[1].len = 1
        BY <2>1, <3>4
      <4> QED
        BY <2>2, <3>4, <4>1, <4>2
    <3> QED
      BY <3>1, <3>2, <3>3, <3>4
  <2> QED
    BY ONLY <2>1, <2>3
<1>2. ASSUME NEW k \in s.acked PROVE k \in 0..1 /\ k < s.tx
  <2>1. PICK f \in F : f.len = 1 /\ f.off = k
    BY DEF Sending
  <2>2. f.off \in Nat /\ f.off + f.len <= s.tx
    BY DEF Wire, Sending
  <2> QED
    BY <1>1, <2>1, <2>2
<1>3. s.acked \subseteq 0..1
  BY <1>2
<1>4. Prefix(s.acked) <= s.tx
  <2> PICK S : S = s.acked
    OBVIOUS
  <2>1. S \subseteq 0..1 /\ \A k \in S : k < s.tx
    BY <1>2, <1>3
  <2>2. /\ 0 \notin S => Prefix(S) = 0
        /\ (0 \in S /\ 1 \notin S) => Prefix(S) = 1
        /\ (0 \in S /\ 1 \in S) => Prefix(S) = 2
    BY <2>1, PrefixOf
  <2>3. Prefix(S) <= s.tx
    BY ONLY <1>1, <2>1, <2>2
  <2> QED
    BY <2>3
<1> QED
  BY <1>1, <1>2, <1>3, <1>4, PrefixOf

\* A response that is acknowledged to its end is through.
LEMMA AckedThrough ==
    ASSUME NEW s, NEW a, NEW F, NEW A, NEW rtb, NEW E, NEW j, Wire(F), Buffers(s, a),
           Sending(s, a, F, A, rtb, E, j), j \notin E, ~s.sent_rst, s.shut_wr,
           Prefix(s.acked) = s.tx
    PROVE  Through(F, A)
<1>1. s.acked \subseteq 0..1 /\ s.tx \in 0..2 /\ \A k \in s.acked : k < s.tx
  BY AckedSent
<1>2. PICK f \in F : f.fin
  BY DEF Sending
<1>3. f.off \in Nat /\ f.len = 1 /\ f.off + f.len = s.tx
  BY <1>2 DEF Sending, Wire
<1>4. ASSUME NEW k \in 0..1, k < s.tx PROVE k \in s.acked
  <2> PICK S : S = s.acked
    OBVIOUS
  <2>1. /\ 0 \notin S => Prefix(S) = 0
        /\ (0 \in S /\ 1 \notin S) => Prefix(S) = 1
        /\ (0 \in S /\ 1 \in S) => Prefix(S) = 2
    BY <1>1, PrefixOf
  <2>2. Prefix(S) = s.tx
    OBVIOUS
  <2>3. k \in S
    BY ONLY <1>1, <1>4, <2>1, <2>2, k \in 0..1
  <2> QED
    BY <2>3
<1>5. \A k \in 0..1 : k < f.off + f.len => \E g \in F : g.len = 1 /\ g.off = k /\ g \in A
  <2> SUFFICES ASSUME NEW k \in 0..1, k < s.tx
               PROVE  \E g \in F : g.len = 1 /\ g.off = k /\ g \in A
    BY <1>3
  <2>1. k \in s.acked
    BY <1>4
  <2> QED
    BY <2>1 DEF Sending
<1>6. f \in A
  <2>1. f.off \in 0..1 /\ f.off < s.tx
    BY <1>1, <1>3
  <2>2. PICK g \in F : g.len = 1 /\ g.off = f.off /\ g \in A
    BY <1>3, <1>5, <2>1
  <2>3. g = f
    BY <1>3, <2>2 DEF Wire
  <2> QED
    BY <2>2, <2>3
<1> QED
  BY <1>2, <1>5, <1>6 DEF Through

\* A server's stream that is shut for writing is answered.
LEMMA ShutAnswered ==
    ASSUME NEW c, NEW N, NEW A, NEW j \in Ids, ConnInv(c), StreamInv(c, N, A, j),
           c.server, c.strms[j].open,
           c.strms[j].shut_wr \/ c.strms[j].stop_sending \/ c.streams[j].completed
    PROVE  c.answers[j] = 1 /\ c.streams[j].exists
<1>1. Outbox(c, N, A, j) /\ Response(c, j)
  BY OpenHas
<1>2. c.answers[j] \in {0, 1}
  BY DEF ConnInv, ServerInv, Answers
<1>3. ASSUME c.answers[j] = 0 PROVE FALSE
  <2>1. Unstarted(c.strms[j], c.streams[j])
    BY <1>1, <1>3 DEF Outbox
  <2>2. ~c.streams[j].completed
    BY <1>1, <1>3 DEF Response
  <2> QED
    BY <2>1, <2>2 DEF Unstarted
<1> QED
  BY <1>1, <1>2, <1>3 DEF Response

\* A stream is closed when nothing of it is left to do.
LEMMA CloseMid ==
    ASSUME NEW c, NEW N, NEW A, NEW K, NEW i \in Ids, ConnInv(c), Mid(c, N, A, K),
           FramesTyped(N), NEW d, d = close_stream_if_shut_rdwr(c, i)
    PROVE  /\ Mid(d, N, A, K) /\ About(c, d, i)
           /\ Inbox(c, A, i) => Inbox(d, A, i)
           /\ Counted(c, i, 0) => Counted(d, i, 0)
<1> PICK s, a, F : /\ s = c.strms[i] /\ a = c.streams[i]
                   /\ F = FramesTo(N, Other(c.server), i)
  OBVIOUS
<1>0. Shape(c) /\ c.server \in BOOLEAN
  BY DEF ConnInv
<1>1. StreamInv(c, N, A, i) /\ Wire(F)
  <2>1. Other(c.server) \in Sides
    BY DEF Other, Sides
  <2> QED
    BY <2>1 DEF Mid, SideInv, Context
<1>2. CASE d = c
  BY <1>2 DEF About, Base, Alike
<1>3. CASE /\ s.open /\ s.shut_rd /\ s.shut_wr
           /\ s.sent_rst \/ Prefix(s.acked) = s.tx
           /\ d = close_stream(c, i)
  <2>1. /\ About(c, d, i) /\ d.frq = c.frq /\ d.answers = c.answers /\ d.empty = c.empty
        /\ d.reset = c.reset /\ d.idtr = c.idtr
        /\ (c.server => a.exists) => d.crashed = c.crashed
        /\ d.strms[i] = NoStrm /\ d.streams[i] = NoStream
    BY <1>0, <1>3, CloseSet
  <2>2. c.server => c.answers[i] = 1 /\ a.exists
    BY <1>1, <1>3, ShutAnswered
  <2>3. Quiet(c, d)
    BY <2>1, <2>2 DEF Quiet
  <2>4. d.server = c.server /\ d.rtb = c.rtb /\ d.error = c.error
    BY <2>1 DEF About, Base
  <2>5. ~d.strms[i].open /\ ~d.streams[i].completed
    BY <2>1 DEF NoStrm, NoStream
  <2>6. Gone(d, i)
    BY <2>1 DEF Gone
  <2>7. Done(d, N, A, i)
    <3> SUFFICES ASSUME c.server, c.answers[i] = 1, i \notin c.empty, ~OwnReset(c, N, i)
                 PROVE  Through(F, A)
      BY <2>1, <2>4 DEF Done, OwnReset
    <3>1. Outbox(c, N, A, i) /\ Resets(c, N, i)
      BY <1>1, <1>3, OpenHas
    <3>2. ~s.sent_rst
      BY <3>1 DEF Resets
    <3>3. ~(c.server /\ c.answers[i] = 0)
      OBVIOUS
    <3>4. Buffers(s, a) /\ Sending(s, a, F, A, c.rtb, c.empty, i)
      BY <3>1, <3>3 DEF Outbox
    <3>5. Prefix(s.acked) = s.tx
      BY <1>3, <3>2
    <3> QED
      BY <1>1, <1>3, <3>2, <3>4, <3>5, AckedThrough
  <2>8. IF d.server THEN Response(d, i) ELSE Request(d, i)
    BY <1>1, <2>1, <2>2, <2>4, <2>5 DEF StreamInv, Response, Request
  <2>9. StreamInv(d, N, A, i)
    BY <2>5, <2>6, <2>7, <2>8 DEF StreamInv
  <2>10. Mid(d, N, A, K)
    BY <2>1, <2>3, <2>9, QuietStep
  <2>11. Inbox(c, A, i) => Inbox(d, A, i)
    BY <2>1, <2>4, <2>5 DEF Inbox
  <2>12. Counted(d, i, 0)
    BY <2>5 DEF Counted
  <2> QED
    BY <2>1, <2>10, <2>11, <2>12
<1> QED
  BY <1>2, <1>3 DEF close_stream_if_shut_rdwr

\* The ids that are left when one is taken are free as before.
LEMMA IdtrRest ==
    ASSUME NEW t, Tracker(t), NEW id \in Nat, Free(t, id), NEW u, u = idtr_open(t, id),
           NEW x \in Nat, x # id, Free(t, x)
    PROVE  Free(u, x)
<1>0. Tracker(u)
  BY IdtrOpen
<1>1. PICK k : k = GapAt(t, id)
  OBVIOUS
<1>2. k \in DOMAIN t /\ t[k][1] <= id /\ id < t[k][2]
  BY <1>1, FreeInGap
<1>3. PICK a \in Nat, b \in Nat : t[k] = <<a, b>> /\ t[k][1] = a /\ t[k][2] = b
  <2>1. t[k] \in Nat \X Nat
    BY <1>2 DEF Tracker
  <2> QED
    BY <2>1
<1>4. a <= id /\ id < b
  BY <1>2, <1>3
<1>5. u = IF id = a
          THEN IF b - a = 1 THEN RemoveAt(t, k) ELSE [t EXCEPT ![k] = <<id + 1, b>>]
          ELSE InsertAt([t EXCEPT ![k] = <<id + 1, b>>], k, <<a, id>>)
  BY <1>1, <1>3 DEF idtr_open
<1>6. PICK n \in Nat : n = Len(t)
  BY DEF Tracker
<1>7. t \in Seq(Nat \X Nat) /\ DOMAIN t = 1..n /\ k \in 1..n
  BY <1>2, <1>6 DEF Tracker
<1>8. PICK l \in 1..n : t[l][1] <= x /\ x < t[l][2]
  BY <1>7, FreeInGap
<1>9. SUFFICES ASSUME NEW m \in Nat, Len(u) = m PROVE \E j \in 1..m : u[j][1] <= x /\ x < u[j][2]
  <2>1. PICK m \in Nat : Len(u) = m
    BY <1>0 DEF Tracker
  <2>2. DOMAIN u = 1..m
    BY <1>0, <2>1 DEF Tracker
  <2>3. PICK j \in 1..m : u[j][1] <= x /\ x < u[j][2]
    BY <1>9, <2>1
  <2>4. j \in DOMAIN u
    BY <2>2
  <2> QED
    BY ONLY <1>0, <2>3, <2>4, x \in Nat, FreeInGap
<1>10. l = k => a <= x /\ x < b
  BY <1>3, <1>8
<1>12. CASE id = a /\ b - a = 1
  <2>0. PICK S : S = Nat \X Nat
    OBVIOUS
  <2>1. u = RemoveAt(t, k) /\ t \in Seq(S) /\ Len(t) = n /\ k \in 1..n /\ n \in Nat
    BY <1>5, <1>6, <1>7, <1>12, <2>0
  <2>2. Len(u) = n - 1 /\ Without(u, t, n, k)
    BY ONLY <2>1, RemovedAt
  <2>3. \A j \in 1..(n - 1) : u[j] = IF j < k THEN t[j] ELSE t[j + 1]
    BY <2>2 DEF Without
  <2>4. l # k /\ m = n - 1
    BY <1>9, <1>10, <1>12, <2>2
  <2>5. CASE l < k
    <3>1. l \in 1..m /\ u[l] = t[l]
      BY <1>7, <2>3, <2>4, <2>5
    <3> QED
      BY <1>8, <3>1
  <2>6. CASE k < l
    <3>1. l - 1 \in 1..m /\ ~(l - 1 < k) /\ (l - 1) + 1 = l
      BY <1>7, <2>4, <2>6
    <3>2. u[l - 1] = t[l]
      BY <2>3, <2>4, <3>1
    <3> QED
      BY <1>8, <3>1, <3>2
  <2> QED
    BY <1>7, <2>4, <2>5, <2>6
<1>13. CASE id = a /\ b - a # 1
  <2>1. u = [t EXCEPT ![k] = <<id + 1, b>>]
    BY <1>5, <1>13
  <2>2. Len(u) = n /\ u[k] = <<id + 1, b>> /\ \A j \in 1..n : j # k => u[j] = t[j]
    BY <1>6, <1>7, <2>1
  <2>3. u[k][1] = id + 1 /\ u[k][2] = b /\ m = n
    BY <1>9, <2>2
  <2>4. u[l][1] <= x /\ x < u[l][2]
    <3>1. CASE l = k
      <4>1. id + 1 <= x /\ x < b
        BY <1>10, <1>13, <3>1
      <4> QED
        BY <2>3, <3>1, <4>1
    <3>2. CASE l # k
      BY <1>8, <2>2, <3>2
    <3> QED
      BY <3>1, <3>2
  <2> QED
    BY <2>3, <2>4
<1>14. CASE id # a
  <2>1. PICK v : v = [t EXCEPT ![k] = <<id + 1, b>>]
    OBVIOUS
  <2>2. v \in Seq(Nat \X Nat) /\ Len(v) = n /\ v[k] = <<id + 1, b>>
        /\ \A j \in 1..n : j # k => v[j] = t[j]
    BY <1>6, <1>7, <2>1
  <2>3. PICK e \in Nat \X Nat : e = <<a, id>>
    OBVIOUS
  <2>0. PICK S : S = Nat \X Nat
    OBVIOUS
  <2>4. /\ u = InsertAt(v, k, e) /\ v \in Seq(S) /\ Len(v) = n /\ k \in 1..n
        /\ n \in Nat /\ e \in S
    BY <1>5, <1>7, <1>14, <2>0, <2>1, <2>2, <2>3
  <2>5. Len(u) = n + 1 /\ With(u, v, n, k, e)
    BY ONLY <2>4, InsertedAt
  <2>6. \A j \in 1..(n + 1) : u[j] = IF j < k THEN v[j] ELSE IF j = k THEN e ELSE v[j - 1]
    BY <2>5 DEF With
  <2>7. m = n + 1
    BY <1>9, <2>5
  <2>8. CASE l < k
    <3>1. l \in 1..m /\ l # k
      BY <1>7, <2>7, <2>8
    <3>2. u[l] = v[l]
      BY <2>6, <2>7, <2>8, <3>1
    <3>3. v[l] = t[l]
      BY <2>2, <3>1
    <3> QED
      BY <1>8, <3>1, <3>2, <3>3
  <2>9. CASE k < l
    <3>1. l + 1 \in 1..m /\ ~(l + 1 < k) /\ l + 1 # k /\ (l + 1) - 1 = l /\ l # k
      BY <1>7, <2>7, <2>9
    <3>2. u[l + 1] = v[l]
      BY <2>6, <2>7, <3>1
    <3>3. v[l] = t[l]
      BY <2>2, <3>1
    <3> QED
      BY <1>8, <3>1, <3>2, <3>3
  <2>10. CASE l = k /\ x < id
    <3>1. k \in 1..m /\ ~(k < k)
      BY <1>7, <2>7
    <3>2. u[k] = e
      BY <2>6, <2>7, <3>1
    <3>3. u[k][1] = a /\ u[k][2] = id
      BY <2>3, <3>2
    <3> QED
      BY <1>10, <2>10, <3>1, <3>3
  <2>11. CASE l = k /\ id < x
    <3>1. k + 1 \in 1..m /\ ~(k + 1 < k) /\ k + 1 # k /\ (k + 1) - 1 = k
      BY <1>7, <2>7
    <3>2. u[k + 1] = v[k]
      BY <2>6, <2>7, <3>1
    <3>3. u[k + 1][1] = id + 1 /\ u[k + 1][2] = b
      BY <2>2, <3>2
    <3> QED
      BY <1>10, <2>11, <3>1, <3>3
  <2> QED
    BY <1>7, <2>8, <2>9, <2>10, <2>11
<1> QED
  BY <1>12, <1>13, <1>14

\* The server opens a stream that the client has begun.
OpenedAs(c, i) == [c EXCEPT !.idtr = idtr_open(@, i), !.strms[i].open = TRUE]

LEMMA OpenMid ==
    ASSUME NEW c, NEW N, NEW A, NEW K, NEW i \in Ids, ConnInv(c), Mid(c, N, A, K),
           FramesTyped(N), c.server, ~c.strms[i].open, Free(c.idtr, i),
           Inbox(c, A, i), ~c.error, page \in Pages, NEW d, d = OpenedAs(c, i)
    PROVE  /\ Mid(d, N, A, K) /\ About(c, d, i) /\ d.strms[i].open
           /\ Inbox(d, A, i) /\ Counted(d, i, 0) /\ ~Free(d.idtr, i)
<1>0. Shape(c)
  BY DEF ConnInv
<1>1. StreamInv(c, N, A, i) /\ SideInv(c, N, A, K)
  BY DEF Mid, SideInv
<1>2. c.strms[i] = NoStrm /\ c.streams[i] = NoStream
  BY <1>1 DEF StreamInv, Gone
<1> PICK r : r = [NoStrm EXCEPT !.open = TRUE]
  OBVIOUS
<1>3. /\ DOMAIN d = ConnFields
      /\ \A k \in ConnFields \ {"strms", "idtr"} : d[k] = c[k]
      /\ d.strms = [c.strms EXCEPT ![i] = r] /\ d.idtr = idtr_open(c.idtr, i)
  BY <1>0, <1>2 DEF OpenedAs, Shape, ConnFields
<1>4. /\ r.open /\ r.rx = 0 /\ r.rob = {} /\ r.last_rx = 0 /\ ~r.shut_rd /\ ~r.shut_wr
      /\ ~r.recv_rst /\ ~r.sent_rst /\ ~r.stop_sending /\ r.tx = 0 /\ r.acked = {}
  BY DEF NoStrm
<1>5. /\ d.strms[i] = r /\ d.streams = c.streams /\ d.frq = c.frq /\ d.crashed = c.crashed
      /\ d.server = c.server /\ d.rtb = c.rtb /\ d.error = c.error
      /\ d.next = c.next /\ d.max_remote = c.max_remote /\ d.max_local = c.max_local
      /\ d.answers = c.answers /\ d.empty = c.empty /\ d.reset = c.reset
      /\ \A j \in Ids : j # i => d.strms[j] = c.strms[j]
  BY <1>0, <1>3 DEF Shape, ConnFields
<1>6. /\ ~Free(d.idtr, i)
      /\ \A j \in Ids : j # i => (Free(d.idtr, j) <=> Free(c.idtr, j))
  <2> PICK t, u : t = c.idtr /\ u = d.idtr
    OBVIOUS
  <2>1. Tracker(t) /\ Free(t, i) /\ u = idtr_open(t, i) /\ i \in Nat
    BY <1>3 DEF ConnInv, ServerInv, Ids
  <2>2. ~Free(u, i) /\ \A j \in Nat : Free(u, j) => Free(t, j)
    BY ONLY <2>1, IdtrOpen
  <2>3. ASSUME NEW j \in Ids, j # i, Free(t, j) PROVE Free(u, j)
    <3>1. j \in Nat
      BY DEF Ids
    <3> QED
      BY ONLY <2>1, <2>3, <3>1, IdtrRest
  <2>4. \A j \in Ids : j \in Nat
    BY DEF Ids
  <2> QED
    BY <2>2, <2>3, <2>4
<1>7. About(c, d, i)
  BY <1>5, <1>6 DEF About, Base, Alike
<1>8. c.answers[i] = 0
  BY DEF ConnInv, ServerInv, Answers
<1> PICK q : q = NoStream
  OBVIOUS
<1>9. /\ q.streambuf = << >> /\ q.idx = 0 /\ q.tx_offset = 0 /\ ~q.completed /\ q.nread = 0
  BY DEF NoStream
<1>10. d.streams[i] = q
  BY <1>2, <1>5
<1>11. Outbox(d, N, A, i)
  <2>1. Unstarted(r, q)
    BY <1>4, <1>9 DEF Unstarted
  <2>2. Len(q.streambuf) = 0
    BY <1>9
  <2>3. Buffers(r, q)
    <3>1. Units(q.streambuf, 0) = 0
      BY DEF Units
    <3>2. << >> \in Bufs
      BY DEF Bufs
    <3> QED
      BY <1>4, <1>9, <2>2, <3>1, <3>2 DEF Buffers
  <2>4. AtRest(q)
    BY <1>9, <2>2 DEF AtRest
  <2>5. d.server /\ d.answers[i] = 0
    BY <1>5, <1>8
  <2> QED
    BY <1>5, <1>10, <2>1, <2>3, <2>4, <2>5 DEF Outbox
<1>12. Resets(d, N, i)
  BY <1>4, <1>5 DEF Resets
<1>13. Response(d, i)
  BY <1>1, <1>4, <1>5, <1>8, <1>9, <1>10 DEF Response, StreamInv
<1>14. StreamInv(d, N, A, i)
  BY <1>4, <1>5, <1>11, <1>12, <1>13 DEF StreamInv
<1>15. Adds(c, d, N, K) /\ d.crashed # "assert"
  BY <1>1, <1>5 DEF Adds, SideInv, FramesInv
<1>16. Mid(d, N, A, K)
  BY <1>5, <1>7, <1>8, <1>14, <1>15, MidStep
<1>17. Inbox(d, A, i)
  <2>1. FramesTo(A, "server", i) = {}
    BY DEF Inbox
  <2>2. Other(~d.server) = "server"
    BY <1>5 DEF Other
  <2>3. Receiving(r, {})
    BY <1>4 DEF Receiving
  <2> QED
    BY <1>5, <1>6, <2>1, <2>2, <2>3 DEF Inbox
<1>18. Counted(d, i, 0)
  <2>1. ~(0 >= page.req)
    BY ExchangeAssumption
  <2> QED
    BY <1>4, <1>5, <1>9, <1>10, <2>1 DEF Counted
<1> QED
  BY <1>4, <1>5, <1>6, <1>7, <1>16, <1>17, <1>18

-----------------------------------------------------------------------------
(* The client's application opens streams.                                 *)

\* What has arrived keeps being there.
LEMMA ArrivedStream ==
    ASSUME NEW c, NEW N, NEW A, NEW B, A \subseteq B, NEW j, StreamInv(c, N, A, j)
    PROVE  StreamInv(c, N, B, j)
<1> PICK s, a, F, rtb, E : /\ s = c.strms[j] /\ a = c.streams[j] /\ rtb = c.rtb /\ E = c.empty
                           /\ F = FramesTo(N, Other(c.server), j)
  OBVIOUS
<1>1. Sending(s, a, F, A, rtb, E, j) => Sending(s, a, F, B, rtb, E, j)
  BY DEF Sending
<1>2. Through(F, A) => Through(F, B)
  BY DEF Through
<1>3. Outbox(c, N, A, j) => Outbox(c, N, B, j)
  BY <1>1 DEF Outbox
<1>4. Done(c, N, A, j) => Done(c, N, B, j)
  BY <1>2 DEF Done
<1> QED
  BY <1>3, <1>4 DEF StreamInv

LEMMA ArrivedMid ==
    ASSUME NEW c, NEW N, NEW A, NEW B, NEW K, A \subseteq B, B \subseteq N, Mid(c, N, A, K)
    PROVE  Mid(c, N, B, K)
<1>1. \A j \in Ids : StreamInv(c, N, B, j)
  BY ArrivedStream DEF Mid, SideInv
<1>2. Context(c, N, B, K)
  BY DEF Mid, Context
<1> QED
  BY <1>1, <1>2 DEF Mid, SideInv

\* Fields of the client that streams are not about, and the next id.
Plain(c, e) ==
    /\ e.server = c.server /\ e.rtb = c.rtb /\ e.error = c.error /\ e.frq = c.frq
    /\ e.answers = c.answers /\ e.empty = c.empty /\ e.reset = c.reset /\ e.idtr = c.idtr
    /\ e.crashed = c.crashed /\ e.max_remote = c.max_remote
    /\ e.strms = c.strms /\ e.streams = c.streams

LEMMA PlainMid ==
    ASSUME NEW c, NEW e, NEW N, NEW A, NEW K, ConnInv(c), Mid(c, N, A, K), ~c.server,
           FramesTyped(N), Plain(c, e),
           e.next \in Nat \ {0}, c.next <= e.next, e.next <= e.max_local + 1,
           e.max_local = c.max_local \/ e.max_local <= ep["server"].max_remote
    PROVE  /\ Mid(e, N, A, K)
           /\ \A j \in Ids : Inbox(c, A, j) => Inbox(e, A, j)
<1> USE DEF Plain
<1>0. c.next \in Nat \ {0} /\ (\A j \in K : j < c.next /\ j \in Nat)
  BY DEF Mid, Context, Ids
<1>1. ASSUME NEW j \in Ids PROVE StreamInv(e, N, A, j)
  <2>1. StreamInv(c, N, A, j)
    BY DEF Mid, SideInv
  <2>2. Outbox(c, N, A, j) => Outbox(e, N, A, j)
    BY DEF Outbox
  <2>3. OwnReset(c, N, j) <=> OwnReset(e, N, j)
    BY DEF OwnReset
  <2>4. Resets(c, N, j) => Resets(e, N, j)
    BY <2>3 DEF Resets
  <2>5. Gone(c, j) => Gone(e, j)
    BY DEF Gone
  <2>6. Done(e, N, A, j)
    BY DEF Done
  <2>7. Request(c, j) => Request(e, j)
    <3>1. j \in Nat /\ (j < c.next => j < e.next)
      BY <1>0 DEF Ids
    <3> QED
      BY <3>1 DEF Request
  <2> QED
    BY <2>1, <2>2, <2>4, <2>5, <2>6, <2>7 DEF StreamInv
<1>2. ASSUME NEW f, FrameInv(c, N, K, f), f.type # "MAXID" => f.id \in Nat
      PROVE  FrameInv(e, N, K, f)
  <2>1. OwnReset(c, N, f.id) <=> OwnReset(e, N, f.id)
    BY DEF OwnReset
  <2> QED
    BY <1>0, <1>2, <2>1 DEF FrameInv
<1>3. FramesInv(c, N, K)
  BY DEF Mid, SideInv
<1>4. \A f \in N : f.to = Other(e.server) => FrameInv(e, N, K, f)
  <2> SUFFICES ASSUME NEW f \in N, f.to = Other(c.server) PROVE FrameInv(e, N, K, f)
    OBVIOUS
  <2>1. FrameInv(c, N, K, f)
    BY <1>3 DEF FramesInv
  <2>2. f.type # "MAXID" => f.id \in Nat
    BY DEF FramesTyped, Ids
  <2> QED
    BY <1>2, <2>1, <2>2
<1>5. \A f \in e.frq : FrameInv(e, N, K, f) /\ f.type # "STREAM"
  <2> SUFFICES ASSUME NEW f \in c.frq PROVE FrameInv(e, N, K, f) /\ f.type # "STREAM"
    OBVIOUS
  <2>1. FrameInv(c, N, K, f) /\ f.type # "STREAM"
    BY <1>3 DEF FramesInv
  <2>2. f.type # "MAXID" => f.id \in Nat
    BY DEF ConnInv, OfStream, Ids
  <2> QED
    BY <1>2, <2>1, <2>2
<1>6. FramesInv(e, N, K)
  BY <1>3, <1>4, <1>5 DEF FramesInv
<1>7. Context(e, N, A, K)
  <2>1. Context(c, N, A, K)
    BY DEF Mid
  <2>2. ~e.server /\ \A j \in K : j < e.next
    <3> SUFFICES ASSUME NEW j \in K PROVE j < e.next
      OBVIOUS
    <3>1. j < c.next /\ j \in Nat
      BY <1>0
    <3> QED
      BY <1>0, <3>1
  <2> QED
    BY <2>1, <2>2 DEF Context
<1>8. Mid(e, N, A, K)
  BY <1>1, <1>6, <1>7 DEF Mid, SideInv
<1>9. \A j \in Ids : Inbox(c, A, j) => Inbox(e, A, j)
  BY DEF Inbox
<1> QED
  BY <1>8, <1>9

\* All of a side within a turn that an input does not end with an error.
Full(c, N, A, K) ==
    /\ ConnInv(c) /\ Mid(c, N, A, K)
    /\ \A j \in Ids : Inbox(c, A, j) /\ Counted(c, j, 0)

\* The streams before the next are as they were.
Ahead(c, d) ==
    /\ d.server = c.server /\ d.error = c.error /\ c.next <= d.next
    /\ \A j \in Ids : j < c.next => d.strms[j] = c.strms[j] /\ d.streams[j] = c.streams[j]

\* The buffers of a request.
LEMMA RequestBufs ==
    ASSUME NEW n \in 1..2, NEW b, b = [k \in 1..n |-> [len |-> 1, what |-> "REQUEST"]]
    PROVE  b \in Bufs /\ Len(b) = n /\ \A k \in 1..n : b[k].len = 1
<1>1. PICK S : S = [len : {0, 1}, what : Whats]
  OBVIOUS
<1> PICK e : e = [len |-> 1, what |-> "REQUEST"]
  OBVIOUS
<1>7. e \in [len : {0, 1}, what : Whats]
  BY DEF Whats
<1>6. e \in S /\ e.len = 1
  BY <1>1, <1>7
<1>2. \A k \in 1..n : b[k] \in S /\ b[k].len = 1
  BY <1>6
<1>3. n \in Nat /\ b \in [1..n -> S]
  BY <1>2
<1>4. b \in Seq(S)
  BY ONLY <1>3, SeqDef
<1>5. Len(b) = n
  BY ONLY <1>3, <1>4, LenProperties
<1> QED
  BY <1>1, <1>2, <1>4, <1>5 DEF Bufs

\* http_resq.
LEMMA RequestMid ==
    ASSUME NEW c, NEW N, NEW A, NEW K, FramesTyped(N), ~c.server, page \in Pages,
           Full(c, N, A, K), NEW d, d = http_resq(c)
    PROVE  Full(d, N, A, K) /\ Ahead(c, d)
<1>0. /\ ConnInv(c) /\ Mid(c, N, A, K) /\ \A j \in Ids : Inbox(c, A, j)
      /\ \A j \in Ids : Counted(c, j, 0)
  BY DEF Full
<1>1. c.next \in Nat \ {0} /\ c.max_local \in Nat /\ Shape(c)
  BY <1>0 DEF Mid, Context, ConnInv
<1>2. CASE d = c
  BY <1>1, <1>2 DEF Ahead
<1>3. CASE open_bidi_stream(c) /\ ~(c.next > MaxStream) /\ d # c
  <2> PICK i \in Ids : i = c.next
    BY <1>1, <1>3, ExchangeAssumption DEF Ids
  <2> PICK b : b = [k \in 1..page.req |-> [len |-> 1, what |-> "REQUEST"]]
    OBVIOUS
  <2> PICK q : q = [NoStream EXCEPT !.exists = TRUE, !.should_send_fin = TRUE, !.streambuf = b]
    OBVIOUS
  <2> PICK r : r = [NoStrm EXCEPT !.open = TRUE]
    OBVIOUS
  <2> PICK e : e = [c EXCEPT !.next = @ + 1]
    OBVIOUS
  <2>1. d = [c EXCEPT !.next = @ + 1, !.strms[i].open = TRUE, !.streams[i] = q]
    BY <1>3 DEF http_resq
  <2>2. StreamInv(c, N, A, i) /\ FramesInv(c, N, K) /\ c.crashed # "assert"
    BY <1>0 DEF Mid, SideInv
  <2>3. ~c.strms[i].open
    BY <1>1, <2>2 DEF StreamInv, Request
  <2>4. c.strms[i] = NoStrm /\ Request(c, i)
    BY <2>2, <2>3 DEF StreamInv, Gone
  <2>5. DOMAIN e = ConnFields /\ (\A k \in ConnFields \ {"next"} : e[k] = c[k])
        /\ e.next = c.next + 1
    BY <1>1 DEF Shape, ConnFields
  <2>6. Plain(c, e) /\ e.max_local = c.max_local /\ e.unsent_max = c.unsent_max
    BY <2>5 DEF Plain, ConnFields
  <2>7. e.next \in Nat \ {0} /\ c.next <= e.next /\ e.next <= e.max_local + 1
    BY <1>1, <1>3, <2>5, <2>6 DEF open_bidi_stream
  <2>8. Mid(e, N, A, K) /\ \A j \in Ids : Inbox(e, A, j)
    BY <1>0, <2>6, <2>7, PlainMid
  <2>9. ConnInv(e)
    <3>1. Shape(e)
      BY <1>1, <2>5, <2>6 DEF Shape, Plain
    <3>2. /\ e.server = c.server /\ e.rtb = c.rtb /\ e.frq = c.frq /\ e.max_local = c.max_local
          /\ e.max_remote = c.max_remote /\ e.unsent_max = c.unsent_max
      BY <2>6 DEF Plain
    <3>4. e.max_local \in Nat /\ c.max_local <= e.max_local
      BY <1>1, <3>2
    <3>3. Kept(c, e)
      BY ONLY <1>0, ~c.server, <3>1, <3>2, <3>4, ClientKept
    <3> QED
      BY <1>0, <3>3, KeptInv
  <2>10. ConnInv(d)
    BY <1>0, RequestKept, KeptInv
  <2>11. /\ DOMAIN d = ConnFields
         /\ \A k \in ConnFields \ {"strms", "streams"} : d[k] = e[k]
         /\ d.strms = [c.strms EXCEPT ![i] = r] /\ d.streams = [c.streams EXCEPT ![i] = q]
    BY <1>1, <2>1, <2>4, <2>5 DEF Shape, ConnFields
  <2>12. /\ d.strms[i] = r /\ d.streams[i] = q
         /\ \A j \in Ids : j # i => d.strms[j] = c.strms[j] /\ d.streams[j] = c.streams[j]
    BY <1>1, <2>11 DEF Shape
  <2>13. Others(e, d) /\ d.frq = e.frq /\ d.crashed = e.crashed
    BY <2>11 DEF Others, ConnFields
  <2>14. About(e, d, i)
    <3>1. \A j \in Ids : j # i => d.strms[j] = e.strms[j] /\ d.streams[j] = e.streams[j]
      BY <2>6, <2>12 DEF Plain
    <3> QED
      BY <2>13, <3>1, FieldsAbout
  <2>15. Quiet(e, d)
    BY <2>13 DEF Quiet, Others
  <2>16. /\ r.open /\ r.rx = 0 /\ r.rob = {} /\ r.last_rx = 0 /\ ~r.shut_rd /\ ~r.shut_wr
         /\ ~r.recv_rst /\ ~r.sent_rst /\ ~r.stop_sending /\ r.tx = 0 /\ r.acked = {}
    BY DEF NoStrm
  <2>17. q.exists /\ q.should_send_fin /\ q.streambuf = b /\ q.idx = 0 /\ q.tx_offset = 0
    BY DEF NoStream
  <2> PICK n \in 1..2 : n = page.req
    BY ExchangeAssumption
  <2>18. b \in Bufs /\ Len(b) = n /\ \A k \in 1..n : b[k].len = 1
    BY RequestBufs
  <2>19. /\ d.server = c.server /\ d.rtb = c.rtb /\ d.answers = c.answers /\ d.empty = c.empty
         /\ d.error = c.error /\ d.next = c.next + 1 /\ d.reset = c.reset
    BY <2>5, <2>6, <2>13 DEF Others, Plain
  <2>20. StreamInv(d, N, A, i)
    <3>1. FramesTo(N, Other(c.server), i) = {}
      <4> SUFFICES ASSUME NEW f \in FramesTo(N, Other(c.server), i) PROVE FALSE
        OBVIOUS
      <4>1. f \in N /\ f.to = Other(c.server) /\ f.type = "STREAM" /\ f.id = i
        BY DEF FramesTo
      <4>2. FrameInv(c, N, K, f)
        BY <2>2, <4>1 DEF FramesInv
      <4>3. f.id < c.next
        BY <4>1, <4>2 DEF FrameInv
      <4> QED
        BY <1>1, <4>1, <4>3
    <3>2. Buffers(r, q)
      <4>1. Units(b, 0) = 0
        BY UnitsOf
      <4>2. q.streambuf = b /\ q.idx = 0 /\ q.tx_offset = 0 /\ r.tx = 0
        BY <2>16, <2>17
      <4>3. b[1].len = 1 /\ 0 + Len(b) <= 2 /\ 0 \in 0..Len(b) /\ 0 \in Nat
        BY <2>18
      <4>4. r.tx = 0 + Units(b, 0)
        BY <4>1, <4>2
      <4> QED
        BY ONLY <2>18, <4>2, <4>3, <4>4 DEF Buffers
    <3>3. AtRest(q)
      BY <2>17, <2>18 DEF AtRest
    <3>4. Sending(r, q, {}, A, d.rtb, d.empty, i)
      <4>1. q.idx = 0 /\ Len(q.streambuf) = n /\ q.should_send_fin
        BY <2>17, <2>18
      <4>2. \A k \in 1..Len(q.streambuf) : q.streambuf[k].len # 0
        BY <2>17, <2>18
      <4> QED
        BY <2>16, <4>1, <4>2 DEF Sending
    <3>5. Outbox(d, N, A, i)
      <4>1. ~(d.server /\ d.answers[i] = 0)
        BY <2>19
      <4> QED
        BY <2>12, <2>19, <3>1, <3>2, <3>3, <3>4, <4>1 DEF Outbox
    <3>6. Resets(d, N, i)
      BY <2>12, <2>16 DEF Resets
    <3>7. Request(d, i)
      <4>1. q.tx_offset + Len(q.streambuf) = page.req
        BY <2>17, <2>18
      <4>2. i < d.next
        BY <1>1, <2>19
      <4> QED
        BY <2>4, <2>12, <2>17, <2>19, <4>1, <4>2 DEF Request
    <3> QED
      BY <2>12, <2>16, <2>19, <3>5, <3>6, <3>7 DEF StreamInv
  <2>21. Mid(d, N, A, K)
    BY <2>8, <2>9, <2>14, <2>15, <2>20, QuietStep
  <2>22. Inbox(d, A, i)
    <3>1. FramesTo(A, Other(~d.server), i) = {}
      <4> SUFFICES ASSUME NEW f \in FramesTo(A, Other(~c.server), i) PROVE FALSE
        BY <2>19
      <4>1. f \in A /\ f.to = Other(~c.server) /\ f.type = "STREAM" /\ f.id = i
        BY DEF FramesTo
      <4>2. f.id < c.next
        BY <1>0, <4>1 DEF Mid, Context
      <4> QED
        BY <1>1, <4>1, <4>2
    <3>2. Receiving(r, {})
      BY <2>16 DEF Receiving
    <3> QED
      BY <2>12, <2>19, <3>1, <3>2 DEF Inbox
  <2>23. \A j \in Ids : Inbox(d, A, j)
    BY <2>8, <2>14, <2>22, InboxStep
  <2>24. \A j \in Ids : Counted(d, j, 0)
    BY <2>19 DEF Counted
  <2>25. Ahead(c, d)
    BY <1>1, <2>12, <2>19 DEF Ahead
  <2> QED
    BY <2>10, <2>21, <2>23, <2>24, <2>25 DEF Full
<1> QED
  BY <1>2, <1>3 DEF http_resq

LEMMA AheadTwice ==
    ASSUME NEW c, NEW d, NEW e, NEW N, NEW A, NEW K, ~c.server, Full(c, N, A, K),
           Full(d, N, A, K), Full(e, N, A, K), Ahead(c, d), Ahead(d, e)
    PROVE  Ahead(c, e)
<1>1. ~d.server /\ ~e.server
  BY DEF Ahead
<1>2. c.next \in Nat /\ d.next \in Nat /\ e.next \in Nat
  BY <1>1 DEF Full, Mid, Context
<1>3. c.next <= d.next /\ d.next <= e.next
  BY DEF Ahead
<1>4. c.next <= e.next
  BY ONLY <1>2, <1>3
<1>5. ASSUME NEW j \in Ids, j < c.next
      PROVE  e.strms[j] = c.strms[j] /\ e.streams[j] = c.streams[j]
  <2>1. j < d.next
    BY <1>2, <1>3, <1>5 DEF Ids
  <2> QED
    BY <1>5, <2>1 DEF Ahead
<1> QED
  BY <1>4, <1>5 DEF Ahead

\* A field that streams are not about.
LEMMA FieldMid ==
    ASSUME NEW c, NEW N, NEW A, NEW K, FramesTyped(N), ~c.server, Full(c, N, A, K),
           NEW d, DOMAIN d = ConnFields,
           NEW x \in {"nstreams_done", "last_stream_id", "htp", "complete"},
           \A k \in ConnFields \ {x} : d[k] = c[k]
    PROVE  Full(d, N, A, K) /\ Ahead(c, d)
<1>1. ConnInv(c) /\ Mid(c, N, A, K) /\ c.next \in Nat \ {0} /\ c.next <= c.max_local + 1
  BY DEF Full, Mid, Context
<1>2. /\ Plain(c, d) /\ d.next = c.next /\ d.max_local = c.max_local
  BY DEF Plain, ConnFields
<1>3. Mid(d, N, A, K) /\ \A j \in Ids : Inbox(c, A, j) => Inbox(d, A, j)
  <2>1. d.next \in Nat \ {0} /\ c.next <= d.next /\ d.next <= d.max_local + 1
    BY <1>1, <1>2
  <2> QED
    BY <1>1, <1>2, <2>1, PlainMid
<1>4. ConnInv(d)
  <2>1. x \in {"nstreams_done", "last_stream_id", "htp", "complete", "crashed"}
    OBVIOUS
  <2>2. Kept(c, d)
    BY <1>1, <2>1, ClientField
  <2> QED
    BY <1>1, <2>2, KeptInv
<1>5. \A j \in Ids : Counted(d, j, 0)
  BY <1>2 DEF Counted, Plain
<1>6. Ahead(c, d)
  BY <1>1, <1>2 DEF Ahead, Plain
<1> QED
  BY <1>3, <1>4, <1>5, <1>6 DEF Full

\* As it was.
LEMMA AheadItself ==
    ASSUME NEW c, NEW N, NEW A, NEW K, ~c.server, Full(c, N, A, K)
    PROVE  Ahead(c, c)
BY DEF Full, Mid, Context, Ahead

\* The requests for the resources of a page.
LEMMA ResourcesMid ==
    ASSUME NEW c, NEW N, NEW A, NEW K, FramesTyped(N), ~c.server, page \in Pages,
           Full(c, N, A, K), NEW d, d = http_req_resourse(c)
    PROVE  Full(d, N, A, K) /\ Ahead(c, d)
<1> PICK m \in Nat : m = page.n
  BY ExchangeAssumption
<1> DEFINE f == CHOOSE f : ResqEq(f, c, m)
<1>1. ResqEq(f, c, m)
  BY ResqExists
<1>2. d = f[m]
  BY DEF http_req_resourse, ResqEq
<1> HIDE DEF f
<1>3. \A k \in 0..m : f[k] = IF k = 0 THEN c ELSE http_resq(f[k - 1])
  BY <1>1 DEF ResqEq
<1> DEFINE R(e) == Full(e, N, A, K) /\ Ahead(c, e)
           P == {k \in Nat : k <= m => R(f[k])}
<1>4. 0 \in P
  <2>1. f[0] = c
    BY <1>3
  <2> QED
    BY <2>1, AheadItself
<1>5. ASSUME NEW n \in Nat, n \in P PROVE n + 1 \in P
  <2> SUFFICES ASSUME n + 1 <= m PROVE R(f[n + 1])
    OBVIOUS
  <2> PICK e : e = f[n]
    OBVIOUS
  <2> PICK g : g = f[n + 1]
    OBVIOUS
  <2>1. n + 1 \in 0..m /\ n + 1 # 0 /\ (n + 1) - 1 = n
    OBVIOUS
  <2>2. g = http_resq(e)
    BY <1>3, <2>1
  <2>3. R(e)
    <3> HIDE DEF R
    <3>1. n <= m /\ n \in Nat
      OBVIOUS
    <3>2. n \in P => (n <= m => R(f[n]))
      BY ONLY n \in Nat
    <3> QED
      BY <1>5, <3>1, <3>2
  <2>4. ~e.server
    BY <2>3 DEF Ahead
  <2>5. Full(g, N, A, K) /\ Ahead(e, g)
    BY <2>2, <2>3, <2>4, RequestMid
  <2> QED
    BY <2>3, <2>5, AheadTwice
<1> HIDE DEF P
<1>6. m \in P
  BY <1>4, <1>5, SetInduction
<1> QED
  BY <1>2, <1>6 DEF P

\* One stream more.
LEMMA OneMoreMid ==
    ASSUME NEW c, NEW N, NEW A, NEW K, FramesTyped(N), ~c.server, page \in Pages,
           Full(c, N, A, K), NEW d, d = OneMore(c)
    PROVE  Full(d, N, A, K) /\ Ahead(c, d)
<1> PICK o : o = http_resq(c)
  OBVIOUS
<1>1. Full(o, N, A, K) /\ Ahead(c, o)
  BY RequestMid
<1>2. CASE d = c
  BY <1>2, AheadItself
<1>3. CASE d = [o EXCEPT !.nstreams_done = @ + 1]
  <2>1. DOMAIN o = ConnFields
    BY <1>1 DEF Full, ConnInv, Shape
  <2>2. DOMAIN d = ConnFields /\ \A k \in ConnFields \ {"nstreams_done"} : d[k] = o[k]
    BY <1>3, <2>1
  <2> PICK x \in {"nstreams_done", "last_stream_id", "htp", "complete"} :
        x = "nstreams_done"
    OBVIOUS
  <2>3. \A k \in ConnFields \ {x} : d[k] = o[k]
    BY <2>2
  <2>4. ~o.server
    BY <1>1 DEF Ahead
  <2>5. Full(d, N, A, K) /\ Ahead(o, d)
    BY <1>1, <2>2, <2>3, <2>4, FieldMid
  <2> QED
    BY <1>1, <2>5, AheadTwice
<1> QED
  BY <1>2, <1>3 DEF OneMore

\* One after the other.
LEMMA StreamsMid ==
    ASSUME NEW c, NEW N, NEW A, NEW K, FramesTyped(N), ~c.server, page \in Pages,
           Full(c, N, A, K), NEW d, d = AllStreams(c)
    PROVE  Full(d, N, A, K) /\ Ahead(c, d)
<1> PICK m \in Nat : m = page.n
  BY ExchangeAssumption
<1> DEFINE f == CHOOSE f : OpenEq(f, c, m)
<1>1. OpenEq(f, c, m)
  BY OpenExists
<1>2. d = f[m]
  BY DEF AllStreams, OpenEq
<1> HIDE DEF f
<1>3. \A k \in 0..m : f[k] = IF k = 0 THEN c ELSE OneMore(f[k - 1])
  BY <1>1 DEF OpenEq
<1> DEFINE R(e) == Full(e, N, A, K) /\ Ahead(c, e)
           P == {k \in Nat : k <= m => R(f[k])}
<1>4. 0 \in P
  <2>1. f[0] = c
    BY <1>3
  <2> QED
    BY <2>1, AheadItself
<1>5. ASSUME NEW n \in Nat, n \in P PROVE n + 1 \in P
  <2> SUFFICES ASSUME n + 1 <= m PROVE R(f[n + 1])
    OBVIOUS
  <2> PICK e : e = f[n]
    OBVIOUS
  <2> PICK g : g = f[n + 1]
    OBVIOUS
  <2>1. n + 1 \in 0..m /\ n + 1 # 0 /\ (n + 1) - 1 = n
    OBVIOUS
  <2>2. g = OneMore(e)
    BY <1>3, <2>1
  <2>3. R(e)
    <3> HIDE DEF R
    <3>1. n <= m /\ n \in Nat
      OBVIOUS
    <3>2. n \in P => (n <= m => R(f[n]))
      BY ONLY n \in Nat
    <3> QED
      BY <1>5, <3>1, <3>2
  <2>4. ~e.server
    BY <2>3 DEF Ahead
  <2>5. Full(g, N, A, K) /\ Ahead(e, g)
    BY <2>2, <2>3, <2>4, OneMoreMid
  <2> QED
    BY <2>3, <2>5, AheadTwice
<1> HIDE DEF P
<1>6. m \in P
  BY <1>4, <1>5, SetInduction
<1> QED
  BY <1>2, <1>6 DEF P

\* The streams that a new limit allows.
LEMMA ExtendMid ==
    ASSUME NEW c, NEW N, NEW A, NEW K, FramesTyped(N), ~c.server, page \in Pages,
           Full(c, N, A, K), NEW d, d = on_extend_max_stream_id(c)
    PROVE  Full(d, N, A, K) /\ Ahead(c, d)
<1>1. CASE ~page.interactive
  <2>1. d = AllStreams(c)
    BY <1>1 DEF on_extend_max_stream_id, AllStreams, OpenEq, OneMore
  <2> QED
    BY <2>1, StreamsMid
<1>2. CASE page.interactive /\ d = c
  BY <1>2, AheadItself
<1>3. CASE page.interactive /\ d = start_interactive_input(c)
  <2> PICK o : o = http_resq(c)
    OBVIOUS
  <2>1. Full(o, N, A, K) /\ Ahead(c, o)
    BY RequestMid
  <2>2. DOMAIN o = ConnFields
    BY <2>1 DEF Full, ConnInv, Shape
  <2>3. d = [o EXCEPT !.last_stream_id = o.next - 1]
    BY <1>3 DEF start_interactive_input
  <2>4. DOMAIN d = ConnFields /\ \A k \in ConnFields \ {"last_stream_id"} : d[k] = o[k]
    BY <2>2, <2>3
  <2> PICK x \in {"nstreams_done", "last_stream_id", "htp", "complete"} :
        x = "last_stream_id"
    OBVIOUS
  <2>5. \A k \in ConnFields \ {x} : d[k] = o[k]
    BY <2>4
  <2>6. ~o.server
    BY <2>1 DEF Ahead
  <2>7. Full(d, N, A, K) /\ Ahead(o, d)
    BY <2>1, <2>4, <2>5, <2>6, FieldMid
  <2> QED
    BY <2>1, <2>7, AheadTwice
<1> QED
  BY <1>1, <1>2, <1>3 DEF on_extend_max_stream_id

\* A message is complete.
LEMMA MessageMid ==
    ASSUME NEW c, NEW N, NEW A, NEW K, FramesTyped(N), ~c.server, page \in Pages,
           Full(c, N, A, K), NEW d, d = message_complete_cb(c)
    PROVE  Full(d, N, A, K) /\ Ahead(c, d)
<1> PICK o : o = [c EXCEPT !.complete = TRUE]
  OBVIOUS
<1>1. DOMAIN c = ConnFields
  BY DEF Full, ConnInv, Shape
<1>2. DOMAIN o = ConnFields /\ \A k \in ConnFields \ {"complete"} : o[k] = c[k]
  BY <1>1
<1> PICK x \in {"nstreams_done", "last_stream_id", "htp", "complete"} : x = "complete"
  OBVIOUS
<1>3. \A k \in ConnFields \ {x} : o[k] = c[k]
  BY <1>2
<1>4. Full(o, N, A, K) /\ Ahead(c, o)
  BY <1>2, <1>3, FieldMid
<1>5. CASE d = c
  BY <1>5, AheadItself
<1>6. CASE d = o
  BY <1>4, <1>6
<1>7. CASE d = http_req_resourse(o)
  <2>1. ~o.server
    BY <1>4 DEF Ahead
  <2>2. Full(d, N, A, K) /\ Ahead(o, d)
    BY <1>4, <1>7, <2>1, ResourcesMid
  <2> QED
    BY <1>4, <2>2, AheadTwice
<1> QED
  BY <1>5, <1>6, <1>7 DEF message_complete_cb

-----------------------------------------------------------------------------
(* An application reads a unit.                                            *)

\* A side when stream i, which is open, has k units more than were read.
Near(c, N, A, K, i, k) ==
    /\ ConnInv(c) /\ Mid(c, N, A, K) /\ c.strms[i].open /\ i \in K
    /\ \A j \in Ids : Inbox(c, A, j)
    /\ Counted(c, i, k) /\ \A j \in Ids : j # i => Counted(c, j, 0)

\* The answers of the server.
LEMMA AnswerBufs ==
    ASSUME NEW c, NEW i, NEW w, NEW d, d = start_response(c, i, w)
    PROVE  \E bufs, bad : GoodBufs(bufs) /\ d = Respond(c, i, bufs, bad)
<1> PICK S : S = [len : {0, 1}, what : Whats]
  OBVIOUS
<1> PICK x1, x2, x3, x4, x5 :
      /\ x1 = [len |-> 1, what |-> "STATUS"] /\ x2 = [len |-> 1, what |-> "HEADER"]
      /\ x3 = [len |-> 1, what |-> "BODY"] /\ x4 = [len |-> 1, what |-> "COMPLETE"]
      /\ x5 = [len |-> 0, what |-> ""]
  OBVIOUS
<1>1. x1 \in S /\ x2 \in S /\ x3 \in S /\ x4 \in S /\ x5 \in S
  BY DEF Whats
<1>2. x1.len = 1 /\ x2.len = 1 /\ x4.len = 1
  OBVIOUS
<1> PICK y1, y2, y3 : y1 = <<x1>> /\ y2 = <<x2, x3>> /\ y3 = <<x4, x5>>
  OBVIOUS
<1>5. Bufs = Seq(S)
  BY DEF Bufs
<1>6. y1 \in Seq(S) /\ Len(y1) = 1 /\ y1[1] = x1
  BY ONLY <1>1, y1 = <<x1>>
<1>7. y2 \in Seq(S) /\ Len(y2) = 2 /\ y2[1] = x2
  BY ONLY <1>1, y2 = <<x2, x3>>
<1>8. y3 \in Seq(S) /\ Len(y3) = 2 /\ y3[1] = x4
  BY ONLY <1>1, y3 = <<x4, x5>>
<1>3. GoodBufs(y1) /\ GoodBufs(y2) /\ GoodBufs(y3)
  BY ONLY <1>2, <1>5, <1>6, <1>7, <1>8 DEF GoodBufs
<1> PICK bad : bad = FALSE
  OBVIOUS
<1>4. \/ d = Respond(c, i, y1, bad) \/ d = Respond(c, i, y2, bad)
      \/ d = Respond(c, i, y3, bad)
  BY DEF start_response, send_status_response
<1> QED
  BY <1>3, <1>4

LEMMA StatusBufs ==
    ASSUME NEW bufs, bufs = << [len |-> 1, what |-> "STATUS"] >>
    PROVE  GoodBufs(bufs)
<1> PICK S : S = [len : {0, 1}, what : Whats]
  OBVIOUS
<1> PICK x1 : x1 = [len |-> 1, what |-> "STATUS"]
  OBVIOUS
<1>1. x1 \in S
  BY DEF Whats
<1>2. x1.len = 1
  OBVIOUS
<1> QED
  BY <1>1, <1>2 DEF GoodBufs, Bufs

\* What has arrived for a stream that is to come to an end.
LEMMA StoppedInbox ==
    ASSUME NEW c, NEW d, NEW A, NEW i \in Ids, About(c, d, i), Inbox(c, A, i),
           SameRecv(c.strms[i], d.strms[i]), d.strms[i].stop_sending, d.idtr = c.idtr
    PROVE  Inbox(d, A, i)
<1> PICK s, r, G : s = c.strms[i] /\ r = d.strms[i] /\ G = FramesTo(A, Other(~c.server), i)
  OBVIOUS
<1>1. Receiving(s, G) => Receiving(r, G)
  BY DEF Receiving, SameRecv
<1>2. d.server = c.server /\ d.error = c.error
  BY DEF About, Base
<1>3. r.open = s.open
  BY DEF SameRecv
<1> QED
  BY <1>1, <1>2, <1>3 DEF Inbox

\* The same half received.
LEMMA SameInbox ==
    ASSUME NEW c, NEW d, NEW A, NEW i \in Ids, About(c, d, i), Inbox(c, A, i),
           d.strms[i] = c.strms[i], d.idtr = c.idtr
    PROVE  Inbox(d, A, i)
BY DEF Inbox, About, Base

\* Handler::recv_stream_data.
LEMMA ServerDataMid ==
    ASSUME NEW c, NEW N, NEW A, NEW K, NEW i \in Ids, NEW k \in Nat, FramesTyped(N), c.server,
           page \in Pages, NEW m, m = k + 1, Near(c, N, A, K, i, m), NEW w,
           NEW d, d = server_recv_data(c, i, w)
    PROVE  Near(d, N, A, K, i, k) /\ d.server = c.server /\ d.error = c.error
<1>0. /\ ConnInv(c) /\ Mid(c, N, A, K) /\ c.strms[i].open /\ i \in K
      /\ (\A j \in Ids : Inbox(c, A, j)) /\ Counted(c, i, k + 1)
      /\ \A j \in Ids : j # i => Counted(c, j, 0)
  BY DEF Near
<1>1. PICK b : b = UnitRead(c, i)
  OBVIOUS
<1>2. ConnInv(b) /\ b.answers = c.answers
  BY <1>0, <1>1, OneUnitRead
<1> PICK a, q, s : a = c.streams[i] /\ q = b.streams[i] /\ s = c.strms[i]
  OBVIOUS
<1>3. About(c, b, i) /\ Quiet(c, b) /\ b.strms[i] = s /\ OneMoreRead(a, q)
  <2>1. Shape(c)
    BY <1>0 DEF ConnInv
  <2> QED
    BY <1>1, <2>1, UnitSet
<1>4. /\ q.exists /\ q.nread = a.nread + 1 /\ q.streambuf = a.streambuf /\ q.idx = a.idx
      /\ q.tx_offset = a.tx_offset /\ q.should_send_fin = a.should_send_fin
      /\ q.completed = a.completed /\ q.parse_error = a.parse_error
  BY <1>3 DEF OneMoreRead
<1>5. b.server /\ b.error = c.error
  BY <1>3 DEF About, Base
<1>6. Mid(b, N, A, K)
  <2>0. Shape(c)
    BY <1>0 DEF ConnInv
  <2>1. PICK y : y = [c.streams[i] EXCEPT !.exists = TRUE, !.nread = @ + 1]
    OBVIOUS
  <2>2. b = WithStream(c, i, y)
    BY <1>1, <2>0, <2>1 DEF UnitRead, WithStream, Shape, ConnFields
  <2>3. b.streams[i] = y
    BY <2>0, <2>2, StreamSet
  <2>4. /\ y.streambuf = c.streams[i].streambuf /\ y.idx = c.streams[i].idx
        /\ y.tx_offset = c.streams[i].tx_offset
        /\ y.should_send_fin = c.streams[i].should_send_fin
        /\ y.completed = c.streams[i].completed /\ (c.streams[i].exists => y.exists)
    BY <1>4, <2>3
  <2> QED
    BY ONLY <1>0, <2>2, <2>4, FramesTyped(N), i \in Ids, EntryMid
<1>7. (\A j \in Ids : Inbox(b, A, j)) /\ \A j \in Ids : j # i => Counted(b, j, 0)
  <2>1. Inbox(b, A, i)
    BY <1>0, <1>3, SameInbox DEF Quiet
  <2> QED
    BY <1>0, <1>3, <2>1, InboxStep, CountedStep
<1>8. /\ a.nread + (k + 1) = s.rx /\ a.nread \in Nat /\ page.req \in Nat
      /\ a.nread >= page.req => a.completed
  <2>1. Answers(c, i)
    BY <1>0 DEF ConnInv, ServerInv
  <2> QED
    BY <1>0, <2>1, ExchangeAssumption DEF Counted, Answers
<1>9. q.nread + k = s.rx
  BY <1>4, <1>8
<1>10. (a.completed /\ ~a.parse_error) => a.nread >= page.req
  BY <1>0 DEF ConnInv, ServerInv, Answers
<1>11. d = IF a.parse_error \/ (w = "bad" /\ ~a.completed)
           THEN IF a.completed THEN shutdown_stream(b, i)
                ELSE Respond(b, i, << [len |-> 1, what |-> "STATUS"] >>, TRUE)
           ELSE IF a.nread + 1 = page.req THEN start_response(b, i, w) ELSE b
  BY <1>1 DEF server_recv_data, send_status_response, UnitRead
<1>12. a.parse_error => a.completed
  BY <1>0 DEF ConnInv, ServerInv, Answers
<1>13. ConnInv(d)
  BY <1>0, ServerRecvData
<1>14. ASSUME About(b, d, i), Mid(d, N, A, K), d.strms[i].open, Inbox(d, A, i),
              d.strms[i].rx = s.rx, d.streams[i].nread = q.nread,
              q.nread >= page.req => d.streams[i].completed
       PROVE  Near(d, N, A, K, i, k) /\ d.server = c.server /\ d.error = c.error
  <2>1. d.server = c.server /\ d.error = c.error
    BY <1>5, <1>14 DEF About, Base
  <2>2. \A j \in Ids : Inbox(d, A, j)
    BY <1>7, <1>14, InboxStep
  <2>3. \A j \in Ids : j # i => Counted(d, j, 0)
    BY <1>7, <1>14, CountedStep
  <2>4. Counted(d, i, k)
    BY <1>9, <1>14 DEF Counted
  <2> QED
    BY <1>0, <1>13, <1>14, <2>1, <2>2, <2>3, <2>4 DEF Near
<1>15. CASE d = b /\ a.nread + 1 # page.req
  <2>1. q.nread >= page.req => b.streams[i].completed
    BY <1>4, <1>8, <1>15
  <2>2. About(b, d, i)
    BY <1>15 DEF About, Base, Alike
  <2> QED
    BY <1>0, <1>3, <1>6, <1>7, <1>14, <1>15, <2>1, <2>2
<1>16. CASE a.completed /\ d = shutdown_stream(b, i)
  <2>1. StreamInv(c, N, A, i)
    BY <1>0 DEF Mid, SideInv
  <2>2. c.answers[i] = 1
    BY <1>0, <1>16, <2>1, ShutAnswered
  <2>3. b.strms[i].open /\ (b.server => b.answers[i] = 1) /\ (~b.server => i \in K)
    BY <1>0, <1>2, <1>3, <2>2
  <2>4. /\ Mid(d, N, A, K) /\ About(b, d, i) /\ d.streams = b.streams
        /\ SameRecv(b.strms[i], d.strms[i]) /\ d.strms[i].stop_sending /\ d.idtr = b.idtr
    BY <1>2, <1>6, <1>16, <2>3, ShutdownMid
  <2>5. Inbox(d, A, i)
    BY <1>7, <2>4, StoppedInbox
  <2>6. d.strms[i].rx = s.rx /\ d.strms[i].open
    BY <1>0, <1>3, <2>4 DEF SameRecv
  <2>7. d.streams[i].nread = q.nread /\ d.streams[i].completed
    BY <1>4, <1>16, <2>4
  <2> QED
    BY <1>14, <2>4, <2>5, <2>6, <2>7
<1>17. ASSUME NEW bufs, GoodBufs(bufs), NEW bad, d = Respond(b, i, bufs, bad), ~a.completed
       PROVE  Near(d, N, A, K, i, k) /\ d.server = c.server /\ d.error = c.error
  <2>1. StreamInv(c, N, A, i) /\ Answers(c, i)
    BY <1>0 DEF Mid, SideInv, ConnInv, ServerInv
  <2>2. b.answers[i] = 0
    BY <1>0, <1>2, <1>17, <2>1 DEF Answers
  <2>3. b.strms[i].open /\ b.streams[i].exists /\ Shape(b)
    BY <1>0, <1>2, <1>3, <1>4 DEF ConnInv
  <2>4. Mid(d, N, A, K)
    BY ONLY <1>0, <1>2, <1>5, <1>6, <1>17, <2>2, <2>3, FramesTyped(N), i \in Ids, RespondMid
  <2>5. /\ About(b, d, i) /\ d.idtr = b.idtr /\ d.strms[i] = b.strms[i]
        /\ AnswerIn(b.streams[i], d.streams[i], bufs)
    BY ONLY <1>17, <2>3, i \in Ids, AnswerSet
  <2>6. Inbox(d, A, i)
    BY <1>7, <2>5, SameInbox
  <2>7. d.streams[i].nread = q.nread /\ d.streams[i].completed
    BY <2>5 DEF AnswerIn
  <2> QED
    BY <1>0, <1>3, <1>14, <2>4, <2>5, <2>6, <2>7
<1>18. CASE ~a.completed /\ d = Respond(b, i, << [len |-> 1, what |-> "STATUS"] >>, TRUE)
  <2>1. PICK bufs : bufs = << [len |-> 1, what |-> "STATUS"] >>
    OBVIOUS
  <2>2. PICK bad : bad = TRUE
    OBVIOUS
  <2>3. d = Respond(b, i, bufs, bad)
    BY <1>18, <2>1, <2>2
  <2>4. GoodBufs(bufs)
    BY <2>1, StatusBufs
  <2> QED
    BY ONLY <1>17, <1>18, <2>3, <2>4
<1>19. CASE ~a.parse_error /\ a.nread + 1 = page.req /\ d = start_response(b, i, w)
  <2>1. PICK bufs, bad : GoodBufs(bufs) /\ d = Respond(b, i, bufs, bad)
    BY <1>19, AnswerBufs
  <2>3. ~(a.nread >= page.req)
    BY <1>8, <1>19
  <2>4. ~a.completed
    BY <1>10, <1>19, <2>3
  <2> QED
    BY ONLY <1>17, <2>1, <2>4
<1> QED
  BY ONLY <1>11, <1>12, <1>15, <1>16, <1>18, <1>19

\* The client reads a unit of an answer.
LEMMA ClientDataMid ==
    ASSUME NEW c, NEW N, NEW A, NEW K, NEW i \in Ids, NEW k, FramesTyped(N), ~c.server,
           page \in Pages, NEW m, Near(c, N, A, K, i, m), NEW what, NEW w,
           NEW d, d = client_recv_data(c, i, what, w)
    PROVE  Near(d, N, A, K, i, k) /\ d.server = c.server /\ d.error = c.error
<1>0. /\ ConnInv(c) /\ Mid(c, N, A, K) /\ c.strms[i].open /\ i \in K
      /\ (\A j \in Ids : Inbox(c, A, j))
  BY DEF Near
<1>1. Full(c, N, A, K)
  BY <1>0 DEF Full, Counted
<1>2. i < c.next
  BY <1>0 DEF Mid, Context
<1>3. ASSUME NEW e, Full(e, N, A, K), Ahead(c, e)
      PROVE  Near(e, N, A, K, i, k) /\ e.server = c.server /\ e.error = c.error
  <2>1. e.server = c.server /\ e.error = c.error /\ e.strms[i] = c.strms[i]
    BY <1>2, <1>3 DEF Ahead
  <2> QED
    BY <1>0, <1>3, <2>1 DEF Near, Full, Counted
<1> PICK h : h = IF c.htp = "error" THEN "error"
                 ELSE IF c.htp = "idle"
                 THEN CASE what = "HEADER" -> "body"
                        [] what = "BODY" -> "error"
                        [] OTHER -> "idle"
                 ELSE IF what = "BODY" THEN "idle" ELSE w
  OBVIOUS
<1> PICK o : o = [c EXCEPT !.htp = h]
  OBVIOUS
<1>4. DOMAIN c = ConnFields
  BY <1>0 DEF ConnInv, Shape
<1>5. DOMAIN o = ConnFields /\ \A x \in ConnFields \ {"htp"} : o[x] = c[x]
  BY <1>4
<1> PICK x \in {"nstreams_done", "last_stream_id", "htp", "complete"} : x = "htp"
  OBVIOUS
<1>6. \A y \in ConnFields \ {x} : o[y] = c[y]
  BY <1>5
<1>7. Full(o, N, A, K) /\ Ahead(c, o)
  BY ONLY <1>1, <1>5, <1>6, FramesTyped(N), ~c.server, FieldMid,
          x \in {"nstreams_done", "last_stream_id", "htp", "complete"}
<1>8. d = CASE h = "idle" -> message_complete_cb(o)
            [] h = "error" -> shutdown_stream(o, i)
            [] OTHER -> o
  BY DEF client_recv_data
<1>9. ~o.server
  BY <1>7 DEF Ahead
<1>10. CASE d = message_complete_cb(o)
  <2>1. Full(d, N, A, K) /\ Ahead(o, d)
    BY <1>7, <1>9, <1>10, MessageMid
  <2>2. Ahead(c, d)
    BY <1>1, <1>7, <2>1, AheadTwice
  <2> QED
    BY <1>3, <2>1, <2>2
<1>11. CASE d = shutdown_stream(o, i)
  <2>1. Near(o, N, A, K, i, k) /\ o.server = c.server /\ o.error = c.error
    BY <1>3, <1>7
  <2>2. ConnInv(o) /\ Mid(o, N, A, K) /\ o.strms[i].open /\ i \in K
        /\ (\A j \in Ids : Inbox(o, A, j))
    BY <2>1 DEF Near
  <2>3. /\ Mid(d, N, A, K) /\ About(o, d, i) /\ d.streams = o.streams
        /\ SameRecv(o.strms[i], d.strms[i]) /\ d.strms[i].stop_sending /\ d.idtr = o.idtr
    <3>1. (o.server => o.answers[i] = 1) /\ (~o.server => i \in K)
      BY <1>9, <2>2
    <3> QED
      BY ONLY <1>11, <2>2, <3>1, FramesTyped(N), i \in Ids, ShutdownMid
  <2>4. Inbox(d, A, i)
    BY <2>2, <2>3, StoppedInbox
  <2>5. \A j \in Ids : Inbox(d, A, j)
    BY <2>2, <2>3, <2>4, InboxStep
  <2>6. ConnInv(d)
    BY <1>11, <2>2, ShutdownStream, KeptInv
  <2>7. d.server = c.server /\ d.error = c.error
    BY <2>1, <2>3 DEF About, Base
  <2>8. d.strms[i].open
    BY <2>2, <2>3 DEF SameRecv
  <2> QED
    BY <2>2, <2>3, <2>5, <2>6, <2>7, <2>8 DEF Near, Counted
<1>12. CASE d = o
  BY <1>3, <1>7, <1>12
<1> QED
  BY <1>8, <1>10, <1>11, <1>12

\* Either.
LEMMA DataMid ==
    ASSUME NEW c, NEW N, NEW A, NEW K, NEW i \in Ids, NEW k \in Nat, FramesTyped(N),
           page \in Pages, NEW m, m = k + 1, Near(c, N, A, K, i, m), NEW what, NEW w,
           NEW d, d = recv_stream_data(c, i, what, w)
    PROVE  Near(d, N, A, K, i, k) /\ d.server = c.server /\ d.error = c.error
<1>1. CASE c.server
  <2>1. d = server_recv_data(c, i, w)
    BY <1>1 DEF recv_stream_data
  <2>2. Near(d, N, A, K, i, k)
    BY <1>1, <2>1, ServerDataMid
  <2>3. d.error = c.error
    BY <1>1, <2>1, <2>2, ServerDataMid
  <2>4. d.server = c.server
    BY <1>1, <2>1, ServerDataMid
  <2> QED
    BY <2>2, <2>3, <2>4
<1>2. CASE ~c.server
  <2>1. d = client_recv_data(c, i, what, w)
    BY <1>2 DEF recv_stream_data
  <2> QED
    BY <1>2, <2>1, ClientDataMid
<1> QED
  BY <1>1, <1>2

-----------------------------------------------------------------------------
(* A frame of a stream arrives.                                            *)

\* The error of a final size that is wrong needs a reset.
LEMMA SizesAgree ==
    ASSUME NEW s, NEW F, NEW G, Wire(F), G \subseteq F, Receiving(s, G), NEW f \in F,
           ~s.recv_rst
    PROVE  /\ s.shut_rd => ~(s.last_rx < f.off + f.len)
           /\ (s.shut_rd /\ f.fin) => s.last_rx = f.off + f.len
           /\ f.fin => ~(s.last_rx > f.off + f.len)
<1>1. f.off + f.len \in 0..2 /\ s.last_rx \in 0..2
  BY DEF Wire, Receiving
<1>2. ASSUME s.shut_rd PROVE ~(s.last_rx < f.off + f.len) /\ (f.fin => s.last_rx = f.off + f.len)
  <2>1. PICK g \in G : g.fin /\ g.off + g.len = s.last_rx
    BY <1>2 DEF Receiving
  <2>2. f.off + f.len <= g.off + g.len
    BY <2>1 DEF Wire
  <2>3. f.fin => g = f
    BY <2>1 DEF Wire
  <2> QED
    BY <1>1, <2>1, <2>2, <2>3
<1>3. ASSUME f.fin, s.last_rx > f.off + f.len PROVE FALSE
  <2>1. PICK g \in G : g.off + g.len = s.last_rx
    BY <1>1, <1>3 DEF Receiving
  <2>2. g.off + g.len <= f.off + f.len
    BY <1>3 DEF Wire
  <2> QED
    BY <1>1, <1>3, <2>1, <2>2
<1> QED
  BY <1>2, <1>3

\* The last frame once more.
LEMMA LastAgain ==
    ASSUME NEW s, NEW F, NEW G, Wire(F), G \subseteq F, Receiving(s, G), NEW f \in F,
           f.fin, s.shut_rd, s.last_rx = f.off + f.len
    PROVE  Receiving(s, G \cup {f})
<1>1. /\ f.off \in Nat /\ f.len \in {0, 1} /\ f.off + f.len <= 2 /\ s.last_rx \in 0..2
  BY DEF Wire, Receiving
<1>2. ~s.stop_sending /\ f.len = 1 => f.off < s.rx \/ <<f.off, f.what>> \in s.rob
  <2> SUFFICES ASSUME ~s.stop_sending, f.len = 1
               PROVE  f.off < s.rx \/ <<f.off, f.what>> \in s.rob
    OBVIOUS
  <2>1. s.last_rx # 0
    BY <1>1
  <2>2. PICK g \in G : g.off + g.len = s.last_rx
    BY <2>1 DEF Receiving
  <2>3. g.off \in Nat /\ g.len \in {0, 1} /\ (g.len = 0 => g.fin)
    BY DEF Wire
  <2>4. g = f
    <3>1. CASE g.len = 0
      BY <2>3, <3>1 DEF Wire
    <3>2. CASE g.len = 1
      <4>1. g.off = f.off
        BY <1>1, <2>2, <2>3, <3>2
      <4> QED
        BY <3>2, <4>1 DEF Wire
    <3> QED
      BY <2>3, <3>1, <3>2
  <2> QED
    BY <2>4 DEF Receiving
<1> QED
  BY <1>1, <1>2 DEF Receiving

\* The end of the stream as the frame tells it.
Noted(s, f, r) ==
    /\ SameSend(s, r) /\ r.recv_rst = s.recv_rst
    /\ s.last_rx < f.off + f.len => r.last_rx = f.off + f.len
    /\ ~(s.last_rx < f.off + f.len) => r.last_rx = s.last_rx
    /\ r.shut_rd <=> s.shut_rd \/ f.fin

\* What an error would exclude.
Fits(s, f) ==
    /\ f.fin => ~s.shut_rd /\ s.last_rx <= f.off + f.len
    /\ s.shut_rd => ~(s.last_rx < f.off + f.len)

LEMMA NotedEnd ==
    ASSUME NEW s, NEW F, NEW G, Wire(F), G \subseteq F, Receiving(s, G), NEW f \in F,
           Fits(s, f), NEW r, Noted(s, f, r)
    PROVE  /\ f.off \in 0..2 /\ f.len \in {0, 1} /\ f.off + f.len <= 2 /\ (f.len = 0 => f.fin)
           /\ s.rx \in 0..2 /\ s.last_rx \in 0..2 /\ s.rx <= s.last_rx
           /\ r.last_rx \in 0..2 /\ s.last_rx <= r.last_rx /\ f.off + f.len <= r.last_rx
           /\ \A g \in G \cup {f} : g.off + g.len <= r.last_rx /\ (g.fin => r.shut_rd)
           /\ r.last_rx # 0 => \E g \in G \cup {f} : g.off + g.len = r.last_rx
           /\ (r.shut_rd /\ ~r.recv_rst) =>
                \E g \in G \cup {f} : g.fin /\ g.off + g.len = r.last_rx
<1>1. /\ f.off \in Nat /\ f.len \in {0, 1} /\ f.fin \in BOOLEAN
      /\ f.off + f.len <= 2 /\ (f.len = 0 => f.fin)
  BY DEF Wire
<1>2. s.rx \in 0..2 /\ s.last_rx \in 0..2 /\ s.rx <= s.last_rx
  BY DEF Receiving
<1>3. /\ s.last_rx < f.off + f.len => r.last_rx = f.off + f.len
      /\ ~(s.last_rx < f.off + f.len) => r.last_rx = s.last_rx
      /\ r.shut_rd <=> s.shut_rd \/ f.fin
      /\ r.recv_rst = s.recv_rst
  BY DEF Noted
<1>4. f.off \in 0..2 /\ r.last_rx \in 0..2 /\ s.last_rx <= r.last_rx /\ f.off + f.len <= r.last_rx
  BY <1>1, <1>2, <1>3
<1>5. ASSUME NEW g \in G \cup {f}
      PROVE  g.off + g.len <= r.last_rx /\ (g.fin => r.shut_rd)
  <2>1. CASE g \in G
    <3>1. g.off + g.len <= s.last_rx /\ (g.fin => s.shut_rd)
      BY <2>1 DEF Receiving
    <3>2. g.off \in Nat /\ g.len \in {0, 1}
      BY <2>1 DEF Wire
    <3> QED
      BY <1>2, <1>3, <1>4, <3>1, <3>2
  <2>2. CASE g = f
    BY <1>3, <1>4, <2>2
  <2> QED
    BY <2>1, <2>2
<1>6. ASSUME r.last_rx # 0 PROVE \E g \in G \cup {f} : g.off + g.len = r.last_rx
  <2>1. CASE s.last_rx < f.off + f.len
    BY <1>3, <2>1
  <2>2. CASE ~(s.last_rx < f.off + f.len)
    <3>1. PICK g \in G : g.off + g.len = s.last_rx
      BY <1>3, <1>6, <2>2 DEF Receiving
    <3> QED
      BY <1>3, <2>2, <3>1
  <2> QED
    BY <2>1, <2>2
<1>7. ASSUME r.shut_rd, ~r.recv_rst
      PROVE  \E g \in G \cup {f} : g.fin /\ g.off + g.len = r.last_rx
  <2>1. CASE f.fin
    <3>1. f.off + f.len = r.last_rx
      BY <1>1, <1>2, <1>3, <2>1 DEF Fits
    <3> QED
      BY <2>1, <3>1
  <2>2. CASE ~f.fin
    <3>1. s.shut_rd /\ ~s.recv_rst
      BY <1>3, <1>7, <2>2
    <3>2. r.last_rx = s.last_rx
      BY <1>3, <3>1 DEF Fits
    <3>3. PICK g \in G : g.fin /\ g.off + g.len = s.last_rx
      BY <3>1 DEF Receiving
    <3> QED
      BY <3>2, <3>3
  <2> QED
    BY <2>1, <2>2
<1> QED
  BY <1>1, <1>2, <1>4, <1>5, <1>6, <1>7

\* A frame whose data is not new, or is not wanted, or that has none.
LEMMA NotedOnly ==
    ASSUME NEW s, NEW F, NEW G, Wire(F), G \subseteq F, Receiving(s, G), NEW f \in F,
           Fits(s, f), NEW r, Noted(s, f, r), r.rx = s.rx, r.rob = s.rob,
           s.stop_sending \/ f.len = 0 \/ f.off < s.rx
    PROVE  Receiving(r, G \cup {f})
<1>1. /\ f.off \in 0..2 /\ f.len \in {0, 1}
      /\ s.rx \in 0..2 /\ s.last_rx \in 0..2 /\ s.rx <= s.last_rx
      /\ r.last_rx \in 0..2 /\ s.last_rx <= r.last_rx
      /\ \A g \in G \cup {f} : g.off + g.len <= r.last_rx /\ (g.fin => r.shut_rd)
      /\ r.last_rx # 0 => \E g \in G \cup {f} : g.off + g.len = r.last_rx
      /\ (r.shut_rd /\ ~r.recv_rst) =>
           \E g \in G \cup {f} : g.fin /\ g.off + g.len = r.last_rx
  BY NotedEnd
<1>2. r.rx \in 0..2 /\ r.rx <= r.last_rx
  BY <1>1
<1>3. \A u \in r.rob : u[1] > r.rx /\ \E g \in G \cup {f} : g.len = 1 /\ u = <<g.off, g.what>>
  BY DEF Receiving
<1>4. ~r.stop_sending =>
         \A g \in G \cup {f} : g.len = 1 => g.off < r.rx \/ <<g.off, g.what>> \in r.rob
  BY DEF Receiving, Noted, SameSend
<1> QED
  BY <1>1, <1>2, <1>3, <1>4 DEF Receiving

\* Data that is too early.
LEMMA Buffered ==
    ASSUME NEW s, NEW F, NEW G, Wire(F), G \subseteq F, Receiving(s, G), NEW f \in F,
           Fits(s, f), NEW r, Noted(s, f, r), r.rx = s.rx,
           r.rob = s.rob \cup {<<f.off, f.what>>}, f.len = 1, f.off > s.rx
    PROVE  Receiving(r, G \cup {f})
<1>1. /\ f.off \in 0..2 /\ f.len \in {0, 1}
      /\ s.rx \in 0..2 /\ s.last_rx \in 0..2 /\ s.rx <= s.last_rx
      /\ r.last_rx \in 0..2 /\ s.last_rx <= r.last_rx
      /\ \A g \in G \cup {f} : g.off + g.len <= r.last_rx /\ (g.fin => r.shut_rd)
      /\ r.last_rx # 0 => \E g \in G \cup {f} : g.off + g.len = r.last_rx
      /\ (r.shut_rd /\ ~r.recv_rst) =>
           \E g \in G \cup {f} : g.fin /\ g.off + g.len = r.last_rx
  BY NotedEnd
<1>2. r.rx \in 0..2 /\ r.rx <= r.last_rx
  BY <1>1
<1> PICK v : v = <<f.off, f.what>>
  OBVIOUS
<1>3. ASSUME NEW u \in r.rob
      PROVE  u[1] > r.rx /\ \E g \in G \cup {f} : g.len = 1 /\ u = <<g.off, g.what>>
  <2>1. CASE u \in s.rob
    BY <2>1 DEF Receiving
  <2>2. CASE u = v
    BY <2>2
  <2> QED
    BY <2>1, <2>2
<1>4. ~r.stop_sending =>
         \A g \in G \cup {f} : g.len = 1 => g.off < r.rx \/ <<g.off, g.what>> \in r.rob
  BY DEF Receiving, Noted, SameSend
<1> QED
  BY <1>1, <1>2, <1>3, <1>4 DEF Receiving

\* What waited for the data in order: at most one unit.
UnitsAt(s, n) == {u \in s.rob : u[1] = n}
UnitsBeyond(s, n) == {u \in s.rob : u[1] > n}

LEMMA Waiting ==
    ASSUME NEW s, NEW F, NEW G, Wire(F), G \subseteq F, Receiving(s, G), NEW n,
           NEW up, up = UnitsAt(s, n), NEW m, m = Cardinality(up)
    PROVE  /\ up = {} => m = 0
           /\ up # {} => m = 1 /\ \E g \in G : g.len = 1 /\ g.off = n
<1> USE DEF UnitsAt
<1>1. ASSUME NEW u \in up, NEW v \in up PROVE u = v /\ \E g \in G : g.len = 1 /\ g.off = n
  <2>1. PICK g \in G : g.len = 1 /\ u = <<g.off, g.what>>
    BY DEF Receiving
  <2>2. PICK h \in G : h.len = 1 /\ v = <<h.off, h.what>>
    BY DEF Receiving
  <2>3. g.off = n /\ h.off = n
    BY <2>1, <2>2
  <2>4. g = h
    BY <2>1, <2>2, <2>3 DEF Wire
  <2> QED
    BY <2>1, <2>2, <2>3, <2>4
<1>2. ASSUME up # {} PROVE Cardinality(up) = 1 /\ \E g \in G : g.len = 1 /\ g.off = n
  <2>1. PICK u : u \in up
    BY <1>2
  <2>2. up = {u}
    BY <1>1, <2>1
  <2> QED
    BY <1>1, <2>1, <2>2, FS_Singleton
<1> QED
  BY <1>2, FS_EmptySet

\* Data in order, with what waited for it.
LEMMA InOrder ==
    ASSUME NEW s, NEW F, NEW G, Wire(F), G \subseteq F, Receiving(s, G), NEW f \in F,
           Fits(s, f), NEW r, Noted(s, f, r), f.len = 1, f.off = s.rx, ~s.stop_sending,
           NEW n, n = f.off + f.len, NEW m,
           m = 0 => UnitsAt(s, n) = {},
           m = 1 => \E g \in G : g.len = 1 /\ g.off = n,
           m \in {0, 1}, NEW x, x = n + m, r.rx = x, r.rob = UnitsBeyond(s, n)
    PROVE  Receiving(r, G \cup {f}) /\ r.rx = s.rx + 1 + m
<1> USE DEF UnitsAt, UnitsBeyond
<1>1. /\ f.off \in 0..2 /\ f.len \in {0, 1} /\ f.off + f.len <= 2
      /\ s.rx \in 0..2 /\ s.last_rx \in 0..2 /\ s.rx <= s.last_rx
      /\ r.last_rx \in 0..2 /\ s.last_rx <= r.last_rx /\ f.off + f.len <= r.last_rx
      /\ \A g \in G \cup {f} : g.off + g.len <= r.last_rx /\ (g.fin => r.shut_rd)
      /\ r.last_rx # 0 => \E g \in G \cup {f} : g.off + g.len = r.last_rx
      /\ (r.shut_rd /\ ~r.recv_rst) =>
           \E g \in G \cup {f} : g.fin /\ g.off + g.len = r.last_rx
  BY NotedEnd
<1>2. n = s.rx + 1 /\ n \in 1..2 /\ n <= r.last_rx
  BY <1>1
<1>3. m = 1 => n + 1 <= r.last_rx
  <2> SUFFICES ASSUME m = 1 PROVE n + 1 <= r.last_rx
    OBVIOUS
  <2>1. PICK g \in G : g.len = 1 /\ g.off = n
    OBVIOUS
  <2>2. g.off + g.len <= r.last_rx
    BY <1>1
  <2> QED
    BY <2>1, <2>2
<1>4. r.rx \in 0..2 /\ r.rx <= r.last_rx /\ r.rx = s.rx + 1 + m
  BY <1>1, <1>2, <1>3
<1>5. ASSUME NEW g \in G, g.len = 1 PROVE g.off \in 0..1
  BY <1>5 DEF Wire
<1>6. ASSUME NEW u \in s.rob PROVE u[1] \in 0..1 /\ u[1] > s.rx
  <2>1. PICK g \in G : g.len = 1 /\ u = <<g.off, g.what>>
    BY DEF Receiving
  <2>2. u[1] = g.off
    BY <2>1
  <2> QED
    BY <1>5, <2>1, <2>2 DEF Receiving
<1>7. r.rob = {}
  <2> SUFFICES ASSUME NEW u \in s.rob, u[1] > n PROVE FALSE
    OBVIOUS
  <2> QED
    BY <1>2, <1>6
<1>8. ASSUME NEW g \in G \cup {f}, g.len = 1 PROVE g.off < r.rx
  <2>1. CASE g = f
    BY <1>1, <1>2, <1>4, <2>1
  <2>2. CASE g \in G
    <3>1. g.off < s.rx \/ <<g.off, g.what>> \in s.rob
      BY <1>8, <2>2 DEF Receiving
    <3>2. g.off \in 0..1
      BY <1>5, <1>8, <2>2
    <3>3. CASE g.off < s.rx
      BY <1>1, <1>4, <3>2, <3>3
    <3>4. CASE <<g.off, g.what>> \in s.rob
      <4> PICK u : u = <<g.off, g.what>>
        OBVIOUS
      <4>1. u[1] = g.off /\ u \in s.rob
        BY <3>4
      <4>2. g.off > s.rx
        BY <1>6, <4>1
      <4>3. g.off = n
        BY <1>1, <1>2, <3>2, <4>2
      <4>4. m # 0
        BY <4>1, <4>3
      <4> QED
        BY <1>2, <1>4, <4>3, <4>4
    <3> QED
      BY <3>1, <3>3, <3>4
  <2> QED
    BY <2>1, <2>2
<1> QED
  BY <1>1, <1>4, <1>7, <1>8 DEF Receiving

-----------------------------------------------------------------------------
(* conn_recv_stream for a stream that is open.                             *)

\* The frame f has arrived and is not yet looked at.
Due(c, N, A, B, K, f) ==
    /\ ConnInv(c) /\ Mid(c, N, B, K) /\ ~c.error
    /\ f \in N /\ B = A \cup {f} /\ f.to = Other(~c.server) /\ f.type = "STREAM"
    /\ f.id \in Ids /\ f.id \in K
    /\ c.strms[f.id].open
    /\ c.server => ~Free(c.idtr, f.id)
    /\ Receiving(c.strms[f.id], FramesTo(A, Other(~c.server), f.id))
    /\ \A j \in Ids : j # f.id => Inbox(c, B, j)
    /\ \A j \in Ids : Counted(c, j, 0)

LEMMA DueWire ==
    ASSUME NEW c, NEW N, NEW A, NEW B, NEW K, NEW f, Due(c, N, A, B, K, f),
           NEW F, F = FramesTo(N, Other(~c.server), f.id),
           NEW G, G = FramesTo(A, Other(~c.server), f.id)
    PROVE  /\ Wire(F) /\ G \subseteq F /\ f \in F
           /\ FramesTo(B, Other(~c.server), f.id) = G \cup {f}
<1>1. Other(~c.server) \in Sides
  BY DEF Other, Sides
<1>2. B \subseteq N /\ \A to \in Sides, j \in Ids : Wire(FramesTo(N, to, j))
  BY DEF Due, Mid, Context
<1> QED
  BY <1>1, <1>2 DEF Due, FramesTo

\* The half is as it should be, and m units are to be read.
LEMMA HalfNear ==
    ASSUME NEW c, NEW N, NEW A, NEW B, NEW K, NEW f, Due(c, N, A, B, K, f), FramesTyped(N),
           NEW i, i = f.id, NEW s, s = c.strms[i], NEW r, DOMAIN r = StrmFields,
           SameSend(s, r), r.recv_rst = s.recv_rst, NEW G,
           G = FramesTo(A, Other(~c.server), f.id), Receiving(r, G \cup {f}),
           NEW m \in Nat, r.rx = s.rx + m, NEW d, d = WithStrm(c, i, r)
    PROVE  Near(d, N, B, K, i, m) /\ d.error = c.error /\ d.server = c.server
<1>1. /\ ConnInv(c) /\ Mid(c, N, B, K) /\ i \in Ids /\ i \in K /\ s.open
      /\ \A j \in Ids : Counted(c, j, 0)
      /\ c.server => ~Free(c.idtr, i)
  BY DEF Due
<1>2. Mid(d, N, B, K)
  BY <1>1, ReceivedMid
<1>3. About(c, d, i) /\ Quiet(c, d) /\ d.strms[i] = r /\ d.streams[i] = c.streams[i]
  BY <1>1, StrmSet DEF ConnInv
<1>4. d.server = c.server /\ d.error = c.error /\ d.idtr = c.idtr
  BY <1>3 DEF About, Base, Quiet
<1>5. ConnInv(d)
  <2>1. r.open = c.strms[i].open
    BY DEF SameSend
  <2>2. Kept(c, d)
    BY <1>1, <2>1, StrmKept
  <2> QED
    BY <1>1, <2>2, KeptInv
<1>6. FramesTo(B, Other(~d.server), i) = G \cup {f}
  BY <1>4, DueWire
<1>7. Inbox(d, B, i)
  BY <1>1, <1>3, <1>4, <1>6 DEF Inbox
<1>8. \A j \in Ids : Inbox(d, B, j)
  <2> SUFFICES ASSUME NEW j \in Ids, j # i PROVE Inbox(d, B, j)
    BY <1>7
  <2>1. Inbox(c, B, j)
    BY DEF Due
  <2> QED
    BY <1>3, <2>1 DEF About, Base, Alike, Inbox
<1>9. \A j \in Ids : j # i => Counted(d, j, 0)
  BY <1>1, <1>3, CountedStep
<1>10. Counted(d, i, m)
  <2> SUFFICES ASSUME c.server PROVE Counted(d, i, m)
    BY <1>4 DEF Counted
  <2> PICK a : a = c.streams[i]
    OBVIOUS
  <2>1. a.nread \in Nat
    BY <1>1 DEF ConnInv, ServerInv, Answers
  <2>2. a.nread + 0 = s.rx /\ (a.nread >= page.req => a.completed)
    BY <1>1 DEF Counted
  <2>3. a.nread + m = r.rx
    BY <2>1, <2>2
  <2> QED
    BY <1>3, <2>2, <2>3 DEF Counted
<1>11. d.strms[i].open
  BY <1>1, <1>3 DEF SameSend
<1> QED
  BY <1>1, <1>2, <1>4, <1>5, <1>8, <1>9, <1>10, <1>11 DEF Near

\* The last thing is to look whether the stream is over.
LEMMA CloseFull ==
    ASSUME NEW c, NEW N, NEW A, NEW K, NEW i \in Ids, Near(c, N, A, K, i, 0), FramesTyped(N),
           page \in Pages, NEW d, d = close_stream_if_shut_rdwr(c, i)
    PROVE  Full(d, N, A, K) /\ d.error = c.error /\ d.server = c.server
<1>1. ConnInv(c) /\ Mid(c, N, A, K)
  BY DEF Near
<1>2. /\ Mid(d, N, A, K) /\ About(c, d, i)
      /\ Inbox(c, A, i) => Inbox(d, A, i)
      /\ Counted(c, i, 0) => Counted(d, i, 0)
  BY <1>1, CloseMid
<1>3. ConnInv(d)
  BY <1>1, CloseIfShut
<1>4. \A j \in Ids : Inbox(d, A, j)
  BY <1>2, InboxStep DEF Near
<1>5. \A j \in Ids : Counted(d, j, 0)
  BY <1>2, CountedStep DEF Near
<1>6. d.error = c.error /\ d.server = c.server
  BY <1>2 DEF About, Base
<1> QED
  BY <1>2, <1>3, <1>4, <1>5, <1>6 DEF Full

LEMMA NearFull ==
    ASSUME NEW c, NEW N, NEW A, NEW K, NEW i \in Ids, Near(c, N, A, K, i, 0)
    PROVE  Full(c, N, A, K)
BY DEF Near, Full

\* The entry of the application is made when only the end has come.
LEMMA EntryNear ==
    ASSUME NEW c, NEW N, NEW A, NEW K, NEW i \in Ids, NEW k, Near(c, N, A, K, i, k),
           FramesTyped(N), NEW e \in BOOLEAN,
           NEW d, d = [c EXCEPT !.streams[i].exists = @ \/ e]
    PROVE  Near(d, N, A, K, i, k) /\ d.error = c.error /\ d.server = c.server
<1>1. ConnInv(c) /\ Mid(c, N, A, K) /\ Shape(c) /\ c.strms[i].open
  BY DEF Near, ConnInv
<1>2. PICK x : x = (c.streams[i].exists \/ e)
  OBVIOUS
<1>3. PICK q : q = [c.streams[i] EXCEPT !.exists = x]
  OBVIOUS
<1>4. /\ DOMAIN q = StreamFields /\ q.completed = c.streams[i].completed
      /\ q.parse_error = c.streams[i].parse_error /\ q.nread = c.streams[i].nread
      /\ q.streambuf = c.streams[i].streambuf /\ q.idx = c.streams[i].idx
      /\ q.tx_offset = c.streams[i].tx_offset
      /\ q.should_send_fin = c.streams[i].should_send_fin
      /\ q.exists = x
  BY <1>1, <1>3 DEF Shape, StreamFields
<1>5. d = WithStream(c, i, q)
  BY <1>1, <1>2, <1>3 DEF WithStream, Shape, ConnFields, StreamFields
<1>6. c.streams[i].exists => q.exists
  BY <1>2, <1>4
<1>7. Mid(d, N, A, K)
  BY ONLY <1>1, <1>4, <1>5, <1>6, i \in Ids, FramesTyped(N), EntryMid
<1>8. About(c, d, i) /\ Quiet(c, d) /\ d.streams[i] = q /\ d.strms[i] = c.strms[i]
  BY ONLY <1>1, <1>5, i \in Ids, StreamSet
<1>9. ConnInv(d)
  <2>1. Kept(c, d)
    BY ONLY <1>1, <1>4, <1>5, i \in Ids, AppKept
  <2> QED
    BY <1>1, <2>1, KeptInv
<1>10. Inbox(d, A, i)
  BY <1>8, SameInbox DEF Near, Quiet
<1>11. \A j \in Ids : Inbox(d, A, j)
  BY <1>8, <1>10, InboxStep DEF Near
<1>12. \A j \in Ids : j # i => Counted(d, j, 0)
  BY <1>8, CountedStep DEF Near
<1>13. d.server = c.server /\ d.error = c.error
  BY <1>8 DEF About, Base
<1>14. Counted(d, i, k)
  BY <1>4, <1>8, <1>13 DEF Counted, Near
<1> QED
  BY <1>1, <1>7, <1>8, <1>9, <1>11, <1>12, <1>13, <1>14 DEF Near

\* Data in order is read with what waited for it.
LEMMA DeliverMid ==
    ASSUME NEW c, NEW N, NEW A, NEW B, NEW K, NEW f, Due(c, N, A, B, K, f), FramesTyped(N),
           page \in Pages, NEW i, i = f.id, NEW s, s = c.strms[i], Fits(s, f),
           ~s.stop_sending, f.len = 1, f.off = s.rx,
           NEW r, DOMAIN r = StrmFields, Noted(s, f, r), r.rob = s.rob,
           NEW l, l = WithStrm(c, i, r), NEW w, NEW d, d = Deliver(l, f, w)
    PROVE  Near(d, N, B, K, i, 0) /\ d.error = c.error /\ d.server = c.server
<1>0. ConnInv(c) /\ Shape(c) /\ i \in Ids /\ f.id \in Ids
  BY DEF Due, ConnInv
<1>1. l.strms[i] = r /\ Shape(l)
  <2>1. r.open = c.strms[i].open
    BY DEF Noted, SameSend
  <2>2. Kept(c, l) /\ l.strms[i] = r
    BY <1>0, <2>1, StrmKept
  <2> QED
    BY <2>2 DEF Kept
<1>2. PICK n : n = f.off + f.len
  OBVIOUS
<1>3. PICK up : up = {u \in s.rob : u[1] = n}
  OBVIOUS
<1>4. PICK rest : rest = {u \in s.rob : u[1] > n}
  OBVIOUS
<1>5. PICK b : b = [l EXCEPT !.strms[i].rx = n + Cardinality(up), !.strms[i].rob = rest]
  OBVIOUS
<1>6. PICK b2 : b2 = recv_stream_data(b, i, f.what, w)
  OBVIOUS
<1>7. PICK what : what = (CHOOSE u \in up : TRUE)[2]
  OBVIOUS
<1>8. d = IF up = {} THEN b2 ELSE recv_stream_data(b2, i, what, w)
  <2>1. up = {u \in l.strms[i].rob : u[1] = n} /\ rest = {u \in l.strms[i].rob : u[1] > n}
    BY <1>1, <1>3, <1>4
  <2>2. b = [l EXCEPT !.strms[i].rx = n + Cardinality(up),
                      !.strms[i].rob = {u \in @ : u[1] > n}]
    BY ONLY <1>0, <1>1, <1>5, <2>1 DEF Shape, ConnFields, StrmFields
  <2> QED
    BY ONLY <1>2, <1>6, <1>7, <2>1, <2>2, d = Deliver(l, f, w), i = f.id, SMTT(30) DEF Deliver
<1>9. PICK m : m = Cardinality(up)
  OBVIOUS
<1>10. PICK x : x = n + m
  OBVIOUS
<1>11. PICK t : t = [r EXCEPT !.rx = x, !.rob = rest]
  OBVIOUS
<1>12. b = WithStrm(c, i, t)
  <2>1. b = [l EXCEPT !.strms[i] = t]
    BY ONLY <1>0, <1>1, <1>5, <1>9, <1>10, <1>11 DEF Shape, ConnFields, StrmFields
  <2> QED
    BY ONLY <1>0, <2>1, l = WithStrm(c, i, r) DEF WithStrm, Shape, ConnFields
<1>13. /\ DOMAIN t = StrmFields /\ t.rx = x /\ t.rob = rest /\ t.last_rx = r.last_rx
       /\ t.shut_rd = r.shut_rd /\ t.recv_rst = r.recv_rst /\ SameSend(r, t)
  BY <1>11 DEF StrmFields, SameSend
<1>14. Noted(s, f, t)
  BY <1>13 DEF Noted, SameSend
<1> PICK F, G : F = FramesTo(N, Other(~c.server), f.id) /\ G = FramesTo(A, Other(~c.server), f.id)
  OBVIOUS
<1>15. Wire(F) /\ G \subseteq F /\ f \in F /\ Receiving(s, G)
  <2>1. Wire(F) /\ G \subseteq F /\ f \in F
    BY DueWire
  <2>2. Receiving(s, G)
    BY DEF Due
  <2> QED
    BY <2>1, <2>2
<1>28. up = UnitsAt(s, n) /\ rest = UnitsBeyond(s, n)
  BY ONLY <1>3, <1>4 DEF UnitsAt, UnitsBeyond
<1>16. /\ up = {} => m = 0
       /\ up # {} => m = 1 /\ \E g \in G : g.len = 1 /\ g.off = n
  BY ONLY <1>9, <1>15, <1>28, Waiting
<1>17. m \in {0, 1} /\ (m = 0 => UnitsAt(s, n) = {}) /\ (m = 1 => \E g \in G : g.len = 1 /\ g.off = n)
  BY ONLY <1>16, <1>28
<1>29. t.rx = n + m /\ t.rob = UnitsBeyond(s, n)
  BY ONLY <1>10, <1>13, <1>28
<1>18. Receiving(t, G \cup {f}) /\ t.rx = s.rx + 1 + m
  <2>1. Receiving(t, G \cup {f})
    BY ONLY <1>2, <1>10, <1>13, <1>14, <1>15, <1>17, <1>29, Fits(s, f), f.len = 1,
            f.off = s.rx, ~s.stop_sending, InOrder
  <2>2. s.rx \in 0..2
    BY <1>15 DEF Receiving
  <2> QED
    BY <1>2, <1>17, <1>29, <2>1, <2>2
<1>19. PICK k \in Nat : k = 1 + m
  BY <1>17
<1>20. t.rx = s.rx + k
  BY <1>15, <1>17, <1>18, <1>19 DEF Receiving
<1>21. SameSend(s, t) /\ t.recv_rst = s.recv_rst
  BY <1>14 DEF Noted
<1>22. Near(b, N, B, K, i, k) /\ b.error = c.error /\ b.server = c.server
  BY ONLY <1>12, <1>13, <1>18, <1>19, <1>20, <1>21, HalfNear, Due(c, N, A, B, K, f),
          FramesTyped(N), i = f.id, s = c.strms[i], G = FramesTo(A, Other(~c.server), f.id)
<1>23. m \in Nat /\ k = m + 1
  BY <1>17, <1>19
<1>24. Near(b2, N, B, K, i, m)
  BY ONLY <1>0, <1>6, <1>22, <1>23, FramesTyped(N), page \in Pages, DataMid
<1>25. b2.error = c.error /\ b2.server = c.server
  BY ONLY <1>0, <1>6, <1>22, <1>23, <1>24, FramesTyped(N), page \in Pages, DataMid
<1>26. CASE up = {}
  BY <1>8, <1>16, <1>24, <1>25, <1>26
<1>27. CASE up # {}
  <2>1. d = recv_stream_data(b2, i, what, w) /\ m = 0 + 1
    BY <1>8, <1>16, <1>27
  <2>2. 0 \in Nat
    OBVIOUS
  <2>3. Near(d, N, B, K, i, 0)
    BY ONLY <1>0, <1>24, <2>1, <2>2, FramesTyped(N), page \in Pages, DataMid
  <2>4. d.error = b2.error /\ d.server = b2.server
    BY ONLY <1>0, <1>24, <2>1, <2>2, <2>3, FramesTyped(N), page \in Pages, DataMid
  <2> QED
    BY <1>25, <2>3, <2>4
<1> QED
  BY <1>26, <1>27

\* conn_recv_stream when the stream is there.
LEMMA RecvOpenMid ==
    ASSUME NEW c, NEW N, NEW A, NEW B, NEW K, NEW f, Due(c, N, A, B, K, f), FramesTyped(N),
           page \in Pages, NEW w, NEW d, d = recv_stream_open(c, f, w)
    PROVE  \/ d = Error(c) /\ c.strms[f.id].recv_rst /\ \E g \in N : g.type = "RST"
           \/ Full(d, N, B, K) /\ ~d.error /\ d.server = c.server
<1> DEFINE i    == f.id
           s    == c.strms[i]
           end  == f.off + f.len
           last == [c EXCEPT !.strms[i].last_rx = IF @ < end THEN end ELSE @,
                             !.strms[i].shut_rd = @ \/ f.fin]
           data == IF f.off <= s.rx THEN Deliver(last, f, w)
                   ELSE IF f.len = 0 THEN last
                   ELSE [last EXCEPT !.strms[i].rob = @ \cup {<<f.off, f.what>>}]
           eof  == [last EXCEPT !.streams[i].exists = @ \/ c.server]
<1>30. i = f.id /\ s = c.strms[i] /\ end = f.off + f.len
  OBVIOUS
<1>31. d = IF s.shut_rd /\ ((f.fin /\ s.last_rx # end) \/ s.last_rx < end) THEN Error(c)
           ELSE IF f.fin /\ s.shut_rd THEN c
           ELSE IF f.fin /\ s.last_rx > end THEN Error(c)
           ELSE IF f.fin /\ s.stop_sending THEN close_stream_if_shut_rdwr(last, i)
           ELSE IF f.fin /\ end = s.rx THEN close_stream_if_shut_rdwr(eof, i)
           ELSE IF ~f.fin /\ (end <= s.rx \/ s.stop_sending) THEN last
           ELSE close_stream_if_shut_rdwr(data, i)
  BY DEF recv_stream_open
<1>8. PICK l : l = last
  OBVIOUS
<1>10. PICK dl : dl = Deliver(l, f, w)
  OBVIOUS
<1>11. PICK bf : bf = [l EXCEPT !.strms[i].rob = @ \cup {<<f.off, f.what>>}]
  OBVIOUS
<1>12. PICK ef : ef = eof
  OBVIOUS
<1>13. PICK dt : dt = data
  OBVIOUS
<1>32. dt = IF f.off <= s.rx THEN dl ELSE IF f.len = 0 THEN l ELSE bf
  <2> HIDE DEF i, s, end, last
  <2> QED
    BY ONLY <1>8, <1>10, <1>11, <1>13
<1>33. ef = [l EXCEPT !.streams[i].exists = @ \/ c.server]
  BY ONLY <1>8, <1>12
<1>14. d = IF s.shut_rd /\ ((f.fin /\ s.last_rx # end) \/ s.last_rx < end) THEN Error(c)
           ELSE IF f.fin /\ s.shut_rd THEN c
           ELSE IF f.fin /\ s.last_rx > end THEN Error(c)
           ELSE IF f.fin /\ s.stop_sending THEN close_stream_if_shut_rdwr(l, i)
           ELSE IF f.fin /\ end = s.rx THEN close_stream_if_shut_rdwr(ef, i)
           ELSE IF ~f.fin /\ (end <= s.rx \/ s.stop_sending) THEN l
           ELSE close_stream_if_shut_rdwr(dt, i)
  <2> HIDE DEF i, s, end, last, data, eof
  <2> QED
    BY ONLY <1>8, <1>12, <1>13, <1>31
<1>34. Shape(c) /\ i \in Ids
  BY DEF Due, ConnInv
<1>3. PICK x : x = IF s.last_rx < end THEN end ELSE s.last_rx
  OBVIOUS
<1>4. PICK y : y = (s.shut_rd \/ f.fin)
  OBVIOUS
<1>35. l = [c EXCEPT !.strms[i].last_rx = x, !.strms[i].shut_rd = y]
  BY <1>3, <1>4, <1>8, <1>34 DEF Shape, ConnFields, StrmFields
<1> HIDE DEF i, s, end, last, data, eof
<1>0. /\ ConnInv(c) /\ Shape(c) /\ i \in Ids /\ ~c.error /\ c.server \in BOOLEAN
      /\ Mid(c, N, B, K) /\ c.strms[i].open
  BY <1>30 DEF Due, ConnInv
<1> PICK F, G : F = FramesTo(N, Other(~c.server), f.id) /\ G = FramesTo(A, Other(~c.server), f.id)
  OBVIOUS
<1>1. Wire(F) /\ G \subseteq F /\ f \in F /\ Receiving(s, G)
  <2>1. Wire(F) /\ G \subseteq F /\ f \in F
    BY DueWire
  <2>2. Receiving(s, G)
    BY <1>30 DEF Due
  <2> QED
    BY <2>1, <2>2
<1>2. /\ f.off \in Nat /\ f.len \in {0, 1} /\ end \in 0..2 /\ (f.len = 0 => f.fin)
      /\ s.rx \in 0..2 /\ s.last_rx \in 0..2 /\ s.rx <= s.last_rx
  BY <1>1, <1>30 DEF Wire, Receiving
<1>5. PICK r : r = [s EXCEPT !.last_rx = x, !.shut_rd = y]
  OBVIOUS
<1>6. /\ DOMAIN r = StrmFields /\ r.rx = s.rx /\ r.rob = s.rob /\ r.recv_rst = s.recv_rst
      /\ r.last_rx = x /\ r.shut_rd = y /\ SameSend(s, r)
  BY <1>0, <1>5, <1>30 DEF Shape, StrmFields, SameSend
<1>7. Noted(s, f, r)
  BY <1>3, <1>4, <1>6, <1>30 DEF Noted
<1>9. l = WithStrm(c, i, r)
  <2>2. [c EXCEPT !.strms[i].last_rx = x, !.strms[i].shut_rd = y]
        = [c EXCEPT !.strms[i] = [c.strms[i] EXCEPT !.last_rx = x, !.shut_rd = y]]
    BY <1>0 DEF Shape, ConnFields
  <2> QED
    BY <1>5, <1>30, <1>35, <2>2 DEF WithStrm
<1>15. CASE d = Error(c) /\ \/ s.shut_rd /\ ((f.fin /\ s.last_rx # end) \/ s.last_rx < end)
                            \/ f.fin /\ s.last_rx > end
  <2>1. s.recv_rst
    BY ONLY <1>1, <1>15, <1>30, SizesAgree
  <2>2. StreamInv(c, N, B, i)
    BY <1>0 DEF Mid, SideInv
  <2>3. Resets(c, N, i)
    BY <1>0, <2>2, OpenHas
  <2>4. \E g \in N : g.type = "RST"
    BY <1>30, <2>1, <2>3 DEF Resets
  <2> QED
    BY <1>15, <1>30, <2>1, <2>4
<1>16. CASE d = c /\ f.fin /\ s.shut_rd /\ s.last_rx = end
  <2>1. Receiving(s, G \cup {f})
    BY ONLY <1>1, <1>16, <1>30, LastAgain
  <2>2. FramesTo(B, Other(~c.server), i) = G \cup {f}
    BY <1>30, DueWire
  <2>3. \A j \in Ids : Inbox(c, B, j)
    BY <1>0, <1>30, <2>1, <2>2 DEF Due, Inbox
  <2> QED
    BY <1>0, <1>16, <2>3 DEF Full, Due
<1>17. ASSUME Fits(s, f), s.stop_sending \/ f.len = 0 \/ f.off < s.rx
       PROVE  Near(l, N, B, K, i, 0) /\ l.error = c.error /\ l.server = c.server
  <2>1. Receiving(r, G \cup {f})
    BY <1>1, <1>6, <1>7, <1>17, NotedOnly
  <2>2. r.rx = s.rx + 0 /\ 0 \in Nat
    BY <1>2, <1>6
  <2> QED
    BY ONLY <1>6, <1>9, <2>1, <2>2, HalfNear, Due(c, N, A, B, K, f),
          FramesTyped(N), <1>30, G = FramesTo(A, Other(~c.server), f.id)
<1>18. ASSUME NEW b, Near(b, N, B, K, i, 0), b.error = c.error, b.server = c.server,
              d = b \/ d = close_stream_if_shut_rdwr(b, i)
       PROVE  Full(d, N, B, K) /\ ~d.error /\ d.server = c.server
  <2>1. CASE d = b
    BY <1>0, <1>18, <2>1, NearFull
  <2>2. CASE d = close_stream_if_shut_rdwr(b, i)
    BY <1>0, <1>18, <2>2, CloseFull
  <2> QED
    BY <1>18, <2>1, <2>2
<1>19. CASE Fits(s, f) /\ f.fin /\ s.stop_sending /\ d = close_stream_if_shut_rdwr(l, i)
  BY <1>17, <1>18, <1>19
<1>20. CASE Fits(s, f) /\ f.fin /\ end = s.rx /\ d = close_stream_if_shut_rdwr(ef, i)
  <2>1. f.len = 0 \/ f.off < s.rx
    BY <1>2, <1>20, <1>30
  <2>2. Near(l, N, B, K, i, 0) /\ l.error = c.error /\ l.server = c.server
    BY <1>17, <1>20, <2>1
  <2>3. PICK e \in BOOLEAN : e = c.server
    BY <1>0
  <2>4. ef = [l EXCEPT !.streams[i].exists = @ \/ e]
    BY <1>33, <2>3
  <2>5. Near(ef, N, B, K, i, 0) /\ ef.error = l.error /\ ef.server = l.server
    BY ONLY <1>0, <2>2, <2>4, e \in BOOLEAN, FramesTyped(N), EntryNear
  <2> QED
    BY <1>18, <1>20, <2>2, <2>5
<1>21. CASE Fits(s, f) /\ ~f.fin /\ (end <= s.rx \/ s.stop_sending) /\ d = l
  <2>1. s.stop_sending \/ f.len = 0 \/ f.off < s.rx
    BY <1>2, <1>21, <1>30
  <2> QED
    BY <1>17, <1>18, <1>21, <2>1
<1>22. CASE /\ Fits(s, f) /\ ~s.stop_sending /\ d = close_stream_if_shut_rdwr(dt, i)
            /\ (f.fin => end # s.rx) /\ (~f.fin => ~(end <= s.rx))
  <2>1. CASE f.off <= s.rx
    <3>1. f.len = 1 /\ f.off = s.rx
      BY <1>2, <1>22, <1>30, <2>1 DEF Fits
    <3>2. Near(dl, N, B, K, i, 0) /\ dl.error = c.error /\ dl.server = c.server
      BY ONLY <1>6, <1>7, <1>9, <1>10, <1>22, <3>1, Due(c, N, A, B, K, f), FramesTyped(N),
              page \in Pages, <1>30, DeliverMid
    <3>3. dt = dl
      BY <1>32, <2>1
    <3> QED
      BY <1>18, <1>22, <3>2, <3>3
  <2>2. CASE ~(f.off <= s.rx) /\ f.len = 0
    <3>1. dt = l
      BY <1>32, <2>2
    <3> QED
      BY <1>17, <1>18, <1>22, <2>2, <3>1
  <2>3. CASE ~(f.off <= s.rx) /\ f.len # 0
    <3>1. dt = bf /\ f.len = 1 /\ f.off > s.rx
      BY <1>2, <1>30, <1>32, <2>3
    <3>2. PICK Z : Z = s.rob \cup {<<f.off, f.what>>}
      OBVIOUS
    <3>3. PICK t : t = [r EXCEPT !.rob = Z]
      OBVIOUS
    <3>4. l.strms[i] = r /\ Shape(l)
      <4>1. r.open = c.strms[i].open
        BY <1>6, <1>30 DEF SameSend
      <4>3. DOMAIN r = StrmFields
        BY <1>6
      <4>4. ConnInv(c) /\ i \in Ids
        BY <1>0
      <4>2. Kept(c, l) /\ l.strms[i] = r
        BY ONLY <1>9, <4>1, <4>3, <4>4, StrmKept
      <4> QED
        BY <4>2 DEF Kept
    <3>5. bf = WithStrm(c, i, t)
      <4>1. bf = [l EXCEPT !.strms[i] = t]
        BY ONLY <1>0, <1>6, <1>11, <1>30, <3>2, <3>3, <3>4 DEF Shape, ConnFields, StrmFields
      <4> QED
        BY ONLY <1>0, <4>1, <1>9 DEF WithStrm, Shape, ConnFields
    <3>6. /\ DOMAIN t = StrmFields /\ t.rx = s.rx /\ t.rob = Z /\ t.last_rx = r.last_rx
          /\ t.shut_rd = r.shut_rd /\ t.recv_rst = s.recv_rst /\ SameSend(s, t)
      BY <1>6, <3>3 DEF StrmFields, SameSend
    <3>7. Noted(s, f, t)
      BY <1>7, <3>6 DEF Noted
    <3>8. Receiving(t, G \cup {f})
      BY ONLY <1>1, <1>22, <3>1, <3>2, <3>6, <3>7, Buffered
    <3>9. t.rx = s.rx + 0 /\ 0 \in Nat
      BY <1>2, <3>6
    <3>10. Near(bf, N, B, K, i, 0) /\ bf.error = c.error /\ bf.server = c.server
      BY ONLY <3>5, <3>6, <3>8, <3>9, HalfNear, Due(c, N, A, B, K, f),
            FramesTyped(N), <1>30, G = FramesTo(A, Other(~c.server), f.id)
    <3> QED
      BY <1>18, <1>22, <3>1, <3>10
  <2> QED
    BY <2>1, <2>2, <2>3
<1>23. ASSUME ~(s.shut_rd /\ ((f.fin /\ s.last_rx # end) \/ s.last_rx < end)),
              ~(f.fin /\ s.shut_rd), ~(f.fin /\ s.last_rx > end)
       PROVE  Fits(s, f)
  BY <1>2, <1>23, <1>30 DEF Fits
<1> QED
  BY ONLY <1>14, <1>15, <1>16, <1>19, <1>20, <1>21, <1>22, <1>23, SMTT(60)

-----------------------------------------------------------------------------
(* A frame arrives.                                                        *)

\* A frame from the other side has arrived.
Arriving(c, N, A, B, K, f) ==
    /\ Full(c, N, A, K) /\ ~c.error
    /\ f \in N /\ B = A \cup {f} /\ f.to = Other(~c.server)
    /\ f.type \in {"STREAM", "RST", "STOP", "MAXID"} /\ (f.type # "MAXID" => f.id \in Ids)
    /\ f.type = "MAXID" => ~c.server /\ f.id \in Nat
    /\ c.server => \A j \in K : j <= c.max_remote

\* What comes of it: without a reset, no error.
Received(c, d, N, B, K) ==
    /\ Full(d, N, B, K) /\ d.server = c.server
    /\ d.error => d = Error(c) /\ \E g \in N : g.type = "RST"

LEMMA ErrorFull ==
    ASSUME NEW c, NEW N, NEW A, NEW B, NEW K, NEW f, Arriving(c, N, A, B, K, f),
           \E g \in N : g.type = "RST", NEW d, d = Error(c)
    PROVE  Received(c, d, N, B, K)
<1>1. ConnInv(c) /\ Mid(c, N, A, K) /\ \A j \in Ids : Counted(c, j, 0)
  BY DEF Arriving, Full
<1>2. Shape(c)
  BY <1>1 DEF ConnInv
<1>3. /\ DOMAIN d = ConnFields /\ d.error
      /\ \A k \in ConnFields \ {"error"} : d[k] = c[k]
  BY <1>2 DEF Error, Shape, ConnFields
<1>4. ConnInv(d)
  BY <1>1, KeptError, KeptInv
<1>5. /\ d.server = c.server /\ d.rtb = c.rtb /\ d.frq = c.frq /\ d.answers = c.answers
      /\ d.empty = c.empty /\ d.reset = c.reset /\ d.idtr = c.idtr /\ d.crashed = c.crashed
      /\ d.strms = c.strms /\ d.streams = c.streams /\ d.next = c.next
      /\ d.max_remote = c.max_remote /\ d.max_local = c.max_local
  BY <1>3 DEF ConnFields
<1>6. Mid(c, N, B, K)
  <2>1. A \subseteq B /\ B \subseteq N
    BY <1>1 DEF Arriving, Mid, Context
  <2> QED
    BY <1>1, <2>1, ArrivedMid
<1>7. Mid(d, N, B, K)
  <2>1. ASSUME NEW j \in Ids PROVE StreamInv(d, N, B, j)
    <3>1. StreamInv(c, N, B, j)
      BY <1>6 DEF Mid, SideInv
    <3>2. Alike(c, d, j)
      BY <1>5 DEF Alike
    <3> QED
      BY <1>5, <3>1, <3>2, AlikeStream
  <2>2. \A x : FrameInv(c, N, K, x) => FrameInv(d, N, K, x)
    BY <1>5 DEF FrameInv, OwnReset
  <2>3. FramesInv(d, N, K)
    BY <1>5, <1>6, <2>2 DEF FramesInv, Mid, SideInv
  <2>4. Context(d, N, B, K)
    BY <1>5, <1>6 DEF Context, Mid
  <2> QED
    BY <1>5, <1>6, <2>1, <2>3, <2>4 DEF Mid, SideInv
<1>8. \A j \in Ids : Inbox(d, B, j) /\ Counted(d, j, 0)
  BY <1>1, <1>3, <1>5 DEF Inbox, Counted
<1> QED
  BY <1>4, <1>5, <1>7, <1>8 DEF Received, Full

\* What has arrived for the other streams.
LEMMA InboxRest ==
    ASSUME NEW c, NEW N, NEW A, NEW B, NEW K, NEW f, Arriving(c, N, A, B, K, f),
           NEW j \in Ids, f.type # "STREAM" \/ f.id # j
    PROVE  Inbox(c, B, j)
<1>1. \A to : FramesTo(B, to, j) = FramesTo(A, to, j)
  BY DEF Arriving, FramesTo
<1>2. Inbox(c, A, j)
  BY DEF Arriving, Full
<1> QED
  BY <1>1, <1>2 DEF Inbox

\* When nothing comes of a frame.
LEMMA SameFull ==
    ASSUME NEW c, NEW N, NEW A, NEW B, NEW K, NEW f, Arriving(c, N, A, B, K, f),
           f.type = "STREAM" => Inbox(c, B, f.id)
    PROVE  Full(c, N, B, K) /\ Received(c, c, N, B, K)
<1>1. ConnInv(c) /\ Mid(c, N, A, K) /\ (\A j \in Ids : Counted(c, j, 0)) /\ ~c.error
  BY DEF Arriving, Full
<1>2. Mid(c, N, B, K)
  <2>1. A \subseteq B /\ B \subseteq N
    BY <1>1 DEF Arriving, Mid, Context
  <2> QED
    BY <1>1, <2>1, ArrivedMid
<1>3. \A j \in Ids : Inbox(c, B, j)
  BY InboxRest
<1> QED
  BY <1>1, <1>2, <1>3 DEF Received, Full

\* The stream is opened.
LEMMA OpenedInv ==
    ASSUME NEW c, ConnInv(c), c.server, NEW i \in Ids, ~(c.max_remote < i),
           Free(c.idtr, i), NEW b, b = OpenedAs(c, i)
    PROVE  ConnInv(b)
<1>1. Shape(c) /\ c.max_local \in Nat
  BY DEF ConnInv
<1>3. i <= c.max_remote
  BY ExchangeAssumption DEF ConnInv, Ids
<1>4. /\ DOMAIN b = ConnFields
      /\ \A k \in ConnFields \ {"strms", "idtr"} : b[k] = c[k]
      /\ b.idtr = idtr_open(c.idtr, i)
      /\ b.strms = [c.strms EXCEPT ![i].open = TRUE]
  BY <1>1 DEF OpenedAs, Shape, ConnFields
<1>5. /\ DOMAIN b.strms = Ids /\ b.strms[i].open
      /\ \A j \in Ids : j # i => b.strms[j] = c.strms[j]
      /\ \A j \in Ids : DOMAIN b.strms[j] = StrmFields
  BY <1>1, <1>4 DEF Shape, StrmFields
<1>6. /\ b.server = c.server /\ b.rtb = c.rtb /\ b.frq = c.frq
      /\ b.max_remote = c.max_remote /\ b.unsent_max = c.unsent_max
      /\ b.max_local = c.max_local /\ b.streams = c.streams /\ b.answers = c.answers
  BY <1>4 DEF ConnFields
<1>7. Shape(b)
  BY <1>1, <1>4, <1>5, <1>6 DEF Shape
<1>8. Grows(c, b)
  BY ONLY <1>1, <1>6 DEF Grows
<1>9. \A j \in Ids : j # i => b.strms[j].open = c.strms[j].open
  BY <1>5
<1> QED
  BY ONLY <1>3, <1>4, <1>6, <1>7, <1>8, <1>9, ConnInv(c), i \in Ids, c.server,
          Free(c.idtr, i), IdTaken

\* conn_recv_stream.
LEMMA RecvStreamMid ==
    ASSUME NEW c, NEW N, NEW A, NEW B, NEW K, NEW f, Arriving(c, N, A, B, K, f),
           f.type = "STREAM", FramesTyped(N), page \in Pages,
           NEW w, NEW d, d = recv_stream(c, f, w)
    PROVE  Received(c, d, N, B, K)
<1>0. /\ ConnInv(c) /\ Mid(c, N, A, K) /\ (\A j \in Ids : Inbox(c, A, j) /\ Counted(c, j, 0))
      /\ ~c.error /\ f.to = Other(~c.server) /\ f \in N /\ B = A \cup {f} /\ f.id \in Ids
  BY DEF Arriving, Full
<1> PICK i \in Ids : i = f.id
  BY <1>0
<1>1. i \in K
  BY <1>0 DEF Mid, Context
<1>2. ~(IF c.server THEN c.max_remote < i ELSE c.next <= i)
  <2>1. c.server => i <= c.max_remote
    BY <1>1 DEF Arriving
  <2>2. ~c.server => i < c.next /\ c.next \in Nat
    BY <1>0, <1>1 DEF Mid, Context
  <2>3. c.max_remote \in Nat /\ i \in Nat
    BY <1>0 DEF ConnInv, Ids
  <2> QED
    BY <2>1, <2>2, <2>3
<1>3. \/ c.strms[i].open /\ d = recv_stream_open(c, f, w)
      \/ ~c.strms[i].open /\ (~c.server \/ ~Free(c.idtr, i)) /\ d = c
      \/ /\ ~c.strms[i].open /\ c.server /\ Free(c.idtr, i)
         /\ d = recv_stream_open(OpenedAs(c, i), f, w)
  BY <1>2 DEF recv_stream, OpenedAs
<1>4. A \subseteq B /\ B \subseteq N
  BY <1>0 DEF Mid, Context
<1>5. ASSUME NEW b, ConnInv(b), Mid(b, N, A, K), ~b.error, b.server = c.server,
             b.strms[i].open, b.server => ~Free(b.idtr, i), Inbox(b, A, i),
             \A j \in Ids : j # i => Inbox(b, B, j), \A j \in Ids : Counted(b, j, 0),
             d = recv_stream_open(b, f, w)
      PROVE  \/ d = Error(b) /\ b.strms[i].recv_rst /\ \E g \in N : g.type = "RST"
             \/ Full(d, N, B, K) /\ ~d.error /\ d.server = b.server
  <2>1. Mid(b, N, B, K)
    BY <1>4, <1>5, ArrivedMid
  <2>2. Receiving(b.strms[i], FramesTo(A, Other(~b.server), i))
    BY <1>5 DEF Inbox
  <2>3. Due(b, N, A, B, K, f)
    BY <1>0, <1>1, <1>5, <2>1, <2>2 DEF Due
  <2> QED
    BY <1>5, <2>3, RecvOpenMid
<1>6. CASE c.strms[i].open /\ d = recv_stream_open(c, f, w)
  <2>1. c.server => ~Free(c.idtr, i)
    BY <1>0, <1>6 DEF ConnInv, ServerInv, Opened
  <2>2. \A j \in Ids : j # i => Inbox(c, B, j)
    BY InboxRest
  <2>3. \/ d = Error(c) /\ \E g \in N : g.type = "RST"
        \/ Full(d, N, B, K) /\ ~d.error /\ d.server = c.server
    BY <1>0, <1>5, <1>6, <2>1, <2>2
  <2>4. CASE d = Error(c) /\ \E g \in N : g.type = "RST"
    BY <2>4, ErrorFull
  <2>5. CASE Full(d, N, B, K) /\ ~d.error /\ d.server = c.server
    BY <2>5 DEF Received
  <2> QED
    BY <2>3, <2>4, <2>5
<1>7. CASE ~c.strms[i].open /\ (~c.server \/ ~Free(c.idtr, i)) /\ d = c
  <2>1. Inbox(c, B, f.id)
    BY <1>7 DEF Inbox
  <2> QED
    BY <1>7, <2>1, SameFull
<1>8. CASE /\ ~c.strms[i].open /\ c.server /\ Free(c.idtr, i)
           /\ d = recv_stream_open(OpenedAs(c, i), f, w)
  <2>1. PICK b : b = OpenedAs(c, i)
    OBVIOUS
  <2>2. /\ Mid(b, N, A, K) /\ About(c, b, i) /\ b.strms[i].open
        /\ Inbox(b, A, i) /\ Counted(b, i, 0) /\ ~Free(b.idtr, i)
    BY <1>0, <1>8, <2>1, OpenMid
  <2>3. ConnInv(b)
    BY <1>0, <1>2, <1>8, <2>1, OpenedInv
  <2>4. b.server = c.server /\ b.error = c.error
    BY <2>2 DEF About, Base
  <2>5. \A j \in Ids : Counted(b, j, 0)
    BY <1>0, <2>2, CountedStep
  <2>6. ASSUME NEW j \in Ids, j # i PROVE Inbox(b, B, j)
    <3>1. Inbox(c, B, j)
      BY <2>6, InboxRest
    <3> QED
      BY <2>2, <2>6, <3>1 DEF About, Base, Alike, Inbox
  <2>7. \/ d = Error(b) /\ b.strms[i].recv_rst /\ \E g \in N : g.type = "RST"
        \/ Full(d, N, B, K) /\ ~d.error /\ d.server = b.server
    BY <1>0, <1>5, <1>8, <2>1, <2>2, <2>3, <2>4, <2>5, <2>6
  <2>8. b.strms[i] = [NoStrm EXCEPT !.open = TRUE]
    <3>1. c.strms[i] = NoStrm /\ Shape(c)
      BY <1>0, <1>8 DEF Mid, SideInv, StreamInv, Gone, ConnInv
    <3> QED
      BY <2>1, <3>1 DEF OpenedAs, Shape, ConnFields
  <2>9. ~b.strms[i].recv_rst
    BY <2>8 DEF NoStrm
  <2> QED
    BY <2>4, <2>7, <2>9 DEF Received
<1> QED
  BY <1>3, <1>6, <1>7, <1>8

\* An id that was answered is not used up again.
LEMMA UseUpSame ==
    ASSUME NEW c, ConnInv(c), NEW i \in Ids, c.server => c.answers[i] = 1,
           NEW d, d = UseUp(c, i)
    PROVE  d = c
<1>1. c.server => ~Free(c.idtr, i)
  BY DEF ConnInv, ServerInv, Answers
<1> QED
  BY <1>1 DEF UseUp

\* conn_recv_rst_stream.
LEMMA RecvRstMid ==
    ASSUME NEW c, NEW N, NEW A, NEW B, NEW K, NEW f, Arriving(c, N, A, B, K, f),
           f.type = "RST", FramesTyped(N), page \in Pages,
           NEW d, d = recv_rst_stream(c, f)
    PROVE  Received(c, d, N, B, K)
<1>0. /\ ConnInv(c) /\ Mid(c, N, A, K) /\ Shape(c) /\ (\A j \in Ids : Counted(c, j, 0))
      /\ ~c.error /\ f.to = Other(~c.server) /\ f \in N /\ f.id \in Ids
  BY DEF Arriving, Full, ConnInv
<1>1. PICK i \in Ids : i = f.id
  BY <1>0
<1>2. i \in K /\ (c.server => c.answers[i] = 1)
  BY <1>0, <1>1 DEF Mid, Context
<1>3. PICK b : b = [c EXCEPT !.strms[i].shut_rd = TRUE, !.strms[i].recv_rst = TRUE]
  OBVIOUS
<1>4. \/ d = Error(c)
      \/ ~c.strms[i].open /\ d = UseUp(c, i)
      \/ c.strms[i].open /\ d = close_stream_if_shut_rdwr(b, i)
  BY <1>1, <1>3 DEF recv_rst_stream
<1>5. CASE d = Error(c)
  <2>1. \E g \in N : g.type = "RST"
    BY <1>0
  <2> QED
    BY <1>5, <2>1, ErrorFull
<1>6. CASE d = UseUp(c, i)
  <2>1. d = c
    BY <1>0, <1>2, <1>6, UseUpSame
  <2>2. f.type # "STREAM"
    OBVIOUS
  <2> QED
    BY <2>1, <2>2, SameFull
<1>7. CASE c.strms[i].open /\ d = close_stream_if_shut_rdwr(b, i)
  <2>1. Full(c, N, B, K)
    BY SameFull
  <2>2. Mid(c, N, B, K) /\ \A j \in Ids : Inbox(c, B, j)
    BY <2>1 DEF Full
  <2>3. PICK s, r : s = c.strms[i] /\ r = [c.strms[i] EXCEPT !.shut_rd = TRUE, !.recv_rst = TRUE]
    OBVIOUS
  <2>4. b = WithStrm(c, i, r)
    BY <1>0, <1>3, <2>3 DEF WithStrm, Shape, ConnFields, StrmFields
  <2>5. /\ DOMAIN r = StrmFields /\ SameSend(s, r) /\ r.rx = s.rx /\ r.rob = s.rob
        /\ r.last_rx = s.last_rx /\ r.shut_rd /\ r.recv_rst
    BY <1>0, <2>3 DEF Shape, StrmFields, SameSend
  <2>6. Mid(b, N, B, K)
    <3>1. \E g \in N : g.type = "RST" /\ g.id = i /\ g.to = Other(~c.server)
      BY <1>0, <1>1
    <3>2. SameSend(c.strms[i], r)
      BY <2>3, <2>5
    <3> QED
      BY ONLY <1>0, <1>7, <2>2, <2>4, <3>1, <3>2, FramesTyped(N), i \in Ids, ReceivedMid
  <2>7. About(c, b, i) /\ Quiet(c, b) /\ b.strms[i] = r /\ b.streams[i] = c.streams[i]
    BY ONLY <1>0, <2>4, i \in Ids, StrmSet
  <2>8. b.server = c.server /\ b.error = c.error /\ b.idtr = c.idtr
    BY <2>7 DEF About, Base, Quiet
  <2>9. ConnInv(b)
    <3>1. r.open = c.strms[i].open /\ DOMAIN r = StrmFields
      BY <2>3, <2>5 DEF SameSend
    <3>2. Kept(c, b)
      BY ONLY <1>0, <2>4, <3>1, i \in Ids, StrmKept
    <3> QED
      BY <1>0, <3>2, KeptInv
  <2>10. Inbox(b, B, i)
    <3> PICK G : G = FramesTo(B, Other(~c.server), i)
      OBVIOUS
    <3>1. Receiving(s, G)
      BY <1>0, <1>7, <2>2, <2>3 DEF Inbox
    <3>2. Receiving(r, G)
      BY <2>5, <3>1 DEF Receiving, SameSend
    <3>3. Inbox(c, B, i)
      BY <2>2
    <3> QED
      BY <1>0, <2>7, <2>8, <3>2, <3>3 DEF Inbox
  <2>11. \A j \in Ids : Inbox(b, B, j)
    BY <2>2, <2>7, <2>10, InboxStep
  <2>12. \A j \in Ids : j # i => Counted(b, j, 0)
    BY <1>0, <2>7, CountedStep
  <2>13. Counted(b, i, 0) /\ b.strms[i].open
    BY <1>0, <1>7, <2>3, <2>5, <2>7, <2>8 DEF Counted, SameSend
  <2>14. Near(b, N, B, K, i, 0)
    BY <1>2, <2>6, <2>9, <2>11, <2>12, <2>13 DEF Near
  <2>15. Full(d, N, B, K) /\ d.error = b.error /\ d.server = b.server
    BY ONLY <1>7, <2>14, FramesTyped(N), page \in Pages, i \in Ids, CloseFull
  <2> QED
    BY <1>0, <2>8, <2>15 DEF Received
<1> QED
  BY <1>4, <1>5, <1>6, <1>7

\* conn_recv_stop_sending for a stream that is there.
StoppedBy(c, i) ==
    [c EXCEPT !.strms[i].shut_wr = TRUE, !.strms[i].sent_rst = TRUE,
              !.frq = @ \cup {RstFrame(c, i, "STOPPING")}]

LEMMA StoppedSet ==
    ASSUME NEW c, Shape(c), NEW i \in Ids, NEW d, d = StoppedBy(c, i)
    PROVE  /\ About(c, d, i) /\ d.answers = c.answers /\ d.empty = c.empty
           /\ d.reset = c.reset /\ d.idtr = c.idtr /\ d.crashed = c.crashed
           /\ d.frq = c.frq \cup {RstFrame(c, i, "STOPPING")}
           /\ RstIn(c.strms[i], d.strms[i]) /\ d.streams = c.streams
           /\ Shape(d) /\ d.unsent_max = c.unsent_max
<1> PICK g : g = RstFrame(c, i, "STOPPING")
  OBVIOUS
<1> PICK r : r = [c.strms[i] EXCEPT !.shut_wr = TRUE, !.sent_rst = TRUE]
  OBVIOUS
<1>1. d = [c EXCEPT !.strms[i] = r, !.frq = @ \cup {g}]
  BY DEF StoppedBy, Shape, ConnFields
<1>2. /\ DOMAIN d = ConnFields
      /\ \A k \in ConnFields \ {"strms", "frq"} : d[k] = c[k]
      /\ d.strms = [c.strms EXCEPT ![i] = r] /\ d.frq = c.frq \cup {g}
  BY <1>1 DEF Shape, ConnFields
<1>3. /\ d.strms[i] = r /\ d.streams = c.streams /\ DOMAIN d.strms = Ids
      /\ \A j \in Ids : j # i => d.strms[j] = c.strms[j]
  BY <1>2 DEF Shape, ConnFields
<1>4. /\ d.server = c.server /\ d.rtb = c.rtb /\ d.error = c.error
      /\ d.next = c.next /\ d.max_remote = c.max_remote /\ d.max_local = c.max_local
      /\ d.idtr = c.idtr /\ d.crashed = c.crashed /\ d.answers = c.answers
      /\ d.empty = c.empty /\ d.reset = c.reset /\ d.unsent_max = c.unsent_max
  BY <1>2 DEF ConnFields
<1>5. About(c, d, i)
  BY <1>3, <1>4 DEF About, Base, Alike
<1>6. RstIn(c.strms[i], r) /\ DOMAIN r = StrmFields
  BY DEF RstIn, SameRecv, Shape, StrmFields
<1>7. Shape(d)
  BY <1>2, <1>3, <1>4, <1>6 DEF Shape
<1>8. d.frq = c.frq \cup {g}
  BY <1>2
<1> QED
  BY ONLY <1>3, <1>4, <1>5, <1>6, <1>7, <1>8, g = RstFrame(c, i, "STOPPING")

StopSent(N, i) == \E f \in N : f.type = "STOP" /\ f.id = i

LEMMA StoppedMid ==
    ASSUME NEW c, NEW N, NEW A, NEW K, NEW i \in Ids, ConnInv(c), Mid(c, N, A, K),
           FramesTyped(N), c.strms[i].open, c.server => c.answers[i] = 1, i \in K,
           StopSent(N, i), NEW d, d = StoppedBy(c, i)
    PROVE  /\ ConnInv(d) /\ Mid(d, N, A, K) /\ About(c, d, i) /\ d.streams = c.streams
           /\ RstIn(c.strms[i], d.strms[i]) /\ d.idtr = c.idtr
<1> PICK s, r, a, F, g : /\ s = c.strms[i] /\ r = d.strms[i] /\ a = c.streams[i]
                         /\ F = FramesTo(N, Other(c.server), i)
                         /\ g = RstFrame(c, i, "STOPPING")
  OBVIOUS
<1>0. Shape(c) /\ IsFiniteSet(c.frq)
  BY DEF Mid, SideInv, FramesInv, ConnInv
<1>1. /\ About(c, d, i) /\ d.answers = c.answers /\ d.empty = c.empty
      /\ d.idtr = c.idtr /\ d.crashed = c.crashed /\ d.streams = c.streams
      /\ d.reset = c.reset /\ RstIn(s, r) /\ d.frq = c.frq \cup {g}
      /\ Shape(d) /\ d.unsent_max = c.unsent_max
  BY <1>0, StoppedSet
<1>2. StreamInv(c, N, A, i)
  BY DEF Mid, SideInv
<1>3. Outbox(c, N, A, i) /\ Resets(c, N, i)
  BY <1>2, OpenHas
<1>4. OwnReset(d, N, i) /\ r.shut_wr /\ SameRecv(s, r)
  BY <1>1 DEF OwnReset, RstIn, StopSent
<1>5. /\ d.server = c.server /\ d.rtb = c.rtb /\ d.next = c.next /\ c.server \in BOOLEAN
      /\ d.max_local = c.max_local /\ d.max_remote = c.max_remote
  BY <1>1 DEF About, Base, ConnInv
<1>6. ~(c.server /\ c.answers[i] = 0)
  OBVIOUS
<1>7. Buffers(s, a) /\ AtRest(a) /\ Sending(s, a, F, A, c.rtb, c.empty, i)
  BY <1>3, <1>6 DEF Outbox
<1>8. Buffers(r, a)
  BY <1>1, <1>7 DEF Buffers, RstIn
<1>9. Sending(r, a, F, A, c.rtb, c.empty, i)
  BY <1>1, <1>4, <1>7 DEF Sending, RstIn
<1>10. Outbox(d, N, A, i)
  BY <1>1, <1>5, <1>6, <1>7, <1>8, <1>9 DEF Outbox
<1>12. Resets(d, N, i)
  BY <1>3, <1>4, <1>5 DEF Resets, SameRecv
<1>13. IF d.server THEN Response(d, i) ELSE Request(d, i)
  BY <1>1, <1>2, <1>4, <1>5 DEF StreamInv, Response, Request, SameRecv
<1>14. StreamInv(d, N, A, i)
  BY <1>4, <1>10, <1>12, <1>13 DEF StreamInv, SameRecv
<1>15. ~c.server => i < c.next
  BY DEF Mid, Context
<1>16. FrameInv(d, N, K, g) /\ g.type # "STREAM"
  <2>1. g.type = "RST" /\ g.id = i
    BY DEF RstFrame, Frame
  <2> QED
    BY <1>1, <1>4, <1>5, <1>15, <2>1 DEF FrameInv
<1>17. IsFiniteSet(d.frq)
  BY <1>0, <1>1, AddedFinite
<1>18. Adds(c, d, N, K) /\ d.crashed # "assert"
  BY <1>1, <1>16, <1>17 DEF Adds, Mid, SideInv
<1>19. d.server /\ d.answers[i] = 1 => i \in K
  OBVIOUS
<1>20. Mid(d, N, A, K)
  BY <1>1, <1>14, <1>18, <1>19, MidStep
<1>21. ConnInv(d)
  <2>1. OfStream(c.server, g)
    BY DEF RstFrame, Frame, OfStream, Other
  <2>2. c.max_local \in Nat
    BY DEF ConnInv
  <2>3. Grows(c, d)
    BY ONLY <1>5, <2>2 DEF Grows
  <2>4. \A j \in Ids : d.strms[j].open = c.strms[j].open
    BY <1>1, <1>4 DEF About, Alike, SameRecv
  <2>5. Same(c, d)
    BY <1>1, <2>4 DEF Same, SameStream
  <2>6. Kept(c, d)
    BY <1>1, <1>5, <2>1, <2>3, <2>5 DEF Kept
  <2> QED
    BY <2>6, KeptInv
<1> QED
  BY <1>1, <1>20, <1>21

LEMMA RecvStopMid ==
    ASSUME NEW c, NEW N, NEW A, NEW B, NEW K, NEW f, Arriving(c, N, A, B, K, f),
           f.type = "STOP", FramesTyped(N), page \in Pages,
           NEW d, d = recv_stop_sending(c, f)
    PROVE  Received(c, d, N, B, K)
<1>0. /\ ConnInv(c) /\ Mid(c, N, A, K) /\ Shape(c) /\ (\A j \in Ids : Counted(c, j, 0))
      /\ ~c.error /\ f.to = Other(~c.server) /\ f \in N /\ f.id \in Ids
  BY DEF Arriving, Full, ConnInv
<1>1. PICK i \in Ids : i = f.id
  BY <1>0
<1>2. i \in K /\ (c.server => c.answers[i] = 1)
  BY <1>0, <1>1 DEF Mid, Context
<1>3. PICK b : b = StoppedBy(c, i)
  OBVIOUS
<1>4. ~(c.server /\ c.max_remote < i)
  <2>1. c.server => i <= c.max_remote
    BY <1>2 DEF Arriving
  <2>2. c.max_remote \in Nat /\ i \in Nat
    BY <1>0 DEF ConnInv, Ids
  <2> QED
    BY <2>1, <2>2
<1>5. \/ d = UseUp(c, i)
      \/ c.strms[i].open /\ d = close_stream_if_shut_rdwr(b, i)
  BY <1>1, <1>3, <1>4 DEF recv_stop_sending, StoppedBy, RstFrame
<1>6. CASE d = UseUp(c, i)
  <2>1. d = c
    BY <1>0, <1>2, <1>6, UseUpSame
  <2>2. f.type # "STREAM"
    OBVIOUS
  <2> QED
    BY <2>1, <2>2, SameFull
<1>7. CASE c.strms[i].open /\ d = close_stream_if_shut_rdwr(b, i)
  <2>1. Full(c, N, B, K)
    BY SameFull
  <2>2. Mid(c, N, B, K) /\ \A j \in Ids : Inbox(c, B, j)
    BY <2>1 DEF Full
  <2>3. StopSent(N, i)
    BY <1>0, <1>1 DEF StopSent
  <2>4. /\ ConnInv(b) /\ Mid(b, N, B, K) /\ About(c, b, i) /\ b.streams = c.streams
        /\ RstIn(c.strms[i], b.strms[i]) /\ b.idtr = c.idtr
    <3>1. ConnInv(c) /\ Mid(c, N, B, K) /\ c.strms[i].open /\ i \in K
      BY <1>0, <1>2, <1>7, <2>2
    <3>2. c.server => c.answers[i] = 1
      BY <1>2
    <3> QED
      BY ONLY <1>3, <3>1, <3>2, <2>3, FramesTyped(N), i \in Ids, StoppedMid
  <2>5. b.server = c.server /\ b.error = c.error
    BY <2>4 DEF About, Base
  <2>6. Inbox(b, B, i)
    <3> PICK s, r, G : s = c.strms[i] /\ r = b.strms[i] /\ G = FramesTo(B, Other(~c.server), i)
      OBVIOUS
    <3>1. Receiving(s, G) => Receiving(r, G)
      BY <2>4 DEF Receiving, RstIn, SameRecv
    <3>2. r.open = s.open
      BY <2>4 DEF RstIn, SameRecv
    <3>3. Inbox(c, B, i)
      BY <2>2
    <3> QED
      BY <2>4, <2>5, <3>1, <3>2, <3>3 DEF Inbox
  <2>7. \A j \in Ids : Inbox(b, B, j)
    BY <2>2, <2>4, <2>6, InboxStep
  <2>8. \A j \in Ids : j # i => Counted(b, j, 0)
    BY <1>0, <2>4, CountedStep
  <2>9. Counted(b, i, 0) /\ b.strms[i].open
    BY <1>0, <1>7, <2>4, <2>5 DEF Counted, RstIn, SameRecv
  <2>10. Near(b, N, B, K, i, 0)
    BY <1>2, <2>4, <2>7, <2>8, <2>9 DEF Near
  <2>11. Full(d, N, B, K) /\ d.error = b.error /\ d.server = b.server
    BY ONLY <1>7, <2>10, FramesTyped(N), page \in Pages, i \in Ids, CloseFull
  <2> QED
    BY <1>0, <2>5, <2>11 DEF Received
<1> QED
  BY <1>5, <1>6, <1>7

\* conn_recv_max_stream_id.
LEMMA RecvMaxMid ==
    ASSUME NEW c, NEW N, NEW A, NEW B, NEW K, NEW f, Arriving(c, N, A, B, K, f),
           f.type = "MAXID", FramesTyped(N), page \in Pages,
           f.id <= ep["server"].max_remote,
           NEW d, d = recv_max_stream_id(c, f)
    PROVE  Received(c, d, N, B, K)
<1>0. /\ ConnInv(c) /\ Mid(c, N, A, K) /\ Shape(c) /\ (\A j \in Ids : Counted(c, j, 0))
      /\ ~c.error /\ f \in N /\ f.id \in Nat /\ ~c.server /\ c.max_local \in Nat
  BY DEF Arriving, Full, ConnInv
<1>1. Full(c, N, B, K)
  BY SameFull
<1>2. Mid(c, N, B, K) /\ \A j \in Ids : Inbox(c, B, j)
  BY <1>1 DEF Full
<1>3. PICK m \in Nat : m = IF c.max_local < f.id THEN f.id ELSE c.max_local
  BY <1>0
<1>4. PICK b : b = [c EXCEPT !.max_local = m]
  OBVIOUS
<1>5. d = on_extend_max_stream_id(b)
  BY <1>0, <1>3, <1>4 DEF recv_max_stream_id, Shape, ConnFields
<1>6. /\ DOMAIN b = ConnFields
      /\ \A k \in ConnFields \ {"max_local"} : b[k] = c[k]
      /\ b.max_local = m
  BY <1>0, <1>4 DEF Shape, ConnFields
<1>7. Plain(c, b) /\ b.next = c.next /\ b.unsent_max = c.unsent_max
  BY <1>6 DEF Plain, ConnFields
<1>8. c.next \in Nat \ {0} /\ c.next <= c.max_local + 1 /\ c.max_local <= m
  BY <1>0, <1>3 DEF Mid, Context
<1>9. b.next \in Nat \ {0} /\ c.next <= b.next /\ b.next <= b.max_local + 1
  BY <1>0, <1>6, <1>7, <1>8
<1>10. b.max_local = c.max_local \/ b.max_local <= ep["server"].max_remote
  BY <1>3, <1>6
<1>11. Mid(b, N, B, K) /\ \A j \in Ids : Inbox(c, B, j) => Inbox(b, B, j)
  BY ONLY <1>0, <1>2, <1>7, <1>9, <1>10, FramesTyped(N), PlainMid
<1>12. ConnInv(b)
  <2>1. Shape(b)
    BY <1>0, <1>6, <1>7 DEF Shape, Plain
  <2>2. b.max_local \in Nat /\ c.max_local <= b.max_local
    BY <1>6, <1>8
  <2>3. Kept(c, b)
    BY ONLY <1>0, <1>7, <2>1, <2>2, ClientKept DEF Plain
  <2> QED
    BY <1>0, <2>3, KeptInv
<1>13. \A j \in Ids : Counted(b, j, 0)
  BY <1>0, <1>7 DEF Counted, Plain
<1>14. Full(b, N, B, K) /\ ~b.server /\ ~b.error
  BY <1>0, <1>2, <1>7, <1>11, <1>12, <1>13 DEF Full, Plain
<1>15. Full(d, N, B, K) /\ Ahead(b, d)
  BY ONLY <1>5, <1>14, FramesTyped(N), page \in Pages, ExtendMid
<1> QED
  BY <1>0, <1>7, <1>14, <1>15 DEF Ahead, Received, Plain

\* Any frame.
LEMMA ConnRecvMid ==
    ASSUME NEW c, NEW N, NEW A, NEW B, NEW K, NEW f, Arriving(c, N, A, B, K, f),
           FramesTyped(N), page \in Pages,
           f.type = "MAXID" => f.id <= ep["server"].max_remote,
           NEW w, NEW d, d = conn_recv(c, f, w)
    PROVE  Received(c, d, N, B, K)
<1>1. f.type \in {"STREAM", "RST", "STOP", "MAXID"}
  BY DEF Arriving
<1>2. CASE f.type = "STREAM"
  <2>1. d = recv_stream(c, f, w)
    BY <1>2 DEF conn_recv
  <2> QED
    BY <1>2, <2>1, RecvStreamMid
<1>3. CASE f.type = "RST"
  <2>1. d = recv_rst_stream(c, f)
    BY <1>3 DEF conn_recv
  <2> QED
    BY <1>3, <2>1, RecvRstMid
<1>4. CASE f.type = "STOP"
  <2>1. d = recv_stop_sending(c, f)
    BY <1>4 DEF conn_recv
  <2> QED
    BY <1>4, <2>1, RecvStopMid
<1>5. CASE f.type = "MAXID"
  <2>1. d = recv_max_stream_id(c, f)
    BY <1>5 DEF conn_recv
  <2> QED
    BY <1>5, <2>1, RecvMaxMid
<1> QED
  BY <1>1, <1>2, <1>3, <1>4, <1>5

-----------------------------------------------------------------------------
(* Acknowledgements: buffers are freed up to what is acknowledged.         *)

\* The units in a sequence of buffers.
Lens(u) == FoldSeq(LAMBDA b, n : b.len + n, 0, u)

\* They are added up, whatever the order.
LEMMA LensIsSum ==
    ASSUME NEW u, NEW S, S = DOMAIN u, IsFiniteSet(S), \A k \in S : u[k].len \in Nat,
           NEW w, \A k \in S : w[k] = u[k].len, NEW s, IsSum(s, w, S)
    PROVE  Lens(u) = s[S]
<1>1. \A k \in S : w[k] \in Nat /\ w[k] = u[k].len
  OBVIOUS
<1> DEFINE Eq(it) == it = [T \in SUBSET S |->
              IF T = {} THEN 0
              ELSE u[CHOOSE x \in T : TRUE].len + it[T \ {CHOOSE x \in T : TRUE}]]
           it == CHOOSE it : Eq(it)
           r == [T \in SUBSET S |-> s[T]]
<1>2. Lens(u) = it[S]
  BY DEF Lens, FoldSeq, FoldFunction, FoldFunctionOnSet, MapThenFoldSet
<1>3. Eq(r)
  <2> SUFFICES ASSUME NEW T \in SUBSET S
               PROVE  r[T] = IF T = {} THEN 0
                             ELSE u[CHOOSE x \in T : TRUE].len
                                    + r[T \ {CHOOSE x \in T : TRUE}]
    OBVIOUS
  <2> DEFINE x == CHOOSE x \in T : TRUE
  <2>1. CASE T = {}
    BY <2>1 DEF IsSum
  <2>2. CASE T # {}
    <3>1. x \in T /\ x \in S
      BY <2>2
    <3> HIDE DEF x
    <3>2. T \ {x} \in SUBSET S /\ x \in S \ (T \ {x}) /\ (T \ {x}) \cup {x} = T
      BY <3>1
    <3>5. PICK V : V = T \ {x}
      OBVIOUS
    <3>6. V \in SUBSET S /\ x \in S \ V /\ T = V \cup {x}
      BY <3>2, <3>5
    <3>7. s[V \cup {x}] = w[x] + s[V]
      BY <3>6 DEF IsSum
    <3>3. s[T] = w[x] + s[T \ {x}]
      BY <3>5, <3>6, <3>7
    <3>4. r[T] = u[x].len + r[T \ {x}]
      BY <1>1, <3>1, <3>2, <3>3
    <3> QED
      BY <2>2, <3>4 DEF x
  <2> QED
    BY <2>1, <2>2
<1>4. Eq(it)
  <2> HIDE DEF r, Eq
  <2> QED
    BY <1>3
<1> HIDE DEF it
<1> DEFINE ch == [T \in SUBSET S |-> CHOOSE x \in T : TRUE]
<1>5. ASSUME NEW T \in SUBSET S
      PROVE  /\ T # {} => ch[T] \in T
             /\ it[T] = IF T = {} THEN 0 ELSE u[ch[T]].len + it[T \ {ch[T]}]
  BY <1>4
<1> HIDE DEF ch, Eq
<1>6. it[S] = s[S]
  <2>1. Chooses(ch, S)
    BY <1>5 DEF Chooses
  <2>2. ASSUME NEW T \in SUBSET S
        PROVE  it[T] = IF T = {} THEN 0 ELSE w[ch[T]] + it[T \ {ch[T]}]
    <3>1. T # {} => ch[T] \in S
      BY <1>5
    <3>2. T # {} => w[ch[T]] = u[ch[T]].len
      BY <1>1, <3>1
    <3> QED
      BY <1>5, <3>2
  <2>3. AddsUp(it, w, S, ch)
    BY <2>2 DEF AddsUp
  <2> QED
    BY <1>1, <2>1, <2>3, SumOfFold
<1> QED
  BY <1>2, <1>6

\* Of the first k of at most two buffers.
LEMMA LensUnits ==
    ASSUME NEW bufs \in Bufs, Len(bufs) <= 2, NEW k \in 0..Len(bufs),
           NEW u, u = SubSeq(bufs, 1, k)
    PROVE  Lens(u) = Units(bufs, k)
<1>0. PICK n \in Nat : n = Len(bufs)
  BY LenProperties DEF Bufs
<1>12. n <= 2 /\ k \in 0..n
  BY <1>0
<1>1. k \in 0..2 /\ Len(bufs) \in 0..2
  BY ONLY <1>0, <1>12, n \in Nat
<1>2. DOMAIN u = 1..k /\ \A m \in 1..k : u[m] = bufs[m]
  BY <1>1 DEF Bufs
<1>3. \A m \in 1..k : u[m].len \in Nat
  <2> SUFFICES ASSUME NEW m \in 1..k PROVE u[m].len \in Nat
    OBVIOUS
  <2>1. m \in 1..Len(bufs)
    BY <1>1
  <2>2. bufs[m].len \in {0, 1}
    BY <2>1, BufLen
  <2> QED
    BY <1>2, <2>2
<1>4. IsFiniteSet(1..k)
  BY <1>1, FS_Interval
<1>5. PICK w : w = [m \in 1..k |-> u[m].len]
  OBVIOUS
<1>6. \A m \in 1..k : w[m] \in Nat
  BY <1>3, <1>5
<1>7. PICK s : IsSum(s, w, 1..k)
  BY <1>4, <1>6, SumExists
<1>8. Lens(u) = s[1..k]
  <2>1. \A m \in 1..k : w[m] = u[m].len
    BY <1>5
  <2>2. 1..k = DOMAIN u
    BY <1>2
  <2> QED
    BY ONLY <1>3, <1>4, <1>7, <2>1, <2>2, LensIsSum
<1>9. CASE k = 0
  <2>1. 1..k = {}
    BY <1>9
  <2>2. s[{}] = 0
    BY <1>7 DEF IsSum
  <2> QED
    BY <1>8, <1>9, <2>1, <2>2, UnitsOf
<1>10. CASE k = 1
  <2>1. 1..k = {} \cup {1} /\ {} \in SUBSET (1..k) /\ 1 \in (1..k) \ {}
    BY <1>10
  <2>2. s[{} \cup {1}] = w[1] + s[{}] /\ s[{}] = 0
    BY <1>7, <2>1 DEF IsSum
  <2>3. w[1] = bufs[1].len /\ w[1] \in Nat
    BY <1>2, <1>5, <1>6, <1>10
  <2> QED
    BY <1>8, <1>10, <2>1, <2>2, <2>3, UnitsOf
<1>11. CASE k = 2
  <2>1. /\ 1..k = {1} \cup {2} /\ {1} \in SUBSET (1..k) /\ 2 \in (1..k) \ {1}
        /\ {1} = {} \cup {1} /\ {} \in SUBSET (1..k) /\ 1 \in (1..k) \ {}
    BY <1>11
  <2>2. s[{1} \cup {2}] = w[2] + s[{1}]
    BY <1>7, <2>1 DEF IsSum
  <2>3. s[{} \cup {1}] = w[1] + s[{}] /\ s[{}] = 0
    BY <1>7, <2>1 DEF IsSum
  <2>4. w[1] = bufs[1].len /\ w[1] \in Nat /\ w[2] = bufs[2].len /\ w[2] \in Nat
    BY <1>2, <1>5, <1>6, <1>11
  <2>5. s[1..k] = w[2] + (w[1] + 0)
    BY <2>1, <2>2, <2>3
  <2>6. Units(bufs, 2) = w[1] + w[2]
    BY <2>4, UnitsOf
  <2> QED
    BY <1>8, <1>11, <2>4, <2>5, <2>6
<1> QED
  BY <1>1, <1>9, <1>10, <1>11

\* The set of the buffers that end before now, and that they are the first n.
EndBefore(S, bufs, L, t, now) ==
    \A k : k \in S <=> k \in 1..L /\ t + Units(bufs, k) <= now
EndsAt(bufs, L, t, now, n) ==
    /\ n \in 0..L
    /\ t + Units(bufs, n) <= now \/ n = 0
    /\ n < L => now < t + Units(bufs, n + 1)

\* The buffers that end before now are counted, and they come first.
LEMMA FreedCount ==
    ASSUME NEW bufs \in Bufs, NEW L \in 0..2, L = Len(bufs), L > 0 => bufs[1].len = 1,
           NEW t \in Nat, NEW now \in Nat,
           NEW S, EndBefore(S, bufs, L, t, now), NEW n, n = Cardinality(S)
    PROVE  EndsAt(bufs, L, t, now, n)
<1> USE DEF EndBefore, EndsAt
<1>1. \A k \in 1..L : bufs[k].len \in {0, 1}
  BY BufLen
<1>2. CASE L = 0
  <2>1. S = {}
    BY <1>2
  <2>2. n = 0
    BY <2>1, FS_EmptySet
  <2> QED
    BY <1>2, <2>2
<1>3. CASE L = 1
  <2>1. Units(bufs, 1) = 1
    BY <1>3, UnitsOf
  <2>2. CASE t + 1 <= now
    <3>1. S = {1}
      BY <1>3, <2>1, <2>2
    <3>2. n = 1
      BY <3>1, FS_Singleton
    <3> QED
      BY <1>3, <2>1, <2>2, <3>2
  <2>3. CASE ~(t + 1 <= now)
    <3>1. S = {}
      BY <1>3, <2>1, <2>3
    <3>2. n = 0
      BY <3>1, FS_EmptySet
    <3>3. n + 1 = 1
      BY <3>2
    <3> QED
      BY <1>3, <2>1, <2>3, <3>2, <3>3
  <2> QED
    BY <2>2, <2>3
<1>4. CASE L = 2
  <2>0. PICK x \in {0, 1} : x = bufs[2].len
    BY <1>1, <1>4
  <2>1. Units(bufs, 1) = 1 /\ Units(bufs, 2) = 1 + x
    BY <1>4, <2>0, UnitsOf
  <2>2. CASE ~(t + 1 <= now)
    <3>1. S = {}
      <4> SUFFICES ASSUME NEW k \in S PROVE FALSE
        OBVIOUS
      <4>1. k \in 1..2 /\ t + Units(bufs, k) <= now
        BY <1>4
      <4>2. k = 1 \/ k = 2
        BY <4>1
      <4> QED
        BY <2>0, <2>1, <2>2, <4>1, <4>2
    <3>2. n = 0
      BY <3>1, FS_EmptySet
    <3>3. n + 1 = 1
      BY <3>2
    <3> QED
      BY <1>4, <2>1, <2>2, <3>2, <3>3
  <2>3. CASE t + 1 <= now /\ ~(t + (1 + x) <= now)
    <3>1. S = {1}
      <4>1. 1 \in S
        BY <1>4, <2>1, <2>3
      <4>2. ASSUME NEW k \in S PROVE k = 1
        <5>1. k \in 1..2 /\ t + Units(bufs, k) <= now
          BY <1>4
        <5>2. k = 1 \/ k = 2
          BY <5>1
        <5> QED
          BY <2>0, <2>1, <2>3, <5>1, <5>2
      <4> QED
        BY <4>1, <4>2
    <3>2. n = 1
      BY <3>1, FS_Singleton
    <3>3. n + 1 = 2
      BY <3>2
    <3> QED
      BY <1>4, <2>0, <2>1, <2>3, <3>2, <3>3
  <2>4. CASE t + 1 <= now /\ t + (1 + x) <= now
    <3>1. S = {1, 2}
      <4>1. 1 \in S /\ 2 \in S
        BY <1>4, <2>1, <2>4
      <4>2. ASSUME NEW k \in S PROVE k = 1 \/ k = 2
        BY <1>4
      <4> QED
        BY <4>1, <4>2
    <3>2. n = 2
      <4>1. PICK T : T = {1}
        OBVIOUS
      <4>2. IsFiniteSet(T) /\ Cardinality(T) = 1
        BY <4>1, FS_Singleton
      <4>3. 2 \notin T /\ S = T \cup {2}
        BY <3>1, <4>1
      <4>4. Cardinality(T \cup {2}) = Cardinality(T) + 1
        BY <4>2, <4>3, FS_AddElement
      <4> QED
        BY <4>2, <4>3, <4>4
    <3> QED
      BY <1>4, <2>1, <2>4, <3>2
  <2> QED
    BY <2>2, <2>3, <2>4
<1> QED
  BY <1>2, <1>3, <1>4

\* The buffers of an application without the first n.
Freed(a, n, q) ==
    /\ q.streambuf = SubSeq(a.streambuf, n + 1, Len(a.streambuf))
    /\ q.idx = a.idx - n /\ q.tx_offset = a.tx_offset + Units(a.streambuf, n)
    /\ q.exists = a.exists /\ q.should_send_fin = a.should_send_fin
    /\ q.completed = a.completed /\ q.nread = a.nread

\* They end before now, and no others do.
Ends(a, now, n) ==
    /\ n \in 0..Len(a.streambuf)
    /\ a.tx_offset + Units(a.streambuf, n) <= now \/ n = 0
    /\ n < Len(a.streambuf) => now < a.tx_offset + Units(a.streambuf, n + 1)

RestOf(s, a, q) ==
    /\ Buffers(s, q) /\ AtRest(q)
    /\ q.idx < Len(q.streambuf) <=> a.idx < Len(a.streambuf)
    /\ q.idx = Len(q.streambuf) <=> a.idx = Len(a.streambuf)
    /\ \A k \in 1..Len(q.streambuf) :
         \E m \in 1..Len(a.streambuf) : q.streambuf[k] = a.streambuf[m]
    /\ (\A k \in 1..Len(a.streambuf) : a.streambuf[k].len = 1) =>
         q.tx_offset + Len(q.streambuf) = a.tx_offset + Len(a.streambuf)

\* They are a rest of the buffers that starts with a unit, and the index stays in it.
LEMMA FreedBuffers ==
    ASSUME NEW s, NEW a, Buffers(s, a), AtRest(a), NEW now \in Nat, now <= s.tx,
           NEW n, Ends(a, now, n), NEW q, Freed(a, n, q)
    PROVE  RestOf(s, a, q)
<1> USE DEF RestOf
<1>1. PICK bufs \in Bufs : bufs = a.streambuf
  BY DEF Buffers
<1>2. PICK L \in Nat : L = Len(bufs)
  BY LenProperties DEF Bufs
<1>3. PICK t \in Nat : t = a.tx_offset
  BY DEF Buffers
<1>4. /\ t + L <= 2 /\ a.idx \in 0..L /\ (L > 0 => bufs[1].len = 1)
      /\ s.tx = t + Units(bufs, a.idx)
  BY <1>1, <1>2, <1>3 DEF Buffers
<1>5. PICK x \in 0..L : x = a.idx
  BY <1>4
<1>6. n \in 0..L
  BY <1>1, <1>2 DEF Ends
<1>7. L \in 0..2
  BY ONLY <1>4, t \in Nat, L \in Nat
<1>8. \A k \in 1..L : bufs[k].len \in {0, 1}
  BY <1>1, <1>2, BufLen
<1>9. /\ t + Units(bufs, n) <= now \/ n = 0
      /\ n < L => now < t + Units(bufs, n + 1)
      /\ now <= t + Units(bufs, x)
      /\ x < L => bufs[x + 1].len = 1
  BY <1>1, <1>2, <1>3, <1>4, <1>5 DEF AtRest, Ends
<1>10. PICK u : u = q.streambuf
  OBVIOUS
<1>11. u = SubSeq(bufs, n + 1, L) /\ q.idx = x - n /\ q.tx_offset = t + Units(bufs, n)
  BY <1>1, <1>2, <1>3, <1>5, <1>10 DEF Freed
<1>12. Units(bufs, 0) = 0 /\ Units(bufs, 1) = bufs[1].len
       /\ Units(bufs, 2) = bufs[1].len + bufs[2].len
  BY UnitsOf
<1>13. /\ Units(u, 0) = 0 /\ Units(u, 1) = u[1].len
       /\ a.idx < Len(a.streambuf) <=> x < L
       /\ a.idx = Len(a.streambuf) <=> x = L
  BY <1>1, <1>2, <1>5, UnitsOf
<1>20. bufs \in Seq([len : {0, 1}, what : Whats])
  BY DEF Bufs
<1>14. CASE n = 0
  <2>1. u = bufs
    <3>1. n + 1 = 1
      BY <1>14
    <3>2. u = SubSeq(bufs, 1, Len(bufs))
      BY <1>2, <1>11, <3>1
    <3> QED
      BY <1>20, <3>2, SubSeqFull
  <2>2. q.idx = a.idx /\ q.tx_offset = a.tx_offset /\ q.streambuf = a.streambuf
    BY <1>1, <1>3, <1>5, <1>10, <1>11, <1>12, <1>14, <2>1
  <2> QED
    BY <2>2 DEF Buffers, AtRest
<1>15. CASE n = L /\ n # 0
  <2>0. n \in 1..2 /\ L \in 1..2
    BY <1>6, <1>7, <1>15
  <2>1. u = << >>
    <3>1. L < n + 1
      BY <1>15, <2>0
    <3> QED
      BY <1>11, <2>0, <3>1, SubSeqEmpty
  <2>2. x = L
    <3>1. CASE L = 1
      BY <1>4, <1>9, <1>12, <1>15, <3>1
    <3>2. CASE L = 2
      <4>1. PICK y \in {0, 1} : y = bufs[2].len
        BY <1>8, <3>2
      <4>2. bufs[1].len = 1
        BY <1>4, <3>2
      <4>3. Units(bufs, 1) = 1 /\ Units(bufs, 2) = 1 + y
        BY <1>12, <4>1, <4>2
      <4>4. x = 0 \/ x = 1 \/ x = 2
        BY <3>2
      <4>5. x = 1 => y = 1
        BY <1>9, <3>2, <4>1
      <4>6. t + (1 + y) <= now
        BY <1>9, <1>15, <3>2, <4>3
      <4>7. x # 0
        <5> SUFFICES ASSUME x = 0 PROVE FALSE
          OBVIOUS
        <5>1. now <= t + 0
          BY <1>9, <1>12
        <5> QED
          BY ONLY <5>1, <4>6, t \in Nat, now \in Nat, y \in {0, 1}
      <4>8. x # 1
        <5> SUFFICES ASSUME x = 1 PROVE FALSE
          OBVIOUS
        <5>1. now <= t + 1
          BY <1>9, <4>3
        <5> QED
          BY ONLY <5>1, <4>5, <4>6, t \in Nat, now \in Nat, y \in {0, 1}, x = 1
      <4> QED
        BY <3>2, <4>4, <4>7, <4>8
    <3> QED
      BY <2>0, <3>1, <3>2
  <2>3. q.idx = 0 /\ Len(u) = 0
    BY <1>11, <1>15, <2>0, <2>1, <2>2
  <2>4. Units(bufs, n) \in 0..L /\ ((\A k \in 1..L : bufs[k].len = 1) => Units(bufs, n) = L)
    BY <1>4, <1>8, <1>12, <1>15, <2>0
  <2>5. PICK z \in 0..L : z = Units(bufs, n)
    BY <2>4
  <2>6. q.tx_offset = t + z /\ t + z \in Nat /\ t + z <= 2
    BY <1>4, <1>11, <2>0, <2>5
  <2>7. s.tx = t + z
    BY <1>4, <1>5, <1>15, <2>2, <2>5
  <2>8. u \in Bufs
    BY <2>1 DEF Bufs
  <2>9. Buffers(s, q) /\ AtRest(q)
    <3>1. q.idx \in 0..Len(u) /\ q.tx_offset + Len(u) <= 2 /\ ~(Len(u) > 0)
      BY <2>3, <2>6
    <3>2. s.tx = q.tx_offset + Units(u, q.idx)
      BY <1>13, <2>3, <2>6, <2>7
    <3>3. ~(q.idx < Len(u))
      BY <2>3
    <3> QED
      BY <1>10, <2>6, <2>8, <3>1, <3>2, <3>3 DEF Buffers, AtRest
  <2>10. /\ q.idx < Len(q.streambuf) <=> a.idx < Len(a.streambuf)
         /\ q.idx = Len(q.streambuf) <=> a.idx = Len(a.streambuf)
    BY <1>10, <1>13, <2>0, <2>2, <2>3
  <2>11. \A k \in 1..Len(q.streambuf) :
           \E m \in 1..Len(a.streambuf) : q.streambuf[k] = a.streambuf[m]
    BY <1>10, <2>3
  <2>12. (\A k \in 1..Len(a.streambuf) : a.streambuf[k].len = 1) =>
                q.tx_offset + Len(q.streambuf) = a.tx_offset + Len(a.streambuf)
    <3> SUFFICES ASSUME \A k \in 1..Len(a.streambuf) : a.streambuf[k].len = 1
                 PROVE  q.tx_offset + Len(q.streambuf) = a.tx_offset + Len(a.streambuf)
      OBVIOUS
    <3>1. z = L
      BY <1>1, <1>2, <2>4, <2>5
    <3> QED
      BY <1>1, <1>2, <1>3, <1>10, <2>0, <2>3, <2>6, <3>1
  <2> QED
    BY <2>9, <2>10, <2>11, <2>12
<1>16. CASE n = 1 /\ L = 2
  <2>1. PICK y \in {0, 1} : y = bufs[2].len
    BY <1>8, <1>16
  <2>2. bufs[1].len = 1 /\ Units(bufs, 1) = 1 /\ Units(bufs, 2) = 1 + y
    BY <1>4, <1>12, <1>16, <2>1
  <2>3. t + 1 <= now /\ now < t + (1 + y)
    <3>1. n + 1 = 2
      BY <1>16
    <3> QED
      BY <1>9, <1>16, <2>2, <3>1
  <2>4. y = 1
    BY ONLY <2>3, t \in Nat, now \in Nat, y \in {0, 1}
  <2>5. x = 1 \/ x = 2
    <3>1. x = 0 \/ x = 1 \/ x = 2
      BY <1>16
    <3>2. x # 0
      <4> SUFFICES ASSUME x = 0 PROVE FALSE
        OBVIOUS
      <4>1. now <= t + 0
        BY <1>9, <1>12
      <4> QED
        BY ONLY <4>1, <2>3, t \in Nat, now \in Nat
    <3> QED
      BY <3>1, <3>2
  <2>6. u = SubSeq(bufs, 2, 2)
    BY <1>11, <1>16
  <2>7. u \in Bufs /\ Len(u) = 1 /\ u[1] = bufs[2]
    <3>0. 2 \in 1..Len(bufs)
      BY <1>2, <1>16
    <3>1. bufs[2] \in [len : {0, 1}, what : Whats]
      BY ONLY <1>20, <3>0, ElementOfSeq
    <3>2. \A i \in 2..2 : bufs[i] \in [len : {0, 1}, what : Whats]
      BY <3>1
    <3>3. u \in Seq([len : {0, 1}, what : Whats]) /\ Len(u) = 1
      BY <2>6, <3>2, SubSeqProperties
    <3>4. u[1] = bufs[2 + 1 - 1]
      BY <2>6, <3>2, SubSeqProperties
    <3> QED
      BY <3>3, <3>4 DEF Bufs
  <2>8. q.tx_offset = t + 1 /\ q.idx = x - 1
    BY <1>11, <1>16, <2>2
  <2>9. t = 0
    BY <1>4, <1>16
  <2>10. Units(u, 1) = 1
    BY <1>13, <2>1, <2>4, <2>7
  <2>11. s.tx = q.tx_offset + Units(u, q.idx)
    BY <1>4, <1>5, <1>13, <2>2, <2>4, <2>5, <2>8, <2>9, <2>10
  <2>12. q.idx = 0 \/ q.idx = 1
    BY <2>5, <2>8
  <2>13. Buffers(s, q)
    <3>2. u[1].len = 1
      BY <2>1, <2>4, <2>7
    <3>3. q.tx_offset = 1
      BY <2>8, <2>9
    <3>1. q.idx \in 0..Len(u) /\ q.tx_offset \in Nat /\ q.tx_offset + Len(u) <= 2
          /\ u[1].len = 1
      BY <2>7, <2>12, <3>2, <3>3
    <3> QED
      BY <1>10, <2>7, <2>11, <3>1 DEF Buffers
  <2>14. AtRest(q)
    <3>2. u[1].len = 1
      BY <2>1, <2>4, <2>7
    <3>3. q.idx = 0 => q.idx + 1 = 1
      OBVIOUS
    <3>1. q.idx < Len(u) => u[q.idx + 1].len = 1
      BY <2>7, <2>12, <3>2, <3>3
    <3> QED
      BY <1>10, <3>1 DEF AtRest
  <2>15. /\ q.idx < Len(q.streambuf) <=> a.idx < Len(a.streambuf)
         /\ q.idx = Len(q.streambuf) <=> a.idx = Len(a.streambuf)
    BY <1>10, <1>13, <1>16, <2>5, <2>7, <2>8
  <2>16. \A k \in 1..Len(q.streambuf) :
           \E m \in 1..Len(a.streambuf) : q.streambuf[k] = a.streambuf[m]
    BY <1>1, <1>2, <1>10, <1>16, <2>7
  <2>17. q.tx_offset + Len(q.streambuf) = a.tx_offset + Len(a.streambuf)
    BY <1>1, <1>2, <1>3, <1>10, <1>16, <2>7, <2>8, <2>9
  <2> QED
    BY <2>13, <2>14, <2>15, <2>16, <2>17
<1> QED
  BY <1>6, <1>7, <1>14, <1>15, <1>16

\* What a stream has once there is something to send on it.
LEMMA StartedHas ==
    ASSUME NEW c, NEW N, NEW A, NEW K, NEW i \in Ids, ConnInv(c), Mid(c, N, A, K),
           c.strms[i].open, c.server => c.answers[i] = 1,
           NEW s, s = c.strms[i], NEW a, a = c.streams[i],
           NEW F, F = FramesTo(N, Other(c.server), i)
    PROVE  /\ Buffers(s, a) /\ AtRest(a) /\ Sending(s, a, F, A, c.rtb, c.empty, i)
           /\ Wire(F) /\ Resets(c, N, i) /\ a.exists
           /\ ~c.server => i \notin c.empty /\ a.tx_offset + Len(a.streambuf) = page.req
<1>1. StreamInv(c, N, A, i)
  BY DEF Mid, SideInv
<1>2. /\ Outbox(c, N, A, i) /\ Resets(c, N, i)
      /\ c.server => Response(c, i)
      /\ ~c.server => Request(c, i)
  BY <1>1, OpenHas
<1>3. ~(c.server /\ c.answers[i] = 0)
  OBVIOUS
<1>4. Buffers(s, a) /\ AtRest(a) /\ Sending(s, a, F, A, c.rtb, c.empty, i)
  BY <1>2, <1>3 DEF Outbox
<1>5. Wire(F)
  <2>1. Other(c.server) \in Sides
    BY DEF Other, Sides
  <2> QED
    BY <2>1 DEF Mid, Context
<1>6. /\ a.exists
      /\ ~c.server => i \notin c.empty /\ a.tx_offset + Len(a.streambuf) = page.req
  BY <1>2 DEF Response, Request
<1> QED
  BY <1>2, <1>4, <1>5, <1>6

\* The sending half changes.
LEMMA SendStep ==
    ASSUME NEW c, NEW d, NEW N, NEW A, NEW K, NEW i \in Ids, ConnInv(c), Mid(c, N, A, K),
           FramesTyped(N), c.strms[i].open, c.server => c.answers[i] = 1,
           About(c, d, i), Quiet(c, d),
           NEW s, s = c.strms[i], NEW a, a = c.streams[i],
           NEW r, r = d.strms[i], NEW q, q = d.streams[i],
           NEW F, F = FramesTo(N, Other(c.server), i),
           SameRecv(s, r), r.shut_wr = s.shut_wr, r.sent_rst = s.sent_rst,
           r.stop_sending = s.stop_sending,
           Buffers(r, q), AtRest(q), Sending(r, q, F, A, c.rtb, c.empty, i),
           q.exists = a.exists, q.completed = a.completed,
           ~c.server => q.tx_offset + Len(q.streambuf) = page.req
    PROVE  Mid(d, N, A, K)
<1>1. StreamInv(c, N, A, i)
  BY DEF Mid, SideInv
<1>2. /\ d.server = c.server /\ d.rtb = c.rtb /\ d.answers = c.answers /\ d.empty = c.empty
      /\ d.reset = c.reset /\ d.idtr = c.idtr /\ d.next = c.next
  BY DEF About, Base, Quiet
<1>3. r.open = s.open /\ r.recv_rst = s.recv_rst
  BY DEF SameRecv
<1>4. Outbox(d, N, A, i)
  <2>1. ~(d.server /\ d.answers[i] = 0)
    BY <1>2
  <2> QED
    BY <1>2, <2>1 DEF Outbox
<1>5. Resets(d, N, i)
  <2>1. Resets(c, N, i)
    BY <1>1, OpenHas
  <2> QED
    BY <1>2, <1>3, <2>1 DEF Resets, OwnReset
<1>6. IF d.server THEN Response(d, i) ELSE Request(d, i)
  <2>1. IF c.server THEN Response(c, i) ELSE Request(c, i)
    BY <1>1 DEF StreamInv
  <2> QED
    BY <1>2, <1>3, <2>1 DEF Response, Request
<1>7. StreamInv(d, N, A, i)
  BY <1>3, <1>4, <1>5, <1>6 DEF StreamInv
<1> QED
  BY <1>7, QuietStep

\* One more frame is acknowledged, of those that have arrived.
AckedIn(s, f, r) ==
    /\ SameRecv(s, r) /\ r.shut_wr = s.shut_wr /\ r.sent_rst = s.sent_rst
    /\ r.stop_sending = s.stop_sending /\ r.tx = s.tx
    /\ \A k \in r.acked : k \in s.acked \/ (f.len = 1 /\ k = f.off)

LEMMA AckedMid ==
    ASSUME NEW c, NEW N, NEW A, NEW K, NEW i \in Ids, Full(c, N, A, K),
           FramesTyped(N), c.strms[i].open, c.server => c.answers[i] = 1,
           NEW f, f \in FramesTo(N, Other(c.server), i), f \in A,
           NEW r, DOMAIN r = StrmFields, AckedIn(c.strms[i], f, r),
           NEW d, d = WithStrm(c, i, r)
    PROVE  Full(d, N, A, K) /\ About(c, d, i) /\ Quiet(c, d) /\ d.strms[i] = r
           /\ d.streams = c.streams
<1>0. ConnInv(c) /\ Mid(c, N, A, K)
  BY DEF Full
<1>1. PICK s, a, F : s = c.strms[i] /\ a = c.streams[i] /\ F = FramesTo(N, Other(c.server), i)
  OBVIOUS
<1>2. /\ About(c, d, i) /\ Quiet(c, d) /\ d.strms[i] = r /\ d.streams = c.streams
  BY <1>0, StrmSet DEF ConnInv
<1>3. /\ Buffers(s, a) /\ AtRest(a) /\ Sending(s, a, F, A, c.rtb, c.empty, i)
      /\ ~c.server => i \notin c.empty /\ a.tx_offset + Len(a.streambuf) = page.req
  BY <1>0, <1>1, StartedHas
<1>4. AckedIn(s, f, r) /\ f \in F
  BY <1>1
<1>5. Buffers(r, a) /\ Sending(r, a, F, A, c.rtb, c.empty, i)
  <2>1. Buffers(r, a)
    BY <1>3, <1>4 DEF Buffers, AckedIn
  <2>2. Sending(r, a, F, A, c.rtb, c.empty, i)
    <3>1. \A k \in r.acked : \E g \in F : g.len = 1 /\ g.off = k /\ g \in A
      BY <1>3, <1>4 DEF AckedIn, Sending
    <3> QED
      BY <1>3, <1>4, <3>1 DEF AckedIn, Sending
  <2> QED
    BY <2>1, <2>2
<1>6. /\ SameRecv(s, r) /\ r.shut_wr = s.shut_wr /\ r.sent_rst = s.sent_rst
      /\ r.stop_sending = s.stop_sending /\ r.open = s.open
  BY <1>4 DEF AckedIn, SameRecv
<1>7. Mid(d, N, A, K)
  BY <1>0, <1>1, <1>2, <1>3, <1>5, <1>6, SendStep
<1>8. ConnInv(d)
  <2>1. Kept(c, d)
    BY <1>0, <1>1, <1>6, StrmKept
  <2> QED
    BY <1>0, <2>1, KeptInv
<1>9. \A j \in Ids : Inbox(d, A, j)
  <2>1. \A j \in Ids : Inbox(c, A, j)
    BY DEF Full
  <2>2. Inbox(d, A, i)
    <3>1. Inbox(c, A, i)
      BY <2>1
    <3>2. PICK G : G = FramesTo(A, Other(~c.server), i)
      OBVIOUS
    <3>3. Receiving(s, G) => Receiving(r, G)
      BY <1>6 DEF Receiving, SameRecv
    <3>4. d.server = c.server /\ d.error = c.error /\ d.idtr = c.idtr
      BY <1>2 DEF About, Base, Quiet
    <3> QED
      BY <1>1, <1>2, <1>6, <3>1, <3>2, <3>3, <3>4 DEF Inbox
  <2> QED
    BY <1>2, <2>1, <2>2, InboxStep
<1>10. \A j \in Ids : Counted(d, j, 0)
  <2>1. \A j \in Ids : Counted(c, j, 0)
    BY DEF Full
  <2>2. Counted(d, i, 0)
    <3>1. Counted(c, i, 0)
      BY <2>1
    <3>2. d.server = c.server /\ r.rx = s.rx
      BY <1>2, <1>6 DEF About, Base, SameRecv
    <3> QED
      BY <1>1, <1>2, <1>6, <3>1, <3>2 DEF Counted
  <2> QED
    BY <1>2, <2>1, <2>2, CountedStep
<1> QED
  BY <1>2, <1>7, <1>8, <1>9, <1>10 DEF Full

\* The buffers that are acknowledged are freed.
LEMMA FreedMid ==
    ASSUME NEW c, NEW N, NEW A, NEW K, NEW i \in Ids, Full(c, N, A, K),
           FramesTyped(N), c.strms[i].open, c.server => c.answers[i] = 1,
           NEW a, a = c.streams[i],
           NEW now \in Nat, now <= c.strms[i].tx, NEW n, Ends(a, now, n),
           NEW q, DOMAIN q = StreamFields, q.parse_error = a.parse_error, Freed(a, n, q),
           NEW d, d = WithStream(c, i, q)
    PROVE  Full(d, N, A, K) /\ About(c, d, i) /\ Quiet(c, d) /\ d.strms = c.strms
           /\ d.streams[i] = q
<1>0. ConnInv(c) /\ Mid(c, N, A, K)
  BY DEF Full
<1>1. PICK s, F : s = c.strms[i] /\ F = FramesTo(N, Other(c.server), i)
  OBVIOUS
<1>2. /\ About(c, d, i) /\ Quiet(c, d) /\ d.streams[i] = q /\ d.strms = c.strms
  BY <1>0, StreamSet DEF ConnInv
<1>3. /\ Buffers(s, a) /\ AtRest(a) /\ Sending(s, a, F, A, c.rtb, c.empty, i)
      /\ ~c.server => i \notin c.empty /\ a.tx_offset + Len(a.streambuf) = page.req
  BY <1>0, <1>1, StartedHas
<1>4. /\ Buffers(s, q) /\ AtRest(q)
      /\ q.idx < Len(q.streambuf) <=> a.idx < Len(a.streambuf)
      /\ q.idx = Len(q.streambuf) <=> a.idx = Len(a.streambuf)
      /\ \A k \in 1..Len(q.streambuf) :
           \E m \in 1..Len(a.streambuf) : q.streambuf[k] = a.streambuf[m]
      /\ (\A k \in 1..Len(a.streambuf) : a.streambuf[k].len = 1) =>
           q.tx_offset + Len(q.streambuf) = a.tx_offset + Len(a.streambuf)
  <2>1. RestOf(s, a, q)
    BY <1>1, <1>3, FreedBuffers
  <2> QED
    BY ONLY <2>1 DEF RestOf
<1>5. Sending(s, q, F, A, c.rtb, c.empty, i)
  <2>1. \A k \in 1..Len(q.streambuf) : q.streambuf[k].len = 0 => i \in c.empty
    <3> SUFFICES ASSUME NEW k \in 1..Len(q.streambuf), q.streambuf[k].len = 0
                 PROVE  i \in c.empty
      OBVIOUS
    <3>1. PICK m \in 1..Len(a.streambuf) : q.streambuf[k] = a.streambuf[m]
      BY <1>4
    <3> QED
      BY <1>3, <3>1 DEF Sending
  <2>2. q.should_send_fin = a.should_send_fin
    BY DEF Freed
  <2> QED
    BY <1>3, <1>4, <2>1, <2>2 DEF Sending
<1>6. ~c.server => q.tx_offset + Len(q.streambuf) = page.req
  <2> SUFFICES ASSUME ~c.server PROVE q.tx_offset + Len(q.streambuf) = page.req
    OBVIOUS
  <2>1. ASSUME NEW k \in 1..Len(a.streambuf) PROVE a.streambuf[k].len = 1
    <3>1. a.streambuf[k].len \in {0, 1}
      BY <1>3, BufLen DEF Buffers
    <3>2. a.streambuf[k].len # 0
      BY <1>3 DEF Sending
    <3> QED
      BY <3>1, <3>2
  <2> QED
    BY <1>3, <1>4, <2>1
<1>7. q.exists = a.exists /\ q.completed = a.completed /\ q.nread = a.nread
  BY DEF Freed
<1>8. SameRecv(s, s)
  BY DEF SameRecv
<1>9. Mid(d, N, A, K)
  BY <1>0, <1>1, <1>2, <1>4, <1>5, <1>6, <1>7, <1>8, SendStep
<1>10. ConnInv(d)
  <2>1. Kept(c, d)
    BY <1>0, <1>7, AppKept
  <2> QED
    BY <1>0, <2>1, KeptInv
<1>11. \A j \in Ids : Inbox(d, A, j)
  <2>1. \A j \in Ids : Inbox(c, A, j)
    BY DEF Full
  <2>2. Inbox(d, A, i)
    BY <1>2, <2>1, SameInbox DEF Quiet
  <2> QED
    BY <1>2, <2>1, <2>2, InboxStep
<1>12. \A j \in Ids : Counted(d, j, 0)
  <2>1. \A j \in Ids : Counted(c, j, 0)
    BY DEF Full
  <2>2. Counted(d, i, 0)
    <3>1. Counted(c, i, 0)
      BY <2>1
    <3>2. d.server = c.server
      BY <1>2 DEF About, Base
    <3> QED
      BY <1>2, <1>7, <3>1, <3>2 DEF Counted
  <2> QED
    BY <1>2, <2>1, <2>2, CountedStep
<1> QED
  BY <1>2, <1>9, <1>10, <1>11, <1>12 DEF Full

\* remove_tx_stream_data, when the stream has an entry: the buffers that end
\* before now are counted and freed.
FreedUpTo(c, i, now, n, b) ==
    /\ n = Cardinality({k \in DOMAIN c.streams[i].streambuf :
              c.streams[i].tx_offset + Lens(SubSeq(c.streams[i].streambuf, 1, k)) <= now})
    /\ b = [c EXCEPT !.streams[i].streambuf = SubSeq(@, n + 1, Len(@)),
                     !.streams[i].idx = @ - n,
                     !.streams[i].tx_offset = c.streams[i].tx_offset
                          + Lens(SubSeq(c.streams[i].streambuf, 1, n))]

LEMMA RemoveTxIs ==
    ASSUME NEW c, NEW i, NEW now, c.streams[i].exists,
           NEW d, d = remove_tx_stream_data(c, i, now)
    PROVE  \E n, b : /\ FreedUpTo(c, i, now, n, b)
                     /\ d = b \/ (/\ c.server /\ c.streams[i].completed
                                  /\ d = shutdown_stream_read(b, i))
BY DEF remove_tx_stream_data, FreedUpTo, Lens

LEMMA FreedUnits ==
    ASSUME NEW c, ConnInv(c), NEW i \in Ids, NEW now \in Nat,
           NEW s, NEW a, a = c.streams[i], Buffers(s, a),
           NEW n, NEW b, FreedUpTo(c, i, now, n, b)
    PROVE  /\ Ends(a, now, n)
           /\ \E q : /\ DOMAIN q = StreamFields /\ q.parse_error = a.parse_error
                     /\ Freed(a, n, q) /\ b = WithStream(c, i, q)
<1>0. Shape(c)
  BY DEF ConnInv
<1>1. PICK bufs \in Bufs : bufs = a.streambuf
  BY DEF Buffers
<1>2. PICK L \in Nat : L = Len(bufs)
  BY LenProperties DEF Bufs
<1>3. PICK t \in Nat : t = a.tx_offset
  BY DEF Buffers
<1>4. t + L <= 2 /\ (L > 0 => bufs[1].len = 1)
  BY <1>1, <1>2, <1>3 DEF Buffers
<1>5. L \in 0..2 /\ L <= 2
  BY ONLY <1>4, t \in Nat, L \in Nat
<1>6. PICK S : S = {k \in DOMAIN bufs : t + Lens(SubSeq(bufs, 1, k)) <= now}
  OBVIOUS
<1>7. n = Cardinality(S)
  BY <1>1, <1>3, <1>6 DEF FreedUpTo
<1>8. \A k \in 0..L : Lens(SubSeq(bufs, 1, k)) = Units(bufs, k)
  BY <1>2, <1>5, LensUnits
<1>9. DOMAIN bufs = 1..L
  BY <1>2, LenProperties DEF Bufs
<1>10. \A k : k \in S <=> k \in 1..L /\ t + Units(bufs, k) <= now
  <2>1. \A k \in 1..L : k \in 0..L
    OBVIOUS
  <2> QED
    BY <1>6, <1>8, <1>9, <2>1
<1>11. /\ n \in 0..L
       /\ t + Units(bufs, n) <= now \/ n = 0
       /\ n < L => now < t + Units(bufs, n + 1)
  <2>1. EndBefore(S, bufs, L, t, now)
    BY <1>10 DEF EndBefore
  <2>2. EndsAt(bufs, L, t, now, n)
    BY ONLY <1>2, <1>4, <1>5, <1>7, <2>1, bufs \in Bufs, t \in Nat, now \in Nat, FreedCount
  <2> QED
    BY ONLY <2>2 DEF EndsAt
<1>12. Ends(a, now, n)
  BY <1>1, <1>2, <1>3, <1>11 DEF Ends
<1>13. PICK u, v, w : /\ u = SubSeq(a.streambuf, n + 1, Len(a.streambuf))
                      /\ v = a.idx - n
                      /\ w = a.tx_offset + Lens(SubSeq(a.streambuf, 1, n))
  OBVIOUS
<1>14. w = a.tx_offset + Units(a.streambuf, n)
  BY <1>1, <1>8, <1>11, <1>13
<1>15. b = [c EXCEPT !.streams[i].streambuf = u, !.streams[i].idx = v,
                     !.streams[i].tx_offset = w]
  BY <1>0, <1>13 DEF FreedUpTo, Shape, ConnFields, StreamFields
<1>16. PICK q : q = [a EXCEPT !.streambuf = u, !.idx = v, !.tx_offset = w]
  OBVIOUS
<1>17. b = WithStream(c, i, q)
  <2>1. [c EXCEPT !.streams[i].streambuf = u, !.streams[i].idx = v,
                  !.streams[i].tx_offset = w]
        = [c EXCEPT !.streams[i] = [c.streams[i] EXCEPT !.streambuf = u, !.idx = v,
                                                        !.tx_offset = w]]
    BY <1>0 DEF Shape, ConnFields
  <2> QED
    BY <1>15, <1>16, <2>1 DEF WithStream
<1>18. /\ DOMAIN q = StreamFields /\ q.parse_error = a.parse_error
       /\ q.streambuf = u /\ q.idx = v /\ q.tx_offset = w
       /\ q.exists = a.exists /\ q.should_send_fin = a.should_send_fin
       /\ q.completed = a.completed /\ q.nread = a.nread
  BY <1>0, <1>16 DEF Shape, StreamFields
<1>19. Freed(a, n, q)
  BY <1>13, <1>14, <1>18 DEF Freed
<1> QED
  BY <1>12, <1>17, <1>18, <1>19

\* The side after it.
LEMMA RemoveTxMid ==
    ASSUME NEW c, NEW N, NEW A, NEW K, NEW i \in Ids, Full(c, N, A, K),
           FramesTyped(N), c.strms[i].open, c.server => c.answers[i] = 1,
           NEW now \in Nat, now <= c.strms[i].tx,
           NEW d, d = remove_tx_stream_data(c, i, now)
    PROVE  Full(d, N, A, K) /\ About(c, d, i)
<1>0. ConnInv(c) /\ Mid(c, N, A, K)
  BY DEF Full
<1>1. PICK s, a, F : s = c.strms[i] /\ a = c.streams[i] /\ F = FramesTo(N, Other(c.server), i)
  OBVIOUS
<1>2. Buffers(s, a) /\ a.exists
  BY <1>0, <1>1, StartedHas
<1>3. PICK n, b : /\ FreedUpTo(c, i, now, n, b)
                  /\ d = b \/ (/\ c.server /\ c.streams[i].completed
                               /\ d = shutdown_stream_read(b, i))
  BY <1>1, <1>2, RemoveTxIs
<1>4. /\ Ends(a, now, n)
      /\ \E q : /\ DOMAIN q = StreamFields /\ q.parse_error = a.parse_error
                /\ Freed(a, n, q) /\ b = WithStream(c, i, q)
  BY <1>0, <1>1, <1>2, <1>3, FreedUnits
<1>5. PICK q : /\ DOMAIN q = StreamFields /\ q.parse_error = a.parse_error
               /\ Freed(a, n, q) /\ b = WithStream(c, i, q)
  BY <1>4
<1>6. /\ Full(b, N, A, K) /\ About(c, b, i) /\ Quiet(c, b) /\ b.strms = c.strms
  BY <1>1, <1>4, <1>5, FreedMid
<1>7. CASE d = b
  BY <1>6, <1>7
<1>8. CASE c.server /\ d = shutdown_stream_read(b, i)
  <2>1. /\ ConnInv(b) /\ Mid(b, N, A, K) /\ b.server /\ b.strms[i].open
        /\ b.answers[i] = 1
    BY <1>6, <1>8 DEF Full, About, Base, Quiet
  <2>2. /\ Mid(d, N, A, K) /\ About(b, d, i) /\ d.streams = b.streams
        /\ SameRecv(b.strms[i], d.strms[i]) /\ d.strms[i].stop_sending
        /\ d.idtr = b.idtr
    BY <1>8, <2>1, StopMid
  <2>3. ConnInv(d)
    <3>1. Kept(b, d)
      BY <1>8, <2>1, ShutdownRead
    <3> QED
      BY <2>1, <3>1, KeptInv
  <2>4. \A j \in Ids : Inbox(b, A, j) /\ Counted(b, j, 0)
    BY <1>6 DEF Full
  <2>5. \A j \in Ids : Inbox(d, A, j)
    <3>1. Inbox(d, A, i)
      BY <2>2, <2>4, StoppedInbox
    <3> QED
      BY <2>2, <2>4, <3>1, InboxStep
  <2>6. \A j \in Ids : Counted(d, j, 0)
    <3>1. Counted(d, i, 0)
      <4>1. Counted(b, i, 0)
        BY <2>4
      <4> QED
        BY <2>2, <4>1 DEF Counted, About, Base, SameRecv
    <3> QED
      BY <2>2, <2>4, <3>1, CountedStep
  <2>7. About(c, d, i)
    BY <1>6, <2>2, AboutTwice
  <2> QED
    BY <2>2, <2>3, <2>5, <2>6, <2>7 DEF Full
<1> QED
  BY <1>3, <1>7, <1>8

\* close_stream_if_shut_rdwr after that.
LEMMA ClosedFull ==
    ASSUME NEW c, NEW N, NEW A, NEW K, NEW i \in Ids, Full(c, N, A, K), FramesTyped(N),
           page \in Pages, NEW d, d = close_stream_if_shut_rdwr(c, i)
    PROVE  Full(d, N, A, K) /\ About(c, d, i)
<1>1. ConnInv(c) /\ Mid(c, N, A, K) /\ \A j \in Ids : Inbox(c, A, j) /\ Counted(c, j, 0)
  BY DEF Full
<1>2. /\ Mid(d, N, A, K) /\ About(c, d, i)
      /\ Inbox(c, A, i) => Inbox(d, A, i)
      /\ Counted(c, i, 0) => Counted(d, i, 0)
  BY <1>1, CloseMid
<1>3. ConnInv(d)
  BY <1>1, CloseIfShut
<1>4. \A j \in Ids : Inbox(d, A, j)
  BY <1>1, <1>2, InboxStep
<1>5. \A j \in Ids : Counted(d, j, 0)
  BY <1>1, <1>2, CountedStep
<1> QED
  BY <1>2, <1>3, <1>4, <1>5 DEF Full

\* call_acked_stream_offset.
LEMMA AckedOffsetMid ==
    ASSUME NEW c, NEW N, NEW A, NEW K, Full(c, N, A, K), FramesTyped(N), page \in Pages,
           NEW f, OfSide(c.server, f), f \in N, f \in A,
           NEW d, d = acked_stream_offset(c, f)
    PROVE  Full(d, N, A, K) /\ d.server = c.server /\ d.error = c.error
<1>0. ConnInv(c) /\ Mid(c, N, A, K)
  BY DEF Full
<1>1. CASE f.type # "STREAM" \/ ~c.strms[f.id].open
  <2>1. d = c
    BY <1>1 DEF acked_stream_offset
  <2> QED
    BY <2>1
<1>2. CASE ~(f.type # "STREAM" \/ ~c.strms[f.id].open)
  <2>1. PICK i \in Ids : i = f.id
    BY <1>2 DEF OfSide, OfStream, OfLimit
  <2>2. PICK b : b = [c EXCEPT !.strms[i].acked = IF f.len = 0 THEN @ ELSE @ \cup {f.off}]
    OBVIOUS
  <2>3. PICK now : now = Prefix(b.strms[i].acked)
    OBVIOUS
  <2>4. PICK e : e = remove_tx_stream_data(b, i, now)
    OBVIOUS
  <2>5. d = b \/ d = close_stream_if_shut_rdwr(e, i)
    BY <1>2, <2>1, <2>2, <2>3, <2>4 DEF acked_stream_offset
  <2>6. Shape(c)
    BY <1>0 DEF ConnInv
  <2>8. PICK r : r = [c.strms[i] EXCEPT !.acked = IF f.len = 0 THEN @ ELSE @ \cup {f.off}]
    OBVIOUS
  <2>9. PICK s, F : s = c.strms[i] /\ F = FramesTo(N, Other(c.server), i)
    OBVIOUS
  <2>10. b = WithStrm(c, i, r)
    BY <2>2, <2>6, <2>8 DEF WithStrm, Shape, ConnFields, StrmFields
  <2>11. f.to = Other(c.server) /\ f \in F
    BY <1>2, <2>1, <2>9 DEF OfSide, OfStream, OfLimit, FramesTo
  <2>12. c.server => c.answers[i] = 1
    <3>1. FrameInv(c, N, K, f)
      BY <1>0, <2>11 DEF Mid, SideInv, FramesInv
    <3> QED
      BY <1>2, <2>1, <3>1 DEF FrameInv
  <2>13. c.strms[i].open /\ f \in FramesTo(N, Other(c.server), i)
    BY <1>2, <2>1, <2>9, <2>11
  <2>14. Wire(F)
    BY <1>0, <2>9, <2>12, <2>13, StartedHas
  <2>15. f.len \in {0, 1}
    BY <2>11, <2>14 DEF Wire
  <2>16. DOMAIN r = StrmFields /\ AckedIn(c.strms[i], f, r)
    <3>1. /\ DOMAIN r = StrmFields /\ \A k \in StrmFields \ {"acked"} : r[k] = s[k]
      BY <2>6, <2>8, <2>9 DEF Shape
    <3>2. \A k \in r.acked : k \in s.acked \/ (f.len = 1 /\ k = f.off)
      BY <2>6, <2>8, <2>9, <2>15 DEF Shape, StrmFields
    <3>3. AckedIn(s, f, r)
      BY <3>1, <3>2 DEF AckedIn, SameRecv, StrmFields
    <3> QED
      BY <2>9, <3>1, <3>3
  <2>17. /\ Full(b, N, A, K) /\ About(c, b, i) /\ Quiet(c, b) /\ b.strms[i] = r
    BY ONLY <2>10, <2>12, <2>13, <2>16, i \in Ids, Full(c, N, A, K), FramesTyped(N), f \in A,
            AckedMid
  <2>18. b.strms[i].open /\ (b.server => b.answers[i] = 1) /\ b.server = c.server
         /\ b.error = c.error
    BY <2>12, <2>13, <2>16, <2>17 DEF About, Base, Quiet, AckedIn, SameRecv
  <2>19. now \in Nat /\ now <= b.strms[i].tx
    <3>1. PICK t, a, G : t = b.strms[i] /\ a = b.streams[i] /\ G = FramesTo(N, Other(b.server), i)
      OBVIOUS
    <3>2. Buffers(t, a) /\ Sending(t, a, G, A, b.rtb, b.empty, i) /\ Wire(G)
      BY <2>17, <2>18, <3>1, StartedHas DEF Full
    <3>3. Prefix(t.acked) \in 0..2 /\ Prefix(t.acked) <= t.tx
      BY <3>2, AckedSent
    <3> QED
      BY <2>3, <3>1, <3>3
  <2>20. Full(e, N, A, K) /\ About(b, e, i)
    BY <2>4, <2>17, <2>18, <2>19, RemoveTxMid
  <2>21. CASE d = b
    BY <2>17, <2>18, <2>21
  <2>22. CASE d = close_stream_if_shut_rdwr(e, i)
    <3>1. Full(d, N, A, K) /\ About(e, d, i)
      BY <2>20, <2>22, ClosedFull
    <3> QED
      BY <2>18, <2>20, <3>1 DEF About, Base
  <2> QED
    BY <2>5, <2>21, <2>22
<1> QED
  BY <1>1, <1>2

\* A packet need not be kept when it has arrived, and when it is cancelled.
Settled(c, A, f) ==
    \/ f \in A \/ f.type # "STREAM"
    \/ ~c.strms[f.id].open \/ c.strms[f.id].sent_rst

\* The rest of a side stays.
SameBut(c, d) ==
    /\ d.server = c.server /\ d.error = c.error /\ d.frq = c.frq
    /\ d.next = c.next /\ d.max_remote = c.max_remote /\ d.max_local = c.max_local
    /\ d.answers = c.answers /\ d.empty = c.empty /\ d.reset = c.reset /\ d.idtr = c.idtr
    /\ d.strms = c.strms /\ d.streams = c.streams

LEMMA LessFull ==
    ASSUME NEW c, NEW d, NEW N, NEW A, NEW K, Full(c, N, A, K), ConnInv(d), SameBut(c, d),
           NEW f, Settled(c, A, f), d.rtb \subseteq c.rtb,
           \A g \in c.rtb : g # f => g \in d.rtb, d.crashed # "assert"
    PROVE  Full(d, N, A, K)
<1> USE DEF SameBut
<1>0. Mid(c, N, A, K) /\ \A j \in Ids : Inbox(c, A, j) /\ Counted(c, j, 0)
  BY DEF Full
<1>1. ASSUME NEW j \in Ids PROVE StreamInv(d, N, A, j)
  <2>1. StreamInv(c, N, A, j)
    BY <1>0 DEF Mid, SideInv
  <2>2. PICK s, a, F : s = c.strms[j] /\ a = c.streams[j] /\ F = FramesTo(N, Other(c.server), j)
    OBVIOUS
  <2>3. (s.open /\ Sending(s, a, F, A, c.rtb, c.empty, j)) => Sending(s, a, F, A, d.rtb, d.empty, j)
    <3> SUFFICES ASSUME s.open, Sending(s, a, F, A, c.rtb, c.empty, j)
                 PROVE  Sending(s, a, F, A, d.rtb, d.empty, j)
      OBVIOUS
    <3>1. ~s.sent_rst => \A g \in F : g \in d.rtb \/ g \in A
      <4> SUFFICES ASSUME ~s.sent_rst, NEW g \in F, g \notin A PROVE g \in d.rtb
        OBVIOUS
      <4>1. g \in c.rtb
        BY DEF Sending
      <4>2. g # f
        BY <2>2 DEF Settled, FramesTo
      <4> QED
        BY <4>1, <4>2
    <3> QED
      BY <3>1 DEF Sending
  <2>4. (c.strms[j].open /\ Outbox(c, N, A, j)) => Outbox(d, N, A, j)
    BY <2>2, <2>3 DEF Outbox
  <2>5. (OwnReset(d, N, j) <=> OwnReset(c, N, j)) /\ (Done(c, N, A, j) => Done(d, N, A, j))
    BY DEF OwnReset, Done
  <2>6. Resets(c, N, j) => Resets(d, N, j)
    BY <2>5 DEF Resets
  <2>7. /\ Gone(c, j) => Gone(d, j)
        /\ Request(c, j) => Request(d, j)
        /\ Response(c, j) => Response(d, j)
    BY DEF Gone, Request, Response
  <2> QED
    BY <2>1, <2>4, <2>5, <2>6, <2>7 DEF StreamInv
<1>2. FramesInv(d, N, K)
  <2>1. FramesInv(c, N, K)
    BY <1>0 DEF Mid, SideInv
  <2>2. ASSUME NEW g, FrameInv(c, N, K, g) PROVE FrameInv(d, N, K, g)
    BY <2>2 DEF FrameInv, OwnReset
  <2>3. IsFiniteSet(d.rtb)
    BY <2>1, FS_Subset DEF FramesInv
  <2>4. \A g \in N : g.to = Other(d.server) => FrameInv(d, N, K, g)
    BY <2>1, <2>2 DEF FramesInv
  <2>5. \A g \in d.frq : FrameInv(d, N, K, g) /\ g.type # "STREAM"
    BY <2>1, <2>2 DEF FramesInv
  <2>6. IsFiniteSet(d.frq)
    BY <2>1 DEF FramesInv
  <2> QED
    BY <2>3, <2>4, <2>5, <2>6 DEF FramesInv
<1>3. Context(d, N, A, K)
  BY <1>0 DEF Mid, Context
<1>4. \A j \in Ids : Inbox(d, A, j) /\ Counted(d, j, 0)
  BY <1>0 DEF Inbox, Counted
<1> QED
  BY <1>1, <1>2, <1>3, <1>4 DEF Full, Mid, SideInv

LEMMA LessMid ==
    ASSUME NEW c, NEW N, NEW A, NEW K, Full(c, N, A, K), NEW f, Settled(c, A, f),
           NEW d, d = Less(c, f)
    PROVE  Full(d, N, A, K) /\ d.server = c.server /\ d.error = c.error
           /\ d.crashed = c.crashed
<1>1. ConnInv(c) /\ Shape(c) /\ c.crashed # "assert"
  BY DEF Full, ConnInv, Mid, SideInv
<1>2. ConnInv(d) /\ d.rtb = c.rtb \ {f}
  BY <1>1, LessInv
<1>3. DOMAIN d = ConnFields /\ \A k \in ConnFields \ {"rtb"} : d[k] = c[k]
  BY <1>1 DEF Less, Shape
<1>4. SameBut(c, d) /\ d.crashed = c.crashed
  BY <1>3 DEF SameBut, ConnFields
<1>5. d.rtb \subseteq c.rtb /\ \A g \in c.rtb : g # f => g \in d.rtb
  BY <1>2
<1>6. Full(d, N, A, K)
  BY <1>1, <1>2, <1>4, <1>5, LessFull
<1> QED
  BY <1>4, <1>6 DEF SameBut

LEMMA CrashMid ==
    ASSUME NEW c, NEW N, NEW A, NEW K, Full(c, N, A, K), NEW x, x # "assert",
           NEW d, d = Crash(c, x)
    PROVE  Full(d, N, A, K) /\ d.server = c.server /\ d.error = c.error
<1>1. ConnInv(c) /\ Shape(c)
  BY DEF Full, ConnInv
<1>2. ConnInv(d)
  BY <1>1, CrashKept, KeptInv
<1>3. DOMAIN d = ConnFields /\ \A k \in ConnFields \ {"crashed"} : d[k] = c[k]
  BY <1>1 DEF Crash, Shape
<1>4. SameBut(c, d) /\ d.rtb = c.rtb /\ d.crashed = x
  BY <1>1, <1>3 DEF SameBut, ConnFields, Crash, Shape
<1>5. PICK f : f.type = "MAXID"
  <2>1. [type |-> "MAXID"].type = "MAXID"
    OBVIOUS
  <2> QED
    BY <2>1
<1>6. Settled(c, A, f)
  BY <1>5 DEF Settled
<1>7. Full(d, N, A, K)
  BY <1>2, <1>4, <1>6, LessFull
<1> QED
  BY <1>4, <1>7 DEF SameBut

\* Acknowledgement of a packet.
LEMMA RecvAckMid ==
    ASSUME NEW c, NEW N, NEW A, NEW K, Full(c, N, A, K), FramesTyped(N), page \in Pages,
           NEW f \in c.rtb, f \in A, NEW d, d = rtb_recv_ack(c, f)
    PROVE  Full(d, N, A, K) /\ d.server = c.server /\ d.error = c.error
<1>1. PICK b : b = Less(c, f)
  OBVIOUS
<1>2. Full(b, N, A, K) /\ b.server = c.server /\ b.error = c.error
  BY <1>1, LessMid DEF Settled
<1>3. d = acked_stream_offset(b, f)
  BY <1>1 DEF rtb_recv_ack, Less
<1>4. OfSide(b.server, f) /\ f \in N
  BY <1>2 DEF Full, ConnInv, Mid, Context
<1> QED
  BY <1>2, <1>3, <1>4, AckedOffsetMid

\* A packet that is due again and cancelled.
Drops(c, f, x) == [c EXCEPT !.rtb = @ \ {f}, !.crashed = x]

LEMMA CancelledMid ==
    ASSUME NEW c, NEW N, NEW A, NEW K, Full(c, N, A, K), NEW f \in c.rtb, Cancelled(c, f),
           NEW x, x = "null" \/ x = c.crashed,
           NEW d, d = Drops(c, f, x)
    PROVE  Full(d, N, A, K) /\ d.server = c.server /\ d.error = c.error
<1>0. Shape(c) /\ c.crashed # "assert"
  BY DEF Full, ConnInv, Mid, SideInv
<1>1. PICK b : b = Less(c, f)
  OBVIOUS
<1>2. Settled(c, A, f)
  BY DEF Settled, Cancelled
<1>3. Full(b, N, A, K) /\ b.server = c.server /\ b.error = c.error
  BY <1>1, <1>2, LessMid
<1>4. d = Crash(b, x)
  BY <1>0, <1>1 DEF Drops, Less, Crash, Shape, ConnFields
<1>5. x # "assert"
  BY <1>0
<1> QED
  BY <1>3, <1>4, <1>5, CrashMid

-----------------------------------------------------------------------------
(* Writing.                                                                *)

\* The next buffer: what was written and it are the units up to the one after.
NextAt(a, m, y, L) == m = a.idx + 1 /\ y = a.streambuf[m].len /\ L = Len(a.streambuf)
NextIs(s, a, m, y, L) ==
    /\ y \in {0, 1} /\ s.tx \in Nat /\ s.tx + y <= 2
    /\ s.tx + y = a.tx_offset + Units(a.streambuf, m)
    /\ m \in 1..L /\ L \in 1..2 /\ (y = 0 => m = L)

LEMMA NextBuf ==
    ASSUME NEW s, NEW a, Buffers(s, a), a.idx < Len(a.streambuf),
           NEW m, NEW y, NEW L, NextAt(a, m, y, L)
    PROVE  NextIs(s, a, m, y, L)
<1> USE DEF NextAt, NextIs
<1>1. PICK bufs \in Bufs : bufs = a.streambuf
  BY DEF Buffers
<1>2. L \in Nat /\ L = Len(bufs)
  BY <1>1, LenProperties DEF Bufs
<1>3. PICK t \in Nat : t = a.tx_offset
  BY DEF Buffers
<1>4. PICK x \in 0..L : x = a.idx
  BY <1>1, <1>2 DEF Buffers
<1>5. /\ t + L <= 2 /\ x < L /\ (L > 0 => bufs[1].len = 1)
      /\ s.tx = t + Units(bufs, x) /\ m = x + 1 /\ y = bufs[m].len
  BY <1>1, <1>2, <1>3, <1>4 DEF Buffers
<1>6. L \in 1..2 /\ m \in 1..L
  BY ONLY <1>2, <1>5, t \in Nat, x \in 0..L
<1>7. y \in {0, 1} /\ bufs[1].len = 1
  BY <1>1, <1>2, <1>5, <1>6, BufLen
<1>8. CASE x = 0
  <2>1. m = 1 /\ y = 1 /\ s.tx = t /\ Units(bufs, m) = 1
    BY <1>5, <1>7, <1>8, UnitsOf
  <2> QED
    BY <1>1, <1>3, <1>5, <1>6, <1>7, <2>1
<1>9. CASE x = 1
  <2>1. m = 2 /\ L = 2
    <3>1. m = 2 /\ 1 < L
      BY <1>5, <1>9
    <3> QED
      BY ONLY <1>6, <3>1
  <2>2. Units(bufs, 1) = 1 /\ Units(bufs, 2) = 1 + y
    BY <1>5, <1>7, <2>1, UnitsOf
  <2>3. t = 0 /\ s.tx = 1
    BY <1>5, <1>9, <2>1, <2>2
  <2> QED
    BY <1>1, <1>3, <1>6, <1>7, <2>1, <2>2, <2>3
<1> QED
  BY <1>5, <1>6, <1>8, <1>9

\* The application goes to the next buffer, ...
Passed(a, q) ==
    /\ q.idx = a.idx + 1 /\ q.streambuf = a.streambuf /\ q.tx_offset = a.tx_offset
    /\ q.exists = a.exists /\ q.completed = a.completed /\ q.nread = a.nread
    /\ q.parse_error = a.parse_error
    /\ q.should_send_fin <=> a.should_send_fin /\ a.idx + 1 # Len(a.streambuf)

\* ... and the stream has it in a frame.
Framed(s, a, f, r) ==
    /\ SameRecv(s, r) /\ r.sent_rst = s.sent_rst /\ r.stop_sending = s.stop_sending
    /\ r.acked = s.acked
    /\ f.off = s.tx /\ f.len = a.streambuf[a.idx + 1].len
    /\ r.tx = s.tx + f.len
    /\ f.fin \in BOOLEAN /\ (f.fin <=> a.should_send_fin /\ a.idx + 1 = Len(a.streambuf))
    /\ r.shut_wr = f.fin

LEMMA PassedBuffers ==
    ASSUME NEW s, NEW a, Buffers(s, a), a.idx < Len(a.streambuf), NEW q, Passed(a, q),
           NEW r, r.tx = s.tx + a.streambuf[a.idx + 1].len
    PROVE  Buffers(r, q) /\ q.idx \in 1..Len(a.streambuf)
<1>1. PICK m, y, L : /\ m = a.idx + 1 /\ y = a.streambuf[m].len /\ L = Len(a.streambuf)
  OBVIOUS
<1>2. /\ s.tx + y = a.tx_offset + Units(a.streambuf, m) /\ m \in 1..L /\ L \in 1..2
  <2>1. NextAt(a, m, y, L)
    BY <1>1 DEF NextAt
  <2>2. NextIs(s, a, m, y, L)
    BY <2>1, NextBuf
  <2> QED
    BY <1>1, <2>2 DEF NextIs
<1>3. q.idx = m /\ q.streambuf = a.streambuf /\ q.tx_offset = a.tx_offset
  BY <1>1 DEF Passed
<1>4. r.tx = s.tx + y
  BY <1>1
<1> QED
  BY <1>1, <1>2, <1>3, <1>4 DEF Buffers

\* A frame more: the frames of the stream are as they should be.
Plus(F, f, G) == G = F \cup {f}

LEMMA FramedSending ==
    ASSUME NEW s, NEW a, NEW F, NEW A, NEW rtb, NEW E, NEW j, Buffers(s, a), Wire(F),
           Sending(s, a, F, A, rtb, E, j), a.idx < Len(a.streambuf), ~s.shut_wr,
           NEW f, NEW r, NEW q, Framed(s, a, f, r), Passed(a, q),
           NEW G, Plus(F, f, G), NEW T, Plus(rtb, f, T)
    PROVE  Buffers(r, q) /\ Sending(r, q, G, A, T, E, j) /\ Wire(G)
<1>0. G = F \cup {f} /\ T = rtb \cup {f}
  BY DEF Plus
<1> USE <1>0
<1>1. PICK m, y, L, x : /\ m = a.idx + 1 /\ y = a.streambuf[m].len /\ L = Len(a.streambuf)
                        /\ x = s.tx
  OBVIOUS
<1>2. /\ y \in {0, 1} /\ x \in Nat /\ x + y <= 2
      /\ m \in 1..L /\ L \in 1..2 /\ (y = 0 => m = L)
  <2>1. NextAt(a, m, y, L)
    BY <1>1 DEF NextAt
  <2>2. NextIs(s, a, m, y, L)
    BY <2>1, NextBuf
  <2> QED
    BY <1>1, <2>2 DEF NextIs
<1>3. /\ f.off = x /\ f.len = y /\ r.tx = x + y /\ f.fin \in BOOLEAN
      /\ f.fin <=> m = L
      /\ r.shut_wr = f.fin /\ r.acked = s.acked /\ r.sent_rst = s.sent_rst
      /\ q.idx = m /\ q.streambuf = a.streambuf
      /\ q.should_send_fin <=> m # L
  <2>1. a.should_send_fin
    BY DEF Sending
  <2> QED
    BY <1>1, <2>1 DEF Framed, Passed
<1>4. Buffers(r, q)
  BY <1>1, <1>3, PassedBuffers
<1>5. \A g \in F : ~g.fin /\ g.off + g.len <= x /\ g.off \in Nat /\ g.len \in {0, 1}
                   /\ g.fin \in BOOLEAN /\ g.off + g.len <= 2 /\ (g.len = 0 => g.fin)
  BY <1>1 DEF Sending, Wire
<1>6. Wire(G)
  <2>1. \A g \in G : /\ g.off \in Nat /\ g.len \in {0, 1} /\ g.fin \in BOOLEAN
                     /\ g.off + g.len <= 2 /\ (g.len = 0 => g.fin)
    BY <1>2, <1>3, <1>5
  <2>2. \A g, h \in G : g.fin => h.off + h.len <= g.off + g.len
    <3> SUFFICES ASSUME NEW g \in G, NEW h \in G, g.fin PROVE h.off + h.len <= g.off + g.len
      OBVIOUS
    <3>1. g = f
      BY <1>5
    <3>2. CASE h = f
      BY <1>2, <1>3, <3>1, <3>2
    <3>3. CASE h \in F
      <4>1. h.off + h.len <= x /\ h.off \in Nat /\ h.len \in {0, 1}
        BY <1>5, <3>3
      <4> QED
        BY <1>2, <1>3, <3>1, <4>1
    <3> QED
      BY <3>2, <3>3
  <2>3. \A g, h \in G : g.len = 1 /\ h.len = 1 /\ g.off = h.off => g = h
    <3>1. \A h \in F : h.len = 1 => h.off # x
      <4> SUFFICES ASSUME NEW h \in F, h.len = 1, h.off = x PROVE FALSE
        OBVIOUS
      <4>1. h.off + h.len <= x
        BY <1>5
      <4> QED
        BY <1>2, <4>1
    <3>2. \A g, h \in F : g.len = 1 /\ h.len = 1 /\ g.off = h.off => g = h
      BY DEF Wire
    <3> QED
      BY <1>3, <3>1, <3>2
  <2>4. \A g, h \in G : g.fin /\ h.fin => g = h
    BY <1>5
  <2> QED
    BY <2>1, <2>2, <2>3, <2>4 DEF Wire
<1>7. Sending(r, q, G, A, T, E, j)
  <2>1. \A g \in G : /\ g.off + g.len <= r.tx
                     /\ g.fin => r.shut_wr /\ g.off + g.len = r.tx
                     /\ g.len = 0 => j \in E
    <3> SUFFICES ASSUME NEW g \in G
                 PROVE  /\ g.off + g.len <= r.tx
                        /\ g.fin => r.shut_wr /\ g.off + g.len = r.tx
                        /\ g.len = 0 => j \in E
      OBVIOUS
    <3>1. CASE g = f
      <4>1. y = 0 => j \in E
        BY <1>1, <1>2 DEF Sending
      <4> QED
        BY <1>2, <1>3, <3>1, <4>1
    <3>2. CASE g \in F
      <4>1. g.off + g.len <= x /\ ~g.fin /\ (g.len = 0 => j \in E)
            /\ g.off \in Nat /\ g.len \in {0, 1}
        BY <1>5, <3>2 DEF Sending
      <4> QED
        BY <1>2, <1>3, <4>1
    <3> QED
      BY <3>1, <3>2
  <2>2. \A k \in 0..1 : k < r.tx => \E g \in G : g.len = 1 /\ g.off = k
    <3> SUFFICES ASSUME NEW k \in 0..1, k < x + y
                 PROVE  \E g \in G : g.len = 1 /\ g.off = k
      BY <1>3
    <3>1. CASE k < x
      BY <1>1, <3>1 DEF Sending
    <3>2. CASE ~(k < x)
      <4>1. k = x /\ y = 1
        BY <1>2, <3>2
      <4> QED
        BY <1>3, <4>1
    <3> QED
      BY <3>1, <3>2
  <2>3. \A k \in r.acked : \E g \in G : g.len = 1 /\ g.off = k /\ g \in A
    BY <1>3 DEF Sending
  <2>4. ~r.sent_rst => \A g \in G : g \in T \/ g \in A
    BY <1>3 DEF Sending
  <2>5. (r.shut_wr /\ ~r.sent_rst) => q.idx = Len(q.streambuf) /\ \E g \in G : g.fin
    BY <1>1, <1>3
  <2>6. q.idx < Len(q.streambuf) => q.should_send_fin
    BY <1>1, <1>2, <1>3
  <2>7. (q.idx = Len(q.streambuf) /\ j \notin E) => r.shut_wr
    BY <1>1, <1>3
  <2>8. \A k \in 1..Len(q.streambuf) : q.streambuf[k].len = 0 => j \in E
    BY <1>3 DEF Sending
  <2> QED
    BY <2>1, <2>2, <2>3, <2>4, <2>5, <2>6, <2>7, <2>8 DEF Sending
<1> QED
  BY <1>4, <1>6, <1>7

\* An empty buffer is passed without a frame: it is the last one.
LEMMA SkippedSending ==
    ASSUME NEW s, NEW a, NEW F, NEW A, NEW rtb, NEW E, NEW j, Buffers(s, a),
           Sending(s, a, F, A, rtb, E, j), a.idx < Len(a.streambuf),
           a.streambuf[a.idx + 1].len = 0, NEW q, Passed(a, q)
    PROVE  Buffers(s, q) /\ Sending(s, q, F, A, rtb, E, j) /\ q.idx = Len(q.streambuf)
<1>1. PICK m, y, L : /\ m = a.idx + 1 /\ y = a.streambuf[m].len /\ L = Len(a.streambuf)
  OBVIOUS
<1>2. /\ y = 0 /\ s.tx \in Nat /\ m \in 1..L /\ L \in 1..2 /\ m = L
  <2>1. NextAt(a, m, y, L)
    BY <1>1 DEF NextAt
  <2>2. NextIs(s, a, m, y, L)
    BY <2>1, NextBuf
  <2> QED
    BY <1>1, <2>2 DEF NextIs
<1>3. q.idx = m /\ q.streambuf = a.streambuf
  BY <1>1 DEF Passed
<1>4. Buffers(s, q)
  <2>1. s.tx = s.tx + a.streambuf[a.idx + 1].len
    BY <1>1, <1>2
  <2> QED
    BY <2>1, PassedBuffers
<1>5. j \in E
  BY <1>1, <1>2 DEF Sending
<1>6. ~(s.shut_wr /\ ~s.sent_rst)
  <2>1. a.idx # Len(a.streambuf)
    BY <1>1, <1>2 DEF Buffers
  <2> QED
    BY <2>1 DEF Sending
<1>7. Sending(s, q, F, A, rtb, E, j)
  <2>1. ~(q.idx < Len(q.streambuf))
    BY <1>1, <1>2, <1>3
  <2> QED
    BY <1>3, <1>5, <1>6, <2>1 DEF Sending
<1> QED
  BY <1>1, <1>2, <1>3, <1>4, <1>7

\* A side writes the frames X: N was sent before and M is after.
Writing(c, d, N, M, K, X) ==
    /\ d.server = c.server /\ d.error = c.error /\ d.next = c.next
    /\ d.max_local = c.max_local /\ c.max_remote <= d.max_remote
    /\ d.answers = c.answers /\ d.empty = c.empty /\ d.reset = c.reset /\ d.idtr = c.idtr
    /\ d.crashed = c.crashed
    /\ d.frq \subseteq c.frq /\ d.rtb = c.rtb \cup X /\ M = N \cup X /\ IsFiniteSet(X)
    /\ \A f \in X : f.to = Other(c.server) /\ FrameInv(d, M, K, f)

\* A stream that no data is written for.
LEMMA MoreStream ==
    ASSUME NEW c, NEW d, NEW N, NEW M, NEW A, NEW K, NEW X, Writing(c, d, N, M, K, X),
           NEW j \in Ids, StreamInv(c, N, A, j),
           d.strms[j] = c.strms[j], d.streams[j] = c.streams[j],
           FramesTo(M, Other(c.server), j) = FramesTo(N, Other(c.server), j)
    PROVE  StreamInv(d, M, A, j)
<1> USE DEF Writing
<1>1. PICK s, a, F : s = c.strms[j] /\ a = c.streams[j] /\ F = FramesTo(N, Other(c.server), j)
  OBVIOUS
<1>2. Sending(s, a, F, A, c.rtb, c.empty, j) => Sending(s, a, F, A, d.rtb, d.empty, j)
  BY DEF Sending
<1>3. Outbox(c, N, A, j) => Outbox(d, M, A, j)
  BY <1>1, <1>2 DEF Outbox
<1>4. OwnReset(c, N, j) => OwnReset(d, M, j)
  BY DEF OwnReset
<1>5. Done(c, N, A, j) => Done(d, M, A, j)
  BY <1>4 DEF Done
<1>6. Resets(c, N, j) => Resets(d, M, j)
  BY <1>4 DEF Resets
<1>7. /\ Gone(c, j) => Gone(d, j)
      /\ Request(c, j) => Request(d, j)
      /\ Response(c, j) => Response(d, j)
  BY DEF Gone, Request, Response
<1> QED
  BY <1>3, <1>5, <1>6, <1>7 DEF StreamInv

\* The side, when each of its streams is right.
LEMMA WriteStep ==
    ASSUME NEW c, NEW d, NEW N, NEW M, NEW A, NEW K, NEW X, Writing(c, d, N, M, K, X),
           Full(c, N, A, K), FramesTyped(N), ConnInv(d),
           \A j \in Ids : /\ StreamInv(d, M, A, j) /\ Inbox(d, A, j) /\ Counted(d, j, 0)
                          /\ Wire(FramesTo(M, Other(c.server), j))
    PROVE  Full(d, M, A, K) /\ FramesTyped(M)
<1> USE DEF Writing
<1>0. /\ Mid(c, N, A, K) /\ c.server \in BOOLEAN /\ c.max_remote \in Nat
      /\ d.max_remote \in Nat
  BY DEF Full, ConnInv
<1>1. Other(c.server) # Other(~c.server)
  BY <1>0 DEF Other
<1>2. FramesInv(d, M, K)
  <2>1. FramesInv(c, N, K)
    BY <1>0 DEF Mid, SideInv
  <2>2. ASSUME NEW f, f \in c.frq \/ f \in N, f.to = Other(c.server), FrameInv(c, N, K, f)
        PROVE  FrameInv(d, M, K, f)
    <3>1. OwnReset(c, N, f.id) => OwnReset(d, M, f.id)
      BY DEF OwnReset
    <3>2. f.type # "MAXID" => (IF d.server THEN d.answers[f.id] = 1 ELSE f.id < d.next)
      BY <2>2 DEF FrameInv
    <3>3. (~d.server /\ f.type \in {"RST", "STOP"}) => f.id \in K
      BY <2>2 DEF FrameInv
    <3>4. f.type = "RST" => OwnReset(d, M, f.id)
      BY <2>2, <3>1 DEF FrameInv
    <3>5. f.type = "MAXID" => f.id <= d.max_remote
      <4> SUFFICES ASSUME f.type = "MAXID" PROVE f.id <= d.max_remote
        OBVIOUS
      <4>1. f.id <= c.max_remote
        BY <2>2 DEF FrameInv
      <4>2. f.id \in Nat
        BY <2>2 DEF FramesTyped, Full, ConnInv, OfStream
      <4> QED
        BY <1>0, <4>1, <4>2
    <3> QED
      BY <3>2, <3>3, <3>4, <3>5 DEF FrameInv
  <2>3. \A f \in M : f.to = Other(d.server) => FrameInv(d, M, K, f)
    BY <2>1, <2>2 DEF FramesInv
  <2>4. \A f \in d.frq : FrameInv(d, M, K, f) /\ f.type # "STREAM"
    <3> SUFFICES ASSUME NEW f \in d.frq PROVE FrameInv(d, M, K, f) /\ f.type # "STREAM"
      OBVIOUS
    <3>1. f \in c.frq /\ FrameInv(c, N, K, f) /\ f.type # "STREAM"
      BY <2>1 DEF FramesInv
    <3>2. f.to = Other(c.server)
      BY <3>1 DEF Full, ConnInv, OfStream
    <3> QED
      BY <2>2, <3>1, <3>2
  <2>5. IsFiniteSet(d.frq) /\ IsFiniteSet(d.rtb)
    BY <2>1, FS_Subset, FS_Union DEF FramesInv
  <2> QED
    BY <2>3, <2>4, <2>5 DEF FramesInv
<1>3. Context(d, M, A, K)
  <2>1. Context(c, N, A, K)
    BY <1>0 DEF Mid
  <2>2. A \subseteq M /\ d.rtb \subseteq M /\ K \subseteq Ids
    BY <2>1 DEF Context
  <2>3. \A to \in Sides, j \in Ids : Wire(FramesTo(M, to, j))
    <3> SUFFICES ASSUME NEW to \in Sides, NEW j \in Ids, to # Other(c.server)
                 PROVE  Wire(FramesTo(M, to, j))
      OBVIOUS
    <3>1. FramesTo(M, to, j) = FramesTo(N, to, j)
      BY DEF FramesTo
    <3>2. Wire(FramesTo(N, to, j))
      BY <2>1 DEF Context
    <3> QED
      BY <3>1, <3>2
  <2>4. \A f \in M : (f.to = Other(~d.server) /\ f.type # "MAXID") =>
         /\ f.id \in K
         /\ (d.server /\ f.type \in {"RST", "STOP"}) => d.answers[f.id] = 1
    <3> SUFFICES ASSUME NEW f \in M, f.to = Other(~c.server), f.type # "MAXID"
                 PROVE  /\ f.id \in K
                        /\ (c.server /\ f.type \in {"RST", "STOP"}) => c.answers[f.id] = 1
      OBVIOUS
    <3>1. f \in N
      BY <1>1
    <3> QED
      BY <2>1, <3>1 DEF Context
  <2>5. d.server => \A j \in Ids : d.answers[j] = 1 => j \in K
    BY <2>1 DEF Context
  <2>6. ~d.server => /\ \A j \in K : j < d.next
                     /\ d.next \in Nat \ {0} /\ d.next <= d.max_local + 1
                     /\ d.max_local <= ep["server"].max_remote
    BY <2>1 DEF Context
  <2>7. d.server => \A j \in Ids : ep["server"].answers[j] = 1 => d.answers[j] = 1
    BY <2>1 DEF Context
  <2> QED
    BY <2>2, <2>3, <2>4, <2>5, <2>6, <2>7 DEF Context
<1>4. d.crashed # "assert"
  BY <1>0 DEF Mid, SideInv
<1>5. FramesTyped(M)
  <2> SUFFICES ASSUME NEW f \in M
               PROVE  (f.type # "MAXID" => f.id \in Ids) /\ (f.type = "MAXID" => f.id \in Nat)
    BY DEF FramesTyped
  <2>1. CASE f \in N
    BY <2>1 DEF FramesTyped
  <2>2. CASE f \in X
    <3>1. OfSide(d.server, f)
      BY <2>2 DEF ConnInv
    <3> QED
      BY <3>1 DEF OfSide, OfStream, OfLimit
  <2> QED
    BY <2>1, <2>2
<1> QED
  BY <1>2, <1>3, <1>4, <1>5 DEF Full, Mid, SideInv

\* One round of on_write_stream: what it leaves alone, ...
Leaves(c, d, i) ==
    /\ d.server = c.server /\ d.error = c.error /\ d.next = c.next
    /\ d.max_local = c.max_local /\ d.max_remote = c.max_remote
    /\ d.answers = c.answers /\ d.empty = c.empty /\ d.reset = c.reset /\ d.idtr = c.idtr
    /\ d.crashed = c.crashed /\ d.frq = c.frq
    /\ \A j \in Ids : j # i => d.strms[j] = c.strms[j] /\ d.streams[j] = c.streams[j]

\* ... when it does nothing, an empty buffer passed over, and a buffer written.
Waits(c, i) ==
    /\ Blocked(c) \/ ~c.strms[i].open \/ c.strms[i].shut_wr
    /\ c.streams[i].streambuf[c.streams[i].idx + 1].len # 0
Idle(c, d, i) ==
    d = c /\ (c.streams[i].idx = Len(c.streams[i].streambuf) \/ Waits(c, i))
Skips(c, d, i) ==
    /\ Leaves(c, d, i) /\ d.rtb = c.rtb /\ d.strms[i] = c.strms[i]
    /\ c.streams[i].idx < Len(c.streams[i].streambuf)
    /\ c.streams[i].streambuf[c.streams[i].idx + 1].len = 0
    /\ Passed(c.streams[i], d.streams[i])
Writes(c, d, i, f) ==
    /\ Leaves(c, d, i) /\ d.rtb = c.rtb \cup {f}
    /\ f.to = Other(c.server) /\ f.type = "STREAM" /\ f.id = i
    /\ c.streams[i].idx < Len(c.streams[i].streambuf)
    /\ c.strms[i].open /\ ~c.strms[i].shut_wr
    /\ Passed(c.streams[i], d.streams[i]) /\ Framed(c.strms[i], c.streams[i], f, d.strms[i])

LEMMA RoundIs ==
    ASSUME NEW c, Shape(c), NEW i \in Ids, NEW L \in Nat, L = Len(c.streams[i].streambuf),
           c.streams[i].idx \in 0..L, NEW d, d = write_stream_data(c, i)
    PROVE  Idle(c, d, i) \/ Skips(c, d, i) \/ \E f : Writes(c, d, i, f)
<1> DEFINE a0 == c.streams[i]
           s0 == c.strms[i]
           b0 == a0.streambuf[a0.idx + 1]
           fin0 == a0.should_send_fin /\ a0.idx + 1 = Len(a0.streambuf)
           e0 == [c EXCEPT !.streams[i].idx = @ + 1,
                           !.streams[i].should_send_fin = @ /\ ~fin0]
           g0 == Frame(c, "STREAM", i, s0.tx, b0.len, fin0, b0.what)
           h0 == [e0 EXCEPT !.strms[i].tx = @ + b0.len, !.strms[i].shut_wr = fin0,
                            !.rtb = @ \cup {g0}]
<1>1. d = IF a0.idx \notin 0..(Len(a0.streambuf) - 1) THEN c
          ELSE IF Blocked(c) \/ ~s0.open \/ s0.shut_wr
          THEN IF b0.len = 0 THEN e0 ELSE c ELSE h0
  BY DEF write_stream_data
<1>2. PICK a, s : a = c.streams[i] /\ s = c.strms[i]
  OBVIOUS
<1>3. PICK fin : fin = (a.should_send_fin /\ a.idx + 1 = Len(a.streambuf))
  OBVIOUS
<1>4. PICK b : b = a.streambuf[a.idx + 1]
  OBVIOUS
<1>5. PICK g : g = Frame(c, "STREAM", i, s.tx, b.len, fin, b.what)
  OBVIOUS
<1>6. PICK e : e = [c EXCEPT !.streams[i].idx = @ + 1,
                             !.streams[i].should_send_fin = @ /\ ~fin]
  OBVIOUS
<1>7a. PICK h : h = [e EXCEPT !.strms[i].tx = @ + b.len, !.strms[i].shut_wr = fin,
                             !.rtb = @ \cup {g}]
  OBVIOUS
<1>7b. e = e0
  BY ONLY <1>2, <1>3, <1>6
<1>7c. g = g0 /\ b = b0
  BY ONLY <1>2, <1>3, <1>4, <1>5
<1>7d. h = h0
  BY ONLY <1>2, <1>3, <1>7a, <1>7b, <1>7c
<1>7. d = IF a.idx \notin 0..(Len(a.streambuf) - 1) THEN c
          ELSE IF Blocked(c) \/ ~s.open \/ s.shut_wr
          THEN IF b.len = 0 THEN e ELSE c ELSE h
  <2> HIDE DEF b0, e0, h0
  <2> QED
    BY ONLY <1>1, <1>2, <1>7b, <1>7c, <1>7d
<1> HIDE DEF a0, s0, b0, fin0, e0, g0, h0
<1> USE <1>2
<1>8. CASE a.idx \notin 0..(Len(a.streambuf) - 1)
  <2>1. a.idx = L
    BY <1>8
  <2> QED
    BY <1>7, <1>8, <2>1 DEF Idle
<1>9. CASE a.idx \in 0..(Len(a.streambuf) - 1)
  <2>0. a.idx < Len(a.streambuf) /\ a.idx \in Nat
    BY <1>9
  <2>1. PICK x : x = a.idx + 1
    OBVIOUS
  <2>2. PICK y : y = (a.should_send_fin /\ ~fin)
    OBVIOUS
  <2>3. e = [c EXCEPT !.streams[i].idx = x, !.streams[i].should_send_fin = y]
    BY <1>6, <2>1, <2>2 DEF Shape, ConnFields, StreamFields
  <2>4. PICK q : q = [a EXCEPT !.idx = x, !.should_send_fin = y]
    OBVIOUS
  <2>5. e = WithStream(c, i, q)
    <3>1. [c EXCEPT !.streams[i].idx = x, !.streams[i].should_send_fin = y]
          = [c EXCEPT !.streams[i] = [c.streams[i] EXCEPT !.idx = x, !.should_send_fin = y]]
      BY DEF Shape, ConnFields
    <3> QED
      BY <2>3, <2>4, <3>1 DEF WithStream
  <2>6. Passed(a, q)
    <3>1. /\ q.idx = x /\ q.should_send_fin = y
          /\ \A k \in StreamFields \ {"idx", "should_send_fin"} : q[k] = a[k]
      BY <2>4 DEF Shape, StreamFields
    <3>2. y <=> a.should_send_fin /\ a.idx + 1 # Len(a.streambuf)
      BY <1>3, <2>2
    <3> QED
      BY <2>1, <3>1, <3>2 DEF Passed, StreamFields
  <2>7. /\ DOMAIN e = ConnFields
        /\ \A k \in ConnFields \ {"streams"} : e[k] = c[k]
        /\ e.streams = [c.streams EXCEPT ![i] = q]
    BY <2>5 DEF WithStream, Shape, ConnFields
  <2>8. /\ e.strms = c.strms /\ e.rtb = c.rtb /\ e.streams[i] = q
        /\ \A j \in Ids : j # i => e.streams[j] = c.streams[j]
    BY <2>7 DEF Shape, ConnFields
  <2>9. Leaves(c, e, i)
    BY <2>7, <2>8 DEF Leaves, ConnFields
  <2>10. CASE Blocked(c) \/ ~s.open \/ s.shut_wr
    <3>1. CASE b.len = 0
      <4>1. d = e
        BY <1>7, <1>9, <2>10, <3>1
      <4> QED
        BY <1>4, <2>0, <2>6, <2>8, <2>9, <3>1, <4>1 DEF Skips
    <3>2. CASE b.len # 0
      <4>1. d = c
        BY <1>7, <1>9, <2>10, <3>2
      <4> QED
        BY <1>4, <2>10, <3>2, <4>1 DEF Idle, Waits
    <3> QED
      BY <3>1, <3>2
  <2>11. CASE ~(Blocked(c) \/ ~s.open \/ s.shut_wr)
    <3>1. d = [e EXCEPT !.strms[i].tx = @ + b.len, !.strms[i].shut_wr = fin,
                        !.rtb = @ \cup {g}]
      BY <1>7, <1>7a, <1>9, <2>11
    <3>2. PICK t : t = s.tx + b.len
      OBVIOUS
    <3>3. PICK r : r = [s EXCEPT !.tx = t, !.shut_wr = fin]
      OBVIOUS
    <3>4. d = [e EXCEPT !.strms[i].tx = t, !.strms[i].shut_wr = fin, !.rtb = @ \cup {g}]
      BY <2>7, <2>8, <3>1, <3>2 DEF Shape, ConnFields, StrmFields
    <3>5. /\ DOMAIN d = ConnFields
          /\ \A k \in ConnFields \ {"strms", "rtb"} : d[k] = e[k]
          /\ d.rtb = c.rtb \cup {g}
      BY <2>7, <2>8, <3>4 DEF ConnFields
    <3>6. d.strms = [c.strms EXCEPT ![i].tx = t, ![i].shut_wr = fin]
      BY <2>7, <2>8, <3>4 DEF ConnFields
    <3>7. d.strms = [c.strms EXCEPT ![i] = [c.strms[i] EXCEPT !.tx = t, !.shut_wr = fin]]
      BY <3>6 DEF Shape
    <3>8. d.strms = [c.strms EXCEPT ![i] = r]
      BY <3>3, <3>7
    <3>9. d.strms[i] = r /\ \A j \in Ids : j # i => d.strms[j] = c.strms[j]
      BY <3>8 DEF Shape
    <3>10. /\ d.streams = e.streams
           /\ d.server = e.server /\ d.error = e.error /\ d.next = e.next
           /\ d.max_local = e.max_local /\ d.max_remote = e.max_remote
           /\ d.answers = e.answers /\ d.empty = e.empty /\ d.reset = e.reset
           /\ d.idtr = e.idtr /\ d.crashed = e.crashed /\ d.frq = e.frq
      BY <3>5 DEF ConnFields
    <3>11. Leaves(c, d, i)
      BY <2>9, <3>9, <3>10 DEF Leaves
    <3>12. /\ g.to = Other(c.server) /\ g.type = "STREAM" /\ g.id = i
           /\ g.off = s.tx /\ g.len = b.len /\ g.fin = fin
      BY <1>5 DEF Frame, Other
    <3>13. /\ r.tx = t /\ r.shut_wr = fin
           /\ \A k \in StrmFields \ {"tx", "shut_wr"} : r[k] = s[k]
      BY <3>3 DEF Shape, StrmFields
    <3>14. /\ SameRecv(s, r) /\ r.sent_rst = s.sent_rst /\ r.stop_sending = s.stop_sending
           /\ r.acked = s.acked
      BY <3>13 DEF SameRecv, StrmFields
    <3>15. fin \in BOOLEAN /\ (fin <=> a.should_send_fin /\ a.idx + 1 = Len(a.streambuf))
      BY <1>3
    <3>16. Framed(s, a, g, r)
      BY <1>4, <3>2, <3>12, <3>13, <3>14, <3>15 DEF Framed
    <3>17. Writes(c, d, i, g)
      <4>1. Passed(c.streams[i], d.streams[i])
        BY <2>6, <2>8, <3>10
      <4>2. Framed(c.strms[i], c.streams[i], g, d.strms[i])
        BY <3>9, <3>16
      <4>3. c.strms[i].open /\ ~c.strms[i].shut_wr /\ a.idx < Len(a.streambuf)
        BY <2>0, <2>11
      <4> QED
        BY <3>5, <3>11, <3>12, <4>1, <4>2, <4>3 DEF Writes
    <3> QED
      BY <3>17
  <2> QED
    BY <2>10, <2>11
<1> QED
  BY <1>8, <1>9

\* A round with the stream's frames F, of which X are new.
Rounded(c, d, i, F, A, X) ==
    /\ Leaves(c, d, i) /\ d.rtb = c.rtb \cup X /\ IsFiniteSet(X)
    /\ \A f \in X : f.to = Other(c.server) /\ f.type = "STREAM" /\ f.id = i
    /\ Buffers(d.strms[i], d.streams[i]) /\ Wire(F \cup X)
    /\ Sending(d.strms[i], d.streams[i], F \cup X, A, d.rtb, d.empty, i)

\* What the round does not change of the stream.
Halves(s, a, r, q) ==
    /\ SameRecv(s, r) /\ r.sent_rst = s.sent_rst /\ r.stop_sending = s.stop_sending
    /\ (s.shut_wr => r.shut_wr)
    /\ q.streambuf = a.streambuf /\ q.tx_offset = a.tx_offset
    /\ q.exists = a.exists /\ q.completed = a.completed /\ q.nread = a.nread

\* It stops, or comes to the next buffer.
Stops(c, i) == c.streams[i].idx = Len(c.streams[i].streambuf) \/ Waits(c, i)
Steps(c, d, i) == d.streams[i].idx = c.streams[i].idx + 1

LEMMA RoundSending ==
    ASSUME NEW c, Shape(c), NEW i \in Ids, NEW F, NEW A, Wire(F),
           Buffers(c.strms[i], c.streams[i]),
           Sending(c.strms[i], c.streams[i], F, A, c.rtb, c.empty, i),
           NEW d, d = write_stream_data(c, i)
    PROVE  \E X : /\ Rounded(c, d, i, F, A, X)
                  /\ Halves(c.strms[i], c.streams[i], d.strms[i], d.streams[i])
                  /\ (d = c /\ X = {} /\ Stops(c, i)) \/ Steps(c, d, i)
<1>1. PICK a, s : a = c.streams[i] /\ s = c.strms[i]
  OBVIOUS
<1>2. PICK L \in Nat : L = Len(a.streambuf)
  BY <1>1 DEF Buffers, Bufs
<1>3. a.idx \in 0..L /\ L = Len(c.streams[i].streambuf) /\ c.streams[i].idx \in 0..L
  BY <1>1, <1>2 DEF Buffers
<1>4. Idle(c, d, i) \/ Skips(c, d, i) \/ \E f : Writes(c, d, i, f)
  BY <1>3, RoundIs
<1>5. CASE Idle(c, d, i)
  <2>1. PICK X : X = {}
    OBVIOUS
  <2>2. F \cup X = F /\ c.rtb \cup X = c.rtb /\ IsFiniteSet(X)
    BY <2>1, FS_EmptySet
  <2>3. d = c /\ Stops(c, i)
    BY <1>5 DEF Idle, Stops
  <2>4. Leaves(c, d, i)
    BY <2>3 DEF Leaves
  <2>5. Rounded(c, d, i, F, A, X)
    BY <2>1, <2>2, <2>3, <2>4 DEF Rounded
  <2>6. Halves(c.strms[i], c.streams[i], d.strms[i], d.streams[i])
    BY <2>3 DEF Halves, SameRecv
  <2> QED
    BY <2>1, <2>3, <2>5, <2>6
<1>6. CASE Skips(c, d, i)
  <2>1. PICK X : X = {}
    OBVIOUS
  <2>2. F \cup X = F /\ c.rtb \cup X = c.rtb /\ IsFiniteSet(X)
    BY <2>1, FS_EmptySet
  <2>3. PICK q : q = d.streams[i]
    OBVIOUS
  <2>4. /\ Leaves(c, d, i) /\ d.rtb = c.rtb /\ d.strms[i] = s
        /\ a.idx < Len(a.streambuf) /\ a.streambuf[a.idx + 1].len = 0 /\ Passed(a, q)
    BY <1>1, <1>6, <2>3 DEF Skips
  <2>5. d.empty = c.empty
    BY <2>4 DEF Leaves
  <2>6. Buffers(s, a) /\ Sending(s, a, F, A, c.rtb, c.empty, i)
    BY <1>1
  <2>7. Buffers(s, q) /\ Sending(s, q, F, A, c.rtb, c.empty, i)
    BY ONLY <2>4, <2>6, SkippedSending
  <2>8. Rounded(c, d, i, F, A, X)
    BY <2>1, <2>2, <2>3, <2>4, <2>5, <2>7 DEF Rounded
  <2>9. Halves(s, a, s, q) /\ q.idx = a.idx + 1
    BY <2>4 DEF Halves, Passed, SameRecv
  <2> QED
    BY <1>1, <2>3, <2>4, <2>8, <2>9 DEF Steps
<1>7. ASSUME NEW f, Writes(c, d, i, f)
      PROVE  \E X : /\ Rounded(c, d, i, F, A, X)
                    /\ Halves(c.strms[i], c.streams[i], d.strms[i], d.streams[i])
                    /\ Steps(c, d, i)
  <2>1. PICK X : X = {f}
    OBVIOUS
  <2>2. PICK G, T : G = F \cup {f} /\ T = c.rtb \cup {f}
    OBVIOUS
  <2>3. PICK q, r : q = d.streams[i] /\ r = d.strms[i]
    OBVIOUS
  <2>4. /\ Leaves(c, d, i) /\ d.rtb = T
        /\ f.to = Other(c.server) /\ f.type = "STREAM" /\ f.id = i
        /\ a.idx < Len(a.streambuf) /\ s.open /\ ~s.shut_wr
        /\ Passed(a, q) /\ Framed(s, a, f, r)
    BY <1>1, <1>7, <2>2, <2>3 DEF Writes
  <2>5. d.empty = c.empty
    BY <2>4 DEF Leaves
  <2>6. PICK R, E : R = c.rtb /\ E = c.empty
    OBVIOUS
  <2>7. Buffers(s, a) /\ Sending(s, a, F, A, R, E, i) /\ Wire(F)
    BY <1>1, <2>6
  <2>13. Plus(F, f, G) /\ Plus(R, f, T)
    BY <2>2, <2>6 DEF Plus
  <2>14. a.idx < Len(a.streambuf) /\ ~s.shut_wr /\ Passed(a, q) /\ Framed(s, a, f, r)
    BY <2>4
  <2>15. Buffers(r, q) /\ Sending(r, q, G, A, T, E, i) /\ Wire(G)
    BY ONLY <2>7, <2>13, <2>14, FramedSending
  <2>8. Buffers(r, q) /\ Sending(r, q, G, A, T, c.empty, i) /\ Wire(G)
    BY <2>6, <2>15
  <2>9. IsFiniteSet(X)
    BY <2>1, FS_Singleton
  <2>10. F \cup X = G /\ c.rtb \cup X = T /\ \A g \in X : g = f
    BY <2>1, <2>2
  <2>11. Rounded(c, d, i, F, A, X)
    BY <2>3, <2>4, <2>5, <2>8, <2>9, <2>10 DEF Rounded
  <2>12. Halves(s, a, r, q) /\ q.idx = a.idx + 1
    BY <2>4 DEF Halves, Passed, Framed
  <2> QED
    BY <1>1, <2>3, <2>11, <2>12 DEF Steps
<1> QED
  BY <1>4, <1>5, <1>6, <1>7

\* on_write_stream: two rounds, then the stream rests.
Ended(d, i) ==
    /\ AtRest(d.streams[i])
    /\ (~d.strms[i].sent_rst /\ d.streams[i].idx < Len(d.streams[i].streambuf))
       => Blocked(d) \/ ~d.strms[i].open

LEMMA RestAfter ==
    ASSUME NEW d, NEW i, NEW F, NEW A, Buffers(d.strms[i], d.streams[i]),
           Sending(d.strms[i], d.streams[i], F, A, d.rtb, d.empty, i), Stops(d, i)
    PROVE  Ended(d, i)
<1>1. PICK a, s : a = d.streams[i] /\ s = d.strms[i]
  OBVIOUS
<1>2. PICK L \in Nat : L = Len(a.streambuf)
  BY <1>1 DEF Buffers, Bufs
<1>3. CASE a.idx = Len(a.streambuf)
  BY <1>1, <1>2, <1>3 DEF Ended, AtRest
<1>4. CASE Waits(d, i)
  <2>1. (Blocked(d) \/ ~s.open \/ s.shut_wr) /\ a.streambuf[a.idx + 1].len # 0
    BY <1>1, <1>4 DEF Waits
  <2>2. AtRest(a)
    <3> SUFFICES ASSUME a.idx < L PROVE a.streambuf[a.idx + 1].len = 1
      BY <1>2 DEF AtRest
    <3>1. PICK m : m = a.idx + 1
      OBVIOUS
    <3>2. PICK bufs \in Bufs : bufs = a.streambuf
      BY <1>1 DEF Buffers
    <3>3. m \in 1..L /\ L = Len(bufs)
      BY <1>1, <1>2, <3>1, <3>2 DEF Buffers
    <3>4. bufs[m] \in [len : {0, 1}, what : Whats]
      BY <3>2, <3>3, ElementOfSeq DEF Bufs
    <3> QED
      BY <2>1, <3>1, <3>2, <3>4
  <2>3. (s.shut_wr /\ ~s.sent_rst) => a.idx = Len(a.streambuf)
    BY <1>1 DEF Sending
  <2>4. a.idx < L => a.idx # L
    BY <1>1, <1>2 DEF Buffers
  <2> QED
    BY <1>1, <1>2, <2>1, <2>2, <2>3, <2>4 DEF Ended
<1> QED
  BY <1>1, <1>3, <1>4 DEF Stops

LEMMA TwoRounds ==
    ASSUME NEW c, ConnInv(c), NEW i \in Ids, NEW F, NEW A, Wire(F),
           Buffers(c.strms[i], c.streams[i]),
           Sending(c.strms[i], c.streams[i], F, A, c.rtb, c.empty, i),
           NEW d, d = on_write_stream(c, i)
    PROVE  \E X : /\ Rounded(c, d, i, F, A, X) /\ Ended(d, i)
                  /\ Halves(c.strms[i], c.streams[i], d.strms[i], d.streams[i])
<1>1. PICK e : e = write_stream_data(c, i)
  OBVIOUS
<1>2. d = write_stream_data(e, i)
  BY <1>1 DEF on_write_stream
<1>3. Shape(c)
  BY DEF ConnInv
<1>4. PICK X : /\ Rounded(c, e, i, F, A, X)
               /\ Halves(c.strms[i], c.streams[i], e.strms[i], e.streams[i])
               /\ (e = c /\ X = {} /\ Stops(c, i)) \/ Steps(c, e, i)
  BY <1>1, <1>3, RoundSending
<1>5. Shape(e)
  <2>1. Kept(c, e)
    BY <1>1, DataWritten
  <2> QED
    BY <2>1 DEF Kept
<1>6. PICK G : G = F \cup X
  OBVIOUS
<1>7. /\ Wire(G) /\ Buffers(e.strms[i], e.streams[i])
      /\ Sending(e.strms[i], e.streams[i], G, A, e.rtb, e.empty, i)
  BY <1>4, <1>6 DEF Rounded
<1>8. PICK Y : /\ Rounded(e, d, i, G, A, Y)
               /\ Halves(e.strms[i], e.streams[i], d.strms[i], d.streams[i])
               /\ (d = e /\ Y = {} /\ Stops(e, i)) \/ Steps(e, d, i)
  BY ONLY <1>2, <1>5, <1>7, i \in Ids, RoundSending
<1>9. /\ Buffers(d.strms[i], d.streams[i])
      /\ Sending(d.strms[i], d.streams[i], G \cup Y, A, d.rtb, d.empty, i)
  BY <1>8 DEF Rounded
<1>10. Ended(d, i)
  <2>1. CASE e = c /\ Stops(c, i)
    <3>1. d = c
      BY <1>1, <1>2, <2>1
    <3> QED
      BY <1>9, <2>1, <3>1, RestAfter
  <2>2. CASE d = e /\ Stops(e, i)
    BY <1>9, <2>2, RestAfter
  <2>3. CASE Steps(c, e, i) /\ Steps(e, d, i)
    <3>1. PICK x : x = c.streams[i].idx
      OBVIOUS
    <3>2. PICK y : y = d.streams[i].idx
      OBVIOUS
    <3>3. PICK L \in Nat : L = Len(d.streams[i].streambuf) /\ L <= 2 /\ y \in 0..L
      BY <1>9, <3>2 DEF Buffers, Bufs
    <3>4. x \in Nat
      <4>1. PICK n \in Nat : n = Len(c.streams[i].streambuf)
        BY DEF Buffers, Bufs
      <4> QED
        BY <3>1, <4>1 DEF Buffers
    <3>5. e.streams[i].idx = x + 1 /\ y = e.streams[i].idx + 1
      BY <2>3, <3>1, <3>2 DEF Steps
    <3>6. y = L
      BY <3>3, <3>4, <3>5
    <3>7. Stops(d, i)
      BY <3>2, <3>3, <3>6 DEF Stops
    <3> QED
      BY <1>9, <3>7, RestAfter
  <2> QED
    BY <1>4, <1>8, <2>1, <2>2, <2>3
<1>11. PICK Z : Z = X \cup Y
  OBVIOUS
<1>12. Halves(c.strms[i], c.streams[i], d.strms[i], d.streams[i])
  BY <1>4, <1>8 DEF Halves, SameRecv
<1>13. Rounded(c, d, i, F, A, Z)
  <2>1. IsFiniteSet(Z)
    BY <1>4, <1>8, <1>11, FS_Union DEF Rounded
  <2>2. Leaves(c, d, i)
    BY <1>4, <1>8 DEF Rounded, Leaves
  <2>3. F \cup Z = G \cup Y
    BY <1>6, <1>11
  <2>4. d.rtb = c.rtb \cup Z
    <3>1. e.rtb = c.rtb \cup X /\ d.rtb = e.rtb \cup Y
      BY <1>4, <1>8 DEF Rounded
    <3> QED
      BY <1>11, <3>1
  <2>5. \A f \in Z : f.to = Other(c.server) /\ f.type = "STREAM" /\ f.id = i
    <3>1. e.server = c.server
      BY <1>4 DEF Rounded, Leaves
    <3> QED
      BY <1>4, <1>8, <1>11, <3>1 DEF Rounded
  <2>6. Wire(F \cup Z) /\ Sending(d.strms[i], d.streams[i], F \cup Z, A, d.rtb, d.empty, i)
    BY <1>8, <2>3 DEF Rounded
  <2> QED
    BY <1>9, <2>1, <2>2, <2>4, <2>5, <2>6 DEF Rounded
<1> QED
  BY <1>10, <1>12, <1>13

\* What a side has done when it has written: N was sent before.
Still(c, d) ==
    /\ d.server = c.server /\ d.error = c.error /\ d.crashed = c.crashed
    /\ d.next = c.next /\ d.max_local = c.max_local /\ c.max_remote <= d.max_remote
    /\ d.answers = c.answers /\ d.empty = c.empty /\ d.reset = c.reset
    /\ c.rtb \subseteq d.rtb
Sent(c, d, N, A, K) ==
    /\ Full(d, N \cup d.rtb, A, K) /\ FramesTyped(N \cup d.rtb) /\ Still(c, d)

LEMMA SentNothing ==
    ASSUME NEW c, NEW N, NEW A, NEW K, Full(c, N, A, K), FramesTyped(N)
    PROVE  Sent(c, c, N, A, K)
<1>1. N \cup c.rtb = N
  BY DEF Full, Mid, Context
<1>2. c.max_remote \in Nat
  BY DEF Full, ConnInv
<1>3. Still(c, c)
  BY <1>2 DEF Still
<1> QED
  BY <1>1, <1>3 DEF Sent

LEMMA SentTwice ==
    ASSUME NEW c, NEW e, NEW d, NEW N, NEW A, NEW K, NEW M, Sent(c, e, N, A, K), M = N \cup e.rtb,
           Sent(e, d, M, A, K), ConnInv(c)
    PROVE  Sent(c, d, N, A, K)
<1>1. Still(c, e) /\ Still(e, d)
  BY DEF Sent
<1>2. c.max_remote \in Nat /\ e.max_remote \in Nat /\ d.max_remote \in Nat
  BY DEF Sent, Full, ConnInv
<1>3. Still(c, d)
  BY <1>1, <1>2 DEF Still
<1>4. M \cup d.rtb = N \cup d.rtb
  BY <1>1 DEF Still
<1> QED
  BY <1>3, <1>4 DEF Sent

\* A stream with nothing in its buffers.
LEMMA StreamEmpty ==
    ASSUME NEW c, Shape(c), NEW i \in Ids, c.streams[i].streambuf = << >>, c.streams[i].idx = 0,
           NEW d, d = on_write_stream(c, i)
    PROVE  d = c
<1>1. PICK L \in Nat : L = 0
  OBVIOUS
<1>2. L = Len(c.streams[i].streambuf) /\ c.streams[i].idx \in 0..L
  BY <1>1
<1>3. PICK e : e = write_stream_data(c, i)
  OBVIOUS
<1>4. Idle(c, e, i) \/ Skips(c, e, i) \/ \E f : Writes(c, e, i, f)
  BY <1>2, <1>3, RoundIs
<1>5. ~(c.streams[i].idx < Len(c.streams[i].streambuf))
  BY <1>1, <1>2
<1>6. e = c
  BY <1>4, <1>5 DEF Idle, Skips, Writes
<1> QED
  BY <1>3, <1>6 DEF on_write_stream

\* The stream after its rounds.
Joined(N, X, M) == M = N \cup X
Answering(c, i) == ~(c.server /\ c.answers[i] = 0)

LEMMA RoundedStream ==
    ASSUME NEW c, NEW d, NEW i \in Ids, NEW N, NEW M, NEW A, NEW F, NEW X,
           c.server \in BOOLEAN, StreamInv(c, N, A, i), c.strms[i].open,
           Answering(c, i), F = FramesTo(N, Other(c.server), i), Joined(N, X, M),
           Rounded(c, d, i, F, A, X), AtRest(d.streams[i]),
           Halves(c.strms[i], c.streams[i], d.strms[i], d.streams[i])
    PROVE  StreamInv(d, M, A, i) /\ Wire(FramesTo(M, Other(c.server), i))
<1>1. /\ d.server = c.server /\ d.next = c.next /\ d.answers = c.answers
      /\ d.empty = c.empty /\ d.reset = c.reset /\ d.idtr = c.idtr
  BY DEF Rounded, Leaves
<1>2. FramesTo(M, Other(c.server), i) = F \cup X
  BY DEF Joined, Rounded, FramesTo
<1>3. Wire(F \cup X)
  BY DEF Rounded
<1>4. d.strms[i].open
  BY DEF Halves, SameRecv
<1>5. Outbox(d, M, A, i)
  <2>1. ~(d.server /\ d.answers[i] = 0)
    BY <1>1 DEF Answering
  <2>2. /\ Buffers(d.strms[i], d.streams[i])
        /\ Sending(d.strms[i], d.streams[i], F \cup X, A, d.rtb, d.empty, i)
    BY DEF Rounded
  <2>3. Sending(d.strms[i], d.streams[i], FramesTo(M, Other(d.server), i), A, d.rtb, d.empty, i)
    BY <1>1, <1>2, <2>2
  <2> QED
    BY <2>1, <2>2, <2>3 DEF Outbox
<1>6. Resets(d, M, i)
  <2>1. Resets(c, N, i)
    BY DEF StreamInv
  <2>2. OwnReset(c, N, i) => OwnReset(d, M, i)
    BY <1>1 DEF OwnReset, Joined
  <2> QED
    BY <1>1, <2>1, <2>2 DEF Resets, Halves, Joined, SameRecv
<1>7. IF d.server THEN Response(d, i) ELSE Request(d, i)
  <2>1. /\ d.streams[i].exists = c.streams[i].exists
        /\ d.streams[i].completed = c.streams[i].completed
        /\ d.streams[i].streambuf = c.streams[i].streambuf
        /\ d.streams[i].tx_offset = c.streams[i].tx_offset
    BY DEF Halves
  <2>2. CASE c.server
    <3>1. Response(c, i)
      BY <2>2 DEF StreamInv
    <3>2. Response(d, i)
      BY <1>1, <1>4, <2>1, <3>1 DEF Response
    <3> QED
      BY <1>1, <2>2, <3>2
  <2>3. CASE ~c.server
    <3>1. Request(c, i)
      BY <2>3 DEF StreamInv
    <3>2. Request(d, i)
      BY <1>1, <1>4, <2>1, <3>1 DEF Request
    <3> QED
      BY <1>1, <2>3, <3>2
  <2> QED
    BY <2>2, <2>3
<1> QED
  BY <1>2, <1>3, <1>4, <1>5, <1>6, <1>7 DEF StreamInv

\* What has arrived has to do only with the receiving half.
LEMMA SameArrived ==
    ASSUME NEW c, NEW d, NEW A, NEW j, d.server = c.server, d.error = c.error,
           d.idtr = c.idtr, SameRecv(c.strms[j], d.strms[j]),
           d.strms[j].stop_sending = c.strms[j].stop_sending,
           d.streams[j].nread = c.streams[j].nread,
           d.streams[j].completed = c.streams[j].completed,
           Inbox(c, A, j), Counted(c, j, 0)
    PROVE  Inbox(d, A, j) /\ Counted(d, j, 0)
<1>1. PICK s, r, G : s = c.strms[j] /\ r = d.strms[j] /\ G = FramesTo(A, Other(~c.server), j)
  OBVIOUS
<1>2. Receiving(s, G) => Receiving(r, G)
  BY <1>1 DEF Receiving, SameRecv
<1>3. r.open = s.open /\ r.rx = s.rx
  BY <1>1 DEF SameRecv
<1>4. Inbox(d, A, j)
  BY <1>1, <1>2, <1>3 DEF Inbox
<1>5. Counted(d, j, 0)
  BY <1>1, <1>3 DEF Counted
<1> QED
  BY <1>4, <1>5

LEMMA StreamSent ==
    ASSUME NEW c, NEW N, NEW A, NEW K, Full(c, N, A, K), FramesTyped(N), NEW i \in Ids,
           NEW d, d = on_write_stream(c, i)
    PROVE  /\ Sent(c, d, N, A, K) /\ RestsAt(d, i)
           /\ \A j \in Ids : j # i => d.strms[j] = c.strms[j] /\ d.streams[j] = c.streams[j]
<1>0. /\ ConnInv(c) /\ Mid(c, N, A, K) /\ StreamInv(c, N, A, i)
      /\ Shape(c) /\ c.server \in BOOLEAN
  BY DEF Full, Mid, SideInv, ConnInv
<1>1. CASE ~c.strms[i].open \/ (c.server /\ c.answers[i] = 0)
  <2>1. c.streams[i].streambuf = << >> /\ c.streams[i].idx = 0
    <3>1. CASE ~c.strms[i].open
      BY <1>0, <3>1 DEF StreamInv, Gone, NoStream
    <3>2. CASE c.strms[i].open /\ c.server /\ c.answers[i] = 0
      <4>1. Outbox(c, N, A, i)
        BY <1>0, <3>2 DEF StreamInv
      <4>2. Unstarted(c.strms[i], c.streams[i])
        BY <3>2, <4>1 DEF Outbox
      <4> QED
        BY <4>2 DEF Unstarted
    <3> QED
      BY <1>1, <3>1, <3>2
  <2>2. d = c
    BY <1>0, <2>1, StreamEmpty
  <2>3. RestsAt(c, i)
    <3>1. ~(c.streams[i].idx < Len(c.streams[i].streambuf))
      BY <2>1
    <3> QED
      BY <3>1 DEF RestsAt
  <2>4. Sent(c, c, N, A, K)
    BY SentNothing
  <2> QED
    BY <2>2, <2>3, <2>4
<1>2. CASE c.strms[i].open /\ ~(c.server /\ c.answers[i] = 0)
  <2>1. PICK F : F = FramesTo(N, Other(c.server), i)
    OBVIOUS
  <2>2. Outbox(c, N, A, i)
    BY <1>0, <1>2 DEF StreamInv
  <2>3. /\ Buffers(c.strms[i], c.streams[i])
        /\ Sending(c.strms[i], c.streams[i], F, A, c.rtb, c.empty, i)
    BY <1>2, <2>1, <2>2 DEF Outbox
  <2>4. Wire(F)
    <3>1. Other(c.server) \in Sides
      BY <1>0 DEF Other, Sides
    <3> QED
      BY <1>0, <2>1, <3>1 DEF Mid, Context
  <2>5. PICK X : /\ Rounded(c, d, i, F, A, X) /\ Ended(d, i)
                 /\ Halves(c.strms[i], c.streams[i], d.strms[i], d.streams[i])
    BY <1>0, <2>3, <2>4, TwoRounds
  <2>6. PICK M : M = N \cup X
    OBVIOUS
  <2>7. AtRest(d.streams[i])
    BY <2>5 DEF Ended
  <2>8. StreamInv(d, M, A, i) /\ Wire(FramesTo(M, Other(c.server), i))
    <3>1. Joined(N, X, M) /\ Answering(c, i) /\ c.strms[i].open
      BY <1>2, <2>6 DEF Joined, Answering
    <3> QED
      BY ONLY <1>0, <2>1, <2>5, <2>7, <3>1, i \in Ids, RoundedStream
  <2>9. Leaves(c, d, i) /\ d.rtb = c.rtb \cup X
    BY <2>5 DEF Rounded
  <2>10. Writing(c, d, N, M, K, X)
    <3>1. c.max_remote <= c.max_remote
      <4>1. c.max_remote \in Nat
        BY <1>0 DEF ConnInv
      <4> QED
        BY <4>1
    <3>2. ASSUME NEW f \in X PROVE f.to = Other(c.server) /\ FrameInv(d, M, K, f)
      <4>1. f.to = Other(c.server) /\ f.type = "STREAM" /\ f.id = i
        BY <2>5 DEF Rounded
      <4>2. d.server = c.server /\ d.answers = c.answers /\ d.next = c.next
        BY <2>9 DEF Leaves
      <4>3. IF c.server THEN c.answers[i] = 1 ELSE i < c.next
        <5>1. CASE c.server
          <6>1. c.answers[i] \in {0, 1}
            BY <1>0, <5>1 DEF ConnInv, ServerInv, Answers
          <6> QED
            BY <1>2, <5>1, <6>1
        <5>2. CASE ~c.server
          <6>1. Request(c, i)
            BY <1>0, <5>2 DEF StreamInv
          <6> QED
            BY <1>2, <5>2, <6>1 DEF Request
        <5> QED
          BY <5>1, <5>2
      <4> QED
        BY <4>1, <4>2, <4>3 DEF FrameInv
    <3>3. IsFiniteSet(X)
      BY <2>5 DEF Rounded
    <3> QED
      BY <2>6, <2>9, <3>1, <3>2, <3>3 DEF Writing, Leaves
  <2>11. ConnInv(d)
    <3>1. Kept(c, d)
      BY <1>0, StreamWritten
    <3> QED
      BY <1>0, <3>1, KeptInv
  <2>12. ASSUME NEW j \in Ids
         PROVE  /\ StreamInv(d, M, A, j) /\ Inbox(d, A, j) /\ Counted(d, j, 0)
                /\ Wire(FramesTo(M, Other(c.server), j))
    <3>1. Inbox(c, A, j) /\ Counted(c, j, 0) /\ StreamInv(c, N, A, j)
      BY <1>0 DEF Full, Mid, SideInv
    <3>2. d.server = c.server /\ d.error = c.error /\ d.idtr = c.idtr
      BY <2>9 DEF Leaves
    <3>3. CASE j = i
      <4>1. /\ SameRecv(c.strms[j], d.strms[j])
            /\ d.strms[j].stop_sending = c.strms[j].stop_sending
            /\ d.streams[j].nread = c.streams[j].nread
            /\ d.streams[j].completed = c.streams[j].completed
        BY <2>5, <3>3 DEF Halves
      <4>2. Inbox(d, A, j) /\ Counted(d, j, 0)
        BY ONLY <3>1, <3>2, <4>1, SameArrived
      <4> QED
        BY <2>8, <3>3, <4>2
    <3>4. CASE j # i
      <4>1. d.strms[j] = c.strms[j] /\ d.streams[j] = c.streams[j]
        BY <2>9, <3>4 DEF Leaves
      <4>2. SameRecv(c.strms[j], d.strms[j])
        BY <4>1 DEF SameRecv
      <4>3. /\ d.strms[j].stop_sending = c.strms[j].stop_sending
            /\ d.streams[j].nread = c.streams[j].nread
            /\ d.streams[j].completed = c.streams[j].completed
        BY <4>1
      <4>4. Inbox(d, A, j) /\ Counted(d, j, 0)
        BY ONLY <3>1, <3>2, <4>2, <4>3, SameArrived
      <4>5. FramesTo(M, Other(c.server), j) = FramesTo(N, Other(c.server), j)
        <5>1. \A f \in X : f.id = i
          BY <2>5 DEF Rounded
        <5> QED
          BY <2>6, <3>4, <5>1 DEF FramesTo
      <4>6. StreamInv(d, M, A, j)
        BY <2>10, <3>1, <4>1, <4>5, MoreStream
      <4>7. Wire(FramesTo(N, Other(c.server), j))
        <5>1. Other(c.server) \in Sides
          BY <1>0 DEF Other, Sides
        <5> QED
          BY <1>0, <5>1 DEF Mid, Context
      <4> QED
        BY <4>4, <4>5, <4>6, <4>7
    <3> QED
      BY <3>3, <3>4
  <2>13. Full(d, M, A, K) /\ FramesTyped(M)
    BY ONLY <2>10, <2>11, <2>12, Full(c, N, A, K), FramesTyped(N), WriteStep
  <2>14. N \cup d.rtb = M
    <3>1. c.rtb \subseteq N
      BY <1>0 DEF Mid, Context
    <3> QED
      BY <2>6, <2>9, <3>1
  <2>15. Still(c, d)
    BY <2>9, <2>10 DEF Leaves, Writing, Still
  <2>16. Sent(c, d, N, A, K)
    BY <2>13, <2>14, <2>15 DEF Sent
  <2>17. RestsAt(d, i)
    BY <2>5 DEF Ended, RestsAt
  <2> QED
    BY <2>9, <2>16, <2>17 DEF Leaves
<1> QED
  BY <1>1, <1>2

\* conn_write_pkt.
LEMMA PktSent ==
    ASSUME NEW c, NEW N, NEW A, NEW K, Full(c, N, A, K), FramesTyped(N),
           NEW d, d = write_pkt(c)
    PROVE  Sent(c, d, N, A, K)
<1>0. /\ ConnInv(c) /\ Mid(c, N, A, K) /\ Shape(c) /\ c.server \in BOOLEAN
      /\ c.max_local \in Nat /\ c.max_remote \in Nat /\ c.unsent_max \in Nat
      /\ c.max_remote <= c.unsent_max
  BY DEF Full, ConnInv
<1>1. CASE d = c
  BY <1>1, SentNothing
<1>2. CASE d # c
  <2>1. PICK m : m = Frame(c, "MAXID", c.unsent_max, 0, 0, FALSE, "")
    OBVIOUS
  <2>2. PICK keep, max :
          /\ keep \subseteq c.frq
          /\ max = IF c.unsent_max = c.max_remote THEN {} ELSE {m}
          /\ d = [c EXCEPT !.frq = {}, !.max_remote = c.unsent_max,
                           !.rtb = @ \cup keep \cup max]
    <3>1. PICK keep : keep = {f \in c.frq :
                   IF f.type = "RST"
                   THEN c.strms[f.id].open \/ f.what = "STOPPING"
                   ELSE c.strms[f.id].open /\ ~c.strms[f.id].shut_rd}
      OBVIOUS
    <3>2. PICK max : max = IF c.unsent_max = c.max_remote THEN {} ELSE {m}
      OBVIOUS
    <3>3. d = [c EXCEPT !.frq = {}, !.max_remote = c.unsent_max,
                        !.rtb = @ \cup keep \cup max]
      BY <1>2, <2>1, <3>1, <3>2 DEF write_pkt
    <3>4. keep \subseteq c.frq
      BY <3>1
    <3> QED
      BY <3>2, <3>3, <3>4
  <2>3. /\ DOMAIN d = ConnFields
        /\ \A k \in ConnFields \ {"frq", "max_remote", "rtb"} : d[k] = c[k]
        /\ d.frq = {} /\ d.max_remote = c.unsent_max /\ d.rtb = c.rtb \cup keep \cup max
    BY <1>0, <2>2 DEF Shape, ConnFields
  <2>4. /\ d.server = c.server /\ d.error = c.error /\ d.next = c.next
        /\ d.max_local = c.max_local /\ d.strms = c.strms /\ d.streams = c.streams
        /\ d.answers = c.answers /\ d.empty = c.empty /\ d.reset = c.reset
        /\ d.idtr = c.idtr /\ d.crashed = c.crashed
    BY <2>3 DEF ConnFields
  <2>5. PICK X : X = keep \cup max
    OBVIOUS
  <2>6. PICK M : M = N \cup X
    OBVIOUS
  <2>7. FramesInv(c, N, K)
    BY <1>0 DEF Mid, SideInv
  <2>8. ASSUME NEW f \in X
        PROVE  f.to = Other(c.server) /\ FrameInv(d, M, K, f) /\ f.type # "STREAM"
    <3>1. CASE f \in keep
      <4>1. FrameInv(c, N, K, f) /\ f.type # "STREAM"
        BY <2>2, <2>7, <3>1 DEF FramesInv
      <4>2. f.to = Other(c.server) /\ f.type \in {"STREAM", "RST", "STOP"}
        BY <1>0, <2>2, <3>1 DEF ConnInv, OfStream
      <4>3. OwnReset(c, N, f.id) => OwnReset(d, M, f.id)
        BY <2>4, <2>6 DEF OwnReset
      <4>4. FrameInv(d, M, K, f)
        BY <2>4, <4>1, <4>2, <4>3 DEF FrameInv
      <4> QED
        BY <4>1, <4>2, <4>4
    <3>2. CASE f \in max
      <4>1. f = m
        BY <2>2, <3>2
      <4>2. f.to = Other(c.server) /\ f.type = "MAXID" /\ f.id = c.unsent_max
        BY <2>1, <4>1 DEF Frame, Other
      <4>3. f.id <= d.max_remote
        BY <1>0, <2>3, <4>2
      <4> QED
        BY <4>2, <4>3 DEF FrameInv
    <3> QED
      BY <2>5, <3>1, <3>2
  <2>9. IsFiniteSet(X)
    <3>1. IsFiniteSet(keep)
      BY <2>2, <2>7, FS_Subset DEF FramesInv
    <3>2. IsFiniteSet(max)
      BY <2>2, FS_EmptySet, FS_Singleton
    <3> QED
      BY <2>5, <3>1, <3>2, FS_Union
  <2>10. d.rtb = c.rtb \cup X /\ d.frq \subseteq c.frq /\ c.max_remote <= d.max_remote
    BY <1>0, <2>3, <2>5
  <2>11. Writing(c, d, N, M, K, X)
    BY <2>4, <2>6, <2>8, <2>9, <2>10 DEF Writing
  <2>12. ConnInv(d)
    <3>1. Wrote(c, d)
      BY <1>0, PktWritten
    <3> QED
      BY <3>1 DEF Wrote
  <2>13. ASSUME NEW j \in Ids
         PROVE  /\ StreamInv(d, M, A, j) /\ Inbox(d, A, j) /\ Counted(d, j, 0)
                /\ Wire(FramesTo(M, Other(c.server), j))
    <3>1. Inbox(c, A, j) /\ Counted(c, j, 0) /\ StreamInv(c, N, A, j)
      BY <1>0 DEF Full, Mid, SideInv
    <3>2. d.server = c.server /\ d.error = c.error /\ d.idtr = c.idtr
      BY <2>4
    <3>3. d.strms[j] = c.strms[j] /\ d.streams[j] = c.streams[j]
      BY <2>4
    <3>4. SameRecv(c.strms[j], d.strms[j])
      BY <3>3 DEF SameRecv
    <3>5. /\ d.strms[j].stop_sending = c.strms[j].stop_sending
          /\ d.streams[j].nread = c.streams[j].nread
          /\ d.streams[j].completed = c.streams[j].completed
      BY <3>3
    <3>6. Inbox(d, A, j) /\ Counted(d, j, 0)
      BY ONLY <3>1, <3>2, <3>4, <3>5, SameArrived
    <3>7. FramesTo(M, Other(c.server), j) = FramesTo(N, Other(c.server), j)
      BY <2>6, <2>8 DEF FramesTo
    <3>8. StreamInv(d, M, A, j)
      BY <2>11, <3>1, <3>3, <3>7, MoreStream
    <3>9. Wire(FramesTo(N, Other(c.server), j))
      <4>1. Other(c.server) \in Sides
        BY <1>0 DEF Other, Sides
      <4> QED
        BY <1>0, <4>1 DEF Mid, Context
    <3> QED
      BY <3>6, <3>7, <3>8, <3>9
  <2>14. Full(d, M, A, K) /\ FramesTyped(M)
    BY ONLY <2>11, <2>12, <2>13, Full(c, N, A, K), FramesTyped(N), WriteStep
  <2>15. N \cup d.rtb = M
    <3>1. c.rtb \subseteq N
      BY <1>0 DEF Mid, Context
    <3> QED
      BY <2>6, <2>10, <3>1
  <2>16. Still(c, d)
    BY <2>4, <2>10 DEF Still
  <2> QED
    BY <2>14, <2>15, <2>16 DEF Sent
<1> QED
  BY <1>1, <1>2

\* The streams up to k rest.
Resting(d, k) == \A j \in Ids : j <= k => RestsAt(d, j)

\* More in flight: what is blocked remains so.
LEMMA StillBlocked ==
    ASSUME NEW c, NEW d, c.rtb \subseteq d.rtb, IsFiniteSet(d.rtb), Blocked(c)
    PROVE  Blocked(d)
<1>1. IsFiniteSet(c.rtb) /\ Cardinality(c.rtb) <= Cardinality(d.rtb)
  BY FS_Subset
<1>2. Cardinality(c.rtb) \in Nat /\ Cardinality(d.rtb) \in Nat
  BY <1>1, FS_CardinalityType
<1>3. MAX_BYTES_IN_FLIGHT \in Nat
  BY ExchangeAssumption
<1> QED
  BY <1>1, <1>2, <1>3 DEF Blocked

LEMMA AllSent ==
    ASSUME NEW c, NEW N, NEW A, NEW K, Full(c, N, A, K), FramesTyped(N),
           NEW d, d = AllWritten(c)
    PROVE  Sent(c, d, N, A, K) /\ \A j \in Ids : RestsAt(d, j)
<1> PICK m \in Nat : m = MaxStream
  BY ExchangeAssumption
<1> DEFINE f == CHOOSE f : WriteEq(f, c, m)
<1>1. WriteEq(f, c, m)
  BY WriteExists
<1>2. d = f[m]
  BY DEF AllWritten, WriteEq
<1> HIDE DEF f
<1>3. \A k \in 0..m : f[k] = IF k = 0 THEN c ELSE on_write_stream(f[k - 1], k)
  BY <1>1 DEF WriteEq
<1> DEFINE P == {k \in Nat : k <= m => Sent(c, f[k], N, A, K) /\ Resting(f[k], k)}
<1>0. \A j \in Ids : j \in Nat /\ 1 <= j /\ j <= m
  BY DEF Ids
<1>4. 0 \in P
  <2>1. f[0] = c
    BY <1>3
  <2>2. Resting(f[0], 0)
    BY <1>0 DEF Resting
  <2> QED
    BY <2>1, <2>2, SentNothing
<1>5. ASSUME NEW n \in Nat, n \in P PROVE n + 1 \in P
  <2> SUFFICES ASSUME n + 1 <= m PROVE Sent(c, f[n + 1], N, A, K) /\ Resting(f[n + 1], n + 1)
    OBVIOUS
  <2> PICK e : e = f[n]
    OBVIOUS
  <2> PICK g : g = f[n + 1]
    OBVIOUS
  <2> PICK i : i = n + 1
    OBVIOUS
  <2>1. n + 1 \in 0..m /\ n + 1 # 0 /\ (n + 1) - 1 = n
    OBVIOUS
  <2>2. g = on_write_stream(e, i)
    BY <1>3, <2>1
  <2>3. Sent(c, e, N, A, K) /\ Resting(e, n)
    <3>1. n <= m /\ n \in Nat
      OBVIOUS
    <3>2. n \in P => (n <= m => Sent(c, f[n], N, A, K) /\ Resting(f[n], n))
      BY ONLY n \in Nat
    <3> QED
      BY <1>5, <3>1, <3>2
  <2>4. PICK M : M = N \cup e.rtb
    OBVIOUS
  <2>5. Full(e, M, A, K) /\ FramesTyped(M)
    BY <2>3, <2>4 DEF Sent
  <2>6. i \in Ids
    BY <2>1 DEF Ids
  <2>7. /\ Sent(e, g, M, A, K) /\ RestsAt(g, i)
        /\ \A j \in Ids : j # i => g.strms[j] = e.strms[j] /\ g.streams[j] = e.streams[j]
    BY ONLY <2>2, <2>5, <2>6, StreamSent
  <2>8. Sent(c, g, N, A, K)
    <3>1. ConnInv(c)
      BY DEF Full
    <3> QED
      BY ONLY <2>3, <2>4, <2>7, <3>1, SentTwice
  <2>9. Resting(g, i)
    <3> SUFFICES ASSUME NEW j \in Ids, j <= i, j # i PROVE RestsAt(g, j)
      BY <2>7 DEF Resting
    <3>1. j <= n
      BY <1>0
    <3>2. RestsAt(e, j)
      BY <2>3, <3>1 DEF Resting
    <3>3. e.rtb \subseteq g.rtb /\ IsFiniteSet(g.rtb)
      BY <2>7 DEF Sent, Still, Full, Mid, SideInv, FramesInv
    <3>4. Blocked(e) => Blocked(g)
      BY <3>3, StillBlocked
    <3>5. g.strms[j] = e.strms[j] /\ g.streams[j] = e.streams[j]
      BY <2>7
    <3> QED
      BY <3>2, <3>4, <3>5 DEF RestsAt
  <2> QED
    BY <2>8, <2>9
<1> HIDE DEF P
<1>6. m \in P
  BY <1>4, <1>5, SetInduction
<1>7. Sent(c, d, N, A, K) /\ Resting(d, m)
  BY <1>2, <1>6 DEF P
<1> QED
  BY <1>0, <1>7 DEF Resting

\* on_write of Handler and Client.
LEMMA OnWriteSent ==
    ASSUME NEW c, NEW N, NEW A, NEW K, Full(c, N, A, K), FramesTyped(N),
           NEW d, d = on_write(c)
    PROVE  Sent(c, d, N, A, K) /\ Rests(d)
<1>1. CASE c.error \/ c.crashed # ""
  <2>1. d = c
    BY <1>1 DEF on_write
  <2>2. Rests(d)
    BY <1>1, <2>1 DEF Rests
  <2> QED
    BY <2>1, <2>2, SentNothing
<1>2. CASE ~(c.error \/ c.crashed # "")
  <2>1. PICK e : e = write_pkt(c)
    OBVIOUS
  <2>2. d = AllWritten(e)
    BY <1>2, <2>1 DEF on_write, AllWritten, WriteEq
  <2>3. Sent(c, e, N, A, K)
    BY <2>1, PktSent
  <2>4. PICK M : M = N \cup e.rtb
    OBVIOUS
  <2>5. Full(e, M, A, K) /\ FramesTyped(M)
    BY <2>3, <2>4 DEF Sent
  <2>6. Sent(e, d, M, A, K) /\ \A j \in Ids : RestsAt(d, j)
    BY ONLY <2>2, <2>5, AllSent
  <2>7. ConnInv(c)
    BY DEF Full
  <2>8. Sent(c, d, N, A, K)
    BY ONLY <2>3, <2>4, <2>6, <2>7, SentTwice
  <2> QED
    BY <2>6, <2>8 DEF Rests
<1> QED
  BY <1>1, <1>2

-----------------------------------------------------------------------------
(* The other side of the connection.                                       *)

\* Frames for this side were sent, and frames for the other side arrived.
Beyond(e, N, M, A, B) ==
    /\ N \subseteq M /\ A \subseteq B
    /\ \A f \in M : f \in N \/ f.to # Other(e.server)
    /\ \A f \in B : f \in A \/ f.to # Other(~e.server)

LEMMA PeerStream ==
    ASSUME NEW e, NEW N, NEW M, NEW A, NEW B, Beyond(e, N, M, A, B), NEW j \in Ids,
           StreamInv(e, N, A, j)
    PROVE  StreamInv(e, M, B, j)
<1>1. PICK s, a, F : s = e.strms[j] /\ a = e.streams[j] /\ F = FramesTo(N, Other(e.server), j)
  OBVIOUS
<1>2. FramesTo(M, Other(e.server), j) = F
  BY <1>1 DEF Beyond, FramesTo
<1>3. Sending(s, a, F, A, e.rtb, e.empty, j) => Sending(s, a, F, B, e.rtb, e.empty, j)
  BY DEF Sending, Beyond
<1>4. Through(F, A) => Through(F, B)
  BY DEF Through, Beyond
<1>5. OwnReset(e, N, j) => OwnReset(e, M, j)
  BY DEF OwnReset, Beyond
<1>6. Outbox(e, N, A, j) => Outbox(e, M, B, j)
  BY <1>1, <1>2, <1>3 DEF Outbox
<1>7. Done(e, N, A, j) => Done(e, M, B, j)
  BY <1>1, <1>2, <1>4, <1>5 DEF Done
<1>8. Resets(e, N, j) => Resets(e, M, j)
  BY <1>5 DEF Resets, Beyond
<1> QED
  BY <1>6, <1>7, <1>8 DEF StreamInv

LEMMA PeerSide ==
    ASSUME NEW e, NEW N, NEW M, NEW A, NEW B, Beyond(e, N, M, A, B), NEW K, NEW L,
           SideInv(e, N, A, K), e.server \/ K \subseteq L
    PROVE  SideInv(e, M, B, L)
<1>1. \A j \in Ids : StreamInv(e, M, B, j)
  BY PeerStream DEF SideInv
<1>2. FramesInv(e, N, K)
  BY DEF SideInv
<1>3. ASSUME NEW f, FrameInv(e, N, K, f) PROVE FrameInv(e, M, L, f)
  <2>1. OwnReset(e, N, f.id) => OwnReset(e, M, f.id)
    BY DEF OwnReset, Beyond
  <2> QED
    BY <1>3, <2>1 DEF FrameInv
<1>4. FramesInv(e, M, L)
  BY <1>2, <1>3 DEF FramesInv, Beyond
<1> QED
  BY <1>1, <1>4 DEF SideInv

LEMMA PeerInbox ==
    ASSUME NEW e, NEW N, NEW M, NEW A, NEW B, Beyond(e, N, M, A, B), e.server \in BOOLEAN,
           NEW j \in Ids, Inbox(e, A, j)
    PROVE  Inbox(e, B, j)
<1>1. FramesTo(B, Other(~e.server), j) = FramesTo(A, Other(~e.server), j)
  BY DEF Beyond, FramesTo
<1>2. e.server => FramesTo(B, "server", j) = FramesTo(A, "server", j)
  BY <1>1 DEF Other
<1> QED
  BY <1>1, <1>2 DEF Inbox

\* All of a response has arrived: the client has read it.
Among(F, A, G) == \A f : f \in G <=> f \in F /\ f \in A

LEMMA AllRead ==
    ASSUME NEW s, NEW F, NEW A, NEW G, Wire(F), Among(F, A, G), Receiving(s, G),
           Through(F, A), ~s.recv_rst, ~s.stop_sending
    PROVE  s.shut_rd /\ s.rx = s.last_rx
<1>1. PICK f \in F : /\ f.fin /\ f \in A
                     /\ \A k \in 0..1 : k < f.off + f.len =>
                          \E g \in F : g.len = 1 /\ g.off = k /\ g \in A
  BY DEF Through
<1>2. f \in G
  BY <1>1 DEF Among
<1>3. s.shut_rd
  BY <1>1, <1>2 DEF Receiving
<1>4. PICK h \in G : h.fin /\ h.off + h.len = s.last_rx
  BY <1>3 DEF Receiving
<1>5. h = f
  BY <1>1, <1>4 DEF Wire, Among
<1>6. PICK x, y : x = s.rx /\ y = s.last_rx
  OBVIOUS
<1>7. x \in 0..2 /\ y \in 0..2 /\ x <= y /\ y = f.off + f.len
  BY <1>4, <1>5, <1>6 DEF Receiving
<1>8. ~(x < y)
  <2> SUFFICES ASSUME x < y PROVE FALSE
    OBVIOUS
  <2>1. x \in 0..1 /\ x < f.off + f.len
    BY <1>7
  <2>2. PICK g \in F : g.len = 1 /\ g.off = x /\ g \in A
    BY <1>1, <2>1
  <2>3. g \in G
    BY <2>2 DEF Among
  <2>4. g.off < s.rx \/ <<g.off, g.what>> \in s.rob
    BY <2>2, <2>3 DEF Receiving
  <2>5. ~(g.off < s.rx)
    BY <1>6, <1>7, <2>2
  <2>6. PICK u : u = <<g.off, g.what>>
    OBVIOUS
  <2>7. u \in s.rob /\ u[1] = x
    BY <2>2, <2>4, <2>5, <2>6
  <2>8. u[1] > s.rx
    BY <2>7 DEF Receiving
  <2> QED
    BY <1>6, <1>7, <2>7, <2>8
<1> QED
  BY <1>3, <1>6, <1>7, <1>8

\* Both sides, b of the client and e of the server, with what was sent and what
\* has arrived.
Both(b, e, N, A, K, L) ==
    /\ ~b.server /\ e.server /\ A \subseteq N
    /\ SideInv(b, N, A, K) /\ SideInv(e, N, A, L)
    /\ \A j \in Ids : /\ Inbox(b, A, j) /\ Counted(b, j, 0)
                      /\ Inbox(e, A, j) /\ Counted(e, j, 0)
    /\ \A to \in Sides, j \in Ids : Wire(FramesTo(N, to, j))

LEMMA ResponseRead ==
    ASSUME NEW b, NEW e, NEW N, NEW A, NEW K, NEW L, Both(b, e, N, A, K, L), NEW i \in Ids,
           ~b.error, ~OwnReset(b, N, i), ~OwnReset(e, N, i),
           Through(FramesTo(N, "client", i), A), b.strms[i].open
    PROVE  b.strms[i].shut_rd /\ b.strms[i].rx = b.strms[i].last_rx
<1>a. PICK s : s = b.strms[i]
  OBVIOUS
<1>b. PICK F : F = FramesTo(N, "client", i)
  OBVIOUS
<1>c. PICK G : G = FramesTo(A, "client", i)
  OBVIOUS
<1>1. s = b.strms[i] /\ F = FramesTo(N, "client", i) /\ G = FramesTo(A, "client", i)
  BY <1>a, <1>b, <1>c
<1>2. Wire(F)
  BY <1>1 DEF Both, Sides
<1>3. Among(F, A, G)
  BY <1>1 DEF Both, FramesTo, Among
<1>4. Other(~b.server) = "client" /\ Other(e.server) = "client"
  BY DEF Both, Other
<1>5. Receiving(s, G)
  BY <1>1, <1>4 DEF Both, Inbox
<1>6. StreamInv(b, N, A, i) /\ FramesInv(e, N, L)
  BY DEF Both, SideInv
<1>7. Resets(b, N, i)
  BY <1>6 DEF StreamInv
<1>8. ~s.stop_sending
  BY <1>1, <1>7 DEF Resets, Both
<1>9. ~s.recv_rst
  <2> SUFFICES ASSUME s.recv_rst PROVE FALSE
    OBVIOUS
  <2>1. PICK f \in N : f.type = "RST" /\ f.id = i /\ f.to = "client"
    BY <1>1, <1>4, <1>7 DEF Resets
  <2>2. FrameInv(e, N, L, f)
    BY <1>4, <1>6, <2>1 DEF FramesInv
  <2> QED
    BY <2>1, <2>2 DEF FrameInv
<1>10. Through(F, A)
  BY <1>1
<1>11. s.shut_rd /\ s.rx = s.last_rx
  BY ONLY <1>2, <1>3, <1>5, <1>8, <1>9, <1>10, AllRead
<1> QED
  BY <1>1, <1>11

\* A stream that nothing is in flight of and that nothing holds back.
Quieted(c, i) ==
    /\ ~c.error /\ c.crashed = "" /\ c.strms[i].open
    /\ ~\E f \in c.rtb : f.type = "STREAM" /\ f.id = i
    /\ ~(c.streams[i].idx < Len(c.streams[i].streambuf) /\ Blocked(c))

\* All that was to be sent is sent, and has arrived.
SentAll(c, F, A, i) ==
    /\ c.streams[i].idx = Len(c.streams[i].streambuf)
    /\ \A f \in F : f \in A
    /\ \A k \in 0..1 : k < c.strms[i].tx => \E f \in F : f.len = 1 /\ f.off = k
    /\ Through(F, A)

LEMMA QuietedSent ==
    ASSUME NEW c, NEW N, NEW A, NEW i \in Ids, NEW F, F = FramesTo(N, Other(c.server), i),
           Quieted(c, i), Outbox(c, N, A, i), Answering(c, i), ~c.strms[i].sent_rst,
           i \notin c.empty, RestsAt(c, i)
    PROVE  SentAll(c, F, A, i)
<1>1. PICK a, s : a = c.streams[i] /\ s = c.strms[i]
  OBVIOUS
<1>2. Sending(s, a, F, A, c.rtb, c.empty, i) /\ Buffers(s, a)
  BY <1>1 DEF Outbox, Answering
<1>3. \A f \in F : f \in A
  BY <1>1, <1>2 DEF Sending, Quieted, FramesTo
<1>4. ~(a.idx < Len(a.streambuf))
  BY <1>1 DEF Quieted, RestsAt
<1>5. PICK n \in Nat : n = Len(a.streambuf)
  BY <1>2 DEF Buffers, Bufs
<1>6. a.idx = Len(a.streambuf)
  BY <1>2, <1>4, <1>5 DEF Buffers
<1>7. s.shut_wr
  BY <1>2, <1>6 DEF Sending
<1>8. PICK f \in F : f.fin
  BY <1>1, <1>2, <1>7 DEF Sending
<1>9. f.off + f.len = s.tx
  BY <1>2, <1>8 DEF Sending
<1>10. \A k \in 0..1 : k < s.tx => \E g \in F : g.len = 1 /\ g.off = k
  BY <1>2 DEF Sending
<1>11. Through(F, A)
  <2> SUFFICES ASSUME NEW k \in 0..1, k < f.off + f.len
               PROVE  \E g \in F : g.len = 1 /\ g.off = k /\ g \in A
    BY <1>3, <1>8 DEF Through
  <2>1. PICK g \in F : g.len = 1 /\ g.off = k
    BY <1>9, <1>10
  <2> QED
    BY <1>3, <2>1
<1> QED
  BY <1>1, <1>3, <1>6, <1>10, <1>11 DEF SentAll

\* A request that is sent is as long as it should be.
LEMMA RequestTx ==
    ASSUME NEW c, NEW N, NEW A, NEW i \in Ids, ~c.server, c.strms[i].open, Outbox(c, N, A, i),
           Request(c, i), c.streams[i].idx = Len(c.streams[i].streambuf)
    PROVE  c.strms[i].tx = page.req
<1>1. PICK a, s : a = c.streams[i] /\ s = c.strms[i]
  OBVIOUS
<1>2. PICK bufs \in Bufs : bufs = a.streambuf
  BY <1>1 DEF Outbox, Buffers
<1>3. PICK n \in Nat : n = Len(bufs)
  BY DEF Bufs
<1>4. PICK t \in Nat : t = a.tx_offset
  BY <1>1 DEF Outbox, Buffers
<1>5. t + n <= 2 /\ a.idx = n /\ s.tx = t + Units(bufs, n)
  BY <1>1, <1>2, <1>3, <1>4 DEF Outbox, Buffers
<1>6. \A k \in 1..n : bufs[k].len = 1
  <2> SUFFICES ASSUME NEW k \in 1..n PROVE bufs[k].len = 1
    OBVIOUS
  <2>1. bufs[k] \in [len : {0, 1}, what : Whats]
    BY <1>3, ElementOfSeq DEF Bufs
  <2>2. bufs[k].len = 0 => i \in c.empty
    BY <1>1, <1>2, <1>3 DEF Outbox, Sending
  <2>3. i \notin c.empty
    BY DEF Request
  <2> QED
    BY <2>1, <2>2, <2>3
<1>7. Units(bufs, n) = n
  <2>1. n \in 0..2
    BY <1>5
  <2>2. CASE n = 0
    BY <2>2 DEF Units
  <2>3. CASE n = 1
    BY <1>6, <2>3 DEF Units
  <2>4. CASE n = 2
    <3>1. 1 \in 1..n /\ 2 \in 1..n
      BY <2>4
    <3> QED
      BY <1>6, <2>4, <3>1 DEF Units
  <2> QED
    BY <2>1, <2>2, <2>3, <2>4
<1>8. t + n = page.req
  BY <1>1, <1>2, <1>3, <1>4 DEF Request
<1> QED
  BY <1>1, <1>5, <1>7, <1>8

\* A request that has arrived is answered.
Came(G, n) == \A k \in 0..1 : k < n => \E g \in G : g.len = 1 /\ g.off = k

LEMMA RequestAnswered ==
    ASSUME NEW e, NEW N, NEW A, NEW i \in Ids, NEW G, page.req \in 1..2,
           e.server, ~e.error, StreamInv(e, N, A, i), Inbox(e, A, i), Counted(e, i, 0),
           e.answers[i] \in {0, 1}, e.streams[i].nread \in Nat, G = FramesTo(A, "server", i),
           Came(G, page.req)
    PROVE  e.answers[i] = 1
<1> SUFFICES ASSUME e.answers[i] = 0 PROVE FALSE
  OBVIOUS
<1>1. PICK n \in 1..2 : n = page.req
  OBVIOUS
<1>2. G # {}
  <2>1. 0 \in 0..1 /\ 0 < n
    OBVIOUS
  <2>2. \E g \in G : g.len = 1 /\ g.off = 0
    BY <1>1, <2>1 DEF Came
  <2> QED
    BY <2>2
<1>3. ~Free(e.idtr, i)
  BY <1>2 DEF Inbox
<1>4. Response(e, i)
  BY DEF StreamInv
<1>5. e.strms[i].open
  BY <1>3, <1>4 DEF Response
<1>6. PICK s : s = e.strms[i]
  OBVIOUS
<1>7. Other(~e.server) = "server"
  BY DEF Other
<1>8. Receiving(s, G)
  BY <1>5, <1>6, <1>7 DEF Inbox
<1>9. Outbox(e, N, A, i)
  BY <1>5 DEF StreamInv
<1>10. ~s.stop_sending
  BY <1>6, <1>9 DEF Outbox, Unstarted
<1>11. PICK x \in 0..2 : x = s.rx
  BY <1>8 DEF Receiving
<1>12. ~(x < n)
  <2> SUFFICES ASSUME x < n PROVE FALSE
    OBVIOUS
  <2>1. x \in 0..1
    OBVIOUS
  <2>2. PICK g \in G : g.len = 1 /\ g.off = x
    BY <1>1, <2>1 DEF Came
  <2>3. g.off < s.rx \/ <<g.off, g.what>> \in s.rob
    BY <1>8, <1>10, <2>2 DEF Receiving
  <2>4. ~(g.off < s.rx)
    BY <1>11, <2>2
  <2>5. PICK u : u = <<g.off, g.what>>
    OBVIOUS
  <2>6. u \in s.rob /\ u[1] = x
    BY <2>2, <2>3, <2>4, <2>5
  <2>7. u[1] > s.rx
    BY <1>8, <2>6 DEF Receiving
  <2> QED
    BY <1>11, <2>6, <2>7
<1>13. PICK m \in Nat : m = e.streams[i].nread
  OBVIOUS
<1>14. m + 0 = x /\ (m >= n => e.streams[i].completed)
  BY <1>1, <1>5, <1>6, <1>11, <1>13 DEF Counted
<1>15. m >= n
  BY <1>12, <1>14
<1>16. ~e.streams[i].completed
  BY <1>4 DEF Response
<1> QED
  BY <1>14, <1>15, <1>16

\* An exchange with nothing in flight that nothing holds back is over.
LEMMA NeverSilent ==
    ASSUME NEW b, NEW e, NEW N, NEW A, NEW K, NEW L, Both(b, e, N, A, K, L), NEW i \in Ids,
           page \in Pages, ConnInv(e), Rests(b), Rests(e), Quieted(b, i),
           ~e.error, e.crashed = "", e.strms[i].open => Quieted(e, i),
           ~OwnReset(b, N, i), ~OwnReset(e, N, i), i \notin e.empty
    PROVE  b.strms[i].shut_rd /\ b.strms[i].rx = b.strms[i].last_rx
<1>0. /\ page.req \in 1..2 /\ ~b.server /\ e.server /\ ~b.error /\ b.strms[i].open
      /\ A \subseteq N
  BY ExchangeAssumption DEF Both, Quieted
<1>1. Other(b.server) = "server" /\ Other(e.server) = "client"
  BY <1>0 DEF Other
<1>2. StreamInv(b, N, A, i) /\ StreamInv(e, N, A, i)
  BY DEF Both, SideInv
<1>3. RestsAt(b, i) /\ RestsAt(e, i)
  BY <1>0 DEF Rests, Quieted
<1>4. e.answers[i] \in {0, 1} /\ e.streams[i].nread \in Nat
  BY <1>0 DEF ConnInv, ServerInv, Answers
<1>5. e.answers[i] = 1
  <2>1. Outbox(b, N, A, i) /\ Resets(b, N, i) /\ Request(b, i)
    BY <1>0, <1>2 DEF StreamInv
  <2>2. Answering(b, i) /\ ~b.strms[i].sent_rst /\ i \notin b.empty
    BY <1>0, <2>1 DEF Answering, Resets, Request
  <2>3. PICK F : F = FramesTo(N, Other(b.server), i)
    OBVIOUS
  <2>4. SentAll(b, F, A, i)
    BY ONLY <1>3, <2>1, <2>2, <2>3, i \in Ids, Quieted(b, i), QuietedSent
  <2>5. b.streams[i].idx = Len(b.streams[i].streambuf)
    BY <2>4 DEF SentAll
  <2>6. b.strms[i].tx = page.req
    BY <1>0, <2>1, <2>5, RequestTx
  <2>7. PICK G : G = FramesTo(A, "server", i)
    OBVIOUS
  <2>8. \A f \in F : f \in G
    BY <1>1, <2>3, <2>4, <2>7 DEF SentAll, FramesTo
  <2>9. Came(G, page.req)
    BY <2>4, <2>6, <2>8 DEF SentAll, Came
  <2>10. Inbox(e, A, i) /\ Counted(e, i, 0)
    BY DEF Both
  <2> QED
    BY ONLY <1>0, <1>2, <1>4, <2>7, <2>9, <2>10, ~e.error, i \in Ids, RequestAnswered
<1>6. Through(FramesTo(N, "client", i), A)
  <2>1. CASE e.strms[i].open
    <3>1. Outbox(e, N, A, i) /\ Resets(e, N, i)
      BY <1>2, <2>1 DEF StreamInv
    <3>2. Answering(e, i) /\ ~e.strms[i].sent_rst
      <4>1. Answering(e, i)
        <5>1. PICK x \in {0, 1} : x = e.answers[i]
          BY <1>4
        <5>2. x # 0
          BY ONLY <1>5, <5>1
        <5> QED
          BY <5>1, <5>2 DEF Answering
      <4>2. ~e.strms[i].sent_rst
        BY <3>1 DEF Resets
      <4> QED
        BY <4>1, <4>2
    <3>3. PICK F : F = FramesTo(N, Other(e.server), i)
      OBVIOUS
    <3>4. Quieted(e, i) /\ i \notin e.empty
      BY <2>1
    <3>5. SentAll(e, F, A, i)
      BY ONLY <1>3, <3>1, <3>2, <3>3, <3>4, i \in Ids, QuietedSent
    <3> QED
      BY <1>1, <3>3, <3>5 DEF SentAll
  <2>2. CASE ~e.strms[i].open
    <3>1. Done(e, N, A, i)
      BY <1>2, <2>2 DEF StreamInv
    <3> QED
      BY <1>0, <1>1, <1>5, <3>1 DEF Done
  <2> QED
    BY <2>1, <2>2
<1> QED
  BY <1>0, <1>6, ResponseRead

-----------------------------------------------------------------------------
(* The second invariant.                                                   *)

\* What both sides are in a state of it.
LEMMA Inv2Both ==
    ASSUME Inv, Inv2
    PROVE  Both(ep["client"], ep["server"], net, got, Known("client"), Known("server"))
<1>1. "client" \in Sides /\ "server" \in Sides
  BY DEF Sides
<1>2. ~ep["client"].server /\ ep["server"].server /\ got \subseteq net
  BY <1>1 DEF Inv
<1> QED
  BY <1>1, <1>2 DEF Both, Inv2

\* What is not reset in a state is not reset by either side.
LEMMA NotReset ==
    ASSUME NEW i \in Ids, ~Reset(i)
    PROVE  ~OwnReset(ep["client"], net, i) /\ ~OwnReset(ep["server"], net, i)
BY DEF Reset, OwnReset, Sides

LEMMA NoErrorInv2 ==
    ASSUME Inv, Inv2
    PROVE  AssertsHold /\ ErrorsOnlyAfterReset /\ CloseMeansDelivered /\ NotSilent
<1>0. "client" \in Sides /\ "server" \in Sides
  BY DEF Sides
<1>1. AssertsHold
  <2>1. ep["server"].crashed # "assert"
    BY <1>0 DEF Inv2, SideInv
  <2>2. ASSUME NEW s \in Sides, NEW i \in Ids
        PROVE  ep[s].streams[i].idx \in 0..Len(ep[s].streams[i].streambuf)
    <3>1. PICK c : c = ep[s]
      OBVIOUS
    <3>2. StreamInv(c, net, got, i)
      BY <3>1 DEF Inv2, SideInv
    <3>3. CASE c.strms[i].open
      BY <3>1, <3>2, <3>3 DEF StreamInv, Outbox, Buffers
    <3>4. CASE ~c.strms[i].open
      <4>1. c.streams[i] = NoStream
        BY <3>2, <3>4 DEF StreamInv, Gone
      <4>2. c.streams[i].idx = 0 /\ c.streams[i].streambuf = << >>
        BY <4>1 DEF NoStream
      <4> QED
        BY <3>1, <4>2
    <3> QED
      BY <3>3, <3>4
  <2> QED
    BY <2>1, <2>2 DEF AssertsHold
<1>2. ErrorsOnlyAfterReset /\ CloseMeansDelivered
  BY DEF Inv2
<1>3. NotSilent
  <2> SUFFICES ASSUME Alive, NEW i \in Ids, ep["client"].strms[i].open, ~Complete(i), ~Reset(i),
                      i \notin ep["server"].empty,
                      ~\E s \in Sides :
                        \/ \E f \in ep[s].rtb : f.type = "STREAM" /\ f.id = i
                        \/ /\ ep[s].streams[i].idx < Len(ep[s].streams[i].streambuf)
                           /\ Blocked(ep[s])
               PROVE  FALSE
    BY DEF NotSilent
  <2>1. PICK b, e : b = ep["client"] /\ e = ep["server"]
    OBVIOUS
  <2>2. Quieted(b, i) /\ (e.strms[i].open => Quieted(e, i))
    BY <1>0, <2>1 DEF Quieted, Alive
  <2>3. ~e.error /\ e.crashed = "" /\ i \notin e.empty /\ b.strms[i].open
    BY <1>0, <2>1 DEF Alive
  <2>4. PICK K, L : K = Known("client") /\ L = Known("server")
    OBVIOUS
  <2>5. Both(b, e, net, got, K, L)
    BY <2>1, <2>4, Inv2Both
  <2>6. Rests(b) /\ Rests(e) /\ ConnInv(e) /\ page \in Pages
    BY <1>0, <2>1 DEF Inv, Inv2
  <2>7. ~OwnReset(b, net, i) /\ ~OwnReset(e, net, i)
    BY <2>1, NotReset
  <2>8. b.strms[i].shut_rd /\ b.strms[i].rx = b.strms[i].last_rx
    BY <2>2, <2>3, <2>5, <2>6, <2>7, NeverSilent
  <2> QED
    BY <2>1, <2>8 DEF Complete
<1> QED
  BY <1>1, <1>2, <1>3

\* The invariant at first.
LEMMA Inv2Init == Init => Inv2
<1> SUFFICES ASSUME Init PROVE Inv2
  OBVIOUS
<1>0. /\ Inv /\ page \in Pages /\ net = {} /\ got = {} /\ DOMAIN ep = Sides
      /\ "client" \in Sides /\ "server" \in Sides
  BY InvInit DEF Init, Sides
<1>1. page.limit \in Nat /\ page.req \in Nat /\ MaxStream \in Nat
  BY <1>0, ExchangeAssumption
<1>2. \A to \in Sides, j \in Ids : FramesTo(net, to, j) = {} /\ FramesTo(got, to, j) = {}
  BY <1>0 DEF FramesTo
<1>3. ASSUME NEW s \in Sides, NEW K
      PROVE  /\ SideInv(ep[s], net, got, K) /\ Rests(ep[s])
             /\ \A j \in Ids : Inbox(ep[s], got, j) /\ Counted(ep[s], j, 0)
             /\ ep[s].next = 1 /\ ep[s].max_local = page.limit /\ ep[s].max_remote = page.limit
             /\ ep[s].answers = [i \in Ids |-> 0] /\ ~ep[s].error
  <2>1. PICK b \in BOOLEAN : b = (s = "server")
    OBVIOUS
  <2>2. PICK c : c = conn_new(b)
    OBVIOUS
  <2>3. ep[s] = c
    BY <2>1, <2>2 DEF Init
  <2>4. /\ DOMAIN c = ConnFields
        /\ c.server = b /\ c.rtb = {} /\ c.frq = {}
        /\ c.max_local = page.limit /\ c.max_remote = page.limit
        /\ c.strms = [i \in Ids |-> NoStrm] /\ c.streams = [i \in Ids |-> NoStream]
        /\ c.answers = [i \in Ids |-> 0] /\ c.idtr = idtr_open(idtr_init, 0)
        /\ c.next = 1 /\ c.empty = {} /\ c.reset = {} /\ c.error = FALSE /\ c.crashed = ""
    BY <2>2 DEF conn_new, ConnFields
  <2>5. ASSUME NEW j \in Ids PROVE Free(c.idtr, j)
    <3>1. PICK t : t = idtr_init
      OBVIOUS
    <3>2. PICK m \in Nat : m = UINT64_MAX /\ 0 < m /\ MaxStream < m
      BY <1>1 DEF UINT64_MAX
    <3>3. t = << <<0, m>> >>
      BY <3>1, <3>2 DEF idtr_init
    <3>4. t \in Seq(Nat \X Nat) /\ DOMAIN t = {1} /\ t[1][1] = 0 /\ t[1][2] = m
      BY <3>3
    <3>5. Tracker(t)
      BY <3>2, <3>4 DEF Tracker
    <3>6. PICK z \in Nat : z = 0
      OBVIOUS
    <3>7. \E k \in DOMAIN t : t[k][1] <= z /\ z < t[k][2]
      BY <3>2, <3>4, <3>6
    <3>8. Free(t, z)
      BY ONLY <3>5, <3>7, z \in Nat, FreeInGap
    <3>9. PICK x \in Nat : x = j /\ x # z /\ x < m
      BY <1>1, <3>2, <3>6 DEF Ids
    <3>10. \E k \in DOMAIN t : t[k][1] <= x /\ x < t[k][2]
      BY <3>4, <3>9
    <3>11. Free(t, x)
      BY ONLY <3>5, <3>10, x \in Nat, FreeInGap
    <3>12. PICK u : u = idtr_open(t, z)
      OBVIOUS
    <3>13. x # z
      BY <3>9
    <3>14. Free(u, x)
      BY ONLY <3>5, <3>8, <3>11, <3>12, <3>13, x \in Nat, z \in Nat, IdtrRest
    <3> QED
      BY <2>4, <3>1, <3>6, <3>9, <3>12, <3>14
  <2>6. ASSUME NEW j \in Ids
        PROVE  /\ c.strms[j] = NoStrm /\ c.streams[j] = NoStream /\ c.answers[j] = 0
               /\ ~c.strms[j].open /\ c.streams[j].completed = FALSE
    <3>1. c.strms[j] = NoStrm /\ c.streams[j] = NoStream /\ c.answers[j] = 0
      BY <2>4
    <3>2. NoStrm.open = FALSE /\ NoStream.completed = FALSE
      BY DEF NoStrm, NoStream
    <3> QED
      BY <3>1, <3>2
  <2>7. ASSUME NEW j \in Ids PROVE StreamInv(c, net, got, j)
    <3>1. Gone(c, j)
      BY <2>6 DEF Gone
    <3>3. Done(c, net, got, j)
      <4>0. c.answers[j] = 0
        BY <2>6
      <4>1. c.answers[j] # 1
        BY ONLY <4>0
      <4> QED
        BY <4>1 DEF Done
    <3>2. Response(c, j) /\ Request(c, j)
      BY <2>4, <2>5, <2>6 DEF Response, Request
    <3> QED
      BY <2>6, <3>1, <3>2, <3>3 DEF StreamInv
  <2>8. FramesInv(c, net, K)
    BY <1>0, <2>4, FS_EmptySet DEF FramesInv
  <2>9. SideInv(c, net, got, K)
    BY <2>4, <2>7, <2>8 DEF SideInv
  <2>10. Rests(c)
    BY <2>6 DEF Rests, RestsAt
  <2>11. \A j \in Ids : Inbox(c, got, j) /\ Counted(c, j, 0)
    BY <1>0, <1>2, <2>6 DEF Inbox, Counted
  <2> QED
    BY <2>3, <2>4, <2>9, <2>10, <2>11
<1>4. \A to \in Sides, j \in Ids : Wire(FramesTo(net, to, j))
  BY <1>2 DEF Wire
<1>5. Known("client") = {}
  BY <1>0, <1>3 DEF Known
<1>6. ErrorsOnlyAfterReset
  BY <1>3 DEF ErrorsOnlyAfterReset
<1>7. CloseMeansDelivered
  <2>1. \A i \in Ids : ~(ep["server"].answers[i] > 0)
    BY <1>0, <1>3
  <2> QED
    BY <2>1 DEF CloseMeansDelivered
<1>8. /\ ep["client"].next \in Nat \ {0} /\ ep["client"].next <= ep["client"].max_local + 1
      /\ ep["client"].max_local <= ep["server"].max_remote
  BY <1>0, <1>1, <1>3
<1> QED
  BY <1>3, <1>4, <1>5, <1>6, <1>7, <1>8 DEF Inv2

\* A side is what it was as long as the page is.
LEMMA SamePageSide ==
    ASSUME NEW e, NEW N, NEW A, NEW K, SideInv(e, N, A, K), UNCHANGED page
    PROVE  (SideInv(e, N, A, K))'
BY DEF SideInv, StreamInv, Request

LEMMA SamePageCounted ==
    ASSUME NEW e, NEW j, NEW k, Counted(e, j, k), UNCHANGED page
    PROVE  (Counted(e, j, k))'
BY DEF Counted

\* The server has closed the stream, and the client is alive.
LEMMA ClosedRead ==
    ASSUME NEW b, NEW e, NEW N, NEW A, NEW K, NEW L, Both(b, e, N, A, K, L), NEW i \in Ids,
           ConnInv(e), ~b.error, e.answers[i] > 0, ~e.strms[i].open, i \notin e.empty,
           ~OwnReset(b, N, i), ~OwnReset(e, N, i), b.strms[i].open
    PROVE  b.strms[i].shut_rd /\ b.strms[i].rx = b.strms[i].last_rx
<1>0. e.server
  BY DEF Both
<1>1. Other(e.server) = "client"
  BY <1>0 DEF Other
<1>2. e.answers[i] \in {0, 1}
  BY <1>0 DEF ConnInv, ServerInv, Answers
<1>3. e.answers[i] > 0
  OBVIOUS
<1>4. e.answers[i] = 1
  BY ONLY <1>2, <1>3
<1>5. Done(e, N, A, i)
  BY DEF Both, SideInv, StreamInv
<1>6. Through(FramesTo(N, "client", i), A)
  BY <1>0, <1>1, <1>4, <1>5 DEF Done
<1> QED
  BY <1>6, ResponseRead

\* A step of side s that has come to c before it writes.
Comes(s, c, A) ==
    /\ Full(c, net, A, Known(s)) /\ c.server = (s = "server")
    /\ c.max_remote = ep[s].max_remote
    /\ \A t \in Sides : ~ep[t].error
    /\ c.error => c = Error(ep[s]) /\ \E f \in net : f.type = "RST"
    /\ got \subseteq A /\ \A f \in A : f \in got \/ f.to = s

\* What it is about: d is the side after it, e the other one.
Knows(t, d, L) == t = "client" => \A j \in Ids : d.answers[j] = 1 => j \in L

LEMMA NetTyped ==
    ASSUME Inv
    PROVE  FramesTyped(net)
BY DEF Inv, FramesTyped, OfSide, OfStream, OfLimit

LEMMA TurnSides ==
    ASSUME Inv, Inv2, NEW s \in Sides, NEW c, NEW A, Comes(s, c, A),
           NEW d, d = on_write(c), NEW M, Joined(net, d.rtb, M), NEW t \in Sides, t # s,
           NEW e, e = ep[t], NEW L, Knows(t, d, L)
    PROVE  /\ Full(d, M, A, Known(s)) /\ Rests(d) /\ Still(c, d)
           /\ SideInv(e, M, A, L) /\ Rests(e)
           /\ \A j \in Ids : Inbox(e, A, j) /\ Counted(e, j, 0)
<1>1. PICK K : K = Known(s)
  OBVIOUS
<1>2. Full(c, net, A, K) /\ FramesTyped(net)
  BY <1>1, NetTyped DEF Comes
<1>3. Sent(c, d, net, A, K) /\ Rests(d)
  BY <1>2, OnWriteSent
<1>4. Full(d, M, A, K) /\ Still(c, d)
  BY <1>3 DEF Sent, Joined
<1>5. s \in {"client", "server"} /\ t \in {"client", "server"} /\ t # s
  BY DEF Sides
<1>6. d.server = (s = "server") /\ e.server = (t = "server") /\ ConnInv(d)
  BY <1>4 DEF Comes, Still, Inv, Full
<1>7. Other(d.server) = t /\ Other(e.server) = s /\ Other(~e.server) = t
  <2>1. CASE s = "client"
    <3>1. t = "server" /\ d.server = FALSE /\ e.server = TRUE
      BY <1>5, <1>6, <2>1
    <3> QED
      BY <2>1, <3>1 DEF Other
  <2>2. CASE s = "server"
    <3>1. t = "client" /\ d.server = TRUE /\ e.server = FALSE
      BY <1>5, <1>6, <2>2
    <3> QED
      BY <2>2, <3>1 DEF Other
  <2> QED
    BY <1>5, <2>1, <2>2
<1>8. Beyond(e, net, M, got, A)
  <2>1. \A f \in d.rtb : f.to = t
    BY <1>6, <1>7 DEF ConnInv, OfSide, OfStream, OfLimit
  <2>2. \A f \in A : f \in got \/ f.to # t
    BY <1>5 DEF Comes
  <2>3. got \subseteq A
    BY DEF Comes
  <2> QED
    BY <1>5, <1>7, <2>1, <2>2, <2>3 DEF Beyond, Joined
<1>9. SideInv(e, net, got, Known(t)) /\ Rests(e)
  BY DEF Inv2
<1>10. e.server \/ Known(t) \subseteq L
  <2>1. CASE t = "server"
    BY <1>6, <2>1
  <2>2. CASE t = "client"
    <3>1. d.server /\ Context(d, M, A, K)
      BY <1>4, <1>5, <1>6, <2>2 DEF Full, Mid
    <3>2. \A j \in Ids : ep["server"].answers[j] = 1 => d.answers[j] = 1
      BY <3>1 DEF Context
    <3> QED
      BY <2>2, <3>2 DEF Known, Knows
  <2> QED
    BY <1>5, <2>1, <2>2
<1>11. SideInv(e, M, A, L)
  BY <1>8, <1>9, <1>10, PeerSide
<1>12. ASSUME NEW j \in Ids PROVE Inbox(e, A, j) /\ Counted(e, j, 0)
  <2>1. Inbox(e, got, j) /\ Counted(e, j, 0) /\ e.server \in BOOLEAN
    BY <1>6 DEF Inv2
  <2> QED
    BY <1>8, <2>1, PeerInbox
<1> QED
  BY <1>1, <1>3, <1>4, <1>9, <1>11, <1>12

LEMMA TurnInv2 ==
    ASSUME Inv, Inv2, NEW s \in Sides, NEW c, NEW A, Comes(s, c, A), Turn(s, c), got' = A
    PROVE  Inv2'
<1>0. /\ s \in {"client", "server"} /\ "client" \in Sides /\ "server" \in Sides
      /\ DOMAIN ep = Sides
  BY DEF Sides, Inv
<1>1. PICK d : d = on_write(c)
  OBVIOUS
<1>2. PICK t \in Sides : t # s /\ \A u \in Sides : u = s \/ u = t
  <2>1. \A u \in Sides : u = "client" \/ u = "server"
    BY DEF Sides
  <2>2. CASE s = "client"
    BY <1>0, <2>1, <2>2
  <2>3. CASE s = "server"
    BY <1>0, <2>1, <2>3
  <2> QED
    BY <1>0, <2>2, <2>3
<1>3. PICK e, M : e = ep[t] /\ M = net \cup d.rtb
  OBVIOUS
<1>4. page' = page /\ ep'[s] = d /\ ep'[t] = e /\ net' = M /\ got' = A
  BY <1>0, <1>1, <1>2, <1>3 DEF Turn
<1>5. PICK L : L = Known(t)'
  OBVIOUS
<1>6. t = "client" => s = "server"
  BY <1>0, <1>2
<1>7. t = "client" => L = {j \in Ids : d.answers[j] = 1}
  BY <1>4, <1>5, <1>6 DEF Known
<1>8. /\ Full(d, M, A, Known(s)) /\ Rests(d) /\ Still(c, d)
      /\ SideInv(e, M, A, L) /\ Rests(e)
      /\ \A j \in Ids : Inbox(e, A, j) /\ Counted(e, j, 0)
  <2>1. e = ep[t] /\ Joined(net, d.rtb, M) /\ t # s /\ Knows(t, d, L)
    BY <1>2, <1>3, <1>7 DEF Joined, Knows
  <2> QED
    BY <1>1, <2>1, TurnSides
<1>9. PICK K : K = Known(s)
  OBVIOUS
<1>10. K = Known(s)'
  <2>1. CASE s = "client"
    <3>1. t = "server"
      BY <1>0, <1>2, <2>1
    <3>2. ep'["server"] = ep["server"]
      BY <1>3, <1>4, <3>1
    <3> QED
      BY <1>9, <2>1, <3>2 DEF Known
  <2>2. CASE s = "server"
    <3>1. t = "client"
      BY <1>0, <1>2, <2>2
    <3>2. ep'["client"] = ep["client"]
      BY <1>3, <1>4, <3>1
    <3> QED
      BY <1>9, <2>2, <3>2 DEF Known
  <2> QED
    BY <1>0, <2>1, <2>2
<1>11. Full(d, M, A, K)
  BY <1>8, <1>9
<1>12. /\ SideInv(d, M, A, K) /\ Context(d, M, A, K) /\ ConnInv(d)
       /\ \A j \in Ids : Inbox(d, A, j) /\ Counted(d, j, 0)
  BY <1>11 DEF Full, Mid
<1>13. ASSUME NEW u \in Sides
       PROVE  /\ (SideInv(ep[u], net, got, Known(u)))' /\ (Rests(ep[u]))'
              /\ \A j \in Ids : (Inbox(ep[u], got, j))' /\ (Counted(ep[u], j, 0))'
  <2>1. PICK x, Q : x = ep'[u] /\ Q = Known(u)'
    OBVIOUS
  <2>2. /\ SideInv(x, M, A, Q) /\ Rests(x)
        /\ \A j \in Ids : Inbox(x, A, j) /\ Counted(x, j, 0)
    <3>1. CASE u = s
      BY <1>4, <1>8, <1>10, <1>12, <2>1, <3>1
    <3>2. CASE u = t
      BY <1>4, <1>5, <1>8, <2>1, <3>2
    <3> QED
      BY <1>2, <3>1, <3>2
  <2>3. (SideInv(x, M, A, Q))'
    BY <1>4, <2>2, SamePageSide
  <2>4. (SideInv(ep[u], net, got, Known(u)))'
    BY <1>4, <2>1, <2>3
  <2>5. (Rests(ep[u]))'
    BY <1>4, <2>1, <2>2 DEF Rests, RestsAt
  <2>6. ASSUME NEW j \in Ids PROVE (Inbox(ep[u], got, j))' /\ (Counted(ep[u], j, 0))'
    <3>1. (Counted(x, j, 0))'
      BY <1>4, <2>2, SamePageCounted
    <3>2. (Inbox(ep[u], got, j))'
      BY <1>4, <2>1, <2>2 DEF Inbox
    <3> QED
      BY <2>1, <3>1, <3>2
  <2> QED
    BY <2>4, <2>5, <2>6
<1>14. \A to \in Sides, j \in Ids : (Wire(FramesTo(net, to, j)))'
  <2>1. \A to \in Sides, j \in Ids : Wire(FramesTo(M, to, j))
    BY <1>12 DEF Context
  <2> QED
    BY <1>4, <2>1
<1>15. /\ ep'["client"].next \in Nat \ {0} /\ ep'["client"].next <= ep'["client"].max_local + 1
       /\ ep'["client"].max_local <= ep'["server"].max_remote
       /\ Known("client")' \subseteq Known("server")'
  <2>1. d.server = (s = "server")
    BY <1>8 DEF Still, Comes
  <2>2. CASE s = "client"
    <3>1. t = "server" /\ ~d.server
      BY <1>0, <1>2, <2>1, <2>2
    <3>2. ep'["server"] = ep["server"] /\ ep'["client"] = d
      BY <1>3, <1>4, <2>2, <3>1
    <3>3. /\ \A j \in K : j < d.next
          /\ d.next \in Nat \ {0} /\ d.next <= d.max_local + 1
          /\ d.max_local <= ep["server"].max_remote /\ K \subseteq Ids
      BY <1>12, <3>1 DEF Context
    <3>4. Known("client")' \subseteq Known("server")'
      BY <1>10, <2>2, <3>2, <3>3 DEF Known
    <3> QED
      BY <3>2, <3>3, <3>4
  <2>3. CASE s = "server"
    <3>1. t = "client" /\ d.server
      BY <1>0, <1>2, <2>1, <2>3
    <3>2. ep'["client"] = ep["client"] /\ ep'["server"] = d
      BY <1>3, <1>4, <2>3, <3>1
    <3>3. \A j \in Ids : d.answers[j] = 1 => j \in K
      BY <1>12, <3>1 DEF Context
    <3>4. Known("client")' \subseteq Known("server")'
      <4>1. L \subseteq K
        BY <1>7, <3>1, <3>3
      <4> QED
        BY <1>5, <1>10, <2>3, <3>1, <4>1
    <3>5. ep["server"].max_remote <= d.max_remote
      BY <1>8, <2>3 DEF Still, Comes
    <3>6. /\ ep["client"].next \in Nat \ {0} /\ ep["client"].next <= ep["client"].max_local + 1
          /\ ep["client"].max_local <= ep["server"].max_remote
      BY DEF Inv2
    <3>7. /\ ep["client"].max_local \in Nat /\ ep["server"].max_remote \in Nat
          /\ d.max_remote \in Nat
      BY <1>0, <1>12 DEF Inv, ConnInv
    <3> QED
      BY <3>2, <3>4, <3>5, <3>6, <3>7
  <2> QED
    BY <1>0, <2>2, <2>3
<1>16. ErrorsOnlyAfterReset'
  <2> SUFFICES ASSUME NEW u \in Sides, ep'[u].error PROVE \E f \in net' : f.type = "RST"
    BY DEF ErrorsOnlyAfterReset
  <2>1. ~e.error
    BY <1>3 DEF Comes
  <2>2. u = s
    BY <1>2, <1>4, <2>1
  <2>3. c.error
    BY <1>4, <1>8, <2>2 DEF Still
  <2>4. \E f \in net : f.type = "RST"
    BY <2>3 DEF Comes
  <2> QED
    BY <1>3, <1>4, <2>4
<1>17. CloseMeansDelivered'
  <2>1. PICK b, x : b = ep'["client"] /\ x = ep'["server"]
    OBVIOUS
  <2> SUFFICES ASSUME NEW i \in Ids, x.answers[i] > 0, ~x.strms[i].open, i \notin x.empty,
                      ~Reset(i)', b.strms[i].open
               PROVE  b.strms[i].shut_rd /\ b.strms[i].rx = b.strms[i].last_rx
    BY <2>1 DEF CloseMeansDelivered, Complete
  <2>2. ~OwnReset(b, M, i) /\ ~OwnReset(x, M, i)
    BY <1>0, <1>4, <2>1 DEF Reset, OwnReset
  <2>3. CASE ~b.error
    <3>1. PICK Q, R : Q = Known("client")' /\ R = Known("server")'
      OBVIOUS
    <3>2. ~b.server /\ x.server /\ ConnInv(x)
      <4>1. d.server = (s = "server") /\ e.server = (t = "server") /\ ConnInv(e) /\ ConnInv(d)
        BY <1>3, <1>8, <1>12 DEF Still, Comes, Inv
      <4>2. CASE s = "client"
        <5>1. t = "server" /\ b = d /\ x = e
          BY <1>0, <1>2, <1>4, <2>1, <4>2
        <5> QED
          BY <4>1, <4>2, <5>1
      <4>3. CASE s = "server"
        <5>1. t = "client" /\ b = e /\ x = d
          BY <1>0, <1>2, <1>4, <2>1, <4>3
        <5> QED
          BY <4>1, <4>3, <5>1
      <4> QED
        BY <1>0, <4>2, <4>3
    <3>3. /\ SideInv(b, M, A, Q) /\ SideInv(x, M, A, R)
          /\ \A j \in Ids : /\ Inbox(b, A, j) /\ Counted(b, j, 0)
                            /\ Inbox(x, A, j) /\ Counted(x, j, 0)
      <4>1. CASE s = "client"
        <5>1. t = "server" /\ b = d /\ x = e
          BY <1>0, <1>2, <1>4, <2>1, <4>1
        <5>2. Q = K /\ R = L
          BY <1>5, <1>10, <3>1, <4>1, <5>1
        <5> QED
          BY <1>8, <1>12, <5>1, <5>2
      <4>2. CASE s = "server"
        <5>1. t = "client" /\ b = e /\ x = d
          BY <1>0, <1>2, <1>4, <2>1, <4>2
        <5>2. Q = L /\ R = K
          BY <1>5, <1>10, <3>1, <4>2, <5>1
        <5> QED
          BY <1>8, <1>12, <5>1, <5>2
      <4> QED
        BY <1>0, <4>1, <4>2
    <3>4. Both(b, x, M, A, Q, R)
      BY <1>12, <3>2, <3>3 DEF Both, Context
    <3> QED
      BY <2>2, <2>3, <3>2, <3>4, ClosedRead
  <2>4. CASE b.error
    <3>1. ~e.error
      BY <1>3 DEF Comes
    <3>2. s = "client" /\ b = d
      BY <1>0, <1>2, <1>4, <2>1, <2>4, <3>1
    <3>3. c.error
      BY <1>8, <2>4, <3>2 DEF Still
    <3>4. d = c
      BY <1>1, <3>3 DEF on_write
    <3>5. c = Error(ep["client"])
      BY <3>2, <3>3 DEF Comes
    <3>6. DOMAIN ep["client"] = ConnFields
      BY <1>0 DEF Inv, ConnInv, Shape
    <3>7. b.strms = ep["client"].strms /\ b.reset = ep["client"].reset
      BY <3>2, <3>4, <3>5, <3>6 DEF Error, ConnFields
    <3>8. x = ep["server"]
      <4>1. t = "server"
        BY <1>0, <1>2, <3>2
      <4> QED
        BY <1>3, <1>4, <2>1, <4>1
    <3>9. ~Reset(i)
      <4>1. i \notin b.reset /\ i \notin x.reset /\ ~\E f \in net' : f.type = "STOP" /\ f.id = i
        BY <1>0, <2>1 DEF Reset
      <4>2. net \subseteq net'
        BY <1>3, <1>4
      <4> QED
        BY <3>7, <3>8, <4>1, <4>2 DEF Reset, Sides
    <3>10. Complete(i)
      BY <3>8, <3>9 DEF Inv2, CloseMeansDelivered
    <3> QED
      BY <3>7, <3>10 DEF Complete
  <2> QED
    BY <2>3, <2>4
<1> QED
  BY <1>13, <1>14, <1>15, <1>16, <1>17 DEF Inv2

\* A side in a state of the invariant.
LEMMA SideFull ==
    ASSUME Inv, Inv2, NEW s \in Sides
    PROVE  Full(ep[s], net, got, Known(s))
<1>0. /\ s \in {"client", "server"} /\ "client" \in Sides /\ "server" \in Sides
      /\ ep["client"].server = FALSE /\ ep["server"].server = TRUE
  BY DEF Sides, Inv
<1>1. /\ SideInv(ep[s], net, got, Known(s)) /\ ConnInv(ep[s]) /\ ep[s].rtb \subseteq net
      /\ \A j \in Ids : Inbox(ep[s], got, j) /\ Counted(ep[s], j, 0)
      /\ got \subseteq net /\ \A to \in Sides, j \in Ids : Wire(FramesTo(net, to, j))
  BY DEF Inv, Inv2
<1>2. FramesTyped(net)
  BY NetTyped
<1>3. FramesInv(ep["client"], net, Known("client")) /\ FramesInv(ep["server"], net, Known("server"))
  BY <1>0 DEF Inv2, SideInv
<1>4. Known("client") \subseteq Known("server") /\ Known("server") \subseteq Ids
  BY DEF Inv2, Known
<1>5. Context(ep[s], net, got, Known(s))
  <2>1. CASE s = "client"
    <3>1. ASSUME NEW f \in net, f.to = Other(~ep[s].server), f.type # "MAXID"
          PROVE  f.id \in Known(s)
      <4>1. f.to = Other(ep["server"].server) /\ f.id \in Ids
        BY <1>0, <1>2, <2>1, <3>1 DEF Other, FramesTyped
      <4>2. FrameInv(ep["server"], net, Known("server"), f)
        BY <1>3, <4>1 DEF FramesInv
      <4>3. ep["server"].answers[f.id] = 1
        BY <1>0, <3>1, <4>2 DEF FrameInv
      <4> QED
        BY <2>1, <4>1, <4>3 DEF Known
    <3>2. /\ \A j \in Known(s) : j < ep[s].next
          /\ ep[s].next \in Nat \ {0} /\ ep[s].next <= ep[s].max_local + 1
          /\ ep[s].max_local <= ep["server"].max_remote
      BY <1>4, <2>1 DEF Inv2, Known
    <3>3. ep[s].server = FALSE /\ Known(s) \subseteq Ids
      BY <1>0, <1>4, <2>1
    <3> QED
      BY <1>1, <3>1, <3>2, <3>3 DEF Context
  <2>2. CASE s = "server"
    <3>1. ASSUME NEW f \in net, f.to = Other(~ep[s].server), f.type # "MAXID"
          PROVE  /\ f.id \in Known(s)
                 /\ f.type \in {"RST", "STOP"} => ep[s].answers[f.id] = 1
      <4>1. f.to = Other(ep["client"].server) /\ f.id \in Ids
        BY <1>0, <1>2, <2>2, <3>1 DEF Other, FramesTyped
      <4>2. FrameInv(ep["client"], net, Known("client"), f)
        BY <1>3, <4>1 DEF FramesInv
      <4>3. f.id < ep["client"].next
        BY <1>0, <3>1, <4>2 DEF FrameInv
      <4>4. f.type \in {"RST", "STOP"} => f.id \in Known("client")
        BY <1>0, <4>2 DEF FrameInv
      <4>5. f.type \in {"RST", "STOP"} => ep[s].answers[f.id] = 1
        BY <2>2, <4>4 DEF Known
      <4> QED
        BY <2>2, <4>1, <4>3, <4>5 DEF Known
    <3>2. \A j \in Ids : ep[s].answers[j] = 1 => j \in Known(s)
      BY <1>4, <2>2 DEF Known
    <3>3. ep[s].server = TRUE /\ Known(s) \subseteq Ids /\ ep[s] = ep["server"]
      BY <1>0, <1>4, <2>2
    <3> QED
      BY <1>1, <3>1, <3>2, <3>3 DEF Context
  <2> QED
    BY <1>0, <2>1, <2>2
<1> QED
  BY <1>1, <1>5 DEF Full, Mid

\* Start.
LEMMA StartInv2 ==
    ASSUME Inv, Inv2, Start
    PROVE  Inv2'
<1>1. PICK s \in Sides : s = "client"
  BY DEF Sides
<1>2. page \in Pages /\ ConnInv(ep[s]) /\ ep[s].server = (s = "server")
  BY DEF Inv
<1>3. PICK c : c = on_extend_max_stream_id(ep[s])
  OBVIOUS
<1>4. PICK K, A : K = Known(s) /\ A = got
  OBVIOUS
<1>5. Full(ep[s], net, A, K) /\ FramesTyped(net) /\ ~ep[s].server
  BY <1>1, <1>2, <1>4, SideFull, NetTyped
<1>6. Full(c, net, A, K) /\ Ahead(ep[s], c)
  BY <1>2, <1>3, <1>5, ExtendMid
<1>7. Kept(ep[s], c)
  BY <1>2, <1>3, <1>5, ExtendKept
<1>8. c.max_remote = ep[s].max_remote /\ c.server = (s = "server") /\ c.error = ep[s].error
  BY <1>2, <1>6, <1>7 DEF Ahead, Kept, Grows
<1>9. \A t \in Sides : ~ep[t].error
  BY DEF Inv2, ErrorsOnlyAfterReset, Start
<1>10. Comes(s, c, A)
  BY <1>4, <1>6, <1>8, <1>9 DEF Comes
<1>11. Turn(s, c) /\ got' = A
  BY <1>1, <1>3, <1>4 DEF Start
<1> QED
  BY <1>10, <1>11, TurnInv2

\* Recv.
LEMMA RecvInv2 ==
    ASSUME Inv, Inv2, NEW s \in Sides, NEW f \in net, NEW w, Recv(s, f, w)
    PROVE  Inv2'
<1>0. /\ s \in {"client", "server"} /\ "client" \in Sides /\ "server" \in Sides
      /\ ep["client"].server = FALSE /\ ep["server"].server = TRUE
  BY DEF Sides, Inv
<1>1. page \in Pages /\ ConnInv(ep[s]) /\ ep[s].server = (s = "server")
  BY DEF Inv
<1>2. PICK b, c : b = ep[s] /\ c = conn_recv(b, f, w)
  OBVIOUS
<1>3. PICK K, A, B : K = Known(s) /\ A = got /\ B = got \cup {f}
  OBVIOUS
<1>4. f.to = s /\ Turn(s, c) /\ got' = B /\ Alive
  BY <1>2, <1>3 DEF Recv
<1>5. \A t \in Sides : ~ep[t].error
  BY <1>4 DEF Alive
<1>6. OfSide(~b.server, f) /\ f.to = Other(~b.server)
  <2>1. OfSide(TRUE, f) \/ OfSide(FALSE, f)
    BY DEF Inv
  <2>2. CASE OfSide(TRUE, f)
    <3>1. f.to = "client"
      BY <2>2 DEF OfSide, OfStream, OfLimit, Other
    <3>2. b.server = FALSE
      BY <1>1, <1>2, <1>4, <3>1
    <3> QED
      BY <2>2, <3>1, <3>2 DEF Other
  <2>3. CASE OfSide(FALSE, f)
    <3>1. f.to = "server"
      BY <2>3 DEF OfSide, OfStream, OfLimit, Other
    <3>2. b.server = TRUE
      BY <1>1, <1>2, <1>4, <3>1
    <3> QED
      BY <2>3, <3>1, <3>2 DEF Other
  <2> QED
    BY <2>1, <2>2, <2>3
<1>7. /\ f.type \in {"STREAM", "RST", "STOP", "MAXID"} /\ (f.type # "MAXID" => f.id \in Ids)
      /\ (f.type = "MAXID" => ~b.server /\ f.id \in Nat)
  BY <1>6 DEF OfSide, OfStream, OfLimit
<1>8. b.server => \A j \in K : j <= b.max_remote
  <2> SUFFICES ASSUME b.server, NEW j \in K PROVE j <= b.max_remote
    OBVIOUS
  <2>1. s = "server"
    BY <1>1, <1>2
  <2>2. j \in Ids /\ j < ep["client"].next /\ b = ep["server"]
    BY <1>2, <1>3, <2>1 DEF Known
  <2>3. /\ ep["client"].next \in Nat \ {0} /\ ep["client"].next <= ep["client"].max_local + 1
        /\ ep["client"].max_local <= ep["server"].max_remote
    BY DEF Inv2
  <2>4. ep["client"].max_local \in Nat /\ ep["server"].max_remote \in Nat /\ j \in Nat
    BY <1>0, <2>2, ExchangeAssumption DEF Inv, ConnInv, Ids
  <2> QED
    BY <2>2, <2>3, <2>4
<1>9. Full(b, net, A, K) /\ FramesTyped(net)
  BY <1>2, <1>3, SideFull, NetTyped
<1>10. Arriving(b, net, A, B, K, f)
  BY <1>2, <1>3, <1>5, <1>6, <1>7, <1>8, <1>9 DEF Arriving
<1>11. f.type = "MAXID" => f.id <= ep["server"].max_remote
  <2> SUFFICES ASSUME f.type = "MAXID" PROVE f.id <= ep["server"].max_remote
    OBVIOUS
  <2>1. ~b.server
    BY <1>7
  <2>2. f.to = "client"
    BY <1>6, <2>1 DEF Other
  <2>3. f.to = Other(ep["server"].server)
    BY <1>0, <2>2 DEF Other
  <2>4. FramesInv(ep["server"], net, Known("server"))
    BY <1>0 DEF Inv2, SideInv
  <2>5. FrameInv(ep["server"], net, Known("server"), f)
    BY <2>3, <2>4 DEF FramesInv
  <2> QED
    BY <2>5 DEF FrameInv
<1>12. Received(b, c, net, B, K)
  BY ONLY <1>1, <1>2, <1>9, <1>10, <1>11, ConnRecvMid
<1>13. Grows(b, c)
  BY ONLY <1>1, <1>2, <1>6, ConnRecv
<1>14. c.max_remote = b.max_remote /\ c.server = (s = "server")
  BY <1>1, <1>2, <1>13 DEF Grows
<1>15. Comes(s, c, B)
  BY <1>2, <1>3, <1>4, <1>5, <1>12, <1>14 DEF Comes, Received
<1> QED
  BY <1>4, <1>15, TurnInv2

\* Ack.
LEMMA AckInv2 ==
    ASSUME Inv, Inv2, NEW s \in Sides, NEW f \in ep[s].rtb, Ack(s, f)
    PROVE  Inv2'
<1>1. page \in Pages /\ ConnInv(ep[s]) /\ ep[s].server = (s = "server")
  BY DEF Inv
<1>2. PICK c : c = rtb_recv_ack(ep[s], f)
  OBVIOUS
<1>3. PICK K, A : K = Known(s) /\ A = got
  OBVIOUS
<1>4. Turn(s, c) /\ got' = A /\ f \in A /\ Alive
  BY <1>2, <1>3 DEF Ack
<1>5. \A t \in Sides : ~ep[t].error
  BY <1>4 DEF Alive
<1>6. Full(ep[s], net, A, K) /\ FramesTyped(net)
  BY <1>3, SideFull, NetTyped
<1>7. Full(c, net, A, K) /\ c.server = ep[s].server /\ c.error = ep[s].error
  BY <1>1, <1>2, <1>4, <1>6, RecvAckMid
<1>8. c.max_remote = ep[s].max_remote
  <2>1. PICK b : b = Less(ep[s], f)
    OBVIOUS
  <2>2. ConnInv(b) /\ b.server = ep[s].server /\ b.max_remote = ep[s].max_remote
    BY <1>1, <2>1, LessInv
  <2>3. OfSide(b.server, f)
    BY <1>1, <2>2 DEF ConnInv
  <2>4. c = acked_stream_offset(b, f)
    BY <1>2, <2>1 DEF rtb_recv_ack, Less
  <2>5. ConnInv(c) /\ Grows(b, c)
    BY ONLY <1>1, <2>2, <2>3, <2>4, AckedOffset
  <2> QED
    BY <2>2, <2>5 DEF Grows
<1>9. Comes(s, c, A)
  BY <1>1, <1>3, <1>5, <1>7, <1>8 DEF Comes
<1> QED
  BY <1>4, <1>9, TurnInv2

\* Retransmit.
LEMMA RetransmitInv2 ==
    ASSUME Inv, Inv2, NEW s \in Sides, NEW f \in ep[s].rtb, Retransmit(s, f)
    PROVE  Inv2'
<1>1. page \in Pages /\ ConnInv(ep[s]) /\ ep[s].server = (s = "server")
  BY DEF Inv
<1>2. PICK b : b = ep[s]
  OBVIOUS
<1>3. PICK x : x = IF f.type = "STOP" THEN "null" ELSE b.crashed
  OBVIOUS
<1>4. x = "null" \/ x = b.crashed
  BY <1>3
<1>5. PICK c : c = Drops(b, f, x)
  OBVIOUS
<1>6. DOMAIN b = ConnFields
  BY <1>1, <1>2 DEF ConnInv, Shape
<1>7. c = [ep[s] EXCEPT !.rtb = @ \ {f}, !.crashed = IF f.type = "STOP" THEN "null" ELSE @]
  BY <1>2, <1>3, <1>5, <1>6 DEF Drops, ConnFields
<1>8. PICK K, A : K = Known(s) /\ A = got
  OBVIOUS
<1>9. Turn(s, c) /\ got' = A /\ Cancelled(b, f) /\ Alive
  BY <1>2, <1>7, <1>8 DEF Retransmit
<1>10. \A t \in Sides : ~ep[t].error
  BY <1>9 DEF Alive
<1>11. Full(b, net, A, K) /\ f \in b.rtb
  BY <1>2, <1>8, SideFull
<1>12. Full(c, net, A, K) /\ c.server = b.server /\ c.error = b.error
  BY <1>4, <1>5, <1>9, <1>11, CancelledMid
<1>13. c.max_remote = b.max_remote
  BY <1>5, <1>6 DEF Drops, ConnFields
<1>14. Comes(s, c, A)
  BY <1>1, <1>2, <1>8, <1>10, <1>12, <1>13 DEF Comes
<1> QED
  BY <1>9, <1>14, TurnInv2

\* Every step keeps the second invariant.
LEMMA Inv2Next == Inv /\ Inv2 /\ [Next]_vars => Inv2'
<1> SUFFICES ASSUME Inv, Inv2, [Next]_vars PROVE Inv2'
  OBVIOUS
<1>1. CASE Start
  BY <1>1, StartInv2
<1>2. ASSUME NEW s \in Sides, NEW f \in net, NEW w \in Outcomes(s = "server"), Recv(s, f, w)
      PROVE  Inv2'
  BY <1>2, RecvInv2
<1>3. ASSUME NEW s \in Sides, NEW f \in ep[s].rtb, Ack(s, f)
      PROVE  Inv2'
  BY <1>3, AckInv2
<1>4. ASSUME NEW s \in Sides, NEW f \in ep[s].rtb, Retransmit(s, f)
      PROVE  Inv2'
  BY <1>4, RetransmitInv2
<1>5. CASE UNCHANGED vars
  <2>1. page' = page /\ ep' = ep /\ net' = net /\ got' = got
    BY <1>5 DEF vars
  <2>2. ASSUME NEW t \in Sides
        PROVE  /\ (SideInv(ep[t], net, got, Known(t)))' /\ (Rests(ep[t]))'
               /\ \A j \in Ids : (Inbox(ep[t], got, j))' /\ (Counted(ep[t], j, 0))'
    <3>1. PICK x, N, A, K : x = ep[t] /\ N = net /\ A = got /\ K = Known(t)
      OBVIOUS
    <3>2. x = ep'[t] /\ N = net' /\ A = got' /\ K = Known(t)'
      BY <2>1, <3>1 DEF Known
    <3>3. /\ SideInv(x, N, A, K) /\ Rests(x)
          /\ \A j \in Ids : Inbox(x, A, j) /\ Counted(x, j, 0)
      BY <3>1 DEF Inv2
    <3>4. (SideInv(x, N, A, K))'
      BY <2>1, <3>3, SamePageSide
    <3>5. (SideInv(ep[t], net, got, Known(t)))'
      BY <3>2, <3>4
    <3>6. (Rests(ep[t]))'
      BY <3>2, <3>3 DEF Rests, RestsAt
    <3>7. ASSUME NEW j \in Ids PROVE (Inbox(ep[t], got, j))' /\ (Counted(ep[t], j, 0))'
      <4>1. (Counted(x, j, 0))'
        BY <2>1, <3>3, SamePageCounted
      <4>2. (Inbox(ep[t], got, j))'
        BY <3>2, <3>3 DEF Inbox
      <4> QED
        BY <3>2, <4>1, <4>2
    <3> QED
      BY <3>5, <3>6, <3>7
  <2>3. \A to \in Sides, j \in Ids : (Wire(FramesTo(net, to, j)))'
    BY <2>1 DEF Inv2
  <2>4. /\ ep'["client"].next \in Nat \ {0} /\ ep'["client"].next <= ep'["client"].max_local + 1
        /\ ep'["client"].max_local <= ep'["server"].max_remote
        /\ Known("client")' \subseteq Known("server")'
    BY <2>1 DEF Inv2, Known
  <2>5. ErrorsOnlyAfterReset' /\ CloseMeansDelivered'
    BY <2>1 DEF Inv2, ErrorsOnlyAfterReset, CloseMeansDelivered, Reset, Complete
  <2> QED
    BY <2>2, <2>3, <2>4, <2>5 DEF Inv2
<1> QED
  BY <1>1, <1>2, <1>3, <1>4, <1>5 DEF Next

\* AssertsHold holds: whenever the library reports on a stream the server's
\* application has an entry for it (Handler::remove_tx_stream_data,
\* Handler::on_stream_close), and streambuf_idx stays within the buffers while
\* acknowledgements free them in front of it.
THEOREM NoAssertFails == Spec => []AssertsHold
<1>1. Inv /\ Inv2 => AssertsHold
  BY NoErrorInv2
<1> QED
  BY <1>1, InvInit, InvNext, Inv2Init, Inv2Next, PTL DEF Spec

\* ErrorsOnlyAfterReset holds: frames that are lost, late, repeated or out of
\* order never make a side drop the connection unless a stream was reset.
THEOREM NoErrorWithoutReset == Spec => []ErrorsOnlyAfterReset
<1>1. Inv /\ Inv2 => ErrorsOnlyAfterReset
  BY NoErrorInv2
<1> QED
  BY <1>1, InvInit, InvNext, Inv2Init, Inv2Next, PTL DEF Spec

\* CloseMeansDelivered holds: ngtcp2_conn_close_stream_if_shut_rdwr closes a
\* stream of the server, and with it cancels retransmissions, only when the
\* client has the whole response.
THEOREM ClosingLosesNothing == Spec => []CloseMeansDelivered
<1>1. Inv /\ Inv2 => CloseMeansDelivered
  BY NoErrorInv2
<1> QED
  BY <1>1, InvInit, InvNext, Inv2Init, Inv2Next, PTL DEF Spec

\* NotSilent holds: as long as an exchange is not over, one of the programs has
\* data of it in flight or held back by MAX_BYTES_IN_FLIGHT.
THEOREM ExchangeNotSilent == Spec => []NotSilent
<1>1. Inv /\ Inv2 => NotSilent
  BY NoErrorInv2
<1> QED
  BY <1>1, InvInit, InvNext, Inv2Init, Inv2Next, PTL DEF Spec
=============================================================================
