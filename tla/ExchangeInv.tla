----------------------------- MODULE ExchangeInv -----------------------------
(***************************************************************************)
(* The inductive invariants of Exchange.tla that ExchangeProofs proves:    *)
(* Inv, about each side and the limits on streams, and Inv2, about what    *)
(* the two sides of a stream have to do with the frames between them.      *)
(***************************************************************************)
EXTENDS Exchange

-----------------------------------------------------------------------------
(* The invariant.                                                          *)

ConnFields == {"server", "strms", "streams", "rtb", "frq", "idtr", "next", "max_local",
               "max_remote", "unsent_max", "error", "crashed", "nstreams_done",
               "last_stream_id", "htp", "complete", "answers", "empty", "reset"}
StrmFields == {"open", "rx", "rob", "last_rx", "shut_rd", "shut_wr", "recv_rst",
               "sent_rst", "stop_sending", "tx", "acked"}
StreamFields == {"exists", "streambuf", "idx", "tx_offset", "should_send_fin",
                 "completed", "nread", "parse_error"}

\* A connection has its fields, and an entry for each stream.
Shape(c) ==
    /\ DOMAIN c = ConnFields
    /\ DOMAIN c.strms = Ids /\ \A i \in Ids : DOMAIN c.strms[i] = StrmFields
    /\ DOMAIN c.streams = Ids /\ \A i \in Ids : DOMAIN c.streams[i] = StreamFields
    /\ DOMAIN c.answers = Ids

\* What a side sends: frames of a stream, and limits, which are the server's.
Other(server) == IF server THEN "client" ELSE "server"
OfStream(server, f) ==
    f.to = Other(server) /\ f.type \in {"STREAM", "RST", "STOP"} /\ f.id \in Ids
OfLimit(server, f) ==
    f.to = Other(server) /\ f.type = "MAXID" /\ f.id \in Nat /\ server
OfSide(server, f) == OfStream(server, f) \/ OfLimit(server, f)

\* The gaps of the stream ID tracker are in order and do not touch.  A gap may
\* be empty: ngtcp2_idtr_open leaves one behind the last id of a gap.
Tracker(t) ==
    /\ t \in Seq(Nat \X Nat)
    /\ \A k \in DOMAIN t : t[k][1] <= t[k][2]
    /\ \A k, l \in DOMAIN t : k < l => t[k][2] < t[l][1]

\* A stream is open only if its id was opened, under the limit; it is answered
\* only once, for the answer is complete while it is open and the id is gone
\* when it is closed; and the limit has grown by streams that are closed.
Opened(c, i) == ~Free(c.idtr, i) /\ i <= c.max_remote
Closed(c, i) == ~c.strms[i].open /\ Opened(c, i)

Answers(c, i) ==
    /\ c.answers[i] \in {0, 1}
    /\ c.answers[i] = 1 => ~Free(c.idtr, i)
    /\ (c.answers[i] = 1 /\ c.strms[i].open) => c.streams[i].completed
    /\ c.streams[i].nread \in Nat
    /\ c.streams[i].parse_error => c.streams[i].completed
    /\ (c.streams[i].completed /\ ~c.streams[i].parse_error) =>
         c.streams[i].nread >= page.req

ServerInv(c) ==
    /\ Tracker(c.idtr)
    /\ \A i \in Ids : Answers(c, i) /\ (c.strms[i].open => Opened(c, i))
    /\ \E C \in SUBSET Ids : /\ \A i \in C : Closed(c, i)
                             /\ c.unsent_max <= page.limit + Cardinality(C)

ConnInv(c) ==
    /\ Shape(c) /\ c.server \in BOOLEAN
    /\ \A f \in c.rtb : OfSide(c.server, f)
    /\ \A f \in c.frq : OfStream(c.server, f)
    /\ c.max_local \in Nat /\ c.max_remote \in Nat /\ c.unsent_max \in Nat
    /\ c.max_remote <= c.unsent_max
    /\ ~c.server => c.unsent_max = c.max_remote
    /\ c.server => ServerInv(c)

\* A limit that has arrived is known.
Inv ==
    /\ page \in Pages
    /\ DOMAIN ep = Sides
    /\ \A s \in Sides : ConnInv(ep[s]) /\ ep[s].server = (s = "server")
    /\ \A f \in net : OfSide(TRUE, f) \/ OfSide(FALSE, f)
    /\ \A s \in Sides : ep[s].rtb \subseteq net
    /\ got \subseteq net
    /\ \A f \in got : f.type = "MAXID" => f.id <= ep["client"].max_local
    /\ CreditNotLost

-----------------------------------------------------------------------------
(* What the streams of both sides have to do with the frames between them. *)
(* N is what was ever sent, A what has arrived.                            *)

FramesTo(N, to, j) == {f \in N : f.to = to /\ f.type = "STREAM" /\ f.id = j}

\* The frames of a stream in one direction: one or two units, each in one
\* frame, and one end that nothing is beyond.
Wire(F) ==
    /\ \A f \in F : /\ f.off \in Nat /\ f.len \in {0, 1} /\ f.fin \in BOOLEAN
                    /\ f.off + f.len <= 2 /\ (f.len = 0 => f.fin)
    /\ \A f, g \in F : f.fin => g.off + g.len <= f.off + f.len
    /\ \A f, g \in F : f.len = 1 /\ g.len = 1 /\ f.off = g.off => f = g
    /\ \A f, g \in F : f.fin /\ g.fin => f = g

\* The buffers of an application: what was written of them is tx.
Whats == {"REQUEST", "STATUS", "HEADER", "BODY", "COMPLETE", ""}
Bufs == Seq([len : {0, 1}, what : Whats])
Units(bufs, k) ==
    IF k = 0 THEN 0 ELSE IF k = 1 THEN bufs[1].len ELSE bufs[1].len + bufs[2].len
Buffers(s, a) ==
    /\ a.streambuf \in Bufs /\ a.tx_offset \in Nat
    /\ a.tx_offset + Len(a.streambuf) <= 2
    /\ a.idx \in 0..Len(a.streambuf)
    /\ Len(a.streambuf) > 0 => a.streambuf[1].len = 1
    /\ s.tx = a.tx_offset + Units(a.streambuf, a.idx)

\* An empty buffer does not wait.
AtRest(a) == a.idx < Len(a.streambuf) => a.streambuf[a.idx + 1].len = 1

\* The sending half of an open stream, with its frames F, once there is
\* something to send; a frame or a buffer without data only where E says so.
Sending(s, a, F, A, rtb, E, j) ==
    /\ \A f \in F : /\ f.off + f.len <= s.tx
                    /\ f.fin => s.shut_wr /\ f.off + f.len = s.tx
                    /\ f.len = 0 => j \in E
    /\ \A k \in 0..1 : k < s.tx => \E f \in F : f.len = 1 /\ f.off = k
    /\ \A k \in s.acked : \E f \in F : f.len = 1 /\ f.off = k /\ f \in A
    /\ ~s.sent_rst => \A f \in F : f \in rtb \/ f \in A
    /\ (s.shut_wr /\ ~s.sent_rst) => a.idx = Len(a.streambuf) /\ \E f \in F : f.fin
    /\ a.idx < Len(a.streambuf) => a.should_send_fin
    /\ (a.idx = Len(a.streambuf) /\ j \notin E) => s.shut_wr
    /\ \A k \in 1..Len(a.streambuf) : a.streambuf[k].len = 0 => j \in E

\* Before that.
Unstarted(s, a) ==
    /\ a.streambuf = << >> /\ a.idx = 0 /\ a.tx_offset = 0
    /\ s.tx = 0 /\ s.acked = {} /\ ~s.shut_wr /\ ~s.sent_rst /\ ~s.stop_sending

\* The receiving half of an open stream, with the frames G that have arrived.
Receiving(s, G) ==
    /\ s.rx \in 0..2 /\ s.last_rx \in 0..2 /\ s.rx <= s.last_rx
    /\ \A g \in G : g.off + g.len <= s.last_rx /\ (g.fin => s.shut_rd)
    /\ s.last_rx # 0 => \E g \in G : g.off + g.len = s.last_rx
    /\ (s.shut_rd /\ ~s.recv_rst) => \E g \in G : g.fin /\ g.off + g.len = s.last_rx
    /\ \A u \in s.rob : u[1] > s.rx /\ \E g \in G : g.len = 1 /\ u = <<g.off, g.what>>
    /\ ~s.stop_sending =>
         \A g \in G : g.len = 1 => g.off < s.rx \/ <<g.off, g.what>> \in s.rob

\* All of the stream has arrived.
Through(F, A) ==
    \E f \in F : /\ f.fin /\ f \in A
                 /\ \A k \in 0..1 : k < f.off + f.len =>
                      \E g \in F : g.len = 1 /\ g.off = k /\ g \in A

\* The stream was reset by this side, or somebody asked to stop.
OwnReset(c, N, j) == j \in c.reset \/ \E f \in N : f.type = "STOP" /\ f.id = j

\* A stream that is not there has left nothing behind, ...
Gone(c, j) == c.strms[j] = NoStrm /\ c.streams[j] = NoStream

\* ... and the server's response is through when it closed the stream.
Done(c, N, A, j) ==
    (c.server /\ c.answers[j] = 1 /\ j \notin c.empty /\ ~OwnReset(c, N, j))
    => Through(FramesTo(N, Other(c.server), j), A)

Outbox(c, N, A, j) ==
    /\ Buffers(c.strms[j], c.streams[j]) /\ AtRest(c.streams[j])
    /\ IF c.server /\ c.answers[j] = 0 THEN Unstarted(c.strms[j], c.streams[j])
       ELSE Sending(c.strms[j], c.streams[j], FramesTo(N, Other(c.server), j), A, c.rtb,
                    c.empty, j)

Resets(c, N, j) ==
    /\ c.strms[j].recv_rst => \E f \in N : f.type = "RST" /\ f.id = j /\ f.to = Other(~c.server)
    /\ c.strms[j].sent_rst => c.strms[j].shut_wr /\ OwnReset(c, N, j)
    /\ (~c.server /\ c.strms[j].stop_sending) => OwnReset(c, N, j)

Response(c, j) ==
    /\ (c.strms[j].open /\ c.answers[j] = 1) => c.streams[j].exists
    /\ c.streams[j].completed => c.answers[j] = 1
    /\ c.answers[j] = 0 => j \notin c.empty
    /\ ~Free(c.idtr, j) => c.strms[j].open \/ c.answers[j] = 1

Request(c, j) ==
    /\ c.strms[j].open => /\ c.streams[j].exists /\ j < c.next
                          /\ c.streams[j].tx_offset + Len(c.streams[j].streambuf) = page.req
    /\ j \notin c.empty

\* A stream with all but what has arrived for it.
StreamInv(c, N, A, j) ==
    /\ ~c.strms[j].open => Gone(c, j) /\ Done(c, N, A, j)
    /\ c.strms[j].open => Outbox(c, N, A, j) /\ Resets(c, N, j)
    /\ IF c.server THEN Response(c, j) ELSE Request(c, j)

\* What has arrived for it.
Inbox(c, A, j) ==
    ~c.error =>
    /\ c.strms[j].open => Receiving(c.strms[j], FramesTo(A, Other(~c.server), j))
    /\ (c.server /\ FramesTo(A, "server", j) # {}) => ~Free(c.idtr, j)

\* The server's application has read it but for k units, and has answered when
\* it has read the request.
Counted(c, j, k) ==
    (c.server /\ c.strms[j].open) =>
    /\ c.streams[j].nread + k = c.strms[j].rx
    /\ c.streams[j].nread >= page.req => c.streams[j].completed

\* The frames of a side: those of the server follow its answer, and RST and
\* STOP of the client follow an answer to the stream, which is then in K.
FrameInv(c, N, K, f) ==
    /\ (f.type # "MAXID") => IF c.server THEN c.answers[f.id] = 1 ELSE f.id < c.next
    /\ (~c.server /\ f.type \in {"RST", "STOP"}) => f.id \in K
    /\ f.type = "RST" => OwnReset(c, N, f.id)
    /\ f.type = "MAXID" => f.id <= c.max_remote

FramesInv(c, N, K) ==
    /\ \A f \in N : f.to = Other(c.server) => FrameInv(c, N, K, f)
    /\ \A f \in c.frq : FrameInv(c, N, K, f) /\ f.type # "STREAM"
    /\ IsFiniteSet(c.rtb) /\ IsFiniteSet(c.frq)

\* A side, where K is what it can know of the streams of the other.
SideInv(c, N, A, K) ==
    /\ \A j \in Ids : StreamInv(c, N, A, j)
    /\ FramesInv(c, N, K)
    /\ c.crashed # "assert"

\* A stream rests only when the limit on bytes in flight holds it.
RestsAt(c, j) == (c.strms[j].open /\ ~c.strms[j].sent_rst
                  /\ c.streams[j].idx < Len(c.streams[j].streambuf)) => Blocked(c)
Rests(c) == (~c.error /\ c.crashed = "") => \A j \in Ids : RestsAt(c, j)

\* The streams that a side may get frames of: to the client, those answered.
Known(s) == IF s = "client" THEN {j \in Ids : ep["server"].answers[j] = 1}
            ELSE {j \in Ids : j < ep["client"].next}

Inv2 ==
    /\ \A s \in Sides : SideInv(ep[s], net, got, Known(s)) /\ Rests(ep[s])
    /\ \A s \in Sides, j \in Ids : Inbox(ep[s], got, j) /\ Counted(ep[s], j, 0)
    /\ \A to \in Sides, j \in Ids : Wire(FramesTo(net, to, j))
    /\ ep["client"].next \in Nat \ {0} /\ ep["client"].next <= ep["client"].max_local + 1
    /\ ep["client"].max_local <= ep["server"].max_remote
    /\ Known("client") \subseteq Known("server")
    /\ ErrorsOnlyAfterReset
    /\ CloseMeansDelivered
==============================================================================
