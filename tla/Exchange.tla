------------------------------- MODULE Exchange -------------------------------
(***************************************************************************)
(* Requests and responses on the streams of an established connection:     *)
(* the stream ID tracker and the stream limits of lib/ngtcp2_idtr.c and    *)
(* lib/ngtcp2_conn.c, how streams are shut down and closed, and the page   *)
(* load of examples/client.cc against the HTTP responder of                *)
(* examples/server.cc.                                                     *)
(*                                                                         *)
(* Only the client opens streams, bidirectional ones; stream i has the ID  *)
(* 4 * i, and stream 0 is not among them.  Data is counted in units of one *)
(* buffer, which is one frame; a frame travels in a packet of its own.     *)
(* net holds all that was ever sent, so a frame may be lost, late or come  *)
(* again when it is retransmitted; got holds what has arrived and may be   *)
(* acknowledged.  Flow control is in module StreamRecv.                    *)
(***************************************************************************)
EXTENDS Integers, Sequences, FiniteSets, SequencesExt

CONSTANTS
    MaxStream,              \* bound: streams the client opens
    MAX_BYTES_IN_FLIGHT,    \* in packets
    Pages                   \* what the client does: see below

(* In interactive mode the client asks for one page and then for its n     *)
(* resources; otherwise it sends its file, of req units, on n streams.     *)
(* limit is max_stream_id_bidi of the server's settings.                   *)
ASSUME ExchangeAssumption ==
    /\ MaxStream \in Nat /\ MAX_BYTES_IN_FLIGHT \in Nat
    /\ Pages \subseteq [interactive : BOOLEAN, n : Nat, req : 1..2, limit : Nat]

Ids == 1..MaxStream

VARIABLES
    ep,     \* the connection and the application of each side
    net,    \* frames sent
    got,    \* frames that have arrived
    page    \* what this client does

vars == <<ep, net, got, page>>

---------------------------------------------------------------------------
(* The stream ID tracker: the gaps between the ids that were opened, in    *)
(* order, each with its first id and the first id after it.                *)

UINT64_MAX == MaxStream + 2

idtr_init == << <<0, UINT64_MAX>> >>

(* The first gap that does not end before id, 0 if none; id is free when   *)
(* that gap does not begin after it.                                       *)
GapAt(idtr, id) ==
    LET S == {k \in DOMAIN idtr : id < idtr[k][2] \/ id < idtr[k][1]}
    IN  IF S = {} THEN 0 ELSE CHOOSE k \in S : \A j \in S : k <= j

(* ngtcp2_idtr_is_open says whether the id is in use only when a gap       *)
(* follows it.                                                             *)
idtr_in_use(idtr, id) ==
    LET k == GapAt(idtr, id) IN k # 0 /\ id < idtr[k][1]

(* A plausible slip: an id inside a gap only ends the gap before it.       *)
idtr_open_keep(idtr, id) ==
    LET k == GapAt(idtr, id)
        g == idtr[k]
    IN  IF id = g[1]
        THEN IF g[2] - g[1] = 1 THEN RemoveAt(idtr, k)
             ELSE [idtr EXCEPT ![k] = <<id + 1, g[2]>>]
        ELSE InsertAt([idtr EXCEPT ![k] = <<id, g[2]>>], k, <<g[1], id>>)

(* ngtcp2_idtr_open of an id that is free.                                 *)
idtr_open(idtr, id) ==
    LET k == GapAt(idtr, id)
        g == idtr[k]
    IN  IF id = g[1]
        THEN IF g[2] - g[1] = 1 THEN RemoveAt(idtr, k)
             ELSE [idtr EXCEPT ![k] = <<id + 1, g[2]>>]
        ELSE InsertAt([idtr EXCEPT ![k] = <<id + 1, g[2]>>], k, <<g[1], id>>)

Free(idtr, id) == GapAt(idtr, id) # 0 /\ ~idtr_in_use(idtr, id)

idtr_first_gap(idtr) == IF idtr = <<>> THEN UINT64_MAX ELSE idtr[1][1]

---------------------------------------------------------------------------
(* Streams, the buffers of the applications, frames.                       *)

NoStrm ==
    [open |-> FALSE, rx |-> 0, rob |-> {}, last_rx |-> 0,
     shut_rd |-> FALSE, shut_wr |-> FALSE, recv_rst |-> FALSE,
     sent_rst |-> FALSE, stop_sending |-> FALSE, tx |-> 0, acked |-> {}]

NoStream ==
    [exists |-> FALSE, streambuf |-> <<>>, idx |-> 0, tx_offset |-> 0,
     should_send_fin |-> FALSE, completed |-> FALSE, nread |-> 0,
     parse_error |-> FALSE]

conn_new(server) ==
    [server |-> server,
     strms |-> [i \in Ids |-> NoStrm], streams |-> [i \in Ids |-> NoStream],
     rtb |-> {}, frq |-> {}, idtr |-> idtr_open(idtr_init, 0),
     next |-> 1, max_local |-> page.limit,
     max_remote |-> page.limit, unsent_max |-> page.limit,
     error |-> FALSE, crashed |-> "",
     nstreams_done |-> 0, last_stream_id |-> 0,        \* Client
     htp |-> "idle", complete |-> FALSE,
     answers |-> [i \in Ids |-> 0], empty |-> {}, reset |-> {}]      \* history

Frame(c, type, id, off, len, fin, what) ==
    [to |-> IF c.server THEN "client" ELSE "server", type |-> type,
     id |-> id, off |-> off, len |-> len, fin |-> fin, what |-> what]

Error(c) == [c EXCEPT !.error = TRUE]

Prefix(S) == CHOOSE n \in 0..3 : n \notin S /\ \A k \in 0..(n - 1) : k \in S

---------------------------------------------------------------------------
(* Shutting down and closing.                                              *)

(* A plausible slip: the stream that is closed counts twice.               *)
stream_id_extension_twice(c) ==
    IF 0 < idtr_first_gap(c.idtr) THEN [c EXCEPT !.unsent_max = @ + 2] ELSE c

(* handle_remote_stream_id_extension.  It increments the pointer to the    *)
(* window start, so the window starts at 0 for good.                       *)
remote_stream_id_extension(c) ==
    IF 0 < idtr_first_gap(c.idtr) THEN [c EXCEPT !.unsent_max = @ + 1] ELSE c

(* on_stream_close of both applications; the server asserts that it knows  *)
(* the stream.                                                             *)
on_stream_close(c, i) ==
    [c EXCEPT !.streams[i] = NoStream,
              !.crashed = IF c.server /\ ~c.streams[i].exists THEN "assert" ELSE @]

(* ngtcp2_conn_close_stream.                                               *)
close_stream(c, i) ==
    LET c1 == on_stream_close([c EXCEPT !.strms[i] = NoStrm], i)
    IN  IF c.server THEN remote_stream_id_extension(c1) ELSE c1

(* A plausible slip: what was sent need not be acknowledged.               *)
close_if_sent(c, i) ==
    LET s == c.strms[i]
    IN  IF /\ s.open /\ s.shut_rd /\ s.shut_wr
           /\ s.recv_rst \/ s.rx = s.last_rx
        THEN close_stream(c, i) ELSE c

(* ngtcp2_conn_close_stream_if_shut_rdwr.                                  *)
close_stream_if_shut_rdwr(c, i) ==
    LET s == c.strms[i]
    IN  IF /\ s.open /\ s.shut_rd /\ s.shut_wr
           /\ s.recv_rst \/ s.rx = s.last_rx
           /\ s.sent_rst \/ Prefix(s.acked) = s.tx
        THEN close_stream(c, i) ELSE c

(* conn_shutdown_stream_write, conn_shutdown_stream_read.                  *)
shutdown_stream_write(c, i) ==
    IF c.strms[i].sent_rst THEN c
    ELSE [c EXCEPT !.strms[i].shut_wr = TRUE, !.strms[i].sent_rst = TRUE,
                   !.reset = @ \cup {i},
                   !.frq = @ \cup {Frame(c, "RST", i, c.strms[i].tx, 0, FALSE,
                                         "APP_PROTO")}]

shutdown_stream_read(c, i) ==
    IF ~c.strms[i].open \/ c.strms[i].stop_sending THEN c
    ELSE [c EXCEPT !.strms[i].stop_sending = TRUE,
                   !.frq = @ \cup {Frame(c, "STOP", i, 0, 0, FALSE, "")}]

shutdown_stream(c, i) == shutdown_stream_write(shutdown_stream_read(c, i), i)

---------------------------------------------------------------------------
(* Writing: the frames in the queue, a new stream limit, then the streams  *)
(* in the order of their IDs, while the limit on bytes in flight allows.   *)

Blocked(c) == Cardinality(c.rtb) >= MAX_BYTES_IN_FLIGHT

(* conn_write_pkt.  A frame is dropped when its stream is closed, unless   *)
(* it answers STOP_SENDING, and STOP_SENDING when nothing is to come.      *)
write_pkt(c) ==
    LET keep == {f \in c.frq :
                   IF f.type = "RST"
                   THEN c.strms[f.id].open \/ f.what = "STOPPING"
                   ELSE c.strms[f.id].open /\ ~c.strms[f.id].shut_rd}
        max  == IF c.unsent_max = c.max_remote THEN {}
                ELSE {Frame(c, "MAXID", c.unsent_max, 0, 0, FALSE, "")}
    IN  IF Blocked(c) THEN c
        ELSE [c EXCEPT !.frq = {}, !.max_remote = c.unsent_max,
                       !.rtb = @ \cup keep \cup max]

(* One round of on_write_stream: the next buffer goes to                   *)
(* ngtcp2_conn_write_stream.  A buffer that holds nothing counts as        *)
(* written even when it was not.                                           *)
write_stream_data(c, i) ==
    LET a   == c.streams[i]
        s   == c.strms[i]
        b   == a.streambuf[a.idx + 1]
        fin == a.should_send_fin /\ a.idx + 1 = Len(a.streambuf)
        c1  == [c EXCEPT !.streams[i].idx = @ + 1,
                         !.streams[i].should_send_fin = @ /\ ~fin]
    IN  IF a.idx \notin 0..(Len(a.streambuf) - 1) THEN c
        ELSE IF Blocked(c) \/ ~s.open \/ s.shut_wr
        THEN IF b.len = 0 THEN c1 ELSE c
        ELSE [c1 EXCEPT !.strms[i].tx = @ + b.len, !.strms[i].shut_wr = fin,
                        !.rtb = @ \cup {Frame(c, "STREAM", i, s.tx, b.len, fin,
                                              b.what)}]

(* on_write_stream: a stream has two buffers at most.                      *)
on_write_stream(c, i) == write_stream_data(write_stream_data(c, i), i)

(* on_write of Handler and Client.                                         *)
on_write(c) ==
    LET w[i \in 0..MaxStream] ==
            IF i = 0 THEN write_pkt(c) ELSE on_write_stream(w[i - 1], i)
    IN  IF c.error \/ c.crashed # "" THEN c ELSE w[MaxStream]

---------------------------------------------------------------------------
(* The server's application.  w says what the data turns out to be: a      *)
(* request that is malformed, or one answered with a file, with an empty   *)
(* file or with a status page; and, where the client's parser finds        *)
(* something else than it waits for, what it makes of it.                  *)

Outcomes(server) ==
    IF server THEN {"bad", "body", "empty", "status"} ELSE {"idle", "body", "error"}

Respond(c, i, bufs, bad) ==
    [c EXCEPT !.streams[i].streambuf = bufs, !.streams[i].completed = TRUE,
              !.streams[i].should_send_fin = TRUE,
              !.streams[i].parse_error = bad,
              !.answers[i] = @ + 1,
              !.empty = IF Last(bufs).len = 0 THEN @ \cup {i} ELSE @]

(* Stream::send_status_response: 400, 404, 500, a redirect, or a HEAD.     *)
send_status_response(c, i, bad) ==
    Respond(c, i, << [len |-> 1, what |-> "STATUS"] >>, bad)

(* Stream::start_response: a header and the file, which may be empty.      *)
start_response(c, i, w) ==
    IF w = "status" THEN send_status_response(c, i, FALSE)
    ELSE Respond(c, i,
           IF w = "body" THEN << [len |-> 1, what |-> "HEADER"],
                                      [len |-> 1, what |-> "BODY"] >>
           ELSE << [len |-> 1, what |-> "COMPLETE"], [len |-> 0, what |-> ""] >>,
           FALSE)

(* Handler::recv_stream_data for one unit.                                 *)
server_recv_data(c, i, w) ==
    LET c1 == [c EXCEPT !.streams[i].exists = TRUE, !.streams[i].nread = @ + 1]
        a  == c.streams[i]
    IN  IF a.parse_error \/ (w = "bad" /\ ~a.completed)
        THEN IF a.completed THEN shutdown_stream(c1, i)
             ELSE send_status_response(c1, i, TRUE)
        ELSE IF a.nread + 1 = page.req THEN start_response(c1, i, w) ELSE c1

---------------------------------------------------------------------------
(* The client's application.                                               *)

(* A plausible slip: the limit itself is out by one.                       *)
open_bidi_stream_beyond(c) == c.next <= c.max_local + 1

(* ngtcp2_conn_open_bidi_stream is not blocked.  (The bound on streams is  *)
(* not the code's.)                                                        *)
open_bidi_stream(c) == c.next <= c.max_local

(* http_resq, and the loop of on_extend_max_stream_id: a stream with the   *)
(* request in its buffers.  A request that is blocked is lost.             *)
http_resq(c) ==
    IF ~open_bidi_stream(c) \/ c.next > MaxStream THEN c
    ELSE [c EXCEPT !.next = @ + 1, !.strms[c.next].open = TRUE,
                   !.streams[c.next] =
                      [NoStream EXCEPT
                         !.exists = TRUE, !.should_send_fin = TRUE,
                         !.streambuf = [k \in 1..page.req |->
                                          [len |-> 1, what |-> "REQUEST"]]]]

(* http_req_resourse: one request per resource of the page.                *)
http_req_resourse(c) ==
    LET r[n \in 0..page.n] == IF n = 0 THEN c ELSE http_resq(r[n - 1])
    IN  r[page.n]

(* The request for the page; http_resq gives 0 when it is blocked.         *)
start_interactive_input(c) ==
    LET c1 == http_resq(c) IN [c1 EXCEPT !.last_stream_id = c1.next - 1]

(* Client::on_extend_max_stream_id: start_interactive_input until one      *)
(* stream is open, or as many of the n streams as the limit allows.        *)
on_extend_max_stream_id(c) ==
    LET e[n \in 0..page.n] ==
            LET d == e[n - 1]
                o == http_resq(d)
            IN  IF n = 0 THEN c
                ELSE IF d.nstreams_done < page.n /\ o.next # d.next
                THEN [o EXCEPT !.nstreams_done = @ + 1] ELSE d
    IN  IF ~page.interactive THEN e[page.n]
        ELSE IF c.last_stream_id # 0 THEN c
        ELSE start_interactive_input(c)

(* message_complete_cb: the first message is the page.                     *)
message_complete_cb(c) ==
    IF c.complete THEN c
    ELSE IF page.interactive THEN http_req_resourse([c EXCEPT !.complete = TRUE])
    ELSE [c EXCEPT !.complete = TRUE]

(* recv_stream_data of the client.  One parser reads the data of all       *)
(* streams: inside a body it takes whatever comes for more of it.          *)
client_recv_data(c, i, what, w) ==
    LET next == IF c.htp = "error" THEN "error"
                ELSE IF c.htp = "idle"
                THEN CASE what = "HEADER" -> "body"
                       [] what = "BODY" -> "error"
                       [] OTHER -> "idle"
                ELSE IF what = "BODY" THEN "idle" ELSE w
        c1   == [c EXCEPT !.htp = next]
    IN  CASE next = "idle" -> message_complete_cb(c1)
          [] next = "error" -> shutdown_stream(c1, i)
          [] OTHER -> c1

---------------------------------------------------------------------------
(* Receiving frames.                                                       *)

recv_stream_data(c, i, what, w) ==
    IF c.server THEN server_recv_data(c, i, w) ELSE client_recv_data(c, i, what, w)

(* The frame is in order: it is delivered, and the unit that waited for it.*)
Deliver(c, f, w) ==
    LET i   == f.id
        n   == f.off + f.len
        up  == {u \in c.strms[i].rob : u[1] = n}
        c1  == [c EXCEPT !.strms[i].rx = n + Cardinality(up),
                         !.strms[i].rob = {u \in @ : u[1] > n}]
        c2  == recv_stream_data(c1, i, f.what, w)
    IN  IF up = {} THEN c2
        ELSE recv_stream_data(c2, i, (CHOOSE u \in up : TRUE)[2], w)

(* conn_recv_stream after the stream is found: the end of the stream, the  *)
(* data, in order or not, and whether the stream is closed now.            *)
recv_stream_open(c, f, w) ==
    LET i    == f.id
        s    == c.strms[i]
        end  == f.off + f.len
        last == [c EXCEPT !.strms[i].last_rx = IF @ < end THEN end ELSE @,
                          !.strms[i].shut_rd = @ \/ f.fin]
        data == IF f.off <= s.rx THEN Deliver(last, f, w)
                ELSE IF f.len = 0 THEN last
                ELSE [last EXCEPT !.strms[i].rob = @ \cup {<<f.off, f.what>>}]
        eof  == [last EXCEPT !.streams[i].exists = @ \/ c.server]
    IN  IF s.shut_rd /\ ((f.fin /\ s.last_rx # end) \/ s.last_rx < end) THEN Error(c)
        ELSE IF f.fin /\ s.shut_rd THEN c
        ELSE IF f.fin /\ s.last_rx > end THEN Error(c)
        ELSE IF f.fin /\ s.stop_sending THEN close_stream_if_shut_rdwr(last, i)
        ELSE IF f.fin /\ end = s.rx THEN close_stream_if_shut_rdwr(eof, i)
        ELSE IF ~f.fin /\ (end <= s.rx \/ s.stop_sending) THEN last
        ELSE close_stream_if_shut_rdwr(data, i)

(* A frame for a stream that is not there: an error when it is beyond the  *)
(* limit; the server makes the stream unless it has been there before.     *)
recv_stream(c, f, w) ==
    IF (IF c.server THEN c.max_remote < f.id ELSE c.next <= f.id) THEN Error(c)
    ELSE IF c.strms[f.id].open THEN recv_stream_open(c, f, w)
    ELSE IF ~c.server \/ ~Free(c.idtr, f.id) THEN c
    ELSE recv_stream_open([c EXCEPT !.idtr = idtr_open(@, f.id),
                                    !.strms[f.id].open = TRUE], f, w)

(* conn_recv_rst_stream and conn_recv_stop_sending; for a stream that was  *)
(* never there the id is used up.                                          *)
UseUp(c, i) ==
    IF c.server /\ ~idtr_in_use(c.idtr, i) /\ Free(c.idtr, i)
    THEN [c EXCEPT !.idtr = idtr_open(@, i)] ELSE c

recv_rst_stream(c, f) ==
    LET s == c.strms[f.id]
    IN  IF c.server /\ c.max_remote < f.id THEN Error(c)
        ELSE IF ~s.open THEN UseUp(c, f.id)
        ELSE IF s.last_rx > f.off \/ (s.shut_rd /\ s.last_rx # f.off) THEN Error(c)
        ELSE close_stream_if_shut_rdwr(
               [c EXCEPT !.strms[f.id].shut_rd = TRUE,
                         !.strms[f.id].recv_rst = TRUE], f.id)

recv_stop_sending(c, f) ==
    LET i == f.id
    IN  IF c.server /\ c.max_remote < i THEN Error(c)
        ELSE IF ~c.strms[i].open THEN UseUp(c, i)
        ELSE close_stream_if_shut_rdwr(
               [c EXCEPT !.strms[i].shut_wr = TRUE, !.strms[i].sent_rst = TRUE,
                         !.frq = @ \cup {Frame(c, "RST", i, c.strms[i].tx, 0,
                                               FALSE, "STOPPING")}], i)

recv_max_stream_id(c, f) ==
    on_extend_max_stream_id([c EXCEPT !.max_local = IF @ < f.id THEN f.id ELSE @])

conn_recv(c, f, w) ==
    CASE f.type = "STREAM" -> recv_stream(c, f, w)
      [] f.type = "RST"    -> recv_rst_stream(c, f)
      [] f.type = "STOP"   -> recv_stop_sending(c, f)
      [] OTHER             -> recv_max_stream_id(c, f)

---------------------------------------------------------------------------
(* Acknowledgements and retransmission.                                    *)

(* A plausible slip: the stream is let go once its response is through.    *)
remove_tx_and_stream(c, i, offset) ==
    IF offset < Len(c.streams[i].streambuf) THEN c
    ELSE IF c.server THEN [c EXCEPT !.streams[i] = NoStream] ELSE c

(* remove_tx_stream_data of both applications: buffers up to offset are    *)
(* freed.  The server asserts that it knows the stream, and asks the peer  *)
(* to stop when the response is through.                                   *)
remove_tx_stream_data(c, i, offset) ==
    LET a    == c.streams[i]
        end(k) == a.tx_offset + FoldSeq(LAMBDA b, n : b.len + n, 0,
                                        SubSeq(a.streambuf, 1, k))
        n    == Cardinality({k \in DOMAIN a.streambuf : end(k) <= offset})
        c1   == [c EXCEPT !.streams[i].streambuf = SubSeq(@, n + 1, Len(@)),
                          !.streams[i].idx = @ - n,
                          !.streams[i].tx_offset = end(n)]
    IN  IF ~a.exists THEN [c EXCEPT !.crashed = IF c.server THEN "assert" ELSE @]
        ELSE IF c.server /\ a.completed /\ n = Len(a.streambuf)
        THEN shutdown_stream_read(c1, i) ELSE c1

(* call_acked_stream_offset for a frame of the packet.                     *)
acked_stream_offset(c, f) ==
    LET i    == f.id
        prev == Prefix(c.strms[i].acked)
        c1   == [c EXCEPT !.strms[i].acked =
                            IF f.len = 0 THEN @ ELSE @ \cup {f.off}]
        now  == Prefix(c1.strms[i].acked)
    IN  IF f.type # "STREAM" \/ ~c.strms[i].open THEN c
        ELSE IF now = prev /\ ~f.fin THEN c1
        ELSE close_stream_if_shut_rdwr(remove_tx_stream_data(c1, i, now), i)

(* A plausible slip: an acknowledgement covers all that was sent before.   *)
rtb_recv_ack_upto(c, f) ==
    acked_stream_offset(
        [c EXCEPT !.rtb = {g \in @ : g.id # f.id \/ g.off > f.off}], f)

rtb_recv_ack(c, f) == acked_stream_offset([c EXCEPT !.rtb = @ \ {f}], f)

(* A plausible slip: the newest limit is not sent again either.            *)
CancelledNewest(c, f) ==
    CASE f.type = "STREAM" -> ~c.strms[f.id].open \/ c.strms[f.id].sent_rst
      [] f.type = "STOP"   -> ~c.strms[f.id].open \/ c.strms[f.id].shut_rd
      [] f.type = "MAXID"  -> f.id <= c.max_remote
      [] OTHER             -> FALSE

(* conn_retransmit_protected: what is not sent again.                      *)
Cancelled(c, f) ==
    CASE f.type = "STREAM" -> ~c.strms[f.id].open \/ c.strms[f.id].sent_rst
      [] f.type = "STOP"   -> ~c.strms[f.id].open \/ c.strms[f.id].shut_rd
      [] f.type = "MAXID"  -> f.id < c.max_remote
      [] OTHER             -> FALSE

---------------------------------------------------------------------------

Sides == {"client", "server"}

Alive == \A s \in Sides : ~ep[s].error /\ ep[s].crashed = ""

Turn(s, c) ==
    /\ ep' = [ep EXCEPT ![s] = on_write(c)]
    /\ net' = net \cup ep'[s].rtb
    /\ UNCHANGED page

(* The handshake is over: extend_max_stream_id with the initial limit.     *)
Start ==
    /\ ep["client"].next = 1 /\ net = {}
    /\ Turn("client", on_extend_max_stream_id(ep["client"]))
    /\ UNCHANGED got

Recv(s, f, w) ==
    /\ Alive /\ f.to = s
    /\ Turn(s, conn_recv(ep[s], f, w))
    /\ got' = got \cup {f}

Ack(s, f) ==
    /\ Alive /\ f \in got
    /\ Turn(s, rtb_recv_ack(ep[s], f))
    /\ UNCHANGED got

(* The packet is due again; it is in net already unless its frame is       *)
(* cancelled.  After a STOP_SENDING frame is deleted the next one is       *)
(* written without a look whether there is one.                            *)
Retransmit(s, f) ==
    /\ Alive /\ Cancelled(ep[s], f)
    /\ Turn(s, [ep[s] EXCEPT !.rtb = @ \ {f},
                             !.crashed = IF f.type = "STOP" THEN "null" ELSE @])
    /\ UNCHANGED got

Init ==
    /\ page \in Pages
    /\ ep = [s \in Sides |-> conn_new(s = "server")]
    /\ net = {} /\ got = {}

Next ==
    \/ Start
    \/ \E s \in Sides, f \in net : \E w \in Outcomes(s = "server") : Recv(s, f, w)
    \/ \E s \in Sides : \E f \in ep[s].rtb : Ack(s, f) \/ Retransmit(s, f)

Spec == Init /\ [][Next]_vars

---------------------------------------------------------------------------

(* The asserts of Handler::remove_tx_stream_data and                       *)
(* Handler::on_stream_close hold: whenever the library reports on a stream *)
(* the application has an entry for it.  And the index into the buffers of *)
(* a stream (streambuf_idx, a size_t) stays within them although           *)
(* acknowledgements free buffers in front of it.                           *)
AssertsHold ==
    /\ ep["server"].crashed # "assert"
    /\ \A s \in Sides, i \in Ids :
         ep[s].streams[i].idx \in 0..Len(ep[s].streams[i].streambuf)

(* However streams are opened, finished, reset and closed, the limit the   *)
(* server advertises never lets more than the configured number be open    *)
(* at once.                                                                *)
ConcurrencyBounded ==
    Cardinality({i \in Ids : ep["server"].strms[i].open}) <= page.limit

(* As long as nobody resets a stream no frame of either program, lost,     *)
(* late, repeated or out of order, makes the other one drop the connection *)
(* with a transport error.                                                 *)
ErrorsOnlyAfterReset ==
    (\E s \in Sides : ep[s].error) => \E f \in net : f.type = "RST"

(* A request is answered once: a late copy of a frame of a stream that is  *)
(* closed never opens it again (ngtcp2_idtr).                              *)
AnsweredOnce == \A i \in Ids : ep["server"].answers[i] <= 1

Reset(i) ==
    \/ \E s \in Sides : i \in ep[s].reset
    \/ \E f \in net : f.type = "STOP" /\ f.id = i

Complete(i) ==
    LET s == ep["client"].strms[i]
    IN  ~s.open \/ (s.shut_rd /\ s.rx = s.last_rx)

(* When the server has closed a stream whose response ends in a frame that *)
(* carries data, the client has the whole response: closing, which cancels *)
(* retransmissions, loses nothing.  (An empty file ends in a frame with    *)
(* FIN alone, whose acknowledgement nobody waits for.)                     *)
CloseMeansDelivered ==
    \A i \in Ids :
        LET e == ep["server"]
        IN  e.answers[i] > 0 /\ ~e.strms[i].open /\ i \notin e.empty /\ ~Reset(i)
            => Complete(i)

(* A limit the server has raised and the client has not learned is still   *)
(* to be retransmitted.                                                    *)
CreditNotLost ==
    ep["client"].max_local < ep["server"].max_remote
    => \E f \in ep["server"].rtb : f.type = "MAXID" /\ f.id = ep["server"].max_remote

(* An exchange that is not over never rests with nobody: one side has data *)
(* of it to retransmit, or data it cannot send before others are           *)
(* acknowledged.                                                           *)
NotSilent ==
    Alive =>
    \A i \in Ids :
        ep["client"].strms[i].open /\ ~Complete(i) /\ ~Reset(i)
            /\ i \notin ep["server"].empty
        => \E s \in Sides :
              \/ \E f \in ep[s].rtb : f.type = "STREAM" /\ f.id = i
              \/ /\ ep[s].streams[i].idx < Len(ep[s].streams[i].streambuf)
                 /\ Blocked(ep[s])

(* The window of stream IDs is enlarged only when its left edge, the first *)
(* stream that was never opened, has moved (remote_stream_id_*_window_start*)
(* in ngtcp2_conn.h).  The code does not keep this.                        *)
WindowFollowsGap ==
    ep["server"].max_remote - page.limit <= idtr_first_gap(ep["server"].idtr)

=============================================================================
