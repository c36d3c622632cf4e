------------------------------ MODULE StreamRecv ------------------------------
(***************************************************************************)
(* The receiving side of one stream: conn_recv_stream, conn_recv_rst_stream*)
(* and the flow control of lib/ngtcp2_conn.c over the reorder buffer of    *)
(* lib/ngtcp2_rob.c.                                                       *)
(*                                                                         *)
(* The reorder buffer keeps the list of byte ranges not received yet (gap) *)
(* and a list of chunks of memory, sorted by offset, for bytes that came   *)
(* early.  Byte i of the stream has the value i + 1; a byte read from      *)
(* memory nobody wrote is Junk.                                            *)
(*                                                                         *)
(* The peer respects flow control and cuts what it has written into frames *)
(* as it likes.  Frames may be lost, reordered, repeated and cut anew: any *)
(* frame of data that was sent may arrive at any time, any number of times.*)
(***************************************************************************)
EXTENDS Gaps

CONSTANTS
    Size,      \* bytes the peer writes to the stream
    Chunk,     \* bytes of a chunk of the reorder buffer
    Window,    \* local_settings.max_stream_data
    MaxData,   \* local_settings.max_data
    Resets     \* whether either end may give the stream up

ASSUME StreamAssumption ==
    /\ Size \in Nat /\ Chunk \in Nat \ {0}
    /\ Window \in Nat \ {0} /\ MaxData \in Nat \ {0}
    /\ Resets \subseteq BOOLEAN

Infinity == Size + 1          \* UINT64_MAX, the end of the last gap
Offset   == 0 .. Infinity
Junk     == 0

Bytes(begin, end) == { i \in Offset : begin <= i /\ i < end }

-----------------------------------------------------------------------------
(* ngtcp2_rob.                                                             *)

rob_init == [gap |-> gaptr_init(Infinity), data |-> {}, mem |-> {}]

rob_first_gap_offset(rob) == gaptr_first_gap_offset(rob.gap)

\* Mutant of rob_write_data: only the part in the first chunk is copied.
rob_write_dataFirst(rob, bytes) ==
    [rob EXCEPT !.data = @ \cup { (i \div Chunk) * Chunk : i \in bytes },
                !.mem  = @ \cup { i \in bytes :
                                    i \div Chunk = Min(bytes) \div Chunk }]

\* Bytes are copied to the chunks they belong to, which are allocated as
\* needed.
rob_write_data(rob, bytes) ==
    [rob EXCEPT !.data = @ \cup { (i \div Chunk) * Chunk : i \in bytes },
                !.mem  = @ \cup bytes]

\* Bytes that lie in a gap are written, the gaps give way.
rob_push(rob, offset, len) ==
    LET missing == UNION { Bytes(rob.gap[i].begin, rob.gap[i].end) :
                             i \in DOMAIN rob.gap }
        fresh   == Bytes(offset, offset + len) \cap missing
        written == IF fresh = {} THEN rob ELSE rob_write_data(rob, fresh)
    IN  [written EXCEPT !.gap = gaptr_push(@, offset, len)]

\* Chunks go, and what was written to them with them.
FreeChunks(rob, chunks) ==
    [rob EXCEPT !.data = @ \ chunks,
                !.mem  = { i \in @ : (i \div Chunk) * Chunk \notin chunks }]

rob_remove_prefix(rob, offset) ==
    LET gone == { i \in DOMAIN rob.gap : rob.gap[i].end <= offset }
        left == SubSeq(rob.gap, Cardinality(gone) + 1, Len(rob.gap))
        trim(g) == range(Max({offset, g.begin}), g.end)
    IN  FreeChunks([rob EXCEPT !.gap = [i \in DOMAIN left |-> trim(left[i])]],
                   { k \in rob.data : k + Chunk <= offset })

\* The three assertions of ngtcp2_rob_data_at.
rob_data_at_asserts(rob, offset) ==
    /\ rob.data # {}
    /\ Min(rob.data) <= offset
    /\ offset < Min(rob.data) + Chunk

\* How many buffered bytes can be passed on from offset.
rob_data_at(rob, offset) ==
    IF rob_first_gap_offset(rob) <= offset THEN 0
    ELSE Min({rob_first_gap_offset(rob), Min(rob.data) + Chunk}) - offset

rob_pop(rob, offset, len) ==
    IF offset + len < Min(rob.data) + Chunk THEN rob
    ELSE FreeChunks(rob, {Min(rob.data)})

-----------------------------------------------------------------------------
VARIABLES
    peer,     \* the sending end: next offset, whether it has ended or reset
              \* the stream, and the limits it was told
    limits,   \* MAX_STREAM_DATA and MAX_DATA frames sent to it
    rob,      \* strm->rob
    strm,     \* ngtcp2_strm: opened once it exists, its offsets and flags, fc
              \* when it is in fc_strms
    conn,     \* rx_offset, max_rx_offset, unsent_max_rx_offset
    out,      \* bytes passed to the recv_stream_data callback
    fins,     \* how often it was called with fin set
    closed,   \* ngtcp2_conn_close_stream has run
    err       \* error of ngtcp2_conn_recv, or a failed assertion

vars == << peer, limits, rob, strm, conn, out, fins, closed, err >>

Init ==
    /\ \E resets \in Resets :
          peer = [off |-> 0, fin |-> FALSE, rst |-> FALSE, max |-> Window,
                  maxData |-> MaxData, resets |-> resets]
    /\ limits = {}
    /\ rob = rob_init
    /\ \E opened, uni \in BOOLEAN :
          /\ opened => ~ uni      \* our own stream, or one of the peer
          /\ strm = [opened |-> opened, last_rx_offset |-> 0,
                     max_rx_offset |-> Window, unsent_max_rx_offset |-> Window,
                     SHUT_RD |-> FALSE, RECV_RST |-> FALSE,
                     STOP_SENDING |-> FALSE, SHUT_WR |-> uni, fc |-> FALSE]
    /\ conn = [rx_offset |-> 0, max_rx_offset |-> MaxData,
               unsent_max_rx_offset |-> MaxData]
    /\ out = << >>
    /\ fins = 0
    /\ closed = FALSE
    /\ err = "none"

-----------------------------------------------------------------------------
(* The peer.                                                               *)

\* It writes its next bytes, as far as flow control lets it, or the end.
PeerSend(len, fin) ==
    LET end == peer.off + len
    IN  /\ ~ peer.fin /\ ~ peer.rst
        /\ end <= Min({Size, peer.max, peer.maxData})
        /\ len > 0 \/ fin
        /\ fin => end = Size
        /\ peer' = [peer EXCEPT !.off = end, !.fin = fin]
        /\ UNCHANGED << limits, rob, strm, conn, out, fins, closed, err >>

\* It resets the stream, of its own or because it was asked to stop.
PeerReset ==
    /\ peer.resets
    /\ ~ peer.rst
    /\ peer' = [peer EXCEPT !.rst = TRUE]
    /\ UNCHANGED << limits, rob, strm, conn, out, fins, closed, err >>

\* The frames it may have sent by now.
Frames ==
    { fr \in [type : {"STREAM"}, offset : 0 .. Size, len : 0 .. Size, fin : BOOLEAN] :
        /\ fr.offset + fr.len <= peer.off
        /\ fr.fin => peer.fin /\ fr.offset + fr.len = Size
        /\ fr.len > 0 \/ fr.fin }
    \cup { fr \in [type : {"RST_STREAM"}, final : {peer.off}] : peer.rst }

PeerRecvLimit(l) ==
    /\ l \in limits
    /\ peer' = [peer EXCEPT
                  !.max = IF l.type = "MAX_STREAM_DATA" THEN Max({@, l.max}) ELSE @,
                  !.maxData = IF l.type = "MAX_DATA" THEN Max({@, l.max}) ELSE @]
    /\ UNCHANGED << limits, rob, strm, conn, out, fins, closed, err >>

-----------------------------------------------------------------------------
(* Passing data on.  The functions work on the record st of what a call    *)
(* changes: rob, strm, conn, out, fins, closed and err.  refuse: the       *)
(* application gives the stream up when it is called.                      *)

State(refuse) ==
    [rob |-> rob, strm |-> strm, conn |-> conn, out |-> out, fins |-> fins,
     closed |-> closed, err |-> err, refuse |-> refuse]

Fail(st, code) == [st EXCEPT !.err = code]

\* Mutant of conn_should_send_max_stream_data: more than a window is waited for.
ShouldSendLate(t) == Window < t.unsent_max_rx_offset - t.max_rx_offset

conn_should_send_max_stream_data(t) ==
    Window \div 2 < t.unsent_max_rx_offset - t.max_rx_offset

conn_should_send_max_data(n) ==
    MaxData \div 2 < n.unsent_max_rx_offset - n.max_rx_offset

\* ngtcp2_conn_extend_max_stream_offset and ngtcp2_conn_extend_max_offset.
ExtendWindows(st, len) ==
    LET t == [st.strm EXCEPT !.unsent_max_rx_offset = @ + len]
        listed == t.fc \/ /\ ~ t.SHUT_RD /\ ~ t.STOP_SENDING
                          /\ conn_should_send_max_stream_data(t)
    IN  [st EXCEPT !.strm = [t EXCEPT !.fc = listed],
                   !.conn.unsent_max_rx_offset = @ + len]

\* STOP_SENDING goes to the peer, and no MAX_STREAM_DATA any more.
conn_shutdown_stream_read(t) == [t EXCEPT !.STOP_SENDING = TRUE, !.fc = FALSE]

\* RST_STREAM goes to the peer.
conn_shutdown_stream_write(t) == [t EXCEPT !.SHUT_WR = TRUE]

\* conn_call_recv_stream_data: the application takes the bytes, extends both
\* windows by as many, and may find that it does not want the stream.
conn_call_recv_stream_data(st, fin, bytes) ==
    [ExtendWindows(st, Len(bytes)) EXCEPT
        !.out  = @ \o bytes,
        !.fins = IF fin THEN @ + 1 ELSE @,
        !.strm = IF st.refuse
                 THEN conn_shutdown_stream_write(conn_shutdown_stream_read(@))
                 ELSE @]

\* What a read of n bytes of the head chunk from offset returns.
ReadChunk(r, offset, n) ==
    [i \in 1 .. n |-> IF offset + i - 1 \in r.mem THEN offset + i ELSE Junk]

\* One round of the loop in conn_emit_pending_stream_data; rx is rx_offset.
EmitRound(acc) ==
    LET st == acc.st
        n  == rob_data_at(st.rob, acc.rx)
        rx == acc.rx + n
        taken == conn_call_recv_stream_data(st,
                    st.strm.SHUT_RD /\ rx = st.strm.last_rx_offset,
                    ReadChunk(st.rob, acc.rx, n))
    IN  IF st.err # "none" \/ rob_first_gap_offset(st.rob) <= acc.rx THEN acc
        ELSE IF ~ rob_data_at_asserts(st.rob, acc.rx)
        THEN [acc EXCEPT !.st = Fail(st, "assert")]
        ELSE [st |-> [taken EXCEPT !.rob = rob_pop(@, acc.rx, n)], rx |-> rx]

\* The loop passes on one chunk or part of one in a round.
conn_emit_pending_stream_data(st, rx_offset) ==
    LET rounds == 1 .. Cardinality(st.rob.data) + 1
        last == FoldSet(LAMBDA i, acc : EmitRound(acc),
                        [st |-> st, rx |-> rx_offset], rounds)
    IN  IF last.rx = rob_first_gap_offset(last.st.rob) THEN last.st
        ELSE Fail(last.st, "assert")

ngtcp2_conn_close_stream_if_shut_rdwr(st) ==
    [st EXCEPT !.closed =
        \/ @
        \/ /\ st.strm.SHUT_RD /\ st.strm.SHUT_WR
           /\ \/ st.strm.RECV_RST
              \/ rob_first_gap_offset(st.rob) = st.strm.last_rx_offset]

-----------------------------------------------------------------------------
(* Frames from the peer.                                                   *)

\* The end of conn_recv_stream: data at the front is passed on with what
\* was waiting for it, other data is buffered.
TakeData(st, fr) ==
    LET rx    == rob_first_gap_offset(st.rob)
        end   == fr.offset + fr.len
        fresh == [i \in 1 .. end - rx |-> rx + i]
        first == conn_call_recv_stream_data(
                    [st EXCEPT !.rob = rob_remove_prefix(@, end)],
                    st.strm.SHUT_RD /\ end = st.strm.last_rx_offset, fresh)
    IN  ngtcp2_conn_close_stream_if_shut_rdwr(
            IF fr.offset <= rx
            THEN conn_emit_pending_stream_data(first, end)
            ELSE [st EXCEPT !.rob = rob_push(@, fr.offset, fr.len)])

\* A STREAM frame with the fin flag.
TakeFin(st, fr) ==
    LET end == fr.offset + fr.len
        t   == [st.strm EXCEPT !.last_rx_offset = end, !.SHUT_RD = TRUE]
        shut == [st EXCEPT !.strm = [t EXCEPT !.fc = FALSE]]
    IN  IF st.strm.SHUT_RD
        THEN IF st.strm.last_rx_offset # end THEN Fail(st, "FINAL_OFFSET") ELSE st
        ELSE IF st.strm.last_rx_offset > end THEN Fail(st, "FINAL_OFFSET")
        ELSE IF t.STOP_SENDING
        THEN ngtcp2_conn_close_stream_if_shut_rdwr([st EXCEPT !.strm = t])
        ELSE IF end = rob_first_gap_offset(st.rob)
        THEN ngtcp2_conn_close_stream_if_shut_rdwr(
                conn_call_recv_stream_data(shut, TRUE, << >>))
        ELSE TakeData(shut, fr)

\* A STREAM frame without it.
TakeNoFin(st, fr) ==
    LET end  == fr.offset + fr.len
        seen == [st EXCEPT !.strm.last_rx_offset = Max({@, end})]
    IN  IF st.strm.SHUT_RD /\ st.strm.last_rx_offset < end
        THEN Fail(st, "FINAL_OFFSET")
        ELSE IF end <= rob_first_gap_offset(st.rob) \/ st.strm.STOP_SENDING
        THEN seen
        ELSE TakeData(seen, fr)

conn_max_data_violated(len) == conn.max_rx_offset - conn.rx_offset < len

\* Mutant of conn_recv_stream: bytes that came before are counted again.
conn_recv_streamRecounts(st, fr) ==
    LET end == fr.offset + fr.len
        counted == [st EXCEPT !.conn.rx_offset = @ + fr.len, !.strm.opened = TRUE]
    IN  IF strm.max_rx_offset < end \/ conn_max_data_violated(fr.len)
        THEN Fail(st, "FLOW_CONTROL")
        ELSE IF fr.fin THEN TakeFin(counted, fr) ELSE TakeNoFin(counted, fr)

conn_recv_stream(st, fr) ==
    LET end == fr.offset + fr.len
        len == Max({0, end - strm.last_rx_offset})
        counted == [st EXCEPT !.conn.rx_offset = @ + len, !.strm.opened = TRUE]
    IN  IF strm.max_rx_offset < end \/ conn_max_data_violated(len)
        THEN Fail(st, "FLOW_CONTROL")
        ELSE IF fr.fin THEN TakeFin(counted, fr) ELSE TakeNoFin(counted, fr)

\* A stream reset before it exists is never created, and its data ignored.
conn_recv_rst_stream(st, fr) ==
    LET len == fr.final - strm.last_rx_offset
    IN  IF ~ strm.opened
        THEN IF Window < fr.final \/ conn_max_data_violated(fr.final)
             THEN Fail(st, "FLOW_CONTROL")
             ELSE [st EXCEPT !.conn.rx_offset = @ + fr.final, !.closed = TRUE]
        ELSE IF \/ strm.SHUT_RD /\ strm.last_rx_offset # fr.final
           \/ strm.last_rx_offset > fr.final
        THEN Fail(st, "FINAL_OFFSET")
        ELSE IF strm.max_rx_offset < fr.final \/ conn_max_data_violated(len)
        THEN Fail(st, "FLOW_CONTROL")
        ELSE ngtcp2_conn_close_stream_if_shut_rdwr(
                [st EXCEPT !.conn.rx_offset = @ + len,
                           !.strm.SHUT_RD = TRUE, !.strm.RECV_RST = TRUE])

Become(st) ==
    /\ rob' = st.rob /\ strm' = st.strm /\ conn' = st.conn /\ out' = st.out
    /\ fins' = st.fins /\ closed' = st.closed /\ err' = st.err

Arrival(fr, refuse) ==
    IF fr.type = "STREAM" THEN conn_recv_stream(State(refuse), fr)
    ELSE conn_recv_rst_stream(State(refuse), fr)

\* Frames of a closed stream are ignored; an error ends the connection.
RecvFrame(fr, refuse) ==
    /\ err = "none" /\ ~ closed
    /\ Become(Arrival(fr, refuse))
    /\ UNCHANGED << peer, limits >>

-----------------------------------------------------------------------------
(* The local end.                                                          *)

\* conn_write_pkt announces the new limits of the listed stream.
SendMaxStreamData ==
    /\ err = "none" /\ ~ closed
    /\ strm.fc
    /\ strm' = [strm EXCEPT !.max_rx_offset = strm.unsent_max_rx_offset, !.fc = FALSE]
    /\ limits' = limits \cup {[type |-> "MAX_STREAM_DATA",
                                max |-> strm.unsent_max_rx_offset]}
    /\ UNCHANGED << peer, rob, conn, out, fins, closed, err >>

\* MAX_DATA goes out with any packet, and makes one when half is used up.
SendMaxData ==
    /\ err = "none"
    /\ conn.unsent_max_rx_offset > conn.max_rx_offset
    /\ conn' = [conn EXCEPT !.max_rx_offset = conn.unsent_max_rx_offset]
    /\ limits' = limits \cup {[type |-> "MAX_DATA",
                                max |-> conn.unsent_max_rx_offset]}
    /\ UNCHANGED << peer, rob, strm, out, fins, closed, err >>

\* The local end has sent its fin and the peer has acknowledged everything,
\* or the peer has asked to stop sending and gets a reset.
WriteSideDone ==
    /\ err = "none" /\ ~ closed /\ strm.opened
    /\ Become(ngtcp2_conn_close_stream_if_shut_rdwr(
                 [State(FALSE) EXCEPT !.strm.SHUT_WR = TRUE]))
    /\ UNCHANGED << peer, limits >>

ngtcp2_conn_shutdown_stream_read ==
    /\ peer.resets
    /\ err = "none" /\ ~ closed /\ strm.opened /\ ~ strm.STOP_SENDING
    /\ strm' = conn_shutdown_stream_read(strm)
    /\ UNCHANGED << peer, limits, rob, conn, out, fins, closed, err >>

-----------------------------------------------------------------------------

Refusals == IF peer.resets THEN BOOLEAN ELSE {FALSE}

Next ==
    \/ \E len \in 0 .. Size, fin \in BOOLEAN : PeerSend(len, fin)
    \/ PeerReset
    \/ \E l \in limits : PeerRecvLimit(l)
    \/ \E fr \in Frames, refuse \in Refusals : RecvFrame(fr, refuse)
    \/ SendMaxStreamData
    \/ SendMaxData
    \/ WriteSideDone
    \/ ngtcp2_conn_shutdown_stream_read

Spec == Init /\ [][Next]_vars

\* Some frame would change something if it arrived, that is
\* ENABLED << \E fr \in Frames : RecvFrame(fr, FALSE) >>_vars written out.
FramePending ==
    /\ err = "none" /\ ~ closed
    /\ \E fr \in Frames : Arrival(fr, FALSE) # State(FALSE)

\* Lost frames are sent again until they arrive, conn_write_pkt runs on every
\* turn of the event loop, and the peer has something to say.  A frame that
\* changes nothing is a stuttering step and satisfies no fairness condition.
Fairness ==
    /\ WF_vars(\E len \in 0 .. Size, fin \in BOOLEAN : PeerSend(len, fin))
    /\ []<>(~ FramePending) \/ []<><< \E fr \in Frames : RecvFrame(fr, FALSE) >>_vars
    /\ WF_vars(\E l \in limits : PeerRecvLimit(l))
    /\ WF_vars(SendMaxStreamData)
    /\ WF_vars(conn_should_send_max_data(conn) /\ SendMaxData)

FairSpec == Spec /\ Fairness

-----------------------------------------------------------------------------
(* Properties.                                                             *)

\* However frames are cut, reordered and repeated, the application gets the
\* bytes the peer wrote, in order, and is told of the end once, with the last
\* byte (conn_recv_stream, conn_emit_pending_stream_data).  A stream that may
\* be given up implements nothing more than the initial state; IntactPrefix is
\* about it.
Stream == INSTANCE ByteStream WITH
    written  <- IF peer.resets THEN 0 ELSE peer.off,
    finished <- ~ peer.resets /\ peer.fin,
    read     <- IF peer.resets THEN << >> ELSE out,
    ended    <- ~ peer.resets /\ fins > 0

IsByteStream == Stream!Spec

\* When either end may give the stream up, what the application gets is still
\* an initial part of what was written, no assertion fails, and the stream is
\* closed with bytes missing only if the peer has reset it
\* (ngtcp2_conn_close_stream_if_shut_rdwr).
IntactPrefix ==
    /\ out = [i \in 1 .. Len(out) |-> i]
    /\ Len(out) <= peer.off
    /\ err # "assert"
    /\ closed => peer.rst \/ Len(out) = Size

\* Credit is neither lost nor made up: the peer may be granted what the
\* application has consumed plus a window, and no stream is closed before
\* its data was passed on (conn_extend_max_stream_offset, conn_recv_stream).
\* So a peer that respects the announced limits never draws an error.
CreditConserved ==
    ~ peer.resets =>
    /\ err = "none"
    /\ strm.unsent_max_rx_offset = Window + Len(out)
    /\ conn.unsent_max_rx_offset = MaxData + Len(out)
    /\ conn.rx_offset = strm.last_rx_offset
    /\ peer.max <= strm.max_rx_offset /\ peer.maxData <= conn.max_rx_offset
    /\ closed => fins = 1 /\ Len(out) = Size

\* Flow control never leaves both ends waiting: the application gets the whole
\* stream (conn_should_send_max_stream_data, conn_should_send_max_data).
Delivered == <>(peer.resets \/ (fins = 1 /\ Len(out) = Size))

\* After RST_STREAM nothing more is passed to the application, as the comment
\* on NGTCP2_STRM_FLAG_SHUT_RD says (ngtcp2_strm.h).
ResetEndsReception == [][strm.RECV_RST => out' = out]_vars

=============================================================================
