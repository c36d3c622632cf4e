---------------------------------- MODULE Rtb ----------------------------------
(***************************************************************************)
(* The retransmission buffer, lib/ngtcp2_rtb.c, and what                   *)
(* lib/ngtcp2_conn.c does with it after the handshake: protected packets   *)
(* are written, expire, are retransmitted under a new packet number and    *)
(* acknowledged, and the application is told which bytes of its stream the *)
(* peer has.                                                               *)
(*                                                                         *)
(* One stream is written; MAX_DATA and RST_STREAM stand for the other      *)
(* frames, one that a newer one supersedes and one that nothing does.      *)
(* The frames of a packet are a set, and a packet is as long as it has     *)
(* frames: which of them fit is a choice.  The acknowledged bytes are a    *)
(* set; module Gaps has the list that holds them.  expiry and deadline     *)
(* count the seconds that remain, down to zero; the order in which expired *)
(* entries leave the priority queue is left open.                          *)
(***************************************************************************)
EXTENDS Integers, Sequences, SequencesExt, FiniteSets, FiniteSetsExt

CONSTANTS
    Size,       \* bytes the application writes to the stream
    Credit,     \* bound: how far the receive window is extended
    MaxPn,      \* bound: packets sent
    NGTCP2_PKT_DEADLINE_PERIOD,   \* 5; less in a run saves states
    Splits      \* TRUE if a packet may be too small for the frames at hand

ASSUME RtbAssumption ==
    /\ Size \in Nat /\ Credit \in Nat /\ MaxPn \in Nat
    /\ NGTCP2_PKT_DEADLINE_PERIOD \in Nat
    /\ Splits \in BOOLEAN

NGTCP2_INITIAL_EXPIRY == 1

STREAM(offset, len, fin) ==
    [type |-> "STREAM", offset |-> offset, len |-> len, fin |-> fin]
MAX_DATA(n) == [type |-> "MAX_DATA", max_data |-> n]
RST_STREAM  == [type |-> "RST_STREAM"]

Frames == [type : {"STREAM"}, offset : Nat, len : Nat, fin : BOOLEAN]
            \cup [type : {"MAX_DATA"}, max_data : Nat] \cup {RST_STREAM}

Bytes(f) == IF f.type = "STREAM" THEN f.offset .. f.offset + f.len - 1 ELSE {}

VARIABLES
    last,      \* last_tx_pkt_num; zero if none was sent
    rtb,       \* the entries, as the priority queue holds them
    list,      \* their packet numbers in the order of the list, from head
    in_flight, \* bytes_in_flight
    wire,      \* wire[pn]: the frames that went out in packet pn
    rcvd,      \* packets the peer has received
    strm,      \* tx_offset and flags of the stream; SHUT_RD with all received
    acked,     \* strm->acked_tx_offset: the acknowledged bytes
    frq,       \* frames waiting for a packet
    max_rx,    \* conn->max_rx_offset, beyond its first value
    unsent,    \* conn->unsent_max_rx_offset, beyond its first value
    timeout    \* NGTCP2_ERR_PKT_TIMEOUT was returned

vars == << last, rtb, list, in_flight, wire, rcvd, strm, acked, frq,
           max_rx, unsent, timeout >>

Init ==
    /\ last = 0
    /\ rtb = {} /\ list = << >>
    /\ in_flight = 0
    /\ wire = [pn \in 1 .. MaxPn |-> {}]
    /\ rcvd = {}
    /\ strm = [tx_offset |-> 0, SHUT_RD |-> FALSE, SHUT_WR |-> FALSE,
               SENT_RST |-> FALSE, closed |-> FALSE]
    /\ acked = {}
    /\ frq = {}
    /\ max_rx = 0 /\ unsent = 0
    /\ timeout = FALSE

-----------------------------------------------------------------------------
(* Entries and the two structures that hold them.                          *)

rtb_entry_new(pn, frames) ==
    [pn |-> pn, frames |-> frames, expiry |-> NGTCP2_INITIAL_EXPIRY,
     deadline |-> NGTCP2_PKT_DEADLINE_PERIOD, count |-> 0,
     pktlen |-> Cardinality(frames)]

\* ngtcp2_rtb_entry_extend_expiry: the time-out doubles.
extend_expiry(e) ==
    [e EXCEPT !.count = @ + 1,
              !.expiry = NGTCP2_INITIAL_EXPIRY * 2 ^ (e.count + 1)]

Lengths(entries) == MapThenSumSet(LAMBDA e : e.pktlen, entries)
Pns(entries) == { e.pn : e \in entries }

\* The list without the entries of gone, and otherwise as it was.
Unlinked(gone) ==
    FoldLeft(LAMBDA s, pn : IF pn \in Pns(gone) THEN s ELSE Append(s, pn),
             << >>, list)

\* Mutant of rtb_update: the bytes of the entries that go stay counted.
rtb_updateKeepsBytes(gone, added) ==
    LET new == { added[i] : i \in DOMAIN added }
    IN  /\ rtb' = (rtb \ gone) \cup new
        /\ list' = [i \in DOMAIN added |-> added[i].pn]
                     \o Unlinked(gone)
        /\ in_flight' = in_flight + Lengths(new)

\* ngtcp2_rtb_pop and rtb_remove for each entry of gone, then ngtcp2_rtb_add,
\* which links at the head, for each of the entries added from last to first.
rtb_update(gone, added) ==
    LET new == { added[i] : i \in DOMAIN added }
    IN  /\ rtb' = (rtb \ gone) \cup new
        /\ list' = [i \in DOMAIN added |-> added[i].pn]
                     \o Unlinked(gone)
        /\ in_flight' = in_flight - Lengths(gone) + Lengths(new)

\* Packet last + 1 goes out with these frames.
SendPacket(frames) ==
    /\ last < MaxPn
    /\ last' = last + 1
    /\ wire' = [wire EXCEPT ![last + 1] = frames]

NoPacket == UNCHANGED << last, wire >>

-----------------------------------------------------------------------------
(* The stream.                                                             *)

AllAcked(s, bytes) == 0 .. s.tx_offset - 1 \subseteq bytes

\* ngtcp2_conn_close_stream_if_shut_rdwr
close_if_shut_rdwr(s, bytes) ==
    [s EXCEPT !.closed = \/ @
                         \/ s.SHUT_RD /\ s.SHUT_WR
                            /\ (s.SENT_RST \/ AllAcked(s, bytes))]

\* ngtcp2_conn_write_stream, with something to write.
write_stream(len, fin) ==
    /\ ~timeout
    /\ len > 0 \/ fin
    /\ ~strm.closed /\ ~strm.SHUT_WR
    /\ strm.tx_offset + len <= Size
    /\ LET f == STREAM(strm.tx_offset, len, fin)
       IN  /\ SendPacket({f})
           /\ rtb_update({}, << rtb_entry_new(last + 1, {f}) >>)
    /\ strm' = [strm EXCEPT !.tx_offset = @ + len, !.SHUT_WR = fin]
    /\ UNCHANGED << rcvd, acked, frq, max_rx, unsent, timeout >>

\* conn_shutdown_stream_write
shutdown_stream_write ==
    /\ ~timeout
    /\ ~strm.closed /\ ~strm.SENT_RST
    /\ strm' = [strm EXCEPT !.SHUT_WR = TRUE, !.SENT_RST = TRUE]
    /\ frq' = frq \cup {RST_STREAM}
    /\ UNCHANGED << last, rtb, list, in_flight, wire, rcvd, acked, max_rx,
                    unsent, timeout >>

\* conn_recv_stream or conn_recv_rst_stream has the last of the peer's data.
ReadSideDone ==
    /\ ~timeout
    /\ ~strm.closed /\ ~strm.SHUT_RD
    /\ strm' = close_if_shut_rdwr([strm EXCEPT !.SHUT_RD = TRUE], acked)
    /\ UNCHANGED << last, rtb, list, in_flight, wire, rcvd, acked, frq,
                    max_rx, unsent, timeout >>

\* ngtcp2_conn_extend_max_offset
extend_max_offset ==
    /\ ~timeout
    /\ unsent < Credit
    /\ unsent' = unsent + 1
    /\ UNCHANGED << last, rtb, list, in_flight, wire, rcvd, strm, acked,
                    frq, max_rx, timeout >>

-----------------------------------------------------------------------------
(* ngtcp2_conn_write_pkt: a lost packet first, else what waits in frq.     *)

\* A frame that conn_retransmit_protected writes again.
Live(f) ==
    CASE f.type = "STREAM"     -> ~strm.closed /\ ~strm.SENT_RST
      [] f.type = "MAX_DATA"   -> f.max_data >= max_rx
      [] f.type = "RST_STREAM" -> TRUE

LiveFrames(e) == { f \in e.frames : Live(f) }

Expired == { e \in rtb : e.expiry = 0 }

\* Entries at which the loop of conn_retransmit ends; it deletes the others.
Stops == { e \in Expired : e.deadline = 0 \/ LiveFrames(e) # {} }
Dead  == Expired \ Stops

\* NGTCP2_ERR_PKT_TIMEOUT
GiveUp(e, gone) ==
    /\ e.deadline = 0
    /\ rtb_update(gone \cup {e}, << >>)
    /\ timeout' = TRUE
    /\ NoPacket

\* Mutant of Unwritten: the deadline starts again.
UnwrittenRenews(e, gone, frames) ==
    /\ Splits
    /\ e.deadline > 0
    /\ LiveFrames(e) \subseteq frames /\ frames \subseteq e.frames
    /\ rtb_update(gone \cup {e},
           << [e EXCEPT !.frames = frames,
                        !.deadline = NGTCP2_PKT_DEADLINE_PERIOD] >>)
    /\ NoPacket
    /\ UNCHANGED timeout

\* NGTCP2_ERR_NOBUF: frames has lost some frames that are not live.
Unwritten(e, gone, frames) ==
    /\ Splits
    /\ e.deadline > 0
    /\ LiveFrames(e) \subseteq frames /\ frames \subseteq e.frames
    /\ rtb_update(gone \cup {e}, << [e EXCEPT !.frames = frames] >>)
    /\ NoPacket
    /\ UNCHANGED timeout

\* All live frames fit in the packet.
Complete(e, gone) ==
    /\ e.deadline > 0
    /\ SendPacket(LiveFrames(e))
    /\ rtb_update(gone \cup {e},
           << [extend_expiry(e) EXCEPT !.pn = last + 1, !.frames = LiveFrames(e),
                                  !.pktlen = Cardinality(LiveFrames(e))] >>)
    /\ UNCHANGED timeout

\* Mutant of Partial: the frames left behind get the new number too.
PartialRenumbers(e, gone, written, frames) ==
    LET n == Cardinality(written)
    IN  /\ Splits
        /\ e.deadline > 0
        /\ written # {} /\ written \subseteq LiveFrames(e)
        /\ LiveFrames(e) \ written # {}
        /\ LiveFrames(e) \ written \subseteq frames
        /\ frames \subseteq e.frames \ written
        /\ SendPacket(written)
        /\ rtb_update(gone \cup {e},
               << [e EXCEPT !.pn = last + 1, !.frames = frames, !.pktlen = n],
                  [extend_expiry(e) EXCEPT !.pn = last + 1, !.frames = written,
                                      !.pktlen = n] >>)
        /\ UNCHANGED timeout

\* Some do; the others stay behind under the old number, and at the head.
Partial(e, gone, written, frames) ==
    LET n == Cardinality(written)
    IN  /\ Splits
        /\ e.deadline > 0
        /\ written # {} /\ written \subseteq LiveFrames(e)
        /\ LiveFrames(e) \ written # {}
        /\ LiveFrames(e) \ written \subseteq frames
        /\ frames \subseteq e.frames \ written
        /\ SendPacket(written)
        /\ rtb_update(gone \cup {e},
               << [e EXCEPT !.frames = frames, !.pktlen = n],
                  [extend_expiry(e) EXCEPT !.pn = last + 1, !.frames = written,
                                      !.pktlen = n] >>)
        /\ UNCHANGED timeout

conn_retransmit ==
    /\ ~timeout
    /\ \E e \in Stops : \E gone \in SUBSET Dead :
          \/ GiveUp(e, gone)
          \/ \E frames \in SUBSET e.frames : Unwritten(e, gone, frames)
          \/ Complete(e, gone)
          \/ \E written, frames \in SUBSET e.frames :
                Partial(e, gone, written, frames)
    /\ UNCHANGED << rcvd, strm, acked, frq, max_rx, unsent >>

\* The frames conn_write_pkt has to write.  A MAX_DATA goes with any other
\* frame or ACK, else when conn_should_send_max_data says it is due.
\* RST_STREAM is the application's: the one that answers STOP_SENDING (code
\* NGTCP2_STOPPING) is sent for a closed stream too.
ToWrite(due) ==
    { f \in frq : f = RST_STREAM => ~strm.closed }
      \cup IF unsent > max_rx /\ (due \/ frq # {}) THEN {MAX_DATA(unsent)} ELSE {}

conn_write_pkt(due, written) ==
    /\ ~timeout
    /\ Stops = {}
    /\ written \subseteq ToWrite(due)
    /\ Splits \/ written = ToWrite(due)
    /\ frq' = ToWrite(due) \ written
    /\ max_rx' = IF due \/ frq # {} THEN unsent ELSE max_rx
    /\ \/ /\ written = {}
          /\ NoPacket
          /\ rtb_update(Dead, << >>)
       \/ /\ written # {}
          /\ SendPacket(written)
          /\ rtb_update(Dead, << rtb_entry_new(last + 1, written) >>)
    /\ UNCHANGED << rcvd, strm, acked, unsent, timeout >>

-----------------------------------------------------------------------------
(* The network and the clock.                                              *)

\* The peer receives packet pn, for the first time.
Receive(pn) ==
    /\ rcvd' = rcvd \cup {pn}
    /\ UNCHANGED << last, rtb, list, in_flight, wire, strm, acked, frq, max_rx,
                    unsent, timeout >>

Tick ==
    /\ ~timeout
    /\ rtb' = { [e EXCEPT !.expiry = Max({@ - 1, 0}),
                          !.deadline = Max({@ - 1, 0})] : e \in rtb }
    /\ UNCHANGED << last, list, in_flight, wire, rcvd, strm, acked, frq, max_rx,
                    unsent, timeout >>

-----------------------------------------------------------------------------
(* ngtcp2_rtb_recv_ack for the ACK frame that lists the packets of A.      *)

\* The blocks of the frame, largest packet numbers first.
Tops(A) ==
    LET tops == { p \in A : p + 1 \notin A }
        n    == Cardinality(tops)
    IN  CHOOSE s \in [1 .. n -> tops] : \A i, j \in 1 .. n : i < j => s[i] > s[j]
Block(A, top) == { p \in 0 .. top : p .. top \subseteq A }

\* The first position of the list, i or later, whose packet satisfies Test.
Find(i, Test(_)) ==
    Min({ j \in i .. Len(list) : Test(list[j]) } \cup {Len(list) + 1})

\* Mutant of WalkEnds: the walk leaves every block at the first packet that is
\* not in it.
WalkEndsEager(A) ==
    LET tops  == Tops(A)
        start == Find(1, LAMBDA pn : pn <= tops[1])
        end[k \in 0 .. Len(tops)] ==
            IF k = 0 THEN start
            ELSE Find(end[k - 1], LAMBDA pn : pn \notin Block(A, tops[k]))
    IN  end

\* Where the walk along the list leaves each block.  It enters the first one
\* at a packet that is not above it and leaves it at the first that is not in
\* it; from a later block it goes on over the packets above it.
WalkEnds(A) ==
    LET tops  == Tops(A)
        start == Find(1, LAMBDA pn : pn <= tops[1])
        end[k \in 0 .. Len(tops)] ==
            CASE k = 0 -> start
              [] k = 1 -> Find(start, LAMBDA pn : pn \notin Block(A, tops[1]))
              [] OTHER -> Find(end[k - 1],
                               LAMBDA pn : pn < Min(Block(A, tops[k])))
    IN  end

\* Mutant of Removed: everything up to the largest packet.
RemovedCumulative(A) == { i \in DOMAIN list : list[i] <= Max(A) }

\* Positions of the entries the walk removes.
Removed(A) ==
    LET tops == Tops(A)
        ends == WalkEnds(A)
    IN  { i \in DOMAIN list : \E k \in DOMAIN tops :
             /\ ends[k - 1] <= i /\ i < ends[k]
             /\ list[i] \in Block(A, tops[k]) }

StreamFramesAt(I) ==
    { f \in UNION { e.frames : e \in { d \in rtb : \E i \in I : d.pn = list[i] } } :
        f.type = "STREAM" }

\* The last gap of the list goes on beyond the data.
FirstGap(bytes) == Min((0 .. Size + 1) \ bytes)

\* call_acked_stream_offset, for the removed entry at position i: what the
\* callback acked_stream_data_offset is told.
Reports(I, i) ==
    LET before == acked \cup
                    UNION { Bytes(f) : f \in StreamFramesAt({ j \in I : j < i }) }
    IN  { r \in { [ frame   |-> f,
                    offset  |-> FirstGap(before),
                    datalen |-> FirstGap(before \cup Bytes(f)) - FirstGap(before) ]
                  : f \in StreamFramesAt({i}) } :
          r.datalen > 0 \/ r.frame.fin }

recv_ack(A) ==
    LET I     == Removed(A)
        bytes == acked \cup UNION { Bytes(f) : f \in StreamFramesAt(I) }
    IN  /\ ~timeout
        /\ rtb_update({ e \in rtb : \E i \in I : e.pn = list[i] }, << >>)
        /\ IF strm.closed THEN UNCHANGED << strm, acked >>
           ELSE /\ acked' = bytes
                /\ IF \E i \in I : Reports(I, i) # {}
                   THEN strm' = close_if_shut_rdwr(strm, bytes)
                   ELSE UNCHANGED strm
        /\ UNCHANGED << last, wire, rcvd, frq, max_rx, unsent, timeout >>

-----------------------------------------------------------------------------
Next ==
    \/ \E len \in 0 .. Size, fin \in BOOLEAN : write_stream(len, fin)
    \/ shutdown_stream_write
    \/ ReadSideDone
    \/ extend_max_offset
    \/ conn_retransmit
    \/ \E due \in BOOLEAN : \E written \in SUBSET ToWrite(due) :
          conn_write_pkt(due, written)
    \/ \E pn \in (1 .. last) \ rcvd : Receive(pn)
    \/ Tick
    \/ \E A \in (SUBSET rcvd) \ {{}} : recv_ack(A)

Spec == Init /\ [][Next]_vars

\* The endpoint's timer follows the earliest expiry of the priority queue, and
\* its callback calls ngtcp2_conn_write_pkt; time passes.  The condition is
\* that of the call: some entry has expired.
CallDue == ~timeout /\ Expired # {}

WritePktCall ==
    \/ conn_retransmit
    \/ \E due \in BOOLEAN : \E written \in SUBSET ToWrite(due) :
          conn_write_pkt(due, written)

Fairness ==
    /\ WF_vars(Tick)
    /\ []<>~CallDue \/ []<><< WritePktCall >>_vars

FairSpec == Spec /\ Fairness

-----------------------------------------------------------------------------
Received == UNION { wire[pn] : pn \in rcvd }
Buffered == UNION { e.frames : e \in rtb }

\* The list and the priority queue hold the same packets, each once, and
\* bytes_in_flight "is the sum of packet length linked from head" (rtb.h).
InFlightAccounted ==
    /\ Cardinality(Pns(rtb)) = Cardinality(rtb)
    /\ Len(list) = Cardinality(rtb)
    /\ { list[i] : i \in DOMAIN list } = Pns(rtb)
    /\ in_flight = Lengths(rtb)

\* The application frees what acked_stream_data_offset reports: the peer has
\* those bytes, whatever was split, renumbered and acknowledged in between.
AckedWasReceived ==
    \A b \in acked : \E f \in Received : b \in Bytes(f)

\* Unless the connection has timed out, what was written is with the peer or
\* still in the buffer: the bytes of the stream, its end while it is open, the
\* latest MAX_DATA and the RST_STREAM (conn_retransmit drops only frames that
\* do not matter any more).
NothingForgotten ==
    ~timeout =>
      /\ ~strm.SENT_RST => \A b \in 0 .. strm.tx_offset - 1 :
            \E f \in Received \cup Buffered : b \in Bytes(f)
      /\ strm.SHUT_WR /\ ~strm.SENT_RST /\ ~strm.closed =>
            \E f \in Received \cup Buffered : f.type = "STREAM" /\ f.fin
      /\ max_rx > 0 => MAX_DATA(max_rx) \in Received \cup Buffered \cup frq
      /\ strm.SENT_RST /\ ~strm.closed =>
            RST_STREAM \in Received \cup Buffered \cup frq

\* "head points to the singly linked list of ngtcp2_rtb_entry, sorted by
\* decreasing order of packet number" (rtb.h); the walk relies on it.
Sorted == \A i, j \in DOMAIN list : i < j => list[i] > list[j]

\* While the list is in that order an ACK frame removes the packets it lists,
\* all of them and no other: the one walk of ngtcp2_rtb_recv_ack finds them
\* wherever they are in the list.  Whatever the order, it removes no other.
AckRemovesExactly ==
    \A A \in (SUBSET rcvd) \ {{}} :
        LET removed == { list[i] : i \in Removed(A) }
        IN  /\ removed \subseteq A \cap Pns(rtb)
            /\ Sorted => removed = A \cap Pns(rtb)

\* A packet is not retransmitted for ever: the buffer gets empty or the
\* connection times out (expiry and deadline of ngtcp2_rtb_entry).
Drains == []<>(rtb = {} \/ timeout)
=============================================================================
