------------------------------ MODULE RtbProofs ------------------------------
(***************************************************************************)
(* Theorems about Rtb.tla, for any amount of data, any number of packets   *)
(* and any deadline, with packets that split and packets that do not.      *)
(***************************************************************************)
EXTENDS Rtb, Induction, TLAPS

\* An entry is a record with these fields, whatever they hold.
IsEntry(e) ==
    e = [k \in {"pn", "frames", "expiry", "deadline", "count", "pktlen"} |-> e[k]]

IsStrm(s) ==
    s \in [tx_offset : Nat, SHUT_RD : BOOLEAN, SHUT_WR : BOOLEAN,
           SENT_RST : BOOLEAN, closed : BOOLEAN]

Types ==
    /\ last \in Nat
    /\ wire \in [1 .. MaxPn -> SUBSET Frames]
    /\ rcvd \subseteq 1 .. last
    /\ IsStrm(strm)
    /\ frq \subseteq Frames
    /\ max_rx \in Nat /\ unsent \in Nat /\ max_rx <= unsent
    /\ timeout \in BOOLEAN

\* What an entry holds went out under its packet number.
EntriesSent ==
    \A e \in rtb : /\ IsEntry(e)
                   /\ e.pn \in 1 .. last /\ e.pn \in 1 .. MaxPn
                   /\ e.frames \subseteq wire[e.pn]

\* A stream is closed when it was reset or all its bytes are acknowledged.
ClosedIsDone == strm.closed => strm.SENT_RST \/ AllAcked(strm, acked)

Inv == /\ Types /\ EntriesSent /\ ClosedIsDone
       /\ AckedWasReceived /\ NothingForgotten

-----------------------------------------------------------------------------
(* What ngtcp2_rtb_add and ngtcp2_rtb_pop leave in the buffer.             *)

LEMMA UpdateNone ==
    ASSUME NEW gone, rtb_update(gone, << >>)
    PROVE  rtb' = rtb \ gone
BY DEF rtb_update

LEMMA UpdateOne ==
    ASSUME NEW gone, NEW e, rtb_update(gone, << e >>)
    PROVE  rtb' = (rtb \ gone) \cup {e}
<1>1. { << e >>[i] : i \in DOMAIN << e >> } = {e}
  OBVIOUS
<1> QED
  BY <1>1 DEF rtb_update

LEMMA UpdateTwo ==
    ASSUME NEW gone, NEW e, NEW d, rtb_update(gone, << e, d >>)
    PROVE  rtb' = (rtb \ gone) \cup {e, d}
<1>1. { << e, d >>[i] : i \in DOMAIN << e, d >> } = {e, d}
  <2>1. DOMAIN << e, d >> = {1, 2}
    OBVIOUS
  <2> QED
    BY <2>1
<1> QED
  BY <1>1 DEF rtb_update

\* Sending a packet leaves the packets sent before alone.
LEMMA SendKeeps ==
    ASSUME Types, NEW frames \in SUBSET Frames, SendPacket(frames)
    PROVE  /\ last' = last + 1 /\ last' \in Nat /\ last + 1 \in 1 .. MaxPn
           /\ wire' \in [1 .. MaxPn -> SUBSET Frames]
           /\ wire'[last + 1] = frames
           /\ \A pn \in 1 .. last : wire'[pn] = wire[pn]
BY RtbAssumption DEF Types, SendPacket

\* What the peer has received stays received.
LEMMA ReceivedGrows ==
    ASSUME Types, rcvd \subseteq rcvd', \A pn \in 1 .. last : wire'[pn] = wire[pn]
    PROVE  Received \subseteq Received'
BY DEF Types, Received

\* A step that loses only frames which conn_retransmit_protected or
\* conn_write_pkt would not write forgets nothing.
LEMMA KeepsLive ==
    ASSUME Inv, Received \subseteq Received',
           strm' = strm, timeout => timeout',
           \A f \in Buffered : Live(f) => f \in Buffered' \cup Received',
           \A f \in frq : \/ f \in Buffered' \cup frq'
                          \/ f = RST_STREAM /\ strm.closed,
           max_rx' = max_rx \/ MAX_DATA(max_rx') \in Buffered' \cup frq'
    PROVE  NothingForgotten'
<1> SUFFICES ASSUME ~timeout'
             PROVE  NothingForgotten'
  BY DEF NothingForgotten
<1>t. ~timeout
  BY DEF Inv, Types
<1>1. ASSUME ~strm.SENT_RST, NEW b \in 0 .. strm.tx_offset - 1
      PROVE  \E f \in Received' \cup Buffered' : b \in Bytes(f)
  <2>1. PICK f \in Received \cup Buffered : b \in Bytes(f)
    BY <1>1, <1>t DEF Inv, NothingForgotten
  <2>2. CASE strm.closed
    <3>1. b \in acked
      BY <1>1, <2>2 DEF Inv, ClosedIsDone, AllAcked
    <3> QED
      BY <3>1 DEF Inv, AckedWasReceived
  <2>3. CASE ~strm.closed
    <3>1. f.type = "STREAM"
      BY <2>1 DEF Bytes
    <3>2. Live(f)
      BY <3>1, <2>3, <1>1 DEF Live
    <3> QED
      BY <2>1, <3>2
  <2> QED
    BY <2>2, <2>3
<1>2. ASSUME strm.SHUT_WR, ~strm.SENT_RST, ~strm.closed
      PROVE  \E f \in Received' \cup Buffered' : f.type = "STREAM" /\ f.fin
  <2>1. PICK f \in Received \cup Buffered : f.type = "STREAM" /\ f.fin
    BY <1>2, <1>t DEF Inv, NothingForgotten
  <2>2. Live(f)
    BY <1>2, <2>1 DEF Live
  <2> QED
    BY <2>1, <2>2
<1>3. ASSUME max_rx > 0
      PROVE  MAX_DATA(max_rx) \in Received' \cup Buffered' \cup frq'
  <2>0. MAX_DATA(max_rx) # RST_STREAM
    BY DEF MAX_DATA, RST_STREAM
  <2>1. MAX_DATA(max_rx) \in Received \cup Buffered \cup frq
    BY <1>3, <1>t DEF Inv, NothingForgotten
  <2>2. Live(MAX_DATA(max_rx))
    BY DEF Live, MAX_DATA, Inv, Types
  <2> QED
    BY <2>0, <2>1, <2>2
<1>4. ASSUME strm.SENT_RST, ~strm.closed
      PROVE  RST_STREAM \in Received' \cup Buffered' \cup frq'
  <2>1. RST_STREAM \in Received \cup Buffered \cup frq
    BY <1>4, <1>t DEF Inv, NothingForgotten
  <2>2. Live(RST_STREAM)
    BY DEF Live, RST_STREAM
  <2> QED
    BY <1>4, <2>1, <2>2
<1> QED
  BY <1>1, <1>2, <1>3, <1>4 DEF NothingForgotten

-----------------------------------------------------------------------------
(* One lemma per action: it preserves Inv.                                 *)

LEMMA WriteStream ==
    ASSUME Inv, NEW len \in 0 .. Size, NEW fin \in BOOLEAN, write_stream(len, fin)
    PROVE  Inv'
<1> DEFINE f == STREAM(strm.tx_offset, len, fin)
           e == rtb_entry_new(last + 1, {f})
<1> USE RtbAssumption
<1>0. /\ SendPacket({f}) /\ rtb_update({}, << e >>)
      /\ strm' = [strm EXCEPT !.tx_offset = @ + len, !.SHUT_WR = fin]
      /\ ~strm.closed
      /\ rcvd' = rcvd /\ acked' = acked /\ frq' = frq /\ max_rx' = max_rx
      /\ unsent' = unsent /\ timeout' = timeout
  BY DEF write_stream
<1>1. /\ f \in Frames /\ f.type = "STREAM" /\ f.fin = fin
      /\ Bytes(f) = strm.tx_offset .. strm.tx_offset + len - 1
  BY DEF STREAM, Frames, Bytes, Inv, Types, IsStrm
<1>2. /\ last' = last + 1 /\ last' \in Nat /\ last + 1 \in 1 .. MaxPn
      /\ wire' \in [1 .. MaxPn -> SUBSET Frames]
      /\ wire'[last + 1] = {f}
      /\ \A pn \in 1 .. last : wire'[pn] = wire[pn]
  BY <1>0, <1>1, SendKeeps DEF Inv
<1>3. rtb' = rtb \cup {e}
  BY <1>0, UpdateOne
<1>4. /\ IsEntry(e) /\ e.pn = last + 1 /\ e.frames = {f}
  BY DEF rtb_entry_new, IsEntry
<1>5. Received \subseteq Received'
  BY <1>0, <1>2, ReceivedGrows DEF Inv
<1> HIDE DEF f, e
<1>6. Buffered' = Buffered \cup {f}
  BY <1>3, <1>4 DEF Buffered
<1>7. /\ strm'.tx_offset = strm.tx_offset + len /\ strm'.SHUT_WR = fin
      /\ strm'.SHUT_RD = strm.SHUT_RD /\ strm'.SENT_RST = strm.SENT_RST
      /\ strm'.closed = strm.closed
      /\ IsStrm(strm')
  <2>1. /\ IsStrm(strm) /\ strm.tx_offset + len \in Nat
    BY DEF Inv, Types, IsStrm
  <2> QED
    BY <1>0, <2>1 DEF IsStrm
<1>8. Types'
  BY <1>0, <1>2, <1>7 DEF Types, Inv
<1>9. EntriesSent'
  <2>1. \A d \in rtb : d.pn \in 1 .. last' /\ d.frames \subseteq wire'[d.pn]
    BY <1>2 DEF EntriesSent, Inv, Types
  <2>2. e.pn \in 1 .. last' /\ e.pn \in 1 .. MaxPn /\ e.frames \subseteq wire'[e.pn]
    BY <1>2, <1>4 DEF Inv, Types
  <2> QED
    BY <1>3, <1>4, <2>1, <2>2 DEF EntriesSent, Inv
<1>10. ClosedIsDone'
  BY <1>0, <1>7 DEF ClosedIsDone
<1>11. AckedWasReceived'
  BY <1>0, <1>5 DEF AckedWasReceived, Inv
<1>12. NothingForgotten'
  <2> SUFFICES ASSUME ~timeout
               PROVE  NothingForgotten'
    BY <1>0 DEF NothingForgotten
  <2>1. ASSUME ~strm.SENT_RST, NEW b \in 0 .. strm.tx_offset + len - 1
        PROVE  \E g \in Received' \cup Buffered' : b \in Bytes(g)
    <3>1. CASE b < strm.tx_offset
      BY <2>1, <3>1, <1>5, <1>6 DEF Inv, NothingForgotten, Types, IsStrm
    <3>2. CASE b >= strm.tx_offset
      BY <2>1, <3>2, <1>1, <1>6 DEF Inv, Types, IsStrm
    <3> QED
      BY <3>1, <3>2 DEF Inv, Types, IsStrm
  <2>2. fin => \E g \in Received' \cup Buffered' : g.type = "STREAM" /\ g.fin
    BY <1>1, <1>6
  <2>3. max_rx > 0 => MAX_DATA(max_rx) \in Received' \cup Buffered' \cup frq
    BY <1>5, <1>6 DEF Inv, NothingForgotten
  <2>4. strm.SENT_RST /\ ~strm.closed =>
          RST_STREAM \in Received' \cup Buffered' \cup frq
    BY <1>5, <1>6 DEF Inv, NothingForgotten
  <2>5. ~strm'.SENT_RST => \A b \in 0 .. strm'.tx_offset - 1 :
            \E g \in Received' \cup Buffered' : b \in Bytes(g)
    <3>1. 0 .. strm'.tx_offset - 1 = 0 .. strm.tx_offset + len - 1
      BY <1>7 DEF Inv, Types, IsStrm
    <3>2. ~strm'.SENT_RST => ~strm.SENT_RST
      BY <1>7
    <3> QED
      BY <2>1, <3>1, <3>2, Zenon
  <2> QED
    BY <1>0, <1>7, <2>2, <2>3, <2>4, <2>5 DEF NothingForgotten
<1> QED
  BY <1>8, <1>9, <1>10, <1>11, <1>12 DEF Inv

LEMMA ShutdownWrite ==
    ASSUME Inv, shutdown_stream_write
    PROVE  Inv'
<1>1. /\ strm'.tx_offset = strm.tx_offset /\ strm'.SHUT_WR /\ strm'.SENT_RST
      /\ strm'.closed = strm.closed
      /\ IsStrm(strm')
  BY DEF shutdown_stream_write, Inv, Types, IsStrm
<1>2. Received' = Received /\ Buffered' = Buffered
  BY DEF shutdown_stream_write, Received, Buffered
<1>3. Types' /\ EntriesSent'
  BY <1>1 DEF Types, EntriesSent, Inv, shutdown_stream_write, Frames
<1>4. ClosedIsDone' /\ AckedWasReceived'
  BY <1>1, <1>2 DEF ClosedIsDone, AckedWasReceived, Inv, shutdown_stream_write
<1>5. NothingForgotten'
  BY <1>1, <1>2 DEF NothingForgotten, Inv, shutdown_stream_write
<1> QED
  BY <1>3, <1>4, <1>5 DEF Inv

\* Closing a stream does not forget what it wrote.
LEMMA CloseIfShut ==
    ASSUME NEW s, IsStrm(s), NEW bytes
    PROVE  LET t == close_if_shut_rdwr(s, bytes)
           IN  /\ IsStrm(t)
               /\ t.tx_offset = s.tx_offset /\ t.SHUT_WR = s.SHUT_WR
               /\ t.SENT_RST = s.SENT_RST
               /\ s.closed => t.closed
               /\ t.closed => s.closed \/ s.SENT_RST \/ AllAcked(t, bytes)
BY DEF close_if_shut_rdwr, IsStrm, AllAcked

LEMMA ReadDone ==
    ASSUME Inv, ReadSideDone
    PROVE  Inv'
<1> DEFINE s == [strm EXCEPT !.SHUT_RD = TRUE]
<1>1. /\ IsStrm(s) /\ s.tx_offset = strm.tx_offset /\ s.SHUT_WR = strm.SHUT_WR
      /\ s.SENT_RST = strm.SENT_RST /\ s.closed = strm.closed
  BY DEF Inv, Types, IsStrm
<1>2. /\ IsStrm(strm')
      /\ strm'.tx_offset = strm.tx_offset /\ strm'.SHUT_WR = strm.SHUT_WR
      /\ strm'.SENT_RST = strm.SENT_RST
      /\ strm.closed => strm'.closed
      /\ strm'.closed => strm.closed \/ strm.SENT_RST \/ AllAcked(strm', acked)
  BY <1>1, CloseIfShut DEF ReadSideDone
<1>3. Received' = Received /\ Buffered' = Buffered
  BY DEF ReadSideDone, Received, Buffered
<1>4. Types' /\ EntriesSent'
  BY <1>2 DEF Types, EntriesSent, Inv, ReadSideDone
<1>5. ClosedIsDone' /\ AckedWasReceived'
  BY <1>2, <1>3 DEF ClosedIsDone, AckedWasReceived, Inv, ReadSideDone
<1>6. NothingForgotten'
  BY <1>2, <1>3 DEF NothingForgotten, Inv, ReadSideDone
<1> QED
  BY <1>4, <1>5, <1>6 DEF Inv

LEMMA ExtendMaxOffset ==
    ASSUME Inv, extend_max_offset
    PROVE  Inv'
<1>1. Received' = Received /\ Buffered' = Buffered
  BY DEF extend_max_offset, Received, Buffered
<1>2. Types' /\ EntriesSent' /\ ClosedIsDone' /\ AckedWasReceived'
  BY <1>1 DEF Types, EntriesSent, ClosedIsDone, AckedWasReceived, Inv,
              extend_max_offset
<1>3. NothingForgotten'
  BY <1>1 DEF NothingForgotten, Inv, extend_max_offset
<1> QED
  BY <1>2, <1>3 DEF Inv

LEMMA PeerReceives ==
    ASSUME Inv, NEW pn \in (1 .. last) \ rcvd, Receive(pn)
    PROVE  Inv'
<1>1. Received \subseteq Received'
  BY ReceivedGrows DEF Inv, Receive
<1>2. Buffered' = Buffered
  BY DEF Receive, Buffered
<1>3. Types' /\ EntriesSent' /\ ClosedIsDone'
  BY DEF Types, EntriesSent, ClosedIsDone, Inv, Receive
<1>4. AckedWasReceived'
  BY <1>1 DEF AckedWasReceived, Inv, Receive
<1>5. NothingForgotten'
  BY <1>1, <1>2, KeepsLive DEF Receive
<1> QED
  BY <1>3, <1>4, <1>5 DEF Inv

LEMMA TimePasses ==
    ASSUME Inv, Tick
    PROVE  Inv'
<1> DEFINE T(e) == [e EXCEPT !.expiry = Max({@ - 1, 0}),
                             !.deadline = Max({@ - 1, 0})]
<1>1. rtb' = { T(e) : e \in rtb }
  BY DEF Tick
<1>2. \A e \in rtb : IsEntry(T(e)) /\ T(e).pn = e.pn /\ T(e).frames = e.frames
  <2> SUFFICES ASSUME NEW e \in rtb
               PROVE  /\ IsEntry(T(e)) /\ T(e).pn = e.pn
                      /\ T(e).frames = e.frames
    OBVIOUS
  <2>1. IsEntry(e)
    BY DEF Inv, EntriesSent
  <2> DEFINE x == Max({e.expiry - 1, 0})
             y == Max({e.deadline - 1, 0})
  <2> HIDE DEF x, y
  <2>2. LET t == [e EXCEPT !.expiry = x, !.deadline = y]
        IN  IsEntry(t) /\ t.pn = e.pn /\ t.frames = e.frames
    BY <2>1 DEF IsEntry
  <2> QED
    BY <2>2 DEF x, y
<1> HIDE DEF T
<1>3. Buffered' = Buffered
  BY <1>1, <1>2 DEF Buffered
<1>4. Received' = Received
  BY DEF Tick, Received
<1>5. Types' /\ ClosedIsDone' /\ AckedWasReceived'
  BY <1>4 DEF Types, ClosedIsDone, AckedWasReceived, Inv, Tick
<1>6. EntriesSent'
  BY <1>1, <1>2 DEF EntriesSent, Inv, Tick
<1>7. NothingForgotten'
  BY <1>3, <1>4, KeepsLive DEF Tick
<1> QED
  BY <1>5, <1>6, <1>7 DEF Inv

\* The walk removes entries of packets that the ACK frame lists, whose frames
\* the peer has.
LEMMA RemovedReceived ==
    ASSUME Inv, NEW A \in SUBSET rcvd, NEW e \in rtb,
           \E i \in Removed(A) : e.pn = list[i]
    PROVE  e.frames \subseteq Received
<1>1. e.pn \in rcvd
  BY DEF Removed, Block
<1> QED
  BY <1>1 DEF Inv, EntriesSent, Received

LEMMA RecvAck ==
    ASSUME Inv, NEW A \in (SUBSET rcvd) \ {{}}, recv_ack(A)
    PROVE  Inv'
<1> DEFINE I     == Removed(A)
           gone  == { e \in rtb : \E i \in I : e.pn = list[i] }
           bytes == acked \cup UNION { Bytes(f) : f \in StreamFramesAt(I) }
<1>1. /\ rtb_update(gone, << >>)
      /\ wire' = wire /\ rcvd' = rcvd /\ last' = last /\ frq' = frq
      /\ max_rx' = max_rx /\ unsent' = unsent /\ timeout' = timeout
  BY DEF recv_ack
<1>2. rtb' = rtb \ gone
  BY <1>1, UpdateNone
<1>3. Received' = Received
  BY <1>1 DEF Received
<1>4. \A e \in gone : e.frames \subseteq Received
  BY RemovedReceived
<1>5. \A f \in Buffered : f \in Buffered' \cup Received'
  BY <1>2, <1>3, <1>4 DEF Buffered
<1>6. \A b \in bytes : \E f \in Received : b \in Bytes(f)
  <2>1. StreamFramesAt(I) \subseteq Received
    BY <1>4 DEF StreamFramesAt
  <2> QED
    BY <2>1 DEF Inv, AckedWasReceived
<1>7. acked \subseteq acked' /\ acked' \subseteq bytes
  BY DEF recv_ack
<1>8. \/ strm' = strm
      \/ ~strm.closed /\ acked' = bytes /\ strm' = close_if_shut_rdwr(strm, bytes)
  BY DEF recv_ack
<1> HIDE DEF I, gone, bytes
<1>9. /\ IsStrm(strm')
      /\ strm'.tx_offset = strm.tx_offset /\ strm'.SHUT_WR = strm.SHUT_WR
      /\ strm'.SENT_RST = strm.SENT_RST
      /\ strm.closed => strm'.closed
      /\ strm'.closed => strm.closed \/ strm.SENT_RST \/ AllAcked(strm', acked')
  BY <1>8, CloseIfShut DEF Inv, Types
<1>10. Types' /\ EntriesSent'
  BY <1>1, <1>2, <1>9 DEF Types, EntriesSent, Inv
<1>11. ClosedIsDone'
  BY <1>7, <1>9 DEF ClosedIsDone, AllAcked, Inv
<1>12. AckedWasReceived'
  BY <1>3, <1>6, <1>7 DEF AckedWasReceived
<1>13. NothingForgotten'
  BY <1>1, <1>3, <1>5, <1>9 DEF NothingForgotten, Inv
<1> QED
  BY <1>10, <1>11, <1>12, <1>13 DEF Inv

\* A retransmission: entry e, and entries without a live frame, give way to
\* new entries whose frames were sent, and that hold the live frames of e.
Replacement(e, gone, new) ==
    /\ e \in rtb /\ gone \subseteq Dead
    /\ rtb' = (rtb \ (gone \cup {e})) \cup new
    /\ LiveFrames(e) \subseteq UNION { d.frames : d \in new } \/ timeout'
    /\ \A d \in new : /\ IsEntry(d)
                      /\ d.pn \in 1 .. last' /\ d.pn \in 1 .. MaxPn
                      /\ d.frames \subseteq wire'[d.pn]
    /\ last' \in Nat /\ last <= last'
    /\ wire' \in [1 .. MaxPn -> SUBSET Frames]
    /\ \A pn \in 1 .. last : wire'[pn] = wire[pn]
    /\ UNCHANGED << rcvd, strm, acked, frq, max_rx, unsent >>
    /\ timeout' \in BOOLEAN
    /\ timeout => timeout'

LEMMA Replaced ==
    ASSUME Inv, NEW e, NEW gone, NEW new, Replacement(e, gone, new)
    PROVE  Inv'
<1> USE DEF Replacement
<1>1. Received \subseteq Received'
  BY ReceivedGrows DEF Inv
<1>2. Types'
  BY DEF Inv, Types
<1>3. EntriesSent'
  <2>1. \A d \in rtb : d.pn \in 1 .. last' /\ d.frames \subseteq wire'[d.pn]
    BY DEF Inv, Types, EntriesSent
  <2> QED
    BY <2>1 DEF Inv, EntriesSent
<1>4. ClosedIsDone'
  BY DEF Inv, ClosedIsDone
<1>5. AckedWasReceived'
  BY <1>1 DEF Inv, AckedWasReceived
<1>6. CASE ~timeout'
  <2>1. ASSUME NEW f \in Buffered, Live(f)
        PROVE  f \in Buffered' \cup Received'
    <3>1. PICK d \in rtb : f \in d.frames
      BY DEF Buffered
    <3>2. d \notin gone
      BY <2>1, <3>1 DEF Dead, Expired, Stops, LiveFrames
    <3>3. CASE d = e
      BY <1>6, <2>1, <3>1, <3>3 DEF LiveFrames, Buffered
    <3>4. CASE d # e
      BY <3>1, <3>2, <3>4 DEF Buffered
    <3> QED
      BY <3>3, <3>4
  <2> QED
    BY <1>1, <2>1, <1>2, <1>3, <1>4, <1>5, KeepsLive DEF Inv
<1>7. CASE timeout'
  BY <1>2, <1>3, <1>4, <1>5, <1>7 DEF Inv, NothingForgotten
<1> QED
  BY <1>6, <1>7

LEMMA Retransmit ==
    ASSUME Inv, conn_retransmit
    PROVE  Inv'
<1>1. PICK e \in Stops : \E gone \in SUBSET Dead :
          \/ GiveUp(e, gone)
          \/ \E frames \in SUBSET e.frames : Unwritten(e, gone, frames)
          \/ Complete(e, gone)
          \/ \E written, frames \in SUBSET e.frames :
                Partial(e, gone, written, frames)
  BY DEF conn_retransmit
<1>2. PICK gone \in SUBSET Dead :
          \/ GiveUp(e, gone)
          \/ \E frames \in SUBSET e.frames : Unwritten(e, gone, frames)
          \/ Complete(e, gone)
          \/ \E written, frames \in SUBSET e.frames :
                Partial(e, gone, written, frames)
  BY <1>1
<1>3. /\ e \in rtb /\ IsEntry(e) /\ e.pn \in 1 .. last /\ e.pn \in 1 .. MaxPn
      /\ e.frames \subseteq wire[e.pn] /\ e.frames \subseteq Frames
  BY DEF Stops, Expired, Inv, EntriesSent, Types
<1>4. UNCHANGED << rcvd, strm, acked, frq, max_rx, unsent >> /\ ~timeout
  BY DEF conn_retransmit
<1>5. CASE GiveUp(e, gone)
  <2>1. rtb' = (rtb \ (gone \cup {e})) \cup {}
    BY <1>5, UpdateNone DEF GiveUp
  <2>2. last' = last /\ wire' = wire /\ timeout' = TRUE
    BY <1>5 DEF GiveUp, NoPacket
  <2>3. /\ last' \in Nat /\ last <= last' /\ timeout' \in BOOLEAN
        /\ wire' \in [1 .. MaxPn -> SUBSET Frames]
        /\ \A pn \in 1 .. last : wire'[pn] = wire[pn]
    BY <2>2 DEF Inv, Types
  <2> QED
    <3>1. Replacement(e, gone, {})
      BY <1>3, <1>4, <2>1, <2>2, <2>3 DEF Replacement
    <3> QED
      BY <3>1, Replaced
<1>6. ASSUME NEW frames \in SUBSET e.frames, Unwritten(e, gone, frames)
      PROVE  Inv'
  <2> DEFINE d == [e EXCEPT !.frames = frames]
  <2>1. IsEntry(d) /\ d.pn = e.pn /\ d.frames = frames
    BY <1>3 DEF IsEntry
  <2>2. rtb' = (rtb \ (gone \cup {e})) \cup {d}
    BY <1>6, UpdateOne DEF Unwritten
  <2>3. last' = last /\ wire' = wire /\ timeout' = timeout
    BY <1>6 DEF Unwritten, NoPacket
  <2>4. LiveFrames(e) \subseteq frames
    BY <1>6 DEF Unwritten
  <2> HIDE DEF d
  <2>5. /\ last' \in Nat /\ last <= last' /\ timeout' \in BOOLEAN
        /\ wire' \in [1 .. MaxPn -> SUBSET Frames]
        /\ \A pn \in 1 .. last : wire'[pn] = wire[pn]
    BY <2>3 DEF Inv, Types
  <2>6. LiveFrames(e) \subseteq UNION { x.frames : x \in {d} }
    BY <2>1, <2>4
  <2>7. \A x \in {d} : /\ IsEntry(x)
                       /\ x.pn \in 1 .. last' /\ x.pn \in 1 .. MaxPn
                       /\ x.frames \subseteq wire'[x.pn]
    BY <1>3, <2>1, <2>3
  <2> QED
    <3>1. Replacement(e, gone, {d})
      BY <1>3, <1>4, <2>2, <2>3, <2>5, <2>6, <2>7 DEF Replacement
    <3> QED
      BY <3>1, Replaced
<1>7. CASE Complete(e, gone)
  <2> DEFINE L == LiveFrames(e)
             d == [extend_expiry(e) EXCEPT !.pn = last + 1, !.frames = L,
                                           !.pktlen = Cardinality(L)]
  <2>1. IsEntry(d) /\ d.pn = last + 1 /\ d.frames = L
    BY <1>3 DEF IsEntry, extend_expiry
  <2>2. rtb' = (rtb \ (gone \cup {e})) \cup {d}
    BY <1>7, UpdateOne DEF Complete
  <2>3. L \subseteq Frames /\ SendPacket(L) /\ timeout' = timeout
    BY <1>3, <1>7 DEF Complete, LiveFrames
  <2> HIDE DEF d, L
  <2>4. /\ last' = last + 1 /\ last' \in Nat /\ last + 1 \in 1 .. MaxPn
        /\ wire' \in [1 .. MaxPn -> SUBSET Frames]
        /\ wire'[last + 1] = L
        /\ \A pn \in 1 .. last : wire'[pn] = wire[pn]
    BY <2>3, SendKeeps DEF Inv
  <2>5. last <= last' /\ d.pn \in 1 .. last' /\ timeout' \in BOOLEAN
    BY <2>1, <2>3, <2>4 DEF Inv, Types
  <2>6. LiveFrames(e) \subseteq UNION { x.frames : x \in {d} }
    BY <2>1 DEF L
  <2>7. \A x \in {d} : /\ IsEntry(x)
                       /\ x.pn \in 1 .. last' /\ x.pn \in 1 .. MaxPn
                       /\ x.frames \subseteq wire'[x.pn]
    BY <2>1, <2>4, <2>5
  <2> QED
    <3>1. Replacement(e, gone, {d})
      BY <1>3, <1>4, <2>2, <2>3, <2>4, <2>5, <2>6, <2>7 DEF Replacement
    <3> QED
      BY <3>1, Replaced
<1>8. ASSUME NEW written \in SUBSET e.frames, NEW frames \in SUBSET e.frames,
             Partial(e, gone, written, frames)
      PROVE  Inv'
  <2> DEFINE n == Cardinality(written)
             c == [e EXCEPT !.frames = frames, !.pktlen = n]
             d == [extend_expiry(e) EXCEPT !.pn = last + 1, !.frames = written,
                                           !.pktlen = n]
  <2>1. IsEntry(c) /\ c.pn = e.pn /\ c.frames = frames
    BY <1>3 DEF IsEntry
  <2>2. IsEntry(d) /\ d.pn = last + 1 /\ d.frames = written
    BY <1>3 DEF IsEntry, extend_expiry
  <2>3. rtb' = (rtb \ (gone \cup {e})) \cup {c, d}
    BY <1>8, UpdateTwo DEF Partial
  <2>4. /\ written \subseteq Frames /\ SendPacket(written) /\ timeout' = timeout
        /\ LiveFrames(e) \subseteq written \cup frames
    BY <1>3, <1>8 DEF Partial
  <2> HIDE DEF c, d
  <2>5. /\ last' = last + 1 /\ last' \in Nat /\ last + 1 \in 1 .. MaxPn
        /\ wire' \in [1 .. MaxPn -> SUBSET Frames]
        /\ wire'[last + 1] = written
        /\ \A pn \in 1 .. last : wire'[pn] = wire[pn]
    BY <2>4, SendKeeps DEF Inv
  <2>6. /\ last <= last' /\ d.pn \in 1 .. last' /\ c.pn \in 1 .. last'
        /\ timeout' \in BOOLEAN
    BY <1>3, <2>1, <2>2, <2>4, <2>5 DEF Inv, Types
  <2>7. LiveFrames(e) \subseteq UNION { x.frames : x \in {c, d} }
    BY <2>1, <2>2, <2>4
  <2>8. \A x \in {c, d} : /\ IsEntry(x)
                          /\ x.pn \in 1 .. last' /\ x.pn \in 1 .. MaxPn
                          /\ x.frames \subseteq wire'[x.pn]
    BY <1>3, <2>1, <2>2, <2>5, <2>6
  <2> QED
    <3>1. Replacement(e, gone, {c, d})
      BY <1>3, <1>4, <2>3, <2>4, <2>5, <2>6, <2>7, <2>8 DEF Replacement
    <3> QED
      BY <3>1, Replaced
<1> QED
  BY <1>2, <1>5, <1>6, <1>7, <1>8

LEMMA WritePkt ==
    ASSUME Inv, NEW due \in BOOLEAN, NEW written \in SUBSET ToWrite(due),
           conn_write_pkt(due, written)
    PROVE  Inv'
<1>1. /\ rcvd' = rcvd /\ strm' = strm /\ acked' = acked /\ unsent' = unsent
      /\ timeout' = timeout /\ frq' = ToWrite(due) \ written
      /\ max_rx' = IF due \/ frq # {} THEN unsent ELSE max_rx
      /\ \/ written = {} /\ NoPacket /\ rtb_update(Dead, << >>)
         \/ /\ SendPacket(written)
            /\ rtb_update(Dead, << rtb_entry_new(last + 1, written) >>)
  BY DEF conn_write_pkt
<1>2. ToWrite(due) \subseteq Frames
  BY DEF ToWrite, Frames, MAX_DATA, Inv, Types
<1>3. /\ last' \in Nat /\ last <= last'
      /\ wire' \in [1 .. MaxPn -> SUBSET Frames]
      /\ \A pn \in 1 .. last : wire'[pn] = wire[pn]
  <2>1. CASE NoPacket
    BY <2>1 DEF NoPacket, Inv, Types
  <2>2. CASE SendPacket(written)
    BY <1>2, <2>2, SendKeeps DEF Inv, Types
  <2> QED
    BY <1>1, <2>1, <2>2
<1>4. /\ rtb \ Dead \subseteq rtb' /\ written \subseteq Buffered'
      /\ \A d \in rtb' : \/ d \in rtb
                          \/ /\ IsEntry(d)
                             /\ d.pn \in 1 .. last' /\ d.pn \in 1 .. MaxPn
                             /\ d.frames \subseteq wire'[d.pn]
  <2>1. CASE written = {} /\ NoPacket /\ rtb_update(Dead, << >>)
    BY <2>1, UpdateNone
  <2>2. CASE /\ SendPacket(written)
             /\ rtb_update(Dead, << rtb_entry_new(last + 1, written) >>)
    <3> DEFINE d == rtb_entry_new(last + 1, written)
    <3>1. rtb' = (rtb \ Dead) \cup {d}
      BY <2>2, UpdateOne
    <3>2. IsEntry(d) /\ d.pn = last + 1 /\ d.frames = written
      BY DEF rtb_entry_new, IsEntry
    <3> HIDE DEF d
    <3>3. /\ last' = last + 1 /\ last + 1 \in 1 .. MaxPn /\ last + 1 \in 1 .. last'
          /\ wire'[last + 1] = written
      BY <1>2, <2>2, SendKeeps DEF Inv, Types
    <3> QED
      BY <3>1, <3>2, <3>3 DEF Buffered
  <2> QED
    BY <1>1, <2>1, <2>2
<1>6. Received \subseteq Received'
  BY <1>1, <1>3, ReceivedGrows DEF Inv
<1>7. Types'
  BY <1>1, <1>2, <1>3 DEF Inv, Types
<1>8. EntriesSent'
  <2>1. \A d \in rtb : d.pn \in 1 .. last' /\ d.frames \subseteq wire'[d.pn]
    BY <1>3 DEF Inv, Types, EntriesSent
  <2> QED
    BY <1>4, <2>1 DEF Inv, EntriesSent
<1>9. ClosedIsDone' /\ AckedWasReceived'
  BY <1>1, <1>6 DEF Inv, ClosedIsDone, AckedWasReceived
<1>10. ToWrite(due) \subseteq Buffered' \cup frq'
  BY <1>1, <1>4
<1>11. ASSUME NEW f \in Buffered, Live(f)
       PROVE  f \in Buffered'
  BY <1>4, <1>11 DEF Buffered, Dead, Expired, Stops, LiveFrames
<1>12. \A f \in frq : \/ f \in Buffered' \cup frq'
                      \/ f = RST_STREAM /\ strm.closed
  BY <1>10 DEF ToWrite
<1>13. max_rx' = max_rx \/ MAX_DATA(max_rx') \in Buffered' \cup frq'
  BY <1>1, <1>10 DEF ToWrite, Inv, Types
<1>14. NothingForgotten'
  BY <1>1, <1>6, <1>11, <1>12, <1>13, KeepsLive
<1> QED
  BY <1>7, <1>8, <1>9, <1>14 DEF Inv

-----------------------------------------------------------------------------
LEMMA InvInit == Init => Inv
<1> SUFFICES ASSUME Init PROVE Inv
  OBVIOUS
<1>1. Types
  <2>1. wire \in [1 .. MaxPn -> SUBSET Frames]
    BY DEF Init
  <2>2. IsStrm(strm)
    BY DEF Init, IsStrm
  <2>3. rcvd \subseteq 1 .. last /\ frq \subseteq Frames
    BY DEF Init
  <2>4. last \in Nat /\ max_rx \in Nat /\ unsent \in Nat /\ max_rx <= unsent
    BY DEF Init
  <2>5. timeout \in BOOLEAN
    BY DEF Init
  <2> QED
    BY <2>1, <2>2, <2>3, <2>4, <2>5 DEF Types
<1>2. EntriesSent /\ ClosedIsDone /\ AckedWasReceived
  BY DEF Init, EntriesSent, ClosedIsDone, AckedWasReceived
<1>3. NothingForgotten
  <2>1. /\ ~strm.SENT_RST /\ ~strm.SHUT_WR /\ 0 .. strm.tx_offset - 1 = {}
        /\ max_rx = 0
    BY DEF Init
  <2> QED
    BY <2>1 DEF NothingForgotten
<1> QED
  BY <1>1, <1>2, <1>3 DEF Inv

LEMMA InvNext == Inv /\ [Next]_vars => Inv'
<1> SUFFICES ASSUME Inv, [Next]_vars PROVE Inv'
  OBVIOUS
<1>1. CASE UNCHANGED vars
  <2>1. Received' = Received /\ Buffered' = Buffered
    BY <1>1 DEF vars, Received, Buffered
  <2>2. Types' /\ EntriesSent' /\ ClosedIsDone' /\ AckedWasReceived'
    BY <1>1, <2>1 DEF vars, Inv, Types, EntriesSent, ClosedIsDone, AckedWasReceived
  <2>3. NothingForgotten'
    BY <1>1, <2>1 DEF vars, Inv, NothingForgotten
  <2> QED
    BY <2>2, <2>3 DEF Inv
<1>2. CASE Next
  BY <1>2, WriteStream, ShutdownWrite, ReadDone, ExtendMaxOffset, Retransmit,
     WritePkt, PeerReceives, TimePasses, RecvAck DEF Next
<1> QED
  BY <1>1, <1>2

\* What acked_stream_data_offset lets the application free has reached the
\* peer, for any amount of data, loss, splitting and order of ACK frames.
THEOREM AckedReached == Spec => []AckedWasReceived
<1>1. Inv => AckedWasReceived
  BY DEF Inv
<1> QED
  BY <1>1, InvInit, InvNext, PTL DEF Spec

\* No write, retransmission, split or acknowledgement loses what the peer
\* still needs, for any amount of data and any timing.
THEOREM NoneForgotten == Spec => []NothingForgotten
<1>1. Inv => NothingForgotten
  BY DEF Inv
<1> QED
  BY <1>1, InvInit, InvNext, PTL DEF Spec

-----------------------------------------------------------------------------
(* The books: the entries in the priority queue, the list through them and *)
(* bytes_in_flight.                                                        *)
\* The list l has each packet once; the list l has the packet z.
Once(l) == \A i, j \in DOMAIN l : l[i] = l[j] => i = j
Lists(l, z) == \E i \in DOMAIN l : l[i] = z

\* What InFlightAccounted needs to be inductive: an entry is found by its
\* packet number, the list has each number once, and lengths are numbers.
Books ==
    /\ IsFiniteSet(rtb) /\ IsFiniteSet(frq)
    /\ \A e \in rtb : IsFiniteSet(e.frames) /\ e.pktlen \in Nat
    /\ \A d, e \in rtb : d.pn = e.pn => d = e
    /\ list \in Seq(Nat)
    /\ Once(list)
    /\ \A z : Lists(list, z) <=> (\E e \in rtb : e.pn = z)
    /\ in_flight = Lengths(rtb)

\* The lengths of entries are added up, whatever the order.
LEMMA LengthsAreSums ==
    ASSUME NEW R, IsFiniteSet(R), \A e \in R : e.pktlen \in Nat
    PROVE  \E s : /\ IsSum(s, [e \in R |-> e.pktlen], R)
                  /\ \A S \in SUBSET R : Lengths(S) = s[S]
<1> DEFINE w == [e \in R |-> e.pktlen]
<1>1. \A e \in R : w[e] \in Nat /\ w[e] = e.pktlen
  OBVIOUS
<1> HIDE DEF w
<1>2. PICK s : IsSum(s, w, R)
  BY <1>1, SumExists
<1>3. ASSUME NEW S \in SUBSET R PROVE Lengths(S) = s[S]
  <2> DEFINE Eq(it) == it = [T \in SUBSET S |->
                IF T = {} THEN 0
                ELSE (CHOOSE x \in T : TRUE).pktlen + it[T \ {CHOOSE x \in T : TRUE}]]
             it == CHOOSE it : Eq(it)
             r == [T \in SUBSET S |-> s[T]]
  <2>1. Lengths(S) = it[S]
    BY DEF Lengths, MapThenSumSet, MapThenFoldSet
  <2>2. Eq(r)
    <3> SUFFICES ASSUME NEW T \in SUBSET S
                 PROVE  r[T] = IF T = {} THEN 0
                               ELSE (CHOOSE x \in T : TRUE).pktlen
                                      + r[T \ {CHOOSE x \in T : TRUE}]
      OBVIOUS
    <3> DEFINE x == CHOOSE x \in T : TRUE
    <3>1. CASE T = {}
      BY <1>2, <3>1 DEF IsSum
    <3>2. CASE T # {}
      <4>1. x \in T /\ x \in R
        BY <3>2
      <4> HIDE DEF x
      <4>2. T \ {x} \in SUBSET R /\ T \ {x} \in SUBSET S /\ x \in R \ (T \ {x})
            /\ (T \ {x}) \cup {x} = T
        BY <4>1
      <4>3. s[T] = w[x] + s[T \ {x}]
        BY <1>2, <4>2 DEF IsSum
      <4>4. r[T] = x.pktlen + r[T \ {x}]
        BY <1>1, <4>1, <4>2, <4>3
      <4> QED
        BY <3>2, <4>4 DEF x
    <3> QED
      BY <3>1, <3>2
  <2>3. Eq(it)
    <3> HIDE DEF r, Eq
    <3> QED
      BY <2>2
  <2> HIDE DEF it
  <2> DEFINE ch == [T \in SUBSET S |-> CHOOSE x \in T : TRUE]
  <2>4. ASSUME NEW T \in SUBSET S
        PROVE  /\ T # {} => ch[T] \in T
               /\ it[T] = IF T = {} THEN 0 ELSE ch[T].pktlen + it[T \ {ch[T]}]
    BY <2>3
  <2> HIDE DEF ch, Eq
  <2>5. it[S] = s[S]
    <3>1. Chooses(ch, S)
      BY <2>4 DEF Chooses
    <3>2. ASSUME NEW T \in SUBSET S
          PROVE  it[T] = IF T = {} THEN 0 ELSE w[ch[T]] + it[T \ {ch[T]}]
      <4>1. T # {} => ch[T] \in R
        BY <2>4
      <4>2. T # {} => w[ch[T]] = ch[T].pktlen
        BY <1>1, <4>1
      <4> QED
        BY <2>4, <4>2
    <3>3. AddsUp(it, w, S, ch)
      BY <3>2 DEF AddsUp
    <3>4. \A x \in R : w[x] \in Nat
      BY <1>1
    <3> QED
      BY <1>2, <3>1, <3>3, <3>4, SumOfFold
  <2> QED
    BY <2>1, <2>5
<1> QED
  BY <1>2, <1>3 DEF w

\* So entries without one in common add up.
LEMMA LengthsAdd ==
    ASSUME NEW A, NEW B, IsFiniteSet(A), IsFiniteSet(B), A \cap B = {},
           \A e \in A \cup B : e.pktlen \in Nat
    PROVE  /\ Lengths(A \cup B) = Lengths(A) + Lengths(B)
           /\ Lengths(A) \in Nat /\ Lengths(B) \in Nat
<1> DEFINE R == A \cup B
           w == [e \in R |-> e.pktlen]
<1>1. IsFiniteSet(R)
  BY FS_Union
<1>2. PICK s : IsSum(s, w, R) /\ \A S \in SUBSET R : Lengths(S) = s[S]
  BY <1>1, LengthsAreSums
<1>3. A \in SUBSET R /\ B \in SUBSET R /\ R \in SUBSET R /\ \A e \in R : w[e] \in Nat
  OBVIOUS
<1> HIDE DEF w
<1>4. s[A \cup B] = s[A] + s[B]
  BY <1>1, <1>2, <1>3, SumApart
<1>5. s[A] \in Nat /\ s[B] \in Nat
  BY <1>2, <1>3 DEF IsSum
<1> QED
  BY <1>2, <1>3, <1>4, <1>5

\* One entry.
LEMMA LengthsOne ==
    ASSUME NEW e, e.pktlen \in Nat
    PROVE  Lengths({e}) = e.pktlen
<1> DEFINE R == {e}
           w == [d \in R |-> d.pktlen]
<1>1. IsFiniteSet(R)
  BY FS_Singleton
<1>2. PICK s : IsSum(s, w, R) /\ \A S \in SUBSET R : Lengths(S) = s[S]
  BY <1>1, LengthsAreSums
<1>3. w[e] = e.pktlen /\ {} \in SUBSET R /\ e \in R \ {} /\ {} \cup {e} = R
      /\ R \in SUBSET R
  OBVIOUS
<1> HIDE DEF w, R
<1>4. s[R] = w[e] + s[{}] /\ s[{}] = 0
  BY <1>2, <1>3 DEF IsSum
<1> QED
  BY <1>2, <1>3, <1>4 DEF R

\* Entries that change and keep their length and stay apart.
LEMMA LengthsKept ==
    ASSUME NEW R, IsFiniteSet(R), NEW g,
           \A e \in R : e.pktlen \in Nat /\ g[e].pktlen = e.pktlen,
           \A d, e \in R : g[d] = g[e] => d = e
    PROVE  Lengths({ g[e] : e \in R }) = Lengths(R)
<1> DEFINE I(T) == { g[e] : e \in T }
           P == { n \in Nat : \A T \in SUBSET R : Cardinality(T) = n =>
                    Lengths(I(T)) = Lengths(T) }
<1>1. \A T \in SUBSET R : IsFiniteSet(T) /\ Cardinality(T) \in Nat
  BY FS_Subset, FS_CardinalityType
<1>2. 0 \in P
  <2> SUFFICES ASSUME NEW T \in SUBSET R, Cardinality(T) = 0
               PROVE  Lengths(I(T)) = Lengths(T)
    OBVIOUS
  <2>1. T = {}
    BY <1>1, FS_EmptySet
  <2>2. I(T) = T
    BY <2>1
  <2> QED
    BY <2>2
<1>3. ASSUME NEW n \in Nat, n \in P PROVE n + 1 \in P
  <2> SUFFICES ASSUME NEW T \in SUBSET R, Cardinality(T) = n + 1
               PROVE  Lengths(I(T)) = Lengths(T)
    <3>1. n + 1 \in Nat
      OBVIOUS
    <3> QED
      BY <3>1
  <2>1. T # {}
    BY <1>1, FS_EmptySet
  <2>2. PICK x : x \in T
    BY <2>1
  <2> PICK V : V = T \ {x}
    OBVIOUS
  <2>3. V \in SUBSET R /\ Cardinality(V) = n /\ T = V \cup {x} /\ V \cap {x} = {}
        /\ x \in R
    BY <1>1, <2>2, OneFewer
  <2>4. Lengths(I(V)) = Lengths(V)
    BY <1>3, <2>3
  <2>5. I(T) = I(V) \cup {g[x]} /\ I(V) \cap {g[x]} = {}
    BY <2>3
  <2>6. IsFiniteSet(V) /\ IsFiniteSet({x}) /\ IsFiniteSet({g[x]}) /\ IsFiniteSet(I(V))
    <3>1. IsFiniteSet(V)
      BY <1>1, <2>3
    <3>2. IsFiniteSet(I(V))
      BY <3>1, ImageFinite
    <3>3. IsFiniteSet({x}) /\ IsFiniteSet({g[x]})
      BY FS_Singleton
    <3> QED
      BY <3>1, <3>2, <3>3
  <2>7. /\ \A e \in V \cup {x} : e.pktlen \in Nat
        /\ \A e \in I(V) \cup {g[x]} : e.pktlen \in Nat
    BY <2>3
  <2> HIDE DEF I
  <2>8. Lengths(T) = Lengths(V) + Lengths({x})
    BY <2>3, <2>6, <2>7, LengthsAdd
  <2>9. Lengths(I(T)) = Lengths(I(V)) + Lengths({g[x]})
    BY <2>5, <2>6, <2>7, LengthsAdd
  <2>10. Lengths({x}) = x.pktlen /\ Lengths({g[x]}) = x.pktlen
    BY <2>3, LengthsOne
  <2> QED
    BY <2>4, <2>8, <2>9, <2>10
<1>4. \A n \in Nat : n \in P
  <2> HIDE DEF P
  <2> QED
    BY <1>2, <1>3, SetInduction
<1> QED
  BY <1>1, <1>4

\* v is what is left of the first k packets of l without those of G, each once.
IsRest(v, l, k, G) ==
    /\ v \in Seq(Nat)
    /\ \A i, j \in DOMAIN v : v[i] = v[j] => i = j
    /\ \A z : (\E i \in DOMAIN v : v[i] = z) <=> (z \notin G /\ \E i \in 1 .. k : l[i] = z)

\* One more packet of the list, kept or left out.
LEMMA RestStep ==
    ASSUME NEW l \in Seq(Nat), \A i, j \in DOMAIN l : l[i] = l[j] => i = j,
           NEW k \in Nat, k + 1 \in DOMAIN l, NEW G, NEW v, IsRest(v, l, k, G),
           NEW x, x = l[k + 1], NEW y, y = IF x \in G THEN v ELSE Append(v, x)
    PROVE  IsRest(y, l, k + 1, G)
<1>0. /\ v \in Seq(Nat)
      /\ \A i, j \in DOMAIN v : v[i] = v[j] => i = j
      /\ \A z : (\E i \in DOMAIN v : v[i] = z) <=> (z \notin G /\ \E i \in 1 .. k : l[i] = z)
  BY DEF IsRest
<1>1. x \in Nat /\ DOMAIN l = 1 .. Len(l) /\ Len(l) \in Nat /\ k + 1 <= Len(l)
  OBVIOUS
<1>2. \A i \in 1 .. k : l[i] # x
  <2> SUFFICES ASSUME NEW i \in 1 .. k, l[i] = x PROVE FALSE
    OBVIOUS
  <2>1. i \in DOMAIN l /\ i # k + 1
    BY <1>1
  <2> QED
    BY <2>1
<1>3. ASSUME NEW z
      PROVE  (\E i \in 1 .. (k + 1) : l[i] = z) <=> ((\E i \in 1 .. k : l[i] = z) \/ z = x)
  <2>1. \A i : i \in 1 .. (k + 1) <=> (i \in 1 .. k \/ i = k + 1)
    BY <1>1
  <2> QED
    BY <2>1
<1>4. CASE x \in G
  <2>1. y = v
    BY <1>4
  <2>2. ASSUME NEW z
        PROVE  (\E i \in DOMAIN v : v[i] = z) <=> (z \notin G /\ \E i \in 1 .. (k + 1) : l[i] = z)
    <3>1. (\E i \in DOMAIN v : v[i] = z) <=> (z \notin G /\ \E i \in 1 .. k : l[i] = z)
      BY <1>0
    <3> QED
      BY <1>3, <1>4, <3>1
  <2> QED
    BY <1>0, <2>1, <2>2 DEF IsRest
<1>5. CASE x \notin G
  <2>1. y = Append(v, x)
    BY <1>5
  <2> PICK m : m = Len(v)
    OBVIOUS
  <2>2. /\ m \in Nat /\ DOMAIN v = 1 .. m /\ y \in Seq(Nat) /\ Len(y) = m + 1
        /\ DOMAIN y = 1 .. (m + 1) /\ y[m + 1] = x
        /\ \A i \in 1 .. m : y[i] = v[i]
    BY <1>0, <1>1, <2>1
  <2>3. \A i \in 1 .. m : v[i] # x
    <3> SUFFICES ASSUME NEW i \in 1 .. m, v[i] = x PROVE FALSE
      OBVIOUS
    <3>1. \E j \in DOMAIN v : v[j] = x
      BY <2>2
    <3>2. \E j \in 1 .. k : l[j] = x
      BY <1>0, <3>1
    <3> QED
      BY <1>2, <3>2
  <2>4. \A i : i \in 1 .. (m + 1) <=> (i \in 1 .. m \/ i = m + 1)
    BY <2>2
  <2>5. ASSUME NEW i \in DOMAIN y, NEW j \in DOMAIN y, y[i] = y[j] PROVE i = j
    <3>1. CASE i \in 1 .. m /\ j \in 1 .. m
      <4>1. v[i] = v[j] /\ i \in DOMAIN v /\ j \in DOMAIN v
        BY <2>2, <2>5, <3>1
      <4> QED
        BY <1>0, <4>1
    <3>2. CASE i = m + 1 /\ j \in 1 .. m
      BY <2>2, <2>3, <2>5, <3>2
    <3>3. CASE i \in 1 .. m /\ j = m + 1
      BY <2>2, <2>3, <2>5, <3>3
    <3>4. i \in 1 .. (m + 1) /\ j \in 1 .. (m + 1)
      BY <2>2
    <3> QED
      BY <2>4, <3>1, <3>2, <3>3, <3>4
  <2>6. ASSUME NEW z
        PROVE  (\E i \in DOMAIN y : y[i] = z) <=> (z \notin G /\ \E i \in 1 .. (k + 1) : l[i] = z)
    <3>1. (\E i \in DOMAIN v : v[i] = z) <=> (z \notin G /\ \E i \in 1 .. k : l[i] = z)
      BY <1>0
    <3>2. (\E i \in DOMAIN y : y[i] = z) <=> ((\E i \in DOMAIN v : v[i] = z) \/ z = x)
      BY <2>2, <2>4
    <3> QED
      BY <1>3, <1>5, <3>1, <3>2
  <2> QED
    BY <2>2, <2>5, <2>6 DEF IsRest
<1> QED
  BY <1>4, <1>5

\* rtb_remove and ngtcp2_rtb_pop take the packets out of the list and leave
\* the others in it, each once.
LEMMA UnlinkedList ==
    ASSUME list \in Seq(Nat), Once(list),
           NEW gone, NEW u, u = Unlinked(gone)
    PROVE  /\ u \in Seq(Nat)
           /\ Once(u)
           /\ \A z : Lists(u, z) <=> (z \notin Pns(gone) /\ Lists(list, z))
<1> PICK G : G = Pns(gone)
  OBVIOUS
<1> DEFINE R == DOMAIN list
           n == Len(list)
           St(s, pn) == IF pn \in G THEN s ELSE Append(s, pn)
           Eq(it) == it = [s \in SUBSET R |->
                             IF s = {} THEN << >> ELSE St(it[s \ {Max(s)}], list[Max(s)])]
           ch == [s \in SUBSET R |-> Max(s)]
           step == [p \in R \X Seq(Nat) |-> St(p[2], list[p[1]])]
<1>1. R = 1 .. n /\ n \in Nat /\ IsFiniteSet(R) /\ << >> \in Seq(Nat)
  BY FS_Interval
<1>2. ASSUME NEW s \in SUBSET R, s # {} PROVE ch[s] \in s /\ ch[s] = Max(s)
  BY <1>1, <1>2, LastOfSome
<1>3. ASSUME NEW x \in R, NEW a \in Seq(Nat)
      PROVE  step[<<x, a>>] = St(a, list[x]) /\ step[<<x, a>>] \in Seq(Nat)
  <2>1. step[<<x, a>>] = St(a, list[x])
    OBVIOUS
  <2>2. list[x] \in Nat
    OBVIOUS
  <2>3. Append(a, list[x]) \in Seq(Nat)
    BY <2>2
  <2>4. St(a, list[x]) \in Seq(Nat)
    BY <2>3
  <2> QED
    BY <2>1, <2>4
<1>4. \E it : Eq(it)
  <2>1. Chooses(ch, R) /\ StepsWithin(step, R, Seq(Nat))
    BY <1>2, <1>3 DEF Chooses, StepsWithin
  <2> HIDE DEF step, ch
  <2>2. PICK it \in [SUBSET R -> Seq(Nat)] : IsFold(it, R, << >>, ch, step)
    <3> HIDE DEF R
    <3> QED
      BY <1>1, <2>1, FoldExists
  <2>3. ASSUME NEW s \in SUBSET R
        PROVE  it[s] = IF s = {} THEN << >> ELSE St(it[s \ {Max(s)}], list[Max(s)])
    <3>1. CASE s = {}
      BY <2>2, <3>1 DEF IsFold
    <3>2. CASE s # {}
      <4>1. ch[s] = Max(s) /\ Max(s) \in R /\ s \ {Max(s)} \in SUBSET R
        BY <1>2, <3>2
      <4>2. it[s \ {Max(s)}] \in Seq(Nat)
        BY <2>2, <4>1
      <4>3. it[s] = step[<<Max(s), it[s \ {Max(s)}]>>]
        BY <2>2, <3>2, <4>1 DEF IsFold
      <4> HIDE DEF St
      <4> QED
        BY <1>3, <3>2, <4>1, <4>2, <4>3
    <3> QED
      BY <3>1, <3>2
  <2> HIDE DEF St
  <2>4. Eq(it)
    BY <2>2, <2>3
  <2> QED
    BY <2>4
<1> DEFINE it == CHOOSE it : Eq(it)
<1>5. Eq(it)
  BY <1>4
<1>6. u = it[R]
  BY DEF Unlinked, FoldLeft, MapThenFoldSet
<1> HIDE DEF it
<1>7. it[1 .. 0] = << >>
  <2>1. 1 .. 0 = {} /\ {} \in SUBSET R
    OBVIOUS
  <2> QED
    BY <1>5, <2>1
<1>8. ASSUME NEW k \in 1 .. n PROVE it[1 .. k] = St(it[1 .. (k - 1)], list[k])
  <2>1. 1 .. k \in SUBSET R /\ k \in 1 .. k /\ k \in Nat \ {0}
    BY <1>1
  <2>2. Max(1 .. k) = k /\ (1 .. k) \ {k} = 1 .. (k - 1)
    BY <2>1, LastPlace
  <2>3. 1 .. k # {}
    BY <2>1
  <2> HIDE DEF St
  <2> QED
    BY <1>5, <2>1, <2>2, <2>3
<1> HIDE DEF Eq
<1> DEFINE P == { k \in Nat : k <= n => IsRest(it[1 .. k], list, k, G) }
<1>9. 0 \in P
  <2>1. IsRest(<< >>, list, 0, G)
    BY <1>1 DEF IsRest
  <2> QED
    BY <1>7, <2>1
<1>10. ASSUME NEW k \in Nat, k \in P PROVE k + 1 \in P
  <2> SUFFICES ASSUME k + 1 <= n PROVE IsRest(it[1 .. (k + 1)], list, k + 1, G)
    OBVIOUS
  <2>1. IsRest(it[1 .. k], list, k, G)
    BY <1>1, <1>10
  <2>2. k + 1 \in 1 .. n /\ (k + 1) - 1 = k /\ k + 1 \in DOMAIN list
    BY <1>1
  <2>3. it[1 .. (k + 1)] = IF list[k + 1] \in G THEN it[1 .. k] ELSE Append(it[1 .. k], list[k + 1])
    BY <1>8, <2>2
  <2> HIDE DEF P
  <2>4. PICK v : v = it[1 .. k]
    OBVIOUS
  <2>5. PICK y : y = it[1 .. (k + 1)]
    OBVIOUS
  <2>6. PICK x : x = list[k + 1]
    OBVIOUS
  <2>7. IsRest(v, list, k, G) /\ y = IF x \in G THEN v ELSE Append(v, x)
    BY <2>1, <2>3, <2>4, <2>5, <2>6
  <2>8. IsRest(y, list, k + 1, G)
    BY <2>2, <2>6, <2>7, RestStep DEF Once
  <2> QED
    BY <2>5, <2>8
<1>11. \A k \in Nat : k \in P
  <2> HIDE DEF P
  <2> QED
    BY <1>9, <1>10, SetInduction
<1>12. IsRest(it[1 .. n], list, n, G)
  BY <1>1, <1>11
<1>13. IsRest(u, list, n, G) /\ n = Len(list)
  BY <1>1, <1>6, <1>12
<1>14. ASSUME NEW z
       PROVE  Lists(u, z) <=> (z \notin Pns(gone) /\ Lists(list, z))
  <2>1. (\E i \in DOMAIN u : u[i] = z) <=> (z \notin G /\ \E i \in 1 .. n : list[i] = z)
    BY <1>13 DEF IsRest
  <2> QED
    BY <1>1, <2>1 DEF Lists
<1>15. u \in Seq(Nat) /\ Once(u)
  BY <1>13 DEF IsRest, Once
<1> QED
  BY <1>14, <1>15

\* A list put before another one with no packet in common.
LEMMA JoinedOnce ==
    ASSUME NEW q \in Seq(Nat), NEW u \in Seq(Nat),
           Once(q), Once(u), \A z : ~(Lists(q, z) /\ Lists(u, z)),
           NEW l, l = q \o u
    PROVE  /\ l \in Seq(Nat)
           /\ Once(l)
           /\ \A z : Lists(l, z) <=> (Lists(q, z) \/ Lists(u, z))
<1> USE DEF Once, Lists
<1> PICK m : m = Len(q)
  OBVIOUS
<1> PICK n : n = Len(u)
  OBVIOUS
<1>1. /\ m \in Nat /\ n \in Nat /\ DOMAIN q = 1 .. m /\ DOMAIN u = 1 .. n
  OBVIOUS
<1>2. /\ l \in Seq(Nat) /\ Len(l) = m + n /\ DOMAIN l = 1 .. (m + n)
  OBVIOUS
<1>3. ASSUME NEW i \in 1 .. m PROVE i \in DOMAIN l /\ l[i] = q[i]
  BY <1>1, <1>2
<1>4. ASSUME NEW i \in 1 .. n PROVE m + i \in DOMAIN l /\ l[m + i] = u[i]
  BY <1>1, <1>2
<1>5. ASSUME NEW i \in DOMAIN l
      PROVE  i \in 1 .. m \/ (i - m \in 1 .. n /\ l[i] = u[i - m] /\ m + (i - m) = i)
  <2>1. i \in 1 .. m \/ (i - m \in 1 .. n /\ m + (i - m) = i)
    BY <1>1, <1>2
  <2> QED
    BY <1>4, <2>1
<1>6. ASSUME NEW i \in DOMAIN l, NEW j \in DOMAIN l, l[i] = l[j] PROVE i = j
  <2>1. CASE i \in 1 .. m /\ j \in 1 .. m
    BY <1>1, <1>3, <1>6, <2>1
  <2>2. CASE i \in 1 .. m /\ j \notin 1 .. m
    <3>1. i \in DOMAIN q /\ q[i] = l[i]
      BY <1>1, <1>3, <1>6, <2>2
    <3>2. j - m \in DOMAIN u /\ u[j - m] = l[i]
      BY <1>1, <1>5, <1>6, <2>2
    <3>3. Lists(q, l[i]) /\ Lists(u, l[i])
      BY <3>1, <3>2
    <3> QED
      BY <3>3
  <2>3. CASE i \notin 1 .. m /\ j \in 1 .. m
    <3>1. j \in DOMAIN q /\ q[j] = l[i]
      BY <1>1, <1>3, <1>6, <2>3
    <3>2. i - m \in DOMAIN u /\ u[i - m] = l[i]
      BY <1>1, <1>5, <1>6, <2>3
    <3>3. Lists(q, l[i]) /\ Lists(u, l[i])
      BY <3>1, <3>2
    <3> QED
      BY <3>3
  <2>4. CASE i \notin 1 .. m /\ j \notin 1 .. m
    <3>1. i - m \in 1 .. n /\ j - m \in 1 .. n /\ u[i - m] = u[j - m]
      BY <1>5, <1>6, <2>4
    <3>2. i - m = j - m
      BY <1>1, <3>1
    <3> QED
      BY <1>1, <1>2, <3>2
  <2> QED
    BY <2>1, <2>2, <2>3, <2>4
<1>7. ASSUME NEW z
      PROVE  (\E i \in DOMAIN l : l[i] = z) <=>
               ((\E i \in DOMAIN q : q[i] = z) \/ (\E i \in DOMAIN u : u[i] = z))
  <2>1. ASSUME NEW i \in DOMAIN l, l[i] = z
        PROVE  (\E k \in DOMAIN q : q[k] = z) \/ (\E k \in DOMAIN u : u[k] = z)
    BY <1>1, <1>3, <1>5, <2>1
  <2>2. ASSUME NEW i \in DOMAIN q, q[i] = z PROVE \E k \in DOMAIN l : l[k] = z
    BY <1>1, <1>3, <2>2
  <2>3. ASSUME NEW i \in DOMAIN u, u[i] = z PROVE \E k \in DOMAIN l : l[k] = z
    BY <1>1, <1>4, <2>3
  <2> QED
    BY <2>1, <2>2, <2>3
<1> QED
  BY <1>2, <1>6, <1>7

\* Entries leave the buffer and others, under numbers that are not in it, are
\* added at the head.
LEMMA UpdateBooks ==
    ASSUME Books, NEW gone \in SUBSET rtb, NEW n \in Nat, NEW added, DOMAIN added = 1 .. n,
           \A i \in 1 .. n : /\ added[i].pn \in Nat /\ added[i].pktlen \in Nat
                             /\ IsFiniteSet(added[i].frames),
           \A i, j \in 1 .. n : added[i].pn = added[j].pn => i = j,
           \A i \in 1 .. n : \A e \in rtb \ gone : e.pn # added[i].pn,
           IsFiniteSet(frq'), rtb_update(gone, added)
    PROVE  Books'
<1> PICK new : new = { added[i] : i \in 1 .. n }
  OBVIOUS
<1> PICK q : q = [i \in 1 .. n |-> added[i].pn]
  OBVIOUS
<1> PICK u : u = Unlinked(gone)
  OBVIOUS
<1> PICK old : old = rtb \ gone
  OBVIOUS
<1>1. /\ rtb' = old \cup new /\ list' = q \o u
      /\ in_flight' = in_flight - Lengths(gone) + Lengths(new)
  BY DEF rtb_update
<1>2. /\ IsFiniteSet(rtb) /\ list \in Seq(Nat)
      /\ \A e \in rtb : IsFiniteSet(e.frames) /\ e.pktlen \in Nat
      /\ \A d, e \in rtb : d.pn = e.pn => d = e
      /\ Once(list)
      /\ \A z : Lists(list, z) <=> (\E e \in rtb : e.pn = z)
      /\ in_flight = Lengths(rtb)
  BY DEF Books
<1>3. IsFiniteSet(old) /\ IsFiniteSet(gone) /\ IsFiniteSet(new)
  <2>1. IsFiniteSet(1 .. n)
    BY FS_Interval
  <2>2. IsFiniteSet(new)
    <3> PICK T : T = 1 .. n
      OBVIOUS
    <3>1. IsFiniteSet(T)
      BY <2>1
    <3>2. IsFiniteSet({ added[x] : x \in T })
      BY ONLY <3>1, ImageFinite
    <3> QED
      BY <3>2
  <2> QED
    BY <1>2, <2>2, FS_Subset
<1>4. /\ u \in Seq(Nat)
      /\ Once(u)
      /\ \A z : Lists(u, z) <=>
                  (z \notin Pns(gone) /\ Lists(list, z))
  BY <1>2, UnlinkedList
<1>5. ASSUME NEW z
      PROVE  Lists(u, z) <=> \E e \in old : e.pn = z
  <2>1. Lists(u, z) <=>
          (z \notin Pns(gone) /\ Lists(list, z))
    BY <1>4
  <2>2. Lists(list, z) <=> (\E e \in rtb : e.pn = z)
    BY <1>2
  <2>3. (z \notin Pns(gone)) <=> ~ \E e \in gone : e.pn = z
    BY DEF Pns
  <2>4. ((~ \E e \in gone : e.pn = z) /\ (\E e \in rtb : e.pn = z)) <=> \E e \in old : e.pn = z
    BY <1>2
  <2> HIDE DEF Pns
  <2> QED
    BY <2>1, <2>2, <2>3, <2>4
<1>6. q \in Seq(Nat) /\ DOMAIN q = 1 .. n /\ \A i \in 1 .. n : q[i] = added[i].pn
  <2>1. q \in [1 .. n -> Nat]
    OBVIOUS
  <2> QED
    BY <2>1, FunctionIsSeq
<1>7. Once(q)
  BY <1>6 DEF Once
<1>8. \A z : ~(Lists(q, z) /\ Lists(u, z))
  <2> SUFFICES ASSUME NEW z, Lists(q, z), Lists(u, z) PROVE FALSE
    OBVIOUS
  <2>1. PICK i \in 1 .. n : q[i] = z
    BY <1>6 DEF Lists
  <2>2. PICK e \in old : e.pn = z
    BY <1>5
  <2> QED
    BY <1>6, <2>1, <2>2
<1>9. /\ list' \in Seq(Nat)
      /\ Once(list')
      /\ \A z : Lists(list', z) <=>
                  (Lists(q, z) \/ Lists(u, z))
  <2> PICK l : l = list'
    OBVIOUS
  <2>1. l = q \o u
    BY <1>1
  <2>2. /\ l \in Seq(Nat)
        /\ Once(l)
        /\ \A z : Lists(l, z) <=>
                  (Lists(q, z) \/ Lists(u, z))
    BY <1>4, <1>6, <1>7, <1>8, <2>1, JoinedOnce
  <2> QED
    BY <2>2
<1>10. ASSUME NEW z
       PROVE  Lists(list', z) <=> (\E e \in rtb' : e.pn = z)
  <2>1. Lists(list', z) <=>
                  (Lists(q, z) \/ Lists(u, z))
    BY <1>9
  <2>2. Lists(q, z) <=> \E e \in new : e.pn = z
    BY <1>6 DEF Lists
  <2>3. (\E e \in rtb' : e.pn = z) <=> ((\E e \in old : e.pn = z) \/ \E e \in new : e.pn = z)
    BY <1>1
  <2> QED
    BY <1>5, <2>1, <2>2, <2>3
<1>11. \A e \in new : IsFiniteSet(e.frames) /\ e.pktlen \in Nat
  OBVIOUS
<1>12. \A e \in rtb' : IsFiniteSet(e.frames) /\ e.pktlen \in Nat
  BY <1>1, <1>2, <1>11
<1>13. \A d, e \in rtb' : d.pn = e.pn => d = e
  <2>1. \A d, e \in new : d.pn = e.pn => d = e
    OBVIOUS
  <2>2. \A d \in old, e \in new : d.pn # e.pn
    OBVIOUS
  <2>3. \A d, e \in old : d.pn = e.pn => d = e
    BY <1>2
  <2> QED
    BY <1>1, <2>1, <2>2, <2>3
<1>14. IsFiniteSet(rtb')
  BY <1>1, <1>3, FS_Union
<1>15. in_flight' = Lengths(old \cup new)
  <2>1. old \cap gone = {} /\ old \cup gone = rtb /\ \A e \in old \cup gone : e.pktlen \in Nat
    BY <1>2
  <2>2. Lengths(old \cup gone) = Lengths(old) + Lengths(gone) /\ Lengths(old) \in Nat
        /\ Lengths(gone) \in Nat
    BY <1>3, <2>1, LengthsAdd
  <2>3. old \cap new = {} /\ \A e \in old \cup new : e.pktlen \in Nat
    BY <1>2, <1>11
  <2>4. Lengths(old \cup new) = Lengths(old) + Lengths(new) /\ Lengths(new) \in Nat
    BY <1>3, <2>3, LengthsAdd
  <2>5. in_flight = Lengths(old) + Lengths(gone)
    BY <1>2, <2>1, <2>2
  <2> QED
    BY <1>1, <2>2, <2>4, <2>5
<1>16. (in_flight = Lengths(rtb))'
  BY <1>1, <1>15
<1> QED
  BY <1>9, <1>12, <1>13, <1>10, <1>14, <1>16 DEF Books

\* An entry that can be added when those of gone have left.
IsNew(e, gone) ==
    /\ e.pn \in Nat /\ e.pktlen \in Nat /\ IsFiniteSet(e.frames)
    /\ \A d \in rtb \ gone : d.pn # e.pn

\* Entries leave the buffer and none is added.
LEMMA BooksNone ==
    ASSUME Books, NEW gone \in SUBSET rtb, IsFiniteSet(frq'), rtb_update(gone, << >>)
    PROVE  Books'
<1>1. DOMAIN << >> = 1 .. 0 /\ \A i \in 1 .. 0 : FALSE
  OBVIOUS
<1>2. PICK added : added = << >>
  OBVIOUS
<1>3. PICK n \in Nat : n = 0
  OBVIOUS
<1>4. /\ DOMAIN added = 1 .. n /\ rtb_update(gone, added)
      /\ \A i \in 1 .. n : FALSE
  BY <1>1, <1>2, <1>3
<1> QED
  BY ONLY Books, gone \in SUBSET rtb, IsFiniteSet(frq'), <1>3, <1>4, UpdateBooks

\* One entry is added.
LEMMA BooksOne ==
    ASSUME Books, NEW gone \in SUBSET rtb, IsFiniteSet(frq'), NEW e, IsNew(e, gone),
           rtb_update(gone, << e >>)
    PROVE  Books'
<1>1. DOMAIN << e >> = 1 .. 1 /\ \A i \in 1 .. 1 : << e >>[i] = e /\ i = 1
  OBVIOUS
<1>2. PICK added : added = << e >>
  OBVIOUS
<1>3. PICK n \in Nat : n = 1
  OBVIOUS
<1>4. /\ DOMAIN added = 1 .. n /\ rtb_update(gone, added)
      /\ \A i \in 1 .. n : added[i] = e /\ i = 1
  BY <1>1, <1>2, <1>3
<1>5. /\ \A i \in 1 .. n : /\ added[i].pn \in Nat /\ added[i].pktlen \in Nat
                           /\ IsFiniteSet(added[i].frames)
      /\ \A i, j \in 1 .. n : added[i].pn = added[j].pn => i = j
      /\ \A i \in 1 .. n : \A d \in rtb \ gone : d.pn # added[i].pn
  BY <1>4 DEF IsNew
<1> QED
  BY ONLY Books, gone \in SUBSET rtb, IsFiniteSet(frq'), <1>3, <1>4, <1>5, UpdateBooks

\* Two entries are added: the rest of a packet that was split, and its part.
LEMMA BooksTwo ==
    ASSUME Books, NEW gone \in SUBSET rtb, IsFiniteSet(frq'), NEW e, IsNew(e, gone),
           NEW d, IsNew(d, gone), d.pn # e.pn, rtb_update(gone, << e, d >>)
    PROVE  Books'
<1>1. DOMAIN << e, d >> = 1 .. 2 /\ << e, d >>[1] = e /\ << e, d >>[2] = d
      /\ \A i \in 1 .. 2 : i = 1 \/ i = 2
  OBVIOUS
<1>2. PICK added : added = << e, d >>
  OBVIOUS
<1>3. PICK n \in Nat : n = 2
  OBVIOUS
<1>4. /\ DOMAIN added = 1 .. n /\ rtb_update(gone, added)
      /\ \A i \in 1 .. n : (added[i] = e /\ i = 1) \/ (added[i] = d /\ i = 2)
  BY <1>1, <1>2, <1>3
<1>5. /\ \A i \in 1 .. n : /\ added[i].pn \in Nat /\ added[i].pktlen \in Nat
                           /\ IsFiniteSet(added[i].frames)
      /\ \A i, j \in 1 .. n : added[i].pn = added[j].pn => i = j
      /\ \A i \in 1 .. n : \A x \in rtb \ gone : x.pn # added[i].pn
  BY <1>4 DEF IsNew
<1> QED
  BY ONLY Books, gone \in SUBSET rtb, IsFiniteSet(frq'), <1>3, <1>4, <1>5, UpdateBooks

\* A packet sent now has a number that no entry has.
LEMMA NextIsNew ==
    ASSUME Inv, NEW e, e.pn = last + 1, e.pktlen = Cardinality(e.frames),
           IsFiniteSet(e.frames), NEW gone
    PROVE  IsNew(e, gone)
<1>1. last \in Nat /\ \A d \in rtb : d.pn \in 1 .. last
  BY DEF Inv, Types, EntriesSent
<1>2. e.pktlen \in Nat
  BY FS_CardinalityType
<1> QED
  BY <1>1, <1>2 DEF IsNew

\* Time passes: the entries keep their numbers and lengths.
LEMMA TickBooks ==
    ASSUME Inv, Books, Tick
    PROVE  Books'
<1> DEFINE T(e) == [e EXCEPT !.expiry = Max({@ - 1, 0}),
                             !.deadline = Max({@ - 1, 0})]
           g == [e \in rtb |-> T(e)]
<1>1. rtb' = { T(e) : e \in rtb } /\ list' = list /\ in_flight' = in_flight /\ frq' = frq
  BY DEF Tick
<1>2. ASSUME NEW e \in rtb
      PROVE T(e).pn = e.pn /\ T(e).frames = e.frames /\ T(e).pktlen = e.pktlen
  <2>1. IsEntry(e)
    BY DEF Inv, EntriesSent
  <2> DEFINE x == Max({e.expiry - 1, 0})
             y == Max({e.deadline - 1, 0})
  <2> HIDE DEF x, y
  <2>2. LET t == [e EXCEPT !.expiry = x, !.deadline = y]
        IN  t.pktlen = e.pktlen /\ t.pn = e.pn /\ t.frames = e.frames
    BY <2>1 DEF IsEntry
  <2> QED
    BY <2>2 DEF x, y
<1> HIDE DEF T
<1>3. ASSUME NEW e \in rtb
      PROVE  g[e] = T(e) /\ g[e].pn = e.pn /\ g[e].frames = e.frames /\ g[e].pktlen = e.pktlen
  BY <1>2
<1>4. rtb' = { g[e] : e \in rtb }
  BY <1>1
<1> HIDE DEF g
<1>5. /\ IsFiniteSet(rtb) /\ IsFiniteSet(frq)
      /\ \A e \in rtb : IsFiniteSet(e.frames) /\ e.pktlen \in Nat
      /\ \A d, e \in rtb : d.pn = e.pn => d = e
      /\ list \in Seq(Nat) /\ Once(list)
      /\ \A z : Lists(list, z) <=> (\E e \in rtb : e.pn = z)
      /\ in_flight = Lengths(rtb)
  BY DEF Books
<1>6. IsFiniteSet({ g[x] : x \in rtb })
  BY ONLY <1>5, ImageFinite
<1>7. \A d, e \in rtb : g[d] = g[e] => d = e
  BY <1>3, <1>5
<1>8. Lengths({ g[e] : e \in rtb }) = Lengths(rtb)
  <2>1. \A e \in rtb : e.pktlen \in Nat /\ g[e].pktlen = e.pktlen
    BY <1>3, <1>5
  <2> QED
    BY ONLY <1>5, <1>7, <2>1, LengthsKept
<1>9. (in_flight = Lengths(rtb))'
  BY <1>1, <1>4, <1>5, <1>8
<1>10. \A z : Lists(list', z) <=> (\E e \in rtb' : e.pn = z)
  <2> SUFFICES ASSUME NEW z PROVE Lists(list, z) <=> (\E e \in rtb' : e.pn = z)
    BY <1>1
  <2>1. Lists(list, z) <=> (\E e \in rtb : e.pn = z)
    BY <1>5
  <2>2. (\E e \in rtb' : e.pn = z) <=> (\E e \in rtb : e.pn = z)
    BY <1>3, <1>4
  <2> QED
    BY <2>1, <2>2
<1>11. /\ \A e \in rtb' : IsFiniteSet(e.frames) /\ e.pktlen \in Nat
       /\ \A d, e \in rtb' : d.pn = e.pn => d = e
  BY <1>3, <1>4, <1>5
<1>12. IsFiniteSet(rtb') /\ IsFiniteSet(frq') /\ list' \in Seq(Nat) /\ Once(list')
  BY <1>1, <1>4, <1>5, <1>6
<1> QED
  BY <1>9, <1>10, <1>11, <1>12 DEF Books

\* A packet of stream data is added.
LEMMA WriteStreamBooks ==
    ASSUME Inv, Books, NEW len \in 0 .. Size, NEW fin \in BOOLEAN, write_stream(len, fin)
    PROVE  Books'
<1> DEFINE f == STREAM(strm.tx_offset, len, fin)
           e == rtb_entry_new(last + 1, {f})
<1>1. rtb_update({}, << e >>) /\ frq' = frq
  BY DEF write_stream
<1>2. e.pn = last + 1 /\ e.frames = {f} /\ e.pktlen = Cardinality({f})
  BY DEF rtb_entry_new
<1> HIDE DEF e
<1>3. IsFiniteSet(e.frames) /\ e.pktlen = Cardinality(e.frames)
  BY <1>2, FS_Singleton
<1> PICK gone : gone = {}
  OBVIOUS
<1>4. IsNew(e, gone)
  BY <1>2, <1>3, NextIsNew
<1>5. gone \in SUBSET rtb /\ IsFiniteSet(frq') /\ rtb_update(gone, << e >>)
  BY <1>1 DEF Books
<1> QED
  BY ONLY Books, <1>4, <1>5, BooksOne

\* conn_write_pkt drops dead entries and may add one.
LEMMA WritePktBooks ==
    ASSUME Inv, Books, NEW due \in BOOLEAN, NEW written \in SUBSET ToWrite(due),
           conn_write_pkt(due, written)
    PROVE  Books'
<1>1. IsFiniteSet(ToWrite(due))
  <2>1. IsFiniteSet({ f \in frq : f = RST_STREAM => ~strm.closed })
    BY FS_Subset DEF Books
  <2>2. PICK y : y = IF unsent > max_rx /\ (due \/ frq # {}) THEN {MAX_DATA(unsent)} ELSE {}
    OBVIOUS
  <2>3. IsFiniteSet(y)
    BY <2>2, FS_Singleton, FS_EmptySet
  <2>4. ToWrite(due) = { f \in frq : f = RST_STREAM => ~strm.closed } \cup y
    BY <2>2 DEF ToWrite
  <2> QED
    BY <2>1, <2>3, <2>4, FS_Union
<1>2. IsFiniteSet(written) /\ IsFiniteSet(ToWrite(due) \ written)
  BY <1>1, FS_Subset
<1>3. IsFiniteSet(frq') /\ Dead \in SUBSET rtb
  BY <1>2 DEF conn_write_pkt, Dead, Expired
<1>4. CASE rtb_update(Dead, << >>)
  BY <1>3, <1>4, BooksNone
<1>5. CASE rtb_update(Dead, << rtb_entry_new(last + 1, written) >>)
  <2> DEFINE e == rtb_entry_new(last + 1, written)
  <2>1. e.pn = last + 1 /\ e.frames = written /\ e.pktlen = Cardinality(written)
    BY DEF rtb_entry_new
  <2>2. rtb_update(Dead, << e >>)
    BY <1>5
  <2> HIDE DEF e
  <2>3. IsFiniteSet(e.frames) /\ e.pktlen = Cardinality(e.frames)
    BY <1>2, <2>1
  <2> PICK gone : gone = Dead
    OBVIOUS
  <2>4. IsNew(e, gone)
    BY <2>1, <2>3, NextIsNew
  <2> QED
    BY <1>3, <2>2, <2>4, BooksOne
<1> QED
  BY <1>4, <1>5 DEF conn_write_pkt

\* An acknowledgement takes entries out.
LEMMA RecvAckBooks ==
    ASSUME Inv, Books, NEW A \in (SUBSET rcvd) \ {{}}, recv_ack(A)
    PROVE  Books'
<1> DEFINE gone == { e \in rtb : \E i \in Removed(A) : e.pn = list[i] }
<1>1. rtb_update(gone, << >>) /\ frq' = frq
  BY DEF recv_ack
<1>2. gone \in SUBSET rtb /\ IsFiniteSet(frq')
  BY <1>1 DEF Books
<1> HIDE DEF gone
<1> QED
  BY <1>1, <1>2, BooksNone

\* A lost packet is given up, put back, sent again or split.
LEMMA RetransmitBooks ==
    ASSUME Inv, Books, conn_retransmit
    PROVE  Books'
<1>1. PICK e \in Stops : \E gone \in SUBSET Dead :
          \/ GiveUp(e, gone)
          \/ \E frames \in SUBSET e.frames : Unwritten(e, gone, frames)
          \/ Complete(e, gone)
          \/ \E written, frames \in SUBSET e.frames :
                Partial(e, gone, written, frames)
  BY DEF conn_retransmit
<1>2. PICK gone \in SUBSET Dead :
          \/ GiveUp(e, gone)
          \/ \E frames \in SUBSET e.frames : Unwritten(e, gone, frames)
          \/ Complete(e, gone)
          \/ \E written, frames \in SUBSET e.frames :
                Partial(e, gone, written, frames)
  BY <1>1
<1> PICK out : out = gone \cup {e}
  OBVIOUS
<1>3. /\ e \in rtb /\ IsEntry(e) /\ e.pn \in 1 .. last /\ last \in Nat
      /\ e.pktlen \in Nat /\ IsFiniteSet(e.frames)
      /\ out \in SUBSET rtb
  BY DEF Stops, Dead, Expired, Inv, Types, EntriesSent, Books
<1>4. frq' = frq /\ IsFiniteSet(frq')
  BY DEF conn_retransmit, Books
<1>5. \A d \in rtb \ out : d.pn # e.pn
  BY <1>3 DEF Books
<1>6. \A s \in SUBSET e.frames : IsFiniteSet(s) /\ Cardinality(s) \in Nat
  BY <1>3, FS_Subset, FS_CardinalityType
<1>7. CASE GiveUp(e, gone)
  <2>1. rtb_update(out, << >>)
    BY <1>7 DEF GiveUp
  <2> QED
    BY <1>3, <1>4, <2>1, BooksNone
<1>8. ASSUME NEW frames \in SUBSET e.frames, Unwritten(e, gone, frames)
      PROVE  Books'
  <2> DEFINE d == [e EXCEPT !.frames = frames]
  <2>1. d.pn = e.pn /\ d.frames = frames /\ d.pktlen = e.pktlen
    BY <1>3 DEF IsEntry
  <2>2. rtb_update(out, << d >>)
    BY <1>8 DEF Unwritten
  <2> HIDE DEF d
  <2>3. IsNew(d, out)
    BY <1>3, <1>5, <1>6, <2>1 DEF IsNew
  <2> QED
    BY ONLY Books, <1>3, <1>4, <2>2, <2>3, BooksOne
<1>9. CASE Complete(e, gone)
  <2> DEFINE L == LiveFrames(e)
             d == [extend_expiry(e) EXCEPT !.pn = last + 1, !.frames = L,
                                           !.pktlen = Cardinality(L)]
  <2>1. d.pn = last + 1 /\ d.frames = L /\ d.pktlen = Cardinality(L)
    BY <1>3 DEF IsEntry, extend_expiry
  <2>2. rtb_update(out, << d >>)
    BY <1>9 DEF Complete
  <2>3. L \in SUBSET e.frames
    BY DEF LiveFrames
  <2> HIDE DEF d, L
  <2>4. IsFiniteSet(d.frames) /\ d.pktlen = Cardinality(d.frames)
    BY <1>6, <2>1, <2>3
  <2>5. IsNew(d, out)
    BY <2>1, <2>4, NextIsNew
  <2> QED
    BY ONLY Books, <1>3, <1>4, <2>2, <2>5, BooksOne
<1>10. ASSUME NEW written \in SUBSET e.frames, NEW frames \in SUBSET e.frames,
             Partial(e, gone, written, frames)
      PROVE  Books'
  <2> DEFINE n == Cardinality(written)
             c == [e EXCEPT !.frames = frames, !.pktlen = n]
             d == [extend_expiry(e) EXCEPT !.pn = last + 1, !.frames = written,
                                           !.pktlen = n]
  <2>1. c.pn = e.pn /\ c.frames = frames /\ c.pktlen = n
    BY <1>3 DEF IsEntry
  <2>2. d.pn = last + 1 /\ d.frames = written /\ d.pktlen = n
    BY <1>3 DEF IsEntry, extend_expiry
  <2>3. rtb_update(out, << c, d >>)
    BY <1>10 DEF Partial
  <2> HIDE DEF c, d
  <2>4. IsFiniteSet(d.frames) /\ d.pktlen = Cardinality(d.frames)
    BY <1>6, <2>2
  <2>5. IsNew(d, out)
    BY <2>2, <2>4, NextIsNew
  <2>6. IsNew(c, out)
    BY <1>3, <1>5, <1>6, <2>1 DEF IsNew
  <2>7. d.pn # c.pn
    BY <1>3, <2>1, <2>2
  <2> QED
    BY ONLY Books, <1>3, <1>4, <2>3, <2>5, <2>6, <2>7, BooksTwo
<1> QED
  BY <1>2, <1>7, <1>8, <1>9, <1>10

\* Every step keeps the books.
LEMMA BooksNext ==
    ASSUME Inv, Books, [Next]_vars
    PROVE  Books'
<1>1. CASE UNCHANGED vars
  BY <1>1 DEF Books, vars
<1>2. CASE shutdown_stream_write
  <2>1. /\ rtb' = rtb /\ list' = list /\ in_flight' = in_flight
        /\ frq' = frq \cup {RST_STREAM}
    BY <1>2 DEF shutdown_stream_write
  <2>2. IsFiniteSet(frq')
    BY <2>1, FS_AddElement DEF Books
  <2> QED
    BY <2>1, <2>2 DEF Books
<1>3. CASE ReadSideDone
  BY <1>3 DEF Books, ReadSideDone
<1>4. CASE extend_max_offset
  BY <1>4 DEF Books, extend_max_offset
<1>5. CASE \E pn \in (1 .. last) \ rcvd : Receive(pn)
  BY <1>5 DEF Books, Receive
<1> QED
  BY <1>1, <1>2, <1>3, <1>4, <1>5, WriteStreamBooks, RetransmitBooks, WritePktBooks,
     TickBooks, RecvAckBooks DEF Next

\* What the list and the counter say follows from Books.
LEMMA BooksAccounted ==
    ASSUME Books
    PROVE  InFlightAccounted
<1>0. \A z : (\E i \in DOMAIN list : list[i] = z) <=> (\E e \in rtb : e.pn = z)
  BY DEF Books, Lists
<1>1. { list[i] : i \in DOMAIN list } = Pns(rtb)
  <2>1. \A z : z \in Pns(rtb) <=> \E e \in rtb : e.pn = z
    BY DEF Pns
  <2>2. \A z : z \in { list[i] : i \in DOMAIN list } <=> \E i \in DOMAIN list : list[i] = z
    OBVIOUS
  <2> QED
    BY <1>0, <2>1, <2>2
<1>2. PICK h : h = [e \in rtb |-> e.pn]
  OBVIOUS
<1>3. h \in Bijection(rtb, Pns(rtb))
  <2>1. h \in [rtb -> Pns(rtb)] /\ \A d, e \in rtb : h[d] = h[e] => d = e
    BY <1>2 DEF Pns, Books
  <2>2. \A z \in Pns(rtb) : \E e \in rtb : h[e] = z
    BY <1>2 DEF Pns
  <2> QED
    BY <2>1, <2>2 DEF Bijection, Injection, Surjection, IsInjective
<1> PICK n : n = Len(list)
  OBVIOUS
<1>4. list \in Seq(Nat) /\ n \in Nat /\ DOMAIN list = 1 .. n
  BY DEF Books
<1>5. list \in Bijection(1 .. n, Pns(rtb))
  <2>1. list \in [1 .. n -> Pns(rtb)]
    BY <1>1, <1>4
  <2>2. \A i, j \in 1 .. n : list[i] = list[j] => i = j
    BY <1>4 DEF Books, Once
  <2>3. \A z \in Pns(rtb) : \E i \in 1 .. n : list[i] = z
    BY <1>1, <1>4
  <2> QED
    BY <2>1, <2>2, <2>3 DEF Bijection, Injection, Surjection, IsInjective
<1> PICK D : D = Pns(rtb)
  OBVIOUS
<1>6. ExistsBijection(rtb, D) /\ ExistsBijection(1 .. n, D) /\ IsFiniteSet(rtb)
  BY <1>3, <1>5 DEF ExistsBijection, Books
<1>7. Cardinality(D) = Cardinality(rtb)
  BY ONLY <1>6, FS_Bijection
<1>8. Cardinality(D) = n
  BY ONLY <1>4, <1>6, FS_CountingElements
<1> QED
  BY <1>1, <1>7, <1>8 DEF InFlightAccounted, Books

\* They hold at the start.
LEMMA BooksInit ==
    ASSUME Init
    PROVE  Books
<1>1. rtb = {} /\ list = << >> /\ in_flight = 0 /\ frq = {}
  BY DEF Init
<1>2. IsFiniteSet({})
  BY FS_EmptySet
<1>3. Lengths({}) = 0
  <2>1. PICK R : R = {}
    OBVIOUS
  <2>2. PICK s : IsSum(s, [e \in R |-> e.pktlen], R) /\ \A S \in SUBSET R : Lengths(S) = s[S]
    BY <1>2, <2>1, LengthsAreSums
  <2> QED
    BY <2>1, <2>2 DEF IsSum
<1> QED
  BY <1>1, <1>2, <1>3 DEF Books, Once, Lists

\* However packets are split, renumbered, acknowledged, dropped and given up,
\* the list of ngtcp2_rtb has the packets of its priority queue, each once,
\* and bytes_in_flight is the sum of their lengths.
THEOREM InFlightIsSum == Spec => []InFlightAccounted
<1>1. Inv /\ Books => InFlightAccounted
  BY BooksAccounted
<1>2. Init => Inv /\ Books
  BY InvInit, BooksInit
<1>3. Inv /\ Books /\ [Next]_vars => (Inv /\ Books)'
  BY InvNext, BooksNext
<1> QED
  BY <1>1, <1>2, <1>3, PTL DEF Spec

-----------------------------------------------------------------------------
(* The walk of ngtcp2_rtb_recv_ack.                                        *)

\* The largest packet numbers of the blocks of an ACK frame.
Ends(A) == { p \in A : p + 1 \notin A }

\* The blocks are taken from the one with the largest numbers down, none is
\* left out, and each packet of the frame is in one of them.
LEMMA TopsListed ==
    ASSUME NEW A, A \subseteq Nat, IsFiniteSet(A), A # {}, NEW tops, tops = Tops(A)
    PROVE  \E n \in Nat \ {0} :
             /\ tops \in [1 .. n -> Ends(A)] /\ Len(tops) = n /\ DOMAIN tops = 1 .. n
             /\ \A i, j \in 1 .. n : i < j => tops[i] > tops[j]
             /\ \A p \in A : \E k \in 1 .. n : p \in Block(A, tops[k])
<1> PICK T : T = Ends(A)
  OBVIOUS
<1> PICK n : n = Cardinality(T)
  OBVIOUS
<1>1. T \subseteq Nat /\ T \subseteq A /\ IsFiniteSet(T) /\ n \in Nat
  BY FS_Subset, FS_CardinalityType DEF Ends
<1>2. \E s \in [1 .. n -> T] : \A i, j \in 1 .. n : i < j => s[i] > s[j]
  BY <1>1, DescendingExists
<1>3. tops = CHOOSE s \in [1 .. n -> T] : \A i, j \in 1 .. n : i < j => s[i] > s[j]
  BY DEF Tops, Ends
<1>4. tops \in [1 .. n -> T] /\ \A i, j \in 1 .. n : i < j => tops[i] > tops[j]
  BY <1>2, <1>3
<1>5. Len(tops) = n /\ DOMAIN tops = 1 .. n
  <2>1. tops \in [1 .. n -> T]
    BY <1>4
  <2> QED
    BY ONLY <1>1, <2>1, FunctionIsSeq
<1>6. ASSUME NEW i \in 1 .. n, NEW j \in 1 .. n, tops[i] = tops[j] PROVE i = j
  <2>1. tops[i] \in Nat
    BY <1>1, <1>4
  <2> SUFFICES ASSUME i # j PROVE FALSE
    OBVIOUS
  <2>2. i < j \/ j < i
    BY <1>1
  <2> QED
    BY <1>4, <1>6, <2>1, <2>2
<1>7. \A t \in T : \E k \in 1 .. n : tops[k] = t
  <2>1. tops \in Injection(1 .. n, T)
    BY <1>4, <1>6 DEF Injection, IsInjective
  <2>2. Cardinality(1 .. n) = n
    <3> PICK one \in Int : one = 1
      OBVIOUS
    <3>0. n \in Int
      BY <1>1
    <3>1. Cardinality(one .. n) = IF one > n THEN 0 ELSE n - one + 1
      BY ONLY <3>0, FS_Interval
    <3> QED
      BY <1>1, <3>1
  <2> PICK D : D = 1 .. n
    OBVIOUS
  <2>3. tops \in Injection(D, T) /\ Cardinality(D) = Cardinality(T)
    BY <2>1, <2>2
  <2>4. tops \in Surjection(D, T)
    BY ONLY <1>1, <2>3, FS_Injection
  <2> QED
    BY <2>4 DEF Surjection
<1>8. ASSUME NEW p \in A PROVE \E t \in T : p \in Block(A, t)
  <2>1. PICK b \in Nat : \A y \in A : y <= b
    BY FiniteIsBounded
  <2> DEFINE S == { q \in Nat : p <= q /\ q + 1 \notin A }
  <2>2. p \in Nat /\ b \in S
    BY <2>1
  <2>3. PICK t \in S : \A q \in S : t <= q
    <3>1. S \subseteq Nat /\ S # {}
      BY <2>2
    <3> HIDE DEF S
    <3> QED
      BY <3>1, LeastExists
  <2>4. ASSUME NEW q \in p .. t PROVE q \in A
    <3>1. CASE q = p
      BY <3>1
    <3>2. CASE q # p
      <4>1. q - 1 \in Nat /\ p <= q - 1 /\ q - 1 < t /\ (q - 1) + 1 = q
        BY <2>2, <2>3, <3>2
      <4>2. q - 1 \notin S
        BY <2>3, <4>1
      <4> QED
        BY <4>1, <4>2
    <3> QED
      BY <3>1, <3>2
  <2>5. t \in Nat /\ p <= t /\ t + 1 \notin A
    BY <2>3
  <2>6. t \in A /\ p .. t \subseteq A
    BY <2>2, <2>4, <2>5
  <2> QED
    BY <2>2, <2>5, <2>6 DEF Block, Ends
<1>9. n # 0
  <2>1. PICK p : p \in A
    OBVIOUS
  <2>2. PICK t \in T : p \in Block(A, t)
    BY <1>8, <2>1
  <2>3. PICK k \in 1 .. n : tops[k] = t
    BY <1>7
  <2> QED
    BY <1>1, <2>3
<1>10. \A p \in A : \E k \in 1 .. n : p \in Block(A, tops[k])
  <2> SUFFICES ASSUME NEW p \in A PROVE \E k \in 1 .. n : p \in Block(A, tops[k])
    OBVIOUS
  <2>1. PICK t \in T : p \in Block(A, t)
    BY <1>8
  <2>2. PICK k \in 1 .. n : tops[k] = t
    BY <1>7
  <2> QED
    BY <2>1, <2>2
<1> QED
  BY <1>1, <1>4, <1>5, <1>9, <1>10

\* r is the first of the places Q, or the place behind the list.
FirstOf(r, Q) == r \in Q \cup {Len(list) + 1} /\ \A j \in Q : r <= j

\* Find gives that place.
LEMMA FirstExists ==
    ASSUME list \in Seq(Nat), NEW i \in Nat \ {0}, NEW Q, Q \subseteq i .. Len(list),
           NEW r, r = Min(Q \cup {Len(list) + 1})
    PROVE  r \in Nat \ {0} /\ FirstOf(r, Q)
<1> PICK S : S = Q \cup {Len(list) + 1}
  OBVIOUS
<1>1. Len(list) \in Nat
  OBVIOUS
<1>2. S \subseteq Nat \ {0} /\ S # {}
  <2>1. ASSUME NEW y \in Q PROVE y \in Nat \ {0}
    <3>1. y \in i .. Len(list)
      OBVIOUS
    <3> QED
      BY <1>1, <3>1
  <2>2. Len(list) + 1 \in Nat \ {0}
    BY <1>1
  <2> QED
    BY <2>1, <2>2
<1>3. Min(S) \in S /\ \A y \in S : Min(S) <= y
  BY <1>2, MinOfNat
<1> QED
  BY <1>2, <1>3 DEF FirstOf

\* Where the walk stands at the end of each block.
IsWalk(f, A, tops, n) ==
    /\ f \in [0 .. n -> Nat \ {0}]
    /\ FirstOf(f[0], { j \in 1 .. Len(list) : list[j] <= tops[1] })
    /\ FirstOf(f[1], { j \in f[0] .. Len(list) : list[j] \notin Block(A, tops[1]) })
    /\ \A k \in 2 .. n :
         FirstOf(f[k], { j \in f[k - 1] .. Len(list) : list[j] < Min(Block(A, tops[k])) })

\* WalkEnds gives those places: its recursion is defined for every block.
LEMMA WalkExists ==
    ASSUME list \in Seq(Nat), NEW A, NEW tops, tops = Tops(A),
           NEW n \in Nat \ {0}, Len(tops) = n
    PROVE  IsWalk(WalkEnds(A), A, tops, n)
<1> PICK N : N = Len(list)
  OBVIOUS
<1> DEFINE First(k) == { j \in k .. N : list[j] \notin Block(A, tops[1]) }
           Later(k, b) == { j \in b .. N : list[j] < Min(Block(A, tops[k])) }
           start == Min({ j \in 1 .. N : list[j] <= tops[1] } \cup {N + 1})
           F1 == Min(First(start) \cup {N + 1})
           G(k, b) == Min(Later(k, b) \cup {N + 1})
           Eq(f) == f = [k \in 0 .. n |-> CASE k = 0 -> start
                                            [] k = 1 -> F1
                                            [] OTHER -> G(k, f[k - 1])]
           P == Nat \ {0}
<1>1. WalkEnds(A) = CHOOSE f : Eq(f)
  BY DEF WalkEnds, Find
<1>2. start \in P /\ FirstOf(start, { j \in 1 .. N : list[j] <= tops[1] })
  <2> PICK Q : Q = { j \in 1 .. N : list[j] <= tops[1] }
    OBVIOUS
  <2> PICK i \in P : i = 1
    OBVIOUS
  <2>1. Q \subseteq i .. Len(list) /\ start = Min(Q \cup {Len(list) + 1})
    OBVIOUS
  <2> HIDE DEF start
  <2> QED
    BY <2>1, FirstExists
<1> HIDE DEF start
<1>3. F1 \in P /\ FirstOf(F1, First(start))
  <2> PICK Q : Q = First(start)
    OBVIOUS
  <2>1. Q \subseteq start .. Len(list) /\ F1 = Min(Q \cup {Len(list) + 1})
    OBVIOUS
  <2> HIDE DEF F1, First
  <2> QED
    BY <1>2, <2>1, FirstExists
<1> HIDE DEF F1, First
<1>4. ASSUME NEW k, NEW b \in P PROVE G(k, b) \in P /\ FirstOf(G(k, b), Later(k, b))
  <2> PICK Q : Q = Later(k, b)
    OBVIOUS
  <2>1. Q \subseteq b .. Len(list) /\ G(k, b) = Min(Q \cup {Len(list) + 1})
    OBVIOUS
  <2> HIDE DEF G, Later
  <2> QED
    BY <2>1, FirstExists
<1> HIDE DEF G, Later
<1> DEFINE step == [p \in (1 .. n) \X P |-> IF p[1] = 1 THEN F1 ELSE G(p[1], p[2])]
<1>5. ASSUME NEW k \in 1 .. n, NEW b \in P
      PROVE  step[<<k, b>>] = (IF k = 1 THEN F1 ELSE G(k, b)) /\ step[<<k, b>>] \in P
  BY <1>3, <1>4
<1> HIDE DEF step, P
<1>6. PICK f \in [0 .. n -> P] : Recurs(f, n, start, step)
  <2>1. \A k \in 1 .. n, a \in P : step[<<k, a>>] \in P
    BY <1>5
  <2>2. start \in P /\ n \in Nat
    BY <1>2
  <2> QED
    BY ONLY <2>1, <2>2, RecursionExists
<1>7. Eq(f)
  <2>0. \A k \in 0 .. n : f[k] = IF k = 0 THEN start ELSE step[<<k, f[k - 1]>>]
    BY <1>6 DEF Recurs
  <2> SUFFICES ASSUME NEW k \in 0 .. n
               PROVE  f[k] = CASE k = 0 -> start [] k = 1 -> F1 [] OTHER -> G(k, f[k - 1])
    BY <1>6
  <2>1. CASE k = 0
    BY <2>0, <2>1
  <2>2. CASE k # 0
    <3>1. k \in 1 .. n /\ k - 1 \in 0 .. n
      BY <2>2
    <3>2. f[k - 1] \in P
      BY <1>6, <3>1
    <3>3. f[k] = step[<<k, f[k - 1]>>]
      BY <2>0, <2>2
    <3>4. f[k] = IF k = 1 THEN F1 ELSE G(k, f[k - 1])
      BY <1>5, <3>1, <3>2, <3>3
    <3> QED
      BY <2>2, <3>4
  <2> QED
    BY <2>1, <2>2
<1> PICK g : g = WalkEnds(A)
  OBVIOUS
<1>8. Eq(g)
  <2>1. \E h : Eq(h)
    BY <1>7
  <2>2. g = CHOOSE h : Eq(h)
    BY <1>1
  <2> HIDE DEF Eq
  <2> QED
    BY ONLY <2>1, <2>2
<1>9. /\ DOMAIN g = 0 .. n /\ g = [k \in 0 .. n |-> g[k]]
      /\ g[0] = start /\ g[1] = F1 /\ \A k \in 2 .. n : g[k] = G(k, g[k - 1])
  <2>1. DOMAIN g = 0 .. n /\ g = [k \in 0 .. n |-> g[k]]
    BY <1>8
  <2>2. ASSUME NEW k \in 0 .. n
        PROVE  g[k] = CASE k = 0 -> start [] k = 1 -> F1 [] OTHER -> G(k, g[k - 1])
    BY <1>8
  <2> HIDE DEF Eq
  <2>3. g[0] = start
    <3>1. 0 \in 0 .. n
      OBVIOUS
    <3> QED
      BY <2>2, <3>1
  <2>4. g[1] = F1
    <3>1. 1 \in 0 .. n
      OBVIOUS
    <3> QED
      BY <2>2, <3>1
  <2>5. ASSUME NEW k \in 2 .. n PROVE g[k] = G(k, g[k - 1])
    <3>1. k \in 0 .. n /\ k # 0 /\ k # 1
      OBVIOUS
    <3> QED
      BY <2>2, <3>1
  <2> QED
    BY <2>1, <2>3, <2>4, <2>5
<1> HIDE DEF Eq
<1>10. \A k \in 0 .. n : g[k] \in P
  <2> DEFINE W == { k \in Nat : k <= n => g[k] \in P }
  <2>1. 0 \in W
    BY <1>2, <1>9
  <2>2. ASSUME NEW k \in Nat, k \in W PROVE k + 1 \in W
    <3> SUFFICES ASSUME k + 1 <= n PROVE g[k + 1] \in P
      OBVIOUS
    <3>1. CASE k = 0
      BY <1>3, <1>9, <3>1
    <3>2. CASE k # 0
      <4>1. k + 1 \in 2 .. n /\ (k + 1) - 1 = k /\ g[k] \in P
        BY <2>2, <3>2
      <4>2. g[k + 1] = G(k + 1, g[k])
        BY <1>9, <4>1
      <4> QED
        BY <1>4, <4>1, <4>2
    <3> QED
      BY <3>1, <3>2
  <2>3. \A k \in Nat : k \in W
    <3> HIDE DEF W
    <3> QED
      BY <2>1, <2>2, SetInduction
  <2> QED
    BY <2>3
<1>11. FirstOf(g[0], { j \in 1 .. N : list[j] <= tops[1] }) /\ FirstOf(g[1], First(g[0]))
  BY <1>2, <1>3, <1>9
<1>12. ASSUME NEW k \in 2 .. n PROVE FirstOf(g[k], Later(k, g[k - 1]))
  <2>1. k - 1 \in 0 .. n
    OBVIOUS
  <2>2. g[k - 1] \in P
    BY <1>10, <2>1
  <2>3. g[k] = G(k, g[k - 1])
    BY <1>9
  <2>4. FirstOf(G(k, g[k - 1]), Later(k, g[k - 1]))
    BY <1>4, <2>2
  <2> QED
    BY <2>3, <2>4
<1>13. g \in [0 .. n -> P]
  BY <1>9, <1>10
<1> QED
  BY <1>11, <1>12, <1>13 DEF IsWalk, First, Later, P

\* A block ends below the ones before it.
LEMMA BlocksApart ==
    ASSUME NEW A, A \subseteq Nat, NEW t \in Nat, NEW u \in Ends(A), u < t,
           NEW p \in Block(A, t)
    PROVE  u < p
<1>1. p \in Nat /\ p <= t /\ p .. t \subseteq A /\ u \in Nat /\ u + 1 \notin A
  BY DEF Block, Ends
<1> SUFFICES ASSUME p <= u PROVE FALSE
  BY <1>1
<1>2. u + 1 \in p .. t
  BY <1>1
<1> QED
  BY <1>1, <1>2

\* The walk does not pass a packet before it has come to the packet's block,
\* in whatever order the list is.
LEMMA NotPassed ==
    ASSUME list \in Seq(Nat), NEW A, A \subseteq Nat, NEW n \in Nat \ {0}, NEW tops,
           tops \in [1 .. n -> Ends(A)],
           \A i, j \in 1 .. n : i < j => tops[i] > tops[j],
           \A k \in 1 .. n : Block(A, tops[k]) # {},
           NEW f, IsWalk(f, A, tops, n)
    PROVE  \A k \in 1 .. n : \A i \in DOMAIN list : list[i] <= tops[k] => f[k - 1] <= i
<1> PICK N : N = Len(list)
  OBVIOUS
<1>1. N \in Nat /\ DOMAIN list = 1 .. N /\ \A i \in 1 .. N : list[i] \in Nat
  OBVIOUS
<1>2. \A k \in 1 .. n : tops[k] \in Nat /\ tops[k] \in Ends(A)
  BY DEF Ends
<1>3. f \in [0 .. n -> Nat \ {0}]
  BY DEF IsWalk
<1> DEFINE L(k) == \A i \in 1 .. N : list[i] <= tops[k + 1] => f[k] <= i
           P == { k \in Nat : k < n => L(k) }
<1>4. 0 \in P
  <2>1. \A j \in { x \in 1 .. N : list[x] <= tops[1] } : f[0] <= j
    BY DEF IsWalk, FirstOf
  <2> QED
    BY <2>1
<1>5. ASSUME NEW k \in Nat, k \in P PROVE k + 1 \in P
  <2> SUFFICES ASSUME k + 1 < n, NEW i \in 1 .. N, list[i] <= tops[(k + 1) + 1]
               PROVE  f[k + 1] <= i
    OBVIOUS
  <2> PICK c : c = k + 1
    OBVIOUS
  <2>1. c \in 1 .. n /\ c + 1 \in 1 .. n /\ c - 1 = k /\ c \in Nat
    OBVIOUS
  <2>2. tops[c + 1] < tops[c] /\ tops[c] \in Nat /\ tops[c + 1] \in Ends(A) /\ tops[c + 1] \in Nat
    <3>1. c < c + 1
      BY <2>1
    <3>2. tops[c] > tops[c + 1]
      BY <2>1, <3>1
    <3> QED
      BY <1>2, <2>1, <3>2
  <2>3. list[i] <= tops[c + 1] /\ list[i] \in Nat /\ list[i] <= tops[c]
    BY <1>1, <2>2
  <2>4. f[k] <= i
    <3>1. L(k) /\ k + 1 = c
      BY <1>5
    <3> QED
      BY <2>3, <3>1
  <2>5. i \in f[k] .. N
    <3>1. f[k] \in Nat
      BY <1>3, <2>1
    <3> QED
      BY <1>1, <2>4, <3>1
  <2>6. \A p \in Block(A, tops[c]) : tops[c + 1] < p
    BY <2>2, BlocksApart
  <2>7. list[i] \notin Block(A, tops[c])
    BY <2>2, <2>3, <2>6
  <2>8. list[i] < Min(Block(A, tops[c]))
    <3> PICK B : B = Block(A, tops[c])
      OBVIOUS
    <3>1. B \subseteq Nat /\ B # {}
      BY <2>1 DEF Block
    <3>2. Min(B) \in B
      BY <3>1, MinOfNat
    <3>3. tops[c + 1] < Min(B) /\ Min(B) \in Nat
      BY <2>6, <3>1, <3>2
    <3> QED
      BY <2>2, <2>3, <3>3
  <2>9. CASE c = 1
    <3>1. k = 0
      BY <2>1, <2>9
    <3>2. \A j \in { x \in f[0] .. N : list[x] \notin Block(A, tops[1]) } : f[1] <= j
      BY DEF IsWalk, FirstOf
    <3>3. i \in { x \in f[0] .. N : list[x] \notin Block(A, tops[1]) }
      BY <2>5, <2>7, <2>9, <3>1
    <3> QED
      BY <2>9, <3>2, <3>3
  <2>10. CASE c # 1
    <3>1. c \in 2 .. n
      BY <2>1, <2>10
    <3>2. \A j \in { x \in f[c - 1] .. N : list[x] < Min(Block(A, tops[c])) } : f[c] <= j
      BY <3>1 DEF IsWalk, FirstOf
    <3>3. i \in { x \in f[c - 1] .. N : list[x] < Min(Block(A, tops[c])) }
      BY <2>1, <2>5, <2>8
    <3> QED
      BY <3>2, <3>3
  <2> QED
    BY <2>9, <2>10
<1>6. \A k \in Nat : k \in P
  <2> HIDE DEF P
  <2> QED
    BY <1>4, <1>5, SetInduction
<1> SUFFICES ASSUME NEW k \in 1 .. n, NEW i \in 1 .. N, list[i] <= tops[k]
             PROVE  f[k - 1] <= i
  BY <1>1
<1>7. k - 1 \in Nat /\ k - 1 < n /\ (k - 1) + 1 = k
  OBVIOUS
<1>8. L(k - 1)
  BY <1>6, <1>7
<1> QED
  BY <1>7, <1>8

\* In a list in decreasing order the walk comes to the packets of a block
\* before it leaves the block.
LEMMA ReachedInBlock ==
    ASSUME list \in Seq(Nat), Sorted, NEW A, A \subseteq Nat, NEW n \in Nat \ {0}, NEW tops,
           tops \in [1 .. n -> Ends(A)],
           NEW f, IsWalk(f, A, tops, n),
           NEW k \in 1 .. n, NEW i \in DOMAIN list, list[i] \in Block(A, tops[k])
    PROVE  i < f[k]
<1> PICK N : N = Len(list)
  OBVIOUS
<1> PICK e : e = f[k]
  OBVIOUS
<1>1. N \in Nat /\ DOMAIN list = 1 .. N /\ \A j \in 1 .. N : list[j] \in Nat
  OBVIOUS
<1>2. f \in [0 .. n -> Nat \ {0}] /\ e \in Nat \ {0}
  BY DEF IsWalk
<1> SUFFICES ASSUME e <= i PROVE FALSE
  BY <1>1, <1>2
<1>3. e \in 1 .. N /\ i \in 1 .. N /\ list[e] \in Nat /\ list[i] \in Nat
  BY <1>1, <1>2
<1>4. e = i \/ list[e] > list[i]
  <2>1. e = i \/ e < i
    BY <1>3
  <2> QED
    BY <1>1, <1>3, <2>1 DEF Sorted
<1>5. CASE k = 1
  <2>1. e \in { x \in f[0] .. N : list[x] \notin Block(A, tops[1]) } \cup {N + 1}
    BY <1>5 DEF IsWalk, FirstOf
  <2>2. e \in f[0] .. N /\ list[e] \notin Block(A, tops[1])
    BY <1>3, <2>1
  <2>3. f[0] \in Nat \ {0} /\ f[0] <= e /\ f[0] \in 1 .. N
    BY <1>2, <1>3, <2>2
  <2>4. f[0] \in { x \in 1 .. N : list[x] <= tops[1] } \cup {N + 1}
    BY DEF IsWalk, FirstOf
  <2>5. list[f[0]] <= tops[1]
    BY <1>1, <2>3, <2>4
  <2>6. e = f[0] \/ list[f[0]] > list[e]
    <3>1. e = f[0] \/ f[0] < e
      BY <1>3, <2>3
    <3> QED
      BY <1>1, <1>3, <2>3, <3>1 DEF Sorted
  <2>7. tops[1] \in Nat /\ list[f[0]] \in Nat
    <3>1. 1 \in 1 .. n
      OBVIOUS
    <3>2. tops[1] \in Ends(A)
      BY <3>1
    <3> QED
      BY <1>1, <2>3, <3>2 DEF Ends
  <2>8. list[e] <= tops[1]
    BY <1>3, <2>5, <2>6, <2>7
  <2>9. list[i] \in 0 .. tops[1] /\ list[i] .. tops[1] \subseteq A
    BY <1>5 DEF Block
  <2>10. e # i
    BY <1>5, <2>2
  <2>11. list[e] .. tops[1] \subseteq list[i] .. tops[1]
    BY <1>3, <1>4, <2>7, <2>10
  <2>12. list[e] \in 0 .. tops[1]
    BY <1>3, <2>7, <2>8
  <2>13. list[e] \in Block(A, tops[1])
    BY <2>9, <2>11, <2>12 DEF Block
  <2> QED
    BY <2>2, <2>13
<1>6. CASE k # 1
  <2> PICK B : B = Block(A, tops[k])
    OBVIOUS
  <2>1. k \in 2 .. n
    BY <1>6
  <2>2. e \in { x \in f[k - 1] .. N : list[x] < Min(B) } \cup {N + 1}
    BY <2>1 DEF IsWalk, FirstOf
  <2>3. list[e] < Min(B)
    BY <1>3, <2>2
  <2>4. B \subseteq Nat /\ list[i] \in B
    BY DEF Block
  <2>5. Min(B) \in B /\ \A y \in B : Min(B) <= y
    BY <2>4, MinOfNat
  <2>6. Min(B) <= list[i] /\ Min(B) \in Nat
    BY <2>4, <2>5
  <2> QED
    BY <1>3, <1>4, <2>3, <2>6
<1> QED
  BY <1>5, <1>6

\* The walk removes packets the frame lists, and all of them that are in the
\* buffer if the list is in order.
LEMMA WalkRemoves ==
    ASSUME Inv, Books
    PROVE  AckRemovesExactly
<1> SUFFICES ASSUME NEW A \in (SUBSET rcvd) \ {{}}, NEW removed,
                    removed = { list[i] : i \in Removed(A) }
             PROVE  /\ removed \subseteq A \cap Pns(rtb)
                    /\ Sorted => removed = A \cap Pns(rtb)
  BY DEF AckRemovesExactly
<1>1. list \in Seq(Nat) /\ \A z : (\E i \in DOMAIN list : list[i] = z) <=> z \in Pns(rtb)
  BY DEF Books, Lists, Pns
<1>2. A \subseteq Nat /\ A # {} /\ IsFiniteSet(A)
  <2>1. rcvd \subseteq 1 .. last /\ last \in Nat
    BY DEF Inv, Types
  <2>2. 1 \in Int /\ last \in Int
    BY <2>1
  <2>3. IsFiniteSet(1 .. last)
    BY ONLY <2>2, FS_Interval
  <2>4. A \subseteq rcvd /\ A # {}
    OBVIOUS
  <2>5. A \subseteq 1 .. last
    BY <2>1, <2>4
  <2>6. IsFiniteSet(A)
    BY <2>3, <2>5, FS_Subset
  <2>7. A \subseteq Nat
    BY <2>1, <2>5
  <2> QED
    BY <2>4, <2>6, <2>7
<1> PICK tops : tops = Tops(A)
  OBVIOUS
<1> PICK f : f = WalkEnds(A)
  OBVIOUS
<1>3. PICK n \in Nat \ {0} :
             /\ tops \in [1 .. n -> Ends(A)] /\ Len(tops) = n /\ DOMAIN tops = 1 .. n
             /\ \A i, j \in 1 .. n : i < j => tops[i] > tops[j]
             /\ \A p \in A : \E k \in 1 .. n : p \in Block(A, tops[k])
  BY <1>2, TopsListed
<1>4. IsWalk(f, A, tops, n)
  BY <1>1, <1>3, WalkExists
<1>5. Removed(A) = { i \in DOMAIN list : \E k \in 1 .. n :
                       f[k - 1] <= i /\ i < f[k] /\ list[i] \in Block(A, tops[k]) }
  BY <1>3 DEF Removed
<1>6. removed \subseteq A \cap Pns(rtb)
  <2> SUFFICES ASSUME NEW i \in Removed(A) PROVE list[i] \in A /\ list[i] \in Pns(rtb)
    OBVIOUS
  <2>1. i \in DOMAIN list
    BY <1>5
  <2>2. PICK k \in 1 .. n : list[i] \in Block(A, tops[k])
    BY <1>5
  <2>3. list[i] \in Nat /\ tops[k] \in Nat
    <3>1. list[i] \in Nat
      BY <1>1, <2>1
    <3>2. tops[k] \in Ends(A)
      BY <1>3
    <3> QED
      BY <1>2, <3>1, <3>2 DEF Ends
  <2>4. list[i] \in list[i] .. tops[k] /\ list[i] .. tops[k] \subseteq A
    BY <2>2, <2>3 DEF Block
  <2> QED
    BY <1>1, <2>1, <2>4
<1>7. ASSUME Sorted, NEW p \in A, p \in Pns(rtb) PROVE p \in removed
  <2>1. PICK i \in DOMAIN list : list[i] = p
    BY <1>1, <1>7
  <2>2. PICK k \in 1 .. n : p \in Block(A, tops[k])
    BY <1>3
  <2>3. p <= tops[k]
    BY <1>2, <1>3, <2>2 DEF Block, Ends
  <2>4. \A c \in 1 .. n : Block(A, tops[c]) # {}
    <3> SUFFICES ASSUME NEW c \in 1 .. n PROVE tops[c] \in Block(A, tops[c])
      OBVIOUS
    <3>1. tops[c] \in A /\ tops[c] \in Nat
      BY <1>2, <1>3 DEF Ends
    <3>2. tops[c] .. tops[c] = {tops[c]}
      BY <3>1
    <3> QED
      BY <3>1, <3>2 DEF Block
  <2>5. f[k - 1] <= i
    BY <1>1, <1>2, <1>3, <1>4, <2>1, <2>3, <2>4, NotPassed
  <2>6. i < f[k]
    BY <1>1, <1>2, <1>3, <1>4, <1>7, <2>1, <2>2, ReachedInBlock
  <2>7. i \in Removed(A)
    BY <1>5, <2>1, <2>2, <2>5, <2>6
  <2> QED
    BY <2>1, <2>7
<1> QED
  BY <1>6, <1>7

\* Whatever the order of the list, an ACK frame removes only packets that it
\* lists, and while the list is in decreasing order the one walk along it
\* removes every one of them that is in the buffer (ngtcp2_rtb_recv_ack), for
\* any set of packets, blocks and gaps.
THEOREM WalkIsExact == Spec => []AckRemovesExactly
<1>1. Inv /\ Books => AckRemovesExactly
  BY WalkRemoves
<1>2. Init => Inv /\ Books
  BY InvInit, BooksInit
<1>3. Inv /\ Books /\ [Next]_vars => (Inv /\ Books)'
  BY InvNext, BooksNext
<1> QED
  BY <1>1, <1>2, <1>3, PTL DEF Spec

=============================================================================
