------------------------------ MODULE MCLibrary -----------------------------
(***************************************************************************)
(* The sequential parts of the library.  A behaviour is about packets and  *)
(* messages or about one of the containers.                                *)
(*                                                                         *)
(* Packets and transport parameters are written by Codec.tla and           *)
(* TransportParams.tla and read back, whole or cut short.                  *)
(* A packet: a header, then frames one after the other until the buffer    *)
(* is full or the writer has no more, padding perhaps, the tag.  The       *)
(* reader decodes the header and then frame after frame.  The numbers lie  *)
(* on both sides of the limits of the variable-length integers.            *)
(*                                                                         *)
(* The containers are beside what they stand for: a gap list beside the    *)
(* set of offsets pushed, a heap beside the set of items, a hash map       *)
(* beside the set of keys.                                                 *)
(***************************************************************************)
EXTENDS TransportParams, Gaps, Containers, FiniteSetsExt

CONSTANTS
    MaxFrames,      \* frames in a packet
    Buffers,        \* sizes of the buffer a packet is written to
    Aead,           \* bytes of the tag
    ParamBuf,       \* the buffer for the transport parameters
    Infinity,       \* stands for UINT64_MAX in the gap list
    Items,          \* items of the queue, numbered by when they are due
    Expiries,       \* their sort keys
    Keys,           \* keys of the map
    TableLen        \* INITIAL_TABLE_LENGTH

ASSUME LibraryAssumption ==
    /\ MaxFrames \in Nat /\ Buffers \subseteq Nat /\ Aead \in Nat /\ ParamBuf \in Nat
    /\ Infinity \in Nat /\ Items \cup Expiries \subseteq Nat /\ TableLen \in Nat

VARIABLES
    phase,          \* "hd", "write", "read", "done", "failed"
    hd,             \* the header to write
    ppe,            \* the packet being written
    written,        \* the frames in it
    claimed,        \* the sum of the lengths the encoders returned
    pkt,            \* the packet as it is read, "payload" being what is left
    cut,            \* bytes missing at its end
    got,            \* the frames read
    over,           \* a decoder has read beyond the payload
    msg             \* what is sent beside packets with frames, and how it is read

VARIABLES which, gap, pushed, key, pq, queued, map, stored

pvars == << phase, hd, ppe, written, claimed, pkt, cut, got, over >>

cvars == << which, gap, pushed, key, pq, queued, map, stored >>

Edges == {63, 64, 16383, 16384, 1073741823, 1073741824}

Token == [i \in 1 .. TOKENLEN |-> i]

Frames ==
    { [type |-> "STREAM", fin |-> fin, stream_id |-> 4, offset |-> o, data |-> d] :
        fin \in BOOLEAN, o \in {0, 64, 16383}, d \in {<< >>, << 255, 0 >>} }
    \cup { [type |-> "ACK", largest_ack |-> n, ack_delay |-> 2, first_ack_blklen |-> 1,
            blks |-> b] : n \in {70, 16384},
                          b \in { << >>, << [gap |-> 0, blklen |-> 65] >>,
                                  << [gap |-> 1, blklen |-> 0], [gap |-> 64, blklen |-> 3] >> } }
    \cup { [type |-> "PADDING", len |-> 3],
           [type |-> "CONNECTION_CLOSE", error_code |-> 258, reason |-> << >>],
           [type |-> "APPLICATION_CLOSE", app_error_code |-> 1, reason |-> << 16, 17 >>],
           [type |-> "PING", data |-> << >>], [type |-> "PONG", data |-> << 7, 7 >>],
           [type |-> "STREAM_BLOCKED", stream_id |-> 8, offset |-> 300],
           [type |-> "STREAM_ID_BLOCKED", stream_id |-> 64],
           [type |-> "NEW_CONNECTION_ID", seq |-> 65535, conn_id |-> 77,
            stateless_reset_token |-> Token],
           [type |-> "STOP_SENDING", stream_id |-> 70, app_error_code |-> 65535],
           [type |-> "MAX_STREAM_ID", max_stream_id |-> 63],
           [type |-> "MAX_STREAM_DATA", stream_id |-> 64, max_stream_data |-> 16384],
           [type |-> "RST_STREAM", stream_id |-> 64, app_error_code |-> 3,
            final_offset |-> 63] }
    \cup { [type |-> "MAX_DATA", max_data |-> n] : n \in Edges }
    \cup { [type |-> "BLOCKED", offset |-> n] : n \in {0, 1} }

Headers ==
    { [long |-> TRUE, type |-> t, conn_id |-> 5, version |-> 8, pkt_num |-> n] :
        t \in DOMAIN LongTypes, n \in {0, 65536} }
    \cup { [long |-> FALSE, pnlen |-> k, omit |-> o, key_phase |-> kp, conn_id |-> c,
            pkt_num |-> n] :
             k \in 1 .. 3, o \in BOOLEAN, kp \in BOOLEAN, c \in {0, 9}, n \in {0, 255} }

\* Transport parameters: those in ks have a value, the others are absent.
ParamSet(exttype, ks) ==
    [k \in Params \cup {"version", "supported"} |->
       CASE k = "version"   -> IF exttype = NST THEN Uninit ELSE 8
         [] k = "supported" -> IF exttype = EE THEN << 8, 9 >> ELSE Uninit
         [] k = "stateless_reset_token"      -> IF exttype = CH THEN Uninit ELSE Token
         [] k = "initial_max_stream_id_bidi" -> IF k \notin ks THEN 0
                                                ELSE IF exttype = CH THEN 1 ELSE 4
         [] k = "initial_max_stream_id_uni"  -> IF k \notin ks THEN 0
                                                ELSE IF exttype = CH THEN 3 ELSE 2
         [] k = "max_packet_size"    -> IF k \in ks THEN 1200 ELSE MAX_PKT_SIZE
         [] k = "ack_delay_exponent" -> IF k \in ks THEN 20 ELSE DEFAULT_ACK_DELAY_EXPONENT
         [] k = "omit_connection_id" -> IF k \in ks THEN 1 ELSE 0
         [] k = "idle_timeout"       -> 30
         [] k \in Required           -> 65536
         [] OTHER                    -> IF k \in ks THEN 1073741824 ELSE 0]

Optional == Params \ (Required \cup {"stateless_reset_token"})

\* The combinations tried: none, one or two of the optional ones, and all.
ParamChoices == {Optional} \cup UNION { kSubset(n, Optional) : n \in 0 .. 2 }

\* Frames do not depend on the header, so one header is enough for them.
FrameHd == CHOOSE h \in Headers : h.long

NonPadding(s) == SelectSeq(s, LAMBDA f : f.type # "PADDING")

\* The hashes: pairs that collide in every table, and pairs that part when
\* the table is resized.
Fnv == CHOOSE f \in [Keys -> {0, 1, 4, 9, 16}] :
         \A h \in {0, 1, 4, 9, 16} : \E k \in Keys : f[k] = h

Init ==
    /\ which \in {"coding", "gaps", "queue", "map"}
    /\ phase = IF which = "coding" THEN "hd" ELSE "none"
    /\ hd \in IF which = "coding" THEN Headers ELSE {FrameHd}
    /\ ~ hd.long => (hd.omit <=> hd.conn_id = 0)
    /\ \E outlen \in IF which = "coding" THEN Buffers ELSE {Max(Buffers)} :
          ppe = ppe_init(outlen, Aead)
    /\ written = << >> /\ got = << >>
    /\ claimed = 0 /\ cut = 0
    /\ pkt = [len |-> 0]
    /\ over = FALSE
    /\ msg = [kind |-> "none"]
    /\ gap = gaptr_init(Infinity) /\ pushed = {}
    /\ IF which = "queue" THEN key \in { f \in [Items -> Expiries] :
                                           \A x, y \in Items : x < y => f[x] <= f[y] }
                          ELSE key = [x \in Items |-> 0]
    /\ pq = pq_init(Items) /\ queued = {}
    /\ map = map_init(TableLen) /\ stored = {}

EncodeHd ==
    LET r == ppe_encode_hd(ppe, hd)
    IN  /\ phase = "hd" /\ msg.kind = "none"
        /\ ppe' = r.ppe
        /\ phase' = IF r.rv < 0 THEN "failed" ELSE "write"
        /\ claimed' = r.ppe.hdlen
        /\ UNCHANGED << hd, written, pkt, cut, got, over, msg >>

\* A frame that does not fit leaves the packet as it is.
EncodeFrame(f) ==
    LET r == ppe_encode_frame(ppe, f)
    IN  /\ phase = "write" /\ hd = FrameHd
        /\ Len(written) < MaxFrames
        /\ r.rv = 0
        /\ ppe' = r.ppe
        /\ written' = Append(written, f)
        /\ claimed' = claimed + pkt_encode_frame(ppe_left(ppe), f).rv
        /\ UNCHANGED << phase, hd, pkt, cut, got, over, msg >>

Pad ==
    /\ phase = "write"
    /\ ppe_left(ppe) > 0
    /\ ppe' = ppe_padding(ppe)
    /\ written' = Append(written, [type |-> "PADDING", len |-> ppe_left(ppe)])
    /\ claimed' = claimed + ppe_left(ppe)
    /\ UNCHANGED << phase, hd, pkt, cut, got, over, msg >>

\* The packet is finished, and its reader finds all of it or n bytes less.
Final(n) ==
    LET p == ppe_final(ppe)
    IN  /\ phase = "write"
        /\ n <= Len(p.payload)
        /\ pkt' = [p EXCEPT !.payload = SubSeq(@, 1, Len(@) - n)]
        /\ cut' = n
        /\ phase' = "read"
        /\ UNCHANGED << hd, ppe, written, claimed, got, over, msg >>

DecodeFrame ==
    /\ phase = "read"
    /\ pkt.payload # << >>
    /\ LET r == pkt_decode_frame(pkt.payload)
       IN  /\ over' = r.over
           /\ IF r.rv < 0
              THEN phase' = "failed" /\ UNCHANGED << pkt, got >>
              ELSE /\ got' = Append(got, r.fr)
                   /\ pkt' = [pkt EXCEPT !.payload = SubSeq(@, r.rv + 1, Len(@))]
                   /\ UNCHANGED phase
    /\ UNCHANGED << hd, ppe, written, claimed, cut, msg >>

EndOfPacket ==
    /\ phase = "read"
    /\ pkt.payload = << >>
    /\ phase' = "done"
    /\ UNCHANGED << hd, ppe, written, claimed, pkt, cut, got, over, msg >>

\* The rest is tried once, beside the first header and buffer.
Aside == phase = "hd" /\ hd = FrameHd /\ ppe.end = Max(Buffers) /\ msg.kind = "none"

\* Transport parameters are written ...
SendParams(exttype, ks) ==
    LET params == ParamSet(exttype, ks)
        w      == encode_transport_params(ParamBuf, exttype, params)
    IN  /\ msg' = [kind |-> "sent", exttype |-> exttype, sent |-> params, w |-> w]
        /\ UNCHANGED pvars

\* ... and read, but for the last n bytes.
ReadParams(n) ==
    /\ msg' = [ kind |-> "params", cut |-> n, sent |-> msg.sent,
                claimed |-> msg.w.rv, len |-> Len(msg.w.out),
                got |-> decode_transport_params(msg.exttype,
                                                SubSeq(msg.w.out, 1, Len(msg.w.out) - n)) ]
    /\ UNCHANGED pvars

\* Server::send_version_negotiation draws the first byte and lists two
\* versions; the client reads the header and what follows the version field.
NegotiateVersion(random) ==
    LET sv == << 1, 8 >>
        w  == pkt_write_version_negotiation(100, random, 5, sv).out
    IN  /\ msg' = [ kind |-> "vn", random |-> random, sent |-> sv,
                    got |-> pkt_decode_version_negotiation(SubSeq(w, 14, Len(w))) ]
        /\ UNCHANGED pvars

\* A stateless reset with more random bytes than fit, or fewer.
ResetStateless(destlen, n) ==
    LET h == [long |-> FALSE, pnlen |-> 1, omit |-> FALSE, key_phase |-> FALSE,
              conn_id |-> 9, pkt_num |-> 3]
        w == pkt_write_stateless_reset(destlen, h, Token, [i \in 1 .. n |-> 0])
        r == pkt_decode_hd(w.out)
    IN  /\ msg' = [ kind |-> "reset", destlen |-> destlen, rv |-> w.rv,
                    len |-> IF w.rv < 0 THEN 0 ELSE Len(w.out),
                    got |-> IF w.rv < 0 THEN BAD
                            ELSE pkt_decode_stateless_reset(SubSeq(w.out, r.rv + 1, w.rv)) ]
        /\ UNCHANGED pvars

Code ==
    \/ Aside /\ \E exttype \in {CH, EE, NST}, ks \in ParamChoices : SendParams(exttype, ks)
    \/ msg.kind = "sent" /\ \E n \in 0 .. Len(msg.w.out) : ReadParams(n)
    \/ Aside /\ \E random \in 0 .. 127 : NegotiateVersion(random)
    \/ Aside /\ \E destlen \in 9 .. 32, n \in 0 .. 3 : ResetStateless(destlen, n)
    \/ EncodeHd
    \/ \E f \in Frames : EncodeFrame(f)
    \/ Pad
    \/ \E n \in 0 .. ppe.end : Final(n)
    \/ DecodeFrame
    \/ EndOfPacket

\* Data never reaches UINT64_MAX, so the last gap stays.
PushRange(offset, len) ==
    /\ which = "gaps"
    /\ offset + len < Infinity
    /\ gap' = gaptr_push(gap, offset, len)
    /\ pushed' = pushed \cup offset .. offset + len - 1
    /\ UNCHANGED << which, key, pq, queued, map, stored >>

PushItem(x) ==
    /\ which = "queue"
    /\ x \notin queued
    /\ pq' = pq_push(key, pq, x)
    /\ queued' = queued \cup {x}
    /\ UNCHANGED << which, gap, pushed, key, map, stored >>

Pop ==
    /\ which = "queue"
    /\ queued # {}
    /\ pq' = pq_pop(key, pq)
    /\ queued' = queued \ {pq_top(pq)}
    /\ UNCHANGED << which, gap, pushed, key, map, stored >>

RemoveItem(x) ==
    /\ which = "queue"
    /\ x \in queued
    /\ pq' = pq_remove(key, pq, x)
    /\ queued' = queued \ {x}
    /\ UNCHANGED << which, gap, pushed, key, map, stored >>

InsertKey(k) ==
    /\ which = "map"
    /\ map' = map_insert(Fnv, map, k).map
    /\ stored' = stored \cup {k}
    /\ UNCHANGED << which, gap, pushed, key, pq, queued >>

RemoveKey(k) ==
    /\ which = "map"
    /\ map' = map_remove(Fnv, map, k).map
    /\ stored' = stored \ {k}
    /\ UNCHANGED << which, gap, pushed, key, pq, queued >>

Use ==
    \/ \E offset, len \in 0 .. Infinity : PushRange(offset, len)
    \/ \E x \in Items : PushItem(x) \/ RemoveItem(x)
    \/ Pop
    \/ \E k \in Keys : InsertKey(k) \/ RemoveKey(k)

Next ==
    \/ Code /\ UNCHANGED cvars
    \/ Use /\ UNCHANGED << pvars, msg >>

Spec == Init /\ [][Next]_<< pvars, msg, cvars >>

-----------------------------------------------------------------------------

\* The reader gets back the header and, in order, the frames that were
\* written, all of them if the packet is whole.  What the encoders say they
\* wrote is what is in the buffer (the assertion at the end of each), and with
\* the tag, for which room is kept, the packet fits.
FramesRecovered ==
    /\ claimed = Len(ppe.buf)
    /\ phase \in {"read", "done"} =>
         /\ pkt.len <= ppe.end
         /\ pkt_decode_hd(pkt.header) = [rv |-> Len(pkt.header), hd |-> hd]
         /\ IsPrefix(NonPadding(got), NonPadding(written))
    /\ (phase = "done" /\ cut = 0) => NonPadding(got) = NonPadding(written)

\* No decoder looks beyond the end of the payload, and a payload that ends
\* within a frame is never taken for a complete one.
CutNoticed ==
    /\ ~ over
    /\ (phase = "done" /\ cut > 0) =>
         LET lost == SubSeq(NonPadding(written), Len(NonPadding(got)) + 1,
                            Len(NonPadding(written)))
             pads == SelectSeq(written, LAMBDA f : f.type = "PADDING")
             len(s) == FoldLeft(LAMBDA n, f : n + pkt_encode_frame(ppe.end, f).rv, 0, s)
         IN  /\ cut >= len(lost)
             /\ cut <= len(lost) + len(pads)
    /\ (phase = "failed" /\ got # << >>) => cut > 0

\* Transport parameters are read as they were written, a list that is cut
\* short is refused, and the buffer of the application is large enough.  A
\* parameter of Polygon's own that is zero is not sent, and its reader finds
\* whatever its structure held (the comment at examples/client.cc:1884 warns
\* of that).  A stateless reset that is written ends with the token, whatever
\* was left for random bytes; the versions offered are read in order.
MessagesRecovered ==
    /\ msg.kind = "params" =>
         /\ msg.claimed = msg.len
         /\ IF msg.cut > 0 THEN msg.got.rv < 0
            ELSE /\ msg.got.rv = 0
                 /\ \A k \in DOMAIN msg.sent :
                      msg.got.params[k] =
                        IF k \in Polygon /\ msg.sent[k] = 0 THEN Uninit ELSE msg.sent[k]
    /\ msg.kind = "reset" =>
         IF msg.rv < 0 THEN msg.destlen < 10 + TOKENLEN
         ELSE /\ msg.len = msg.rv /\ msg.len <= msg.destlen
              /\ msg.got = [rv |-> 0, token |-> Token]
    /\ msg.kind = "vn" => msg.got = msg.sent

\* The list holds exactly the offsets nobody has pushed, as the fewest ranges
\* that can, in increasing order (ngtcp2_gaptr_push, ngtcp2_rob_push).
GapsAreTheRest ==
    /\ UNION { gap[i].begin .. gap[i].end - 1 : i \in DOMAIN gap }
         = (0 .. Infinity - 1) \ pushed
    /\ \A i \in DOMAIN gap : gap[i].begin < gap[i].end
    /\ \A i, j \in DOMAIN gap : i < j => gap[i].end < gap[j].begin

\* The containers give back what they hold.  However items are pushed, popped
\* and removed from the middle, the heap holds the queued items once each,
\* every item knows its place (the assertion of ngtcp2_pq_remove), and none is
\* due before the top.  ngtcp2_map_find finds what was inserted and not
\* removed, across collisions and resizing, and the size that decides about
\* resizing is the number of keys.
HeldIsFound ==
    /\ Len(pq.q) = Cardinality(queued) /\ Range(pq.q) = queued
    /\ \A x \in queued : At(pq, pq.index[x]) = x
    /\ queued # {} => \A x \in queued : key[pq_top(pq)] <= key[x]
    /\ \A k \in Keys : map_find(Fnv, map, k) <=> k \in stored
    /\ map.size = Cardinality(stored)
=============================================================================
