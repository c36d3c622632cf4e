-------------------------------- MODULE Codec --------------------------------
(***************************************************************************)
(* Packets as bytes: lib/ngtcp2_conv.c (integers), lib/ngtcp2_pkt.c        *)
(* (headers, frames) and lib/ngtcp2_ppe.c (filling one packet).            *)
(*                                                                         *)
(* A decoder of the library first walks the frame to find its length       *)
(* "len", testing it against the payload before it touches what lies       *)
(* behind, and then reads the fields.  Here both walks are one: a Cursor   *)
(* has the next position p, the length asked for so far, whether it fits,  *)
(* the values read, and whether a byte outside the payload was touched.    *)
(* TLC's integers have 31 bits, so wider fields hold smaller numbers.      *)
(***************************************************************************)
EXTENDS Integers, Sequences, SequencesExt

NOBUF == [rv |-> -1]                  \* NGTCP2_ERR_NOBUF
BAD   == [rv |-> -2]                  \* ERR_FRAME_FORMAT, ERR_INVALID_ARGUMENT
                                      \* and ERR_UNKNOWN_PKT_TYPE

-----------------------------------------------------------------------------
\* lib/ngtcp2_conv.c

\* ngtcp2_put_uint16be and its kin: the low w bytes of n.
put_uint(w, n) ==
    [i \in 1 .. w |-> IF w - i > 3 THEN 0 ELSE (n \div 256 ^ (w - i)) % 256]

get_uint(bytes) == FoldLeft(LAMBDA n, b : 256 * n + b, 0, bytes)

get_varint_len(b) == << 1, 2, 4, 8 >>[b \div 64 + 1]

put_varint_len(n) ==
    IF n < 64 THEN 1 ELSE IF n < 16384 THEN 2 ELSE IF n < 1073741824 THEN 4 ELSE 8

\* The two highest bits of the first byte tell the length.
Tagged(bytes, tag) == [bytes EXCEPT ![1] = @ + tag]

put_varint(n) ==
    IF n < 64 THEN << n >>
    ELSE IF n < 16384 THEN Tagged(put_uint(2, n), 64)
    ELSE IF n < 1073741824 THEN Tagged(put_uint(4, n), 128)
    ELSE Tagged(put_uint(8, n), 192)

get_varint(bytes) == get_uint([bytes EXCEPT ![1] = @ % 64])

has_bit(b, bit) == (b \div bit) % 2 = 1

-----------------------------------------------------------------------------
\* Walking a payload.

\* Behind the type byte, with a frame of at least len bytes.
Cursor(pay, len) ==
    [pay |-> pay, p |-> 2, len |-> len, ok |-> Len(pay) >= len,
     over |-> FALSE, v |-> << >>]

Within(c, n) == c.p + n - 1 <= Len(c.pay)
Slice(c, n)  == SubSeq(c.pay, c.p, c.p + n - 1)

\* The frame has k bytes more than thought.
Need(c, k) == [c EXCEPT !.len = @ + k, !.ok = @ /\ Len(c.pay) >= c.len + k]

Take(c, n, val) == [c EXCEPT !.p = @ + n, !.v = Append(@, val)]

\* A variable-length integer, of which one byte is counted in len.
Var(c) ==
    IF ~ c.ok THEN c
    ELSE IF ~ Within(c, 1) THEN [c EXCEPT !.over = TRUE, !.ok = FALSE]
    ELSE LET n == get_varint_len(c.pay[c.p])
             d == Need(c, n - 1)
         IN  IF ~ d.ok THEN d
             ELSE IF ~ Within(d, n) THEN [d EXCEPT !.over = TRUE, !.ok = FALSE]
             ELSE Take(d, n, get_varint(Slice(d, n)))

\* n bytes that are counted in len, kept as they are or as a number.
Raw(c, n) ==
    IF ~ c.ok THEN c
    ELSE IF ~ Within(c, n) THEN [c EXCEPT !.over = TRUE, !.ok = FALSE]
    ELSE Take(c, n, Slice(c, n))

Uint(c, n) ==
    LET d == Raw(c, n)
    IN  IF d.ok THEN [d EXCEPT !.v[Len(d.v)] = get_uint(@)] ELSE d

\* Mutant of Block: the length read is not compared with the payload.
BlockUnchecked(c) ==
    IF c.ok THEN LET n == Last(c.v) IN Raw([c EXCEPT !.len = @ + n], n) ELSE c

\* n bytes whose number was just read and that are not counted yet.
Block(c) == IF c.ok THEN LET n == Last(c.v) IN Raw(Need(c, n), n) ELSE c

\* What the decoder returns: the bytes consumed and the frame.
Read(c, fr) ==
    IF c.ok THEN [rv |-> c.len, over |-> c.over, fr |-> fr]
            ELSE [rv |-> BAD.rv, over |-> c.over]

-----------------------------------------------------------------------------
\* Decoding frames.

decode_stream_frame(pay) ==
    LET type == pay[1]
        id   == Var(Cursor(pay, 2))
        off  == IF ~ has_bit(type, 4) THEN Take(id, 0, 0) ELSE Var(Need(id, 1))
        dat  == IF has_bit(type, 2) THEN Block(Var(Need(off, 1)))
                ELSE LET n == Len(pay) - off.p + 1
                     IN  Raw(Need(Take(off, 0, n), n), n)
    IN  Read(dat, [type |-> "STREAM", fin |-> has_bit(type, 1),
                   stream_id |-> dat.v[1], offset |-> dat.v[2], data |-> dat.v[4]])

\* Gap and length of each of the n blocks behind the first.
ack_blks(c, n) == FoldLeft(LAMBDA d, i : Var(Var(d)), c, [i \in 1 .. n |-> i])

MAX_ACK_BLKS == 255

decode_ack_frame(pay) ==
    LET hd   == Var(Var(Var(Cursor(pay, 5))))
        n    == hd.v[3]
        all  == ack_blks(Var(Need(hd, 2 * n)), n)
        kept == IF n < MAX_ACK_BLKS THEN n ELSE MAX_ACK_BLKS
    IN  IF ~ hd.ok THEN Read(hd, 0)
        ELSE Read(all, [type |-> "ACK", largest_ack |-> all.v[1],
                        ack_delay |-> all.v[2], first_ack_blklen |-> all.v[4],
                        blks |-> [i \in 1 .. kept |->
                                    [gap |-> all.v[3 + 2 * i], blklen |-> all.v[4 + 2 * i]]]])

\* All the zero bytes there are.
decode_padding_frame(pay) ==
    LET ends == { i \in 1 .. Len(pay) : pay[i] # 0 }
        len  == IF ends = {} THEN Len(pay)
                ELSE (CHOOSE i \in ends : \A j \in ends : i <= j) - 1
    IN  [rv |-> len, over |-> FALSE, fr |-> [type |-> "PADDING", len |-> len]]

decode_rst_stream_frame(pay) ==
    LET c == Var(Uint(Var(Cursor(pay, 5)), 2))
    IN  Read(c, [type |-> "RST_STREAM", stream_id |-> c.v[1],
                 app_error_code |-> c.v[2], final_offset |-> c.v[3]])

decode_connection_close_frame(pay) ==
    LET c == Block(Var(Uint(Cursor(pay, 4), 2)))
    IN  Read(c, [type |-> "CONNECTION_CLOSE", error_code |-> c.v[1], reason |-> c.v[3]])

decode_application_close_frame(pay) ==
    LET c == Block(Var(Uint(Cursor(pay, 4), 2)))
    IN  Read(c, [type |-> "APPLICATION_CLOSE", app_error_code |-> c.v[1],
                 reason |-> c.v[3]])

decode_max_data_frame(pay) ==
    LET c == Var(Cursor(pay, 2))
    IN  Read(c, [type |-> "MAX_DATA", max_data |-> c.v[1]])

decode_max_stream_data_frame(pay) ==
    LET c == Var(Var(Cursor(pay, 3)))
    IN  Read(c, [type |-> "MAX_STREAM_DATA", stream_id |-> c.v[1],
                 max_stream_data |-> c.v[2]])

decode_max_stream_id_frame(pay) ==
    LET c == Var(Cursor(pay, 2))
    IN  Read(c, [type |-> "MAX_STREAM_ID", max_stream_id |-> c.v[1]])

\* The length of a PING's or PONG's data is one plain byte.
decode_ping_frame(pay) ==
    LET c == Block(Uint(Cursor(pay, 2), 1))
    IN  Read(c, [type |-> "PING", data |-> c.v[2]])

decode_blocked_frame(pay) ==
    LET c == Var(Cursor(pay, 2))
    IN  Read(c, [type |-> "BLOCKED", offset |-> c.v[1]])

decode_stream_blocked_frame(pay) ==
    LET c == Var(Var(Cursor(pay, 3)))
    IN  Read(c, [type |-> "STREAM_BLOCKED", stream_id |-> c.v[1], offset |-> c.v[2]])

decode_stream_id_blocked_frame(pay) ==
    LET c == Var(Cursor(pay, 2))
    IN  Read(c, [type |-> "STREAM_ID_BLOCKED", stream_id |-> c.v[1]])

TOKENLEN == 16                        \* NGTCP2_STATELESS_RESET_TOKENLEN

\* The sequence number is kept in 16 bits.
decode_new_connection_id_frame(pay) ==
    LET c == Raw(Uint(Var(Cursor(pay, 26)), 8), TOKENLEN)
    IN  Read(c, [type |-> "NEW_CONNECTION_ID", seq |-> c.v[1] % 65536,
                 conn_id |-> c.v[2], stateless_reset_token |-> c.v[3]])

decode_stop_sending_frame(pay) ==
    LET c == Uint(Var(Cursor(pay, 4)), 2)
    IN  Read(c, [type |-> "STOP_SENDING", stream_id |-> c.v[1],
                 app_error_code |-> c.v[2]])

decode_pong_frame(pay) ==
    LET c == Block(Uint(Cursor(pay, 2), 1))
    IN  Read(c, [type |-> "PONG", data |-> c.v[2]])

\* A type with bit 4 is a STREAM frame and one with bits 1 to 3 an ACK frame,
\* whatever the other bits are.
pkt_decode_frame(pay) ==
    LET type == pay[1]
    IN  CASE has_bit(type, 16) -> decode_stream_frame(pay)
          [] ~ has_bit(type, 16) /\ (type \div 2) % 8 = 7 -> decode_ack_frame(pay)
          [] type = 0  -> decode_padding_frame(pay)
          [] type = 1  -> decode_rst_stream_frame(pay)
          [] type = 2  -> decode_connection_close_frame(pay)
          [] type = 3  -> decode_application_close_frame(pay)
          [] type = 4  -> decode_max_data_frame(pay)
          [] type = 5  -> decode_max_stream_data_frame(pay)
          [] type = 6  -> decode_max_stream_id_frame(pay)
          [] type = 7  -> decode_ping_frame(pay)
          [] type = 8  -> decode_blocked_frame(pay)
          [] type = 9  -> decode_stream_blocked_frame(pay)
          [] type = 10 -> decode_stream_id_blocked_frame(pay)
          [] type = 11 -> decode_new_connection_id_frame(pay)
          [] type = 12 -> decode_stop_sending_frame(pay)
          [] type = 13 -> decode_pong_frame(pay)
          [] OTHER     -> [rv |-> BAD.rv, over |-> FALSE]

-----------------------------------------------------------------------------
\* Encoding frames.  Each encoder computes the length it will need, compares
\* it with the buffer, writes, and asserts that it wrote that many bytes.

encode_stream_frame(f) ==
    LET off == f.offset # 0
    IN  [ len |-> 1 + (IF off THEN put_varint_len(f.offset) ELSE 0)
                    + put_varint_len(f.stream_id) + put_varint_len(Len(f.data))
                    + Len(f.data),
          out |-> << 16 + 2 + (IF f.fin THEN 1 ELSE 0) + (IF off THEN 4 ELSE 0) >>
                    \o put_varint(f.stream_id)
                    \o (IF off THEN put_varint(f.offset) ELSE << >>)
                    \o put_varint(Len(f.data)) \o f.data ]

\* Mutant of encode_ack_frame: a block's length goes out before its gap.
encode_ack_frameSwapped(f) ==
    LET n == Len(f.blks)
    IN  [ len |-> 1 + put_varint_len(f.largest_ack) + put_varint_len(f.ack_delay)
                    + put_varint_len(n) + put_varint_len(f.first_ack_blklen)
                    + FoldLeft(LAMBDA k, b : k + put_varint_len(b.gap)
                                               + put_varint_len(b.blklen), 0, f.blks),
          out |-> << 14 >> \o put_varint(f.largest_ack) \o put_varint(f.ack_delay)
                    \o put_varint(n) \o put_varint(f.first_ack_blklen)
                    \o FlattenSeq([i \in 1 .. n |-> put_varint(f.blks[i].blklen)
                                                      \o put_varint(f.blks[i].gap)]) ]

encode_ack_frame(f) ==
    LET n == Len(f.blks)
    IN  [ len |-> 1 + put_varint_len(f.largest_ack) + put_varint_len(f.ack_delay)
                    + put_varint_len(n) + put_varint_len(f.first_ack_blklen)
                    + FoldLeft(LAMBDA k, b : k + put_varint_len(b.gap)
                                               + put_varint_len(b.blklen), 0, f.blks),
          out |-> << 14 >> \o put_varint(f.largest_ack) \o put_varint(f.ack_delay)
                    \o put_varint(n) \o put_varint(f.first_ack_blklen)
                    \o FlattenSeq([i \in 1 .. n |-> put_varint(f.blks[i].gap)
                                                      \o put_varint(f.blks[i].blklen)]) ]

encode_padding_frame(f) == [len |-> f.len, out |-> [i \in 1 .. f.len |-> 0]]

encode_rst_stream_frame(f) ==
    [ len |-> 1 + put_varint_len(f.stream_id) + 2 + put_varint_len(f.final_offset),
      out |-> << 1 >> \o put_varint(f.stream_id) \o put_uint(2, f.app_error_code)
                \o put_varint(f.final_offset) ]

encode_connection_close_frame(f) ==
    [ len |-> 1 + 2 + put_varint_len(Len(f.reason)) + Len(f.reason),
      out |-> << 2 >> \o put_uint(2, f.error_code) \o put_varint(Len(f.reason))
                \o f.reason ]

encode_application_close_frame(f) ==
    [ len |-> 1 + 2 + put_varint_len(Len(f.reason)) + Len(f.reason),
      out |-> << 3 >> \o put_uint(2, f.app_error_code) \o put_varint(Len(f.reason))
                \o f.reason ]

encode_max_data_frame(f) ==
    [len |-> 1 + put_varint_len(f.max_data), out |-> << 4 >> \o put_varint(f.max_data)]

encode_max_stream_data_frame(f) ==
    [ len |-> 1 + put_varint_len(f.stream_id) + put_varint_len(f.max_stream_data),
      out |-> << 5 >> \o put_varint(f.stream_id) \o put_varint(f.max_stream_data) ]

encode_max_stream_id_frame(f) ==
    [ len |-> 1 + put_varint_len(f.max_stream_id),
      out |-> << 6 >> \o put_varint(f.max_stream_id) ]

encode_ping_frame(f) ==
    [len |-> 1 + 1 + Len(f.data), out |-> << 7, Len(f.data) % 256 >> \o f.data]

encode_blocked_frame(f) ==
    [len |-> 1 + put_varint_len(f.offset), out |-> << 8 >> \o put_varint(f.offset)]

encode_stream_blocked_frame(f) ==
    [ len |-> 1 + put_varint_len(f.stream_id) + put_varint_len(f.offset),
      out |-> << 9 >> \o put_varint(f.stream_id) \o put_varint(f.offset) ]

encode_stream_id_blocked_frame(f) ==
    [ len |-> 1 + put_varint_len(f.stream_id),
      out |-> << 10 >> \o put_varint(f.stream_id) ]

encode_new_connection_id_frame(f) ==
    [ len |-> 1 + put_varint_len(f.seq) + 8 + TOKENLEN,
      out |-> << 11 >> \o put_varint(f.seq) \o put_uint(8, f.conn_id)
                \o f.stateless_reset_token ]

encode_stop_sending_frame(f) ==
    [ len |-> 1 + put_varint_len(f.stream_id) + 2,
      out |-> << 12 >> \o put_varint(f.stream_id) \o put_uint(2, f.app_error_code) ]

encode_pong_frame(f) ==
    [len |-> 1 + 1 + Len(f.data), out |-> << 13, Len(f.data) % 256 >> \o f.data]

\* Every encoder's test of the buffer.
Written(outlen, e) == IF outlen < e.len THEN NOBUF ELSE [rv |-> e.len, out |-> e.out]

pkt_encode_frame(outlen, f) ==
    Written(outlen,
        CASE f.type = "STREAM"            -> encode_stream_frame(f)
          [] f.type = "ACK"               -> encode_ack_frame(f)
          [] f.type = "PADDING"           -> encode_padding_frame(f)
          [] f.type = "RST_STREAM"        -> encode_rst_stream_frame(f)
          [] f.type = "CONNECTION_CLOSE"  -> encode_connection_close_frame(f)
          [] f.type = "APPLICATION_CLOSE" -> encode_application_close_frame(f)
          [] f.type = "MAX_DATA"          -> encode_max_data_frame(f)
          [] f.type = "MAX_STREAM_DATA"   -> encode_max_stream_data_frame(f)
          [] f.type = "MAX_STREAM_ID"     -> encode_max_stream_id_frame(f)
          [] f.type = "PING"              -> encode_ping_frame(f)
          [] f.type = "BLOCKED"           -> encode_blocked_frame(f)
          [] f.type = "STREAM_BLOCKED"    -> encode_stream_blocked_frame(f)
          [] f.type = "STREAM_ID_BLOCKED" -> encode_stream_id_blocked_frame(f)
          [] f.type = "NEW_CONNECTION_ID" -> encode_new_connection_id_frame(f)
          [] f.type = "STOP_SENDING"      -> encode_stop_sending_frame(f)
          [] f.type = "PONG"              -> encode_pong_frame(f))

-----------------------------------------------------------------------------
\* Headers.  A long header has type, connection ID, version and the low 32
\* bits of the packet number; a short one may leave out the connection ID
\* and has 8, 16 or 32 bits of the packet number.

LONG_HEADERLEN == 17
LongTypes == [INITIAL |-> 127, RETRY |-> 126, HANDSHAKE |-> 125, ZERO_RTT |-> 124]
PnBytes   == << 1, 2, 4 >>            \* of NGTCP2_PKT_01, _02 and _03
PnType(b) == 32 - b                   \* 0x1f, 0x1e and 0x1d

encode_hd_long(outlen, hd) ==
    Written(outlen, [ len |-> LONG_HEADERLEN,
                      out |-> << 128 + LongTypes[hd.type] >> \o put_uint(8, hd.conn_id)
                                \o put_uint(4, hd.version) \o put_uint(4, hd.pkt_num) ])

encode_hd_short(outlen, hd) ==
    LET n == PnBytes[hd.pnlen]
    IN  Written(outlen,
          [ len |-> 1 + (IF hd.omit THEN 0 ELSE 8) + n,
            out |-> << PnType(hd.pnlen) + (IF hd.omit THEN 64 ELSE 0)
                         + (IF hd.key_phase THEN 32 ELSE 0) >>
                      \o (IF hd.omit THEN << >> ELSE put_uint(8, hd.conn_id))
                      \o put_uint(n, hd.pkt_num) ])

\* A long header of no known type with version 0 is Version Negotiation.
decode_hd_long(pkt) ==
    IF Len(pkt) < LONG_HEADERLEN THEN BAD
    ELSE LET types   == { t \in DOMAIN LongTypes : LongTypes[t] = pkt[1] - 128 }
             version == get_uint(SubSeq(pkt, 10, 13))
         IN  IF types = {} /\ version # 0 THEN BAD
             ELSE [ rv |-> LONG_HEADERLEN,
                    hd |-> [long |-> TRUE,
                            type |-> IF types = {} THEN "VERSION_NEGOTIATION"
                                     ELSE CHOOSE t \in types : TRUE,
                            conn_id |-> get_uint(SubSeq(pkt, 2, 9)),
                            version |-> version,
                            pkt_num |-> get_uint(SubSeq(pkt, 14, 17))] ]

decode_hd_short(pkt) ==
    LET omit == has_bit(pkt[1], 64)
        b    == { k \in 1 .. 3 : PnType(k) = pkt[1] % 32 }
        k    == CHOOSE i \in b : TRUE
        idl  == IF omit THEN 0 ELSE 8
        len  == 1 + idl + PnBytes[k]
    IN  IF b = {} THEN BAD
        ELSE IF Len(pkt) < len THEN BAD
        ELSE [ rv |-> len,
               hd |-> [long |-> FALSE, pnlen |-> k, omit |-> omit,
                       key_phase |-> has_bit(pkt[1], 32),
                       conn_id |-> get_uint(SubSeq(pkt, 2, 1 + idl)),
                       pkt_num |-> get_uint(SubSeq(pkt, 2 + idl, len))] ]

pkt_decode_hd(pkt) ==
    IF pkt = << >> THEN BAD
    ELSE IF has_bit(pkt[1], 128) THEN decode_hd_long(pkt) ELSE decode_hd_short(pkt)

\* The list of supported versions takes the place of the packet number.
pkt_write_version_negotiation(destlen, random, conn_id, sv) ==
    Written(destlen, [ len |-> 1 + 8 + 4 + 4 * Len(sv),
                       out |-> << 128 + random >> \o put_uint(8, conn_id) \o put_uint(4, 0)
                                 \o FlattenSeq([i \in DOMAIN sv |-> put_uint(4, sv[i])]) ])

\* Called with what follows the version field.
pkt_decode_version_negotiation(pay) ==
    [i \in 1 .. Len(pay) \div 4 |-> get_uint(SubSeq(pay, 4 * i - 3, 4 * i))]

\* A stateless reset looks like a short packet with random bytes and ends
\* with the token; randomness is cut to what fits.
pkt_write_stateless_reset(destlen, hd, token, rand) ==
    LET h    == encode_hd_short(destlen, hd)
        left == destlen - h.rv
    IN  IF h.rv < 0 THEN NOBUF
        ELSE IF left < TOKENLEN THEN NOBUF
        ELSE LET n == IF left - TOKENLEN < Len(rand) THEN left - TOKENLEN ELSE Len(rand)
             IN  [rv |-> h.rv + n + TOKENLEN, out |-> h.out \o SubSeq(rand, 1, n) \o token]

\* The token found in what follows the header.
pkt_decode_stateless_reset(pay) ==
    IF Len(pay) < TOKENLEN THEN BAD
    ELSE [rv |-> 0, token |-> SubSeq(pay, Len(pay) - TOKENLEN + 1, Len(pay))]

-----------------------------------------------------------------------------
\* lib/ngtcp2_ppe.c: filling a packet of outlen bytes, of which the AEAD
\* needs some for its tag.

ppe_init(outlen, aead_overhead) ==
    [buf |-> << >>, end |-> outlen, hdlen |-> 0, aead |-> aead_overhead]

buf_left(ppe) == ppe.end - Len(ppe.buf)

ppe_left(ppe) == IF buf_left(ppe) < ppe.aead THEN 0 ELSE buf_left(ppe) - ppe.aead

\* The packet with something appended, or the error that leaves it as it is.
ppe_append(ppe, w) ==
    IF w.rv < 0 THEN [rv |-> w.rv, ppe |-> ppe]
    ELSE [rv |-> 0, ppe |-> [ppe EXCEPT !.buf = @ \o w.out]]

ppe_encode_hd(ppe, hd) ==
    IF buf_left(ppe) < ppe.aead THEN [rv |-> NOBUF.rv, ppe |-> ppe]
    ELSE LET room == buf_left(ppe) - ppe.aead
             w    == IF hd.long THEN encode_hd_long(room, hd) ELSE encode_hd_short(room, hd)
             r    == ppe_append(ppe, w)
         IN  IF w.rv < 0 THEN r ELSE [r EXCEPT !.ppe.hdlen = w.rv]

ppe_encode_frame(ppe, fr) ==
    IF buf_left(ppe) < ppe.aead THEN [rv |-> NOBUF.rv, ppe |-> ppe]
    ELSE ppe_append(ppe, pkt_encode_frame(buf_left(ppe) - ppe.aead, fr))

ppe_padding(ppe) ==
    [ppe EXCEPT !.buf = @ \o [i \in 1 .. buf_left(ppe) - ppe.aead |-> 0]]

\* Encryption keeps the header and lengthens the payload by the tag.
ppe_final(ppe) ==
    [ len     |-> Len(ppe.buf) + ppe.aead,
      header  |-> SubSeq(ppe.buf, 1, ppe.hdlen),
      payload |-> SubSeq(ppe.buf, ppe.hdlen + 1, Len(ppe.buf)) ]
=============================================================================
