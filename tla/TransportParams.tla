--------------------------- MODULE TransportParams ---------------------------
(***************************************************************************)
(* The QUIC transport parameters as bytes: lib/ngtcp2_crypto.c.  To the    *)
(* standard ones Polygon adds the address of the server a client is to     *)
(* migrate to, the client's demands and its identification.                *)
(***************************************************************************)
EXTENDS Codec

CH  == "CLIENT_HELLO"
EE  == "ENCRYPTED_EXTENSIONS"
NST == "NEW_SESSION_TICKET"

MAX_PKT_SIZE == 65527
DEFAULT_ACK_DELAY_EXPONENT == 3

\* Type and size of each parameter's value (ngtcp2_transport_param_id).
ParamId ==
    [ initial_max_stream_data    |-> [id |-> 0, size |-> 4],
      initial_max_data           |-> [id |-> 1, size |-> 4],
      initial_max_stream_id_bidi |-> [id |-> 2, size |-> 4],
      idle_timeout               |-> [id |-> 3, size |-> 2],
      omit_connection_id         |-> [id |-> 4, size |-> 0],
      max_packet_size            |-> [id |-> 5, size |-> 2],
      stateless_reset_token      |-> [id |-> 6, size |-> 16],
      ack_delay_exponent         |-> [id |-> 7, size |-> 1],
      initial_max_stream_id_uni  |-> [id |-> 8, size |-> 4],
      server_unicast_ip          |-> [id |-> 9, size |-> 4],
      server_unicast_ttl         |-> [id |-> 10, size |-> 4],
      test_metadata              |-> [id |-> 11, size |-> 4],
      cpu_sensitive              |-> [id |-> 12, size |-> 4],
      throughput_sensitive       |-> [id |-> 13, size |-> 4],
      rtt_sensitive              |-> [id |-> 14, size |-> 4],
      client_ip                  |-> [id |-> 15, size |-> 8],
      client_process             |-> [id |-> 16, size |-> 8],
      time_stamp                 |-> [id |-> 17, size |-> 8] ]

Params   == DOMAIN ParamId
Required == {"initial_max_stream_data", "initial_max_data", "idle_timeout"}

\* Polygon's own, which are sent only when they are not zero.
Polygon == {"server_unicast_ip", "server_unicast_ttl", "test_metadata", "cpu_sensitive",
            "throughput_sensitive", "rtt_sensitive", "client_ip", "client_process",
            "time_stamp"}

-----------------------------------------------------------------------------
\* ngtcp2_encode_transport_params

\* The parameters that are written.
Sent(exttype, params) ==
    Required
      \cup { k \in {"stateless_reset_token"} : exttype # CH }
      \cup { k \in Polygon \cup {"initial_max_stream_id_bidi", "initial_max_stream_id_uni",
                                 "omit_connection_id"} : params[k] # 0 }
      \cup { k \in {"max_packet_size"} : params[k] # MAX_PKT_SIZE }
      \cup { k \in {"ack_delay_exponent"} : params[k] # DEFAULT_ACK_DELAY_EXPONENT }

\* The order they are written in.
WriteOrder ==
    << "initial_max_stream_data", "initial_max_data", "idle_timeout",
       "stateless_reset_token", "initial_max_stream_id_bidi",
       "initial_max_stream_id_uni", "omit_connection_id", "max_packet_size",
       "server_unicast_ip", "server_unicast_ttl", "test_metadata", "cpu_sensitive",
       "throughput_sensitive", "rtt_sensitive", "client_ip", "client_process",
       "time_stamp", "ack_delay_exponent" >>

\* The bytes each adds to the length computed beforehand.
ParamLen(k) ==
    CASE k = "idle_timeout" \/ k = "max_packet_size"     -> 6
      [] k = "stateless_reset_token"                     -> 20
      [] k = "omit_connection_id"                        -> 4
      [] k = "ack_delay_exponent"                        -> 5
      [] k \in {"client_ip", "client_process", "time_stamp"} -> 12
      [] OTHER                                           -> 8

\* The versions before the list.
Versions(exttype, params) ==
    CASE exttype = CH -> put_uint(4, params.version)
      [] exttype = EE -> put_uint(4, params.version) \o << 4 * Len(params.supported) >>
                           \o FlattenSeq([i \in DOMAIN params.supported |->
                                            put_uint(4, params.supported[i])])
      [] OTHER        -> << >>

ParamBytes(k, params) ==
    put_uint(2, ParamId[k].id) \o put_uint(2, ParamId[k].size)
      \o CASE k = "stateless_reset_token" -> params[k]
           [] k = "omit_connection_id"    -> << >>
           [] OTHER                       -> put_uint(ParamId[k].size, params[k])

encode_transport_params(destlen, exttype, params) ==
    LET list == SelectSeq(WriteOrder, LAMBDA k : k \in Sent(exttype, params))
        vers == Versions(exttype, params)
        body == FoldLeft(LAMBDA n, k : n + ParamLen(k), 0, list)
    IN  Written(destlen,
          [ len |-> 2 + Len(vers) + body,
            out |-> vers \o put_uint(2, body)
                      \o FlattenSeq([i \in DOMAIN list |-> ParamBytes(list[i], params)]) ])

-----------------------------------------------------------------------------
\* ngtcp2_decode_transport_params

\* What an uninitialised field of the caller's structure holds.
Uninit == -1
NoParams == [k \in Params \cup {"version", "supported"} |-> Uninit]

valid_stream_id_bidi(n, exttype) == n % 4 = (IF exttype = CH THEN 1 ELSE 0)
valid_stream_id_uni(n, exttype)  == n % 4 = (IF exttype = CH THEN 3 ELSE 2)

Fail(d) == [d EXCEPT !.ok = FALSE]
End(d)  == Len(d.data) - d.p + 1      \* bytes left

\* The versions; a list of versions must be there entirely.
decode_versions(exttype, data) ==
    LET d == [data |-> data, p |-> 1, ok |-> TRUE, seen |-> {}, params |-> NoParams]
        n == data[5]
    IN  CASE exttype = CH ->
               IF Len(data) < 4 THEN Fail(d)
               ELSE [d EXCEPT !.p = 5, !.params.version = get_uint(SubSeq(data, 1, 4))]
          [] exttype = EE ->
               IF Len(data) < 5 THEN Fail(d)
               ELSE IF Len(data) - 5 < n \/ n % 4 # 0 THEN Fail(d)
               ELSE [d EXCEPT !.p = 6 + n,
                       !.params.version = get_uint(SubSeq(data, 1, 4)),
                       !.params.supported =
                          pkt_decode_version_negotiation(SubSeq(data, 6, 5 + n))]
          [] OTHER -> d

\* Mutant of decode_length: the list may be shorter than it says.
decode_lengthAny(d) ==
    IF ~ d.ok THEN d
    ELSE IF End(d) < 2 THEN Fail(d)
    ELSE [d EXCEPT !.p = @ + 2]

\* The length of the list, which must be all the rest.
decode_length(d) ==
    IF ~ d.ok THEN d
    ELSE IF End(d) < 2 THEN Fail(d)
    ELSE IF get_uint(SubSeq(d.data, d.p, d.p + 1)) # End(d) - 2 THEN Fail(d)
    ELSE [d EXCEPT !.p = @ + 2]

\* What is tested of a value beyond its length.
ValidValue(exttype, k, val) ==
    CASE k = "initial_max_stream_id_bidi" -> valid_stream_id_bidi(val, exttype)
      [] k = "initial_max_stream_id_uni"  -> valid_stream_id_uni(val, exttype)
      [] k = "ack_delay_exponent"         -> val <= 20
      [] OTHER                            -> TRUE

\* One parameter.  An unknown one is skipped.
decode_param(exttype, d) ==
    LET type == get_uint(SubSeq(d.data, d.p, d.p + 1))
        len  == get_uint(SubSeq(d.data, d.p + 2, d.p + 3))
        ks   == { k \in Params : ParamId[k].id = type }
        k    == CHOOSE x \in ks : TRUE
        raw  == SubSeq(d.data, d.p + 4, d.p + 3 + len)
        val  == CASE k = "stateless_reset_token" -> raw
                  [] k = "omit_connection_id"    -> 1
                  [] OTHER                       -> get_uint(raw)
    IN  IF ks = {} THEN IF End(d) - 4 < len THEN Fail(d) ELSE [d EXCEPT !.p = @ + 4 + len]
        ELSE IF k = "stateless_reset_token" /\ exttype = CH THEN Fail(d)
        ELSE IF len # ParamId[k].size \/ End(d) - 4 < len THEN Fail(d)
        ELSE IF ~ ValidValue(exttype, k, val) THEN Fail(d)
        ELSE [d EXCEPT !.p = @ + 4 + len, !.seen = @ \cup {k}, !.params[k] = val]

\* The loop ends when less than a type and a length is left.
decode_list(exttype, d) ==
    FoldLeft(LAMBDA e, i : IF e.ok /\ End(e) >= 4 THEN decode_param(exttype, e) ELSE e,
             d, [i \in 1 .. Len(d.data) \div 4 |-> i])

\* Nothing may be left over and nothing required may be missing.  Absent
\* standard parameters get their defaults, Polygon's keep what was there.
decode_transport_params(exttype, data) ==
    LET d    == decode_list(exttype, decode_length(decode_versions(exttype, data)))
        must == Required \cup { k \in {"stateless_reset_token"} : exttype # CH }
        zero == {"initial_max_stream_id_bidi", "initial_max_stream_id_uni",
                 "omit_connection_id"}
    IN  IF ~ d.ok THEN BAD
        ELSE IF End(d) # 0 THEN BAD
        ELSE IF ~ (must \subseteq d.seen) THEN BAD
        ELSE [ rv |-> 0,
               params |-> [k \in DOMAIN d.params |->
                  IF k \in d.seen THEN d.params[k]
                  ELSE IF k \in zero THEN 0
                  ELSE IF k = "max_packet_size" THEN MAX_PKT_SIZE
                  ELSE IF k = "ack_delay_exponent" THEN DEFAULT_ACK_DELAY_EXPONENT
                  ELSE d.params[k]] ]
=============================================================================
