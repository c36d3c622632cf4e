------------------------------- MODULE Handshake -------------------------------
(***************************************************************************)
(* The life of a connection: the state machine of lib/ngtcp2_conn.c, and   *)
(* what examples/client.cc and examples/server.cc do around it, from the   *)
(* first Initial packet to the end of the closing period, over a network   *)
(* that loses, delays and reorders.                                        *)
(*                                                                         *)
(* Endpoint 0 is the client; 1..MaxConn are the handlers the server makes, *)
(* one after the other, for the connection ids it draws.  TLS is external: *)
(* the client's stream 0 is its ClientHello and then its Finished, units 1 *)
(* and 2; the server's is a flight of two units, the first with the        *)
(* transport parameters.  Either side may fail instead, and then its last  *)
(* unit is an alert.  Unit 3 is the application's data, the request or the *)
(* response.  An ACK frame travels in a packet of its own and lists units. *)
(*                                                                         *)
(* Packet numbers are left out (module Acks): a copy of a packet that is   *)
(* sent again is the packet itself, and net holds all that was ever sent.  *)
(* Sockets take every packet; callbacks do not run out of memory.          *)
(***************************************************************************)
EXTENDS Integers, Sequences, FiniteSets, SequencesExt

CONSTANTS
    Scenarios,                        \* what TLS and the network decide
    MaxConn,                          \* bound: handlers the server makes
    NGTCP2_MAX_NUM_BUFFED_RX_PPKTS    \* 16; less reaches the limit

(* early: the client resumes a session and sends 0-RTT; take_early: the    *)
(* server takes it; known: the server knows the client's version;          *)
(* connects: the client can connect to the server's own address; fails:    *)
(* the sides whose TLS fails.  Two bounds: conns, the handlers the server  *)
(* makes, and acks, the number of ACK packets.                             *)
ASSUME HandshakeAssumption ==
    /\ MaxConn \in Nat /\ NGTCP2_MAX_NUM_BUFFED_RX_PPKTS \in Nat
    /\ Scenarios \subseteq [early : BOOLEAN, take_early : BOOLEAN,
                            known : BOOLEAN, connects : BOOLEAN,
                            fails : SUBSET {"client", "server"},
                            conns : 1..MaxConn, acks : Nat]

Handlers == 1..MaxConn
client   == 0

VARIABLES
    ep,         \* the connection of each endpoint and its owner's fields
    handlers,   \* handlers_ of the server
    ctos,       \* ctos_: the handler of the client's own id, 0 if none
    net,        \* packets sent
    serving,    \* whether the server has not been interrupted
    env,        \* the scenario
    trouble     \* a timer, a deadline, TLS or the user has ended something

vars == <<ep, handlers, ctos, net, serving, env, trouble>>

---------------------------------------------------------------------------
(* Connections and packets.                                                *)

conn_new(e) ==
    [server |-> e # client,
     state |-> IF e = client THEN "CLIENT_INITIAL" ELSE "SERVER_INITIAL",
     conn_id |-> e,
     completed |-> FALSE, negotiated |-> FALSE, params |-> FALSE,
     recv_protected |-> FALSE, rejected |-> FALSE,
     rx |-> 0, rob |-> {},                      \* stream 0, incoming
     out |-> 0, alert |-> FALSE, tx |-> 0,      \* stream 0, outgoing
     tx_ckm |-> FALSE, early_ckm |-> FALSE,
     rtb |-> {}, early_rtb |-> {}, got |-> {}, active_ack |-> FALSE,
     buffed_rx_ppkts |-> <<>>,
     app |-> "none",                            \* the application's unit
     from |-> {},                               \* history: senders of rx
     draining |-> FALSE, timer |-> TRUE,        \* Handler, Client
     late_bound |-> FALSE, migrated |-> FALSE, gone |-> FALSE]

Pkt(c, type, unit, ack, cc) ==
    [to    |-> IF c.server THEN "client" ELSE "server",
     type  |-> type,
     cid   |-> IF type \in {"INITIAL", "0RTT"} THEN client ELSE c.conn_id,
     unit  |-> unit,
     alert |-> c.alert /\ unit = c.out /\ unit # 0 /\ type # "SHORT",
     ack   |-> ack, cc |-> cc]

Failed(c) == c.state \in {"CLIENT_TLS_HANDSHAKE_FAILED",
                          "SERVER_TLS_HANDSHAKE_FAILED"}

(* A stream 0 unit; in the failed states CONNECTION_CLOSE goes with it.    *)
HandshakePkt(c, u) ==
    Pkt(c, IF ~c.server /\ u = 1 THEN "INITIAL" ELSE "HANDSHAKE", u, {},
        c.alert /\ u = c.out)

---------------------------------------------------------------------------
(* Writing: ngtcp2_conn_write_pkt until it has nothing left, and then the  *)
(* application's streams.  Each operator gives the connection afterwards,  *)
(* the packets and whether there was an error.                             *)

Result(c, out, err) == [conn |-> c, out |-> out, err |-> err]

(* A plausible slip: a packet of the handshake that is due is let go once  *)
(* the handshake is complete here, and not only when the peer has shown    *)
(* that it is there too.                                                   *)
conn_retransmit_completed(c, due) ==
    LET hs   == due \cap {1, 2}
        gone == c.completed \/ c.recv_protected
    IN  Result([c EXCEPT !.rtb = IF gone THEN @ \ hs ELSE @],
               (IF gone THEN {} ELSE {HandshakePkt(c, u) : u \in hs})
                 \cup {Pkt(c, "SHORT", u, {}, FALSE) : u \in due \cap {3}},
               FALSE)

(* The entries of due have expired.  Those of the handshake are dropped    *)
(* once a protected packet has been received.                              *)
conn_retransmit(c, due) ==
    LET hs   == due \cap {1, 2}
        gone == c.recv_protected
    IN  Result([c EXCEPT !.rtb = IF gone THEN @ \ hs ELSE @],
               (IF gone THEN {} ELSE {HandshakePkt(c, u) : u \in hs})
                 \cup {Pkt(c, "SHORT", u, {}, FALSE) : u \in due \cap {3}},
               FALSE)

(* With a session to resume: the early key and a stream for the request.   *)
handle_early_data(c) ==
    IF env.early THEN [c EXCEPT !.early_ckm = TRUE, !.app = "queued"] ELSE c

(* conn_write_client_initial: TLS makes the ClientHello.                   *)
conn_write_client_initial(c) ==
    LET c1 == [handle_early_data(c) EXCEPT
                 !.out = 1, !.tx = 1, !.rtb = @ \cup {1},
                 !.state = "CLIENT_WAIT_HANDSHAKE"]
    IN  Result(c1, {HandshakePkt(c1, 1)}, FALSE)

(* conn_write_client_handshake and conn_write_server_handshake: every unit *)
(* that TLS has made; a server with nothing to answer gives up, and so     *)
(* does either side after its alert.                                       *)
conn_write_handshake(c) ==
    LET units == (c.tx + 1)..c.out
        c1    == [c EXCEPT !.tx = c.out, !.rtb = @ \cup units,
                           !.state = IF @ = "SERVER_INITIAL"
                                     THEN "SERVER_WAIT_HANDSHAKE" ELSE @]
    IN  IF c.state = "SERVER_INITIAL" /\ units = {}
        THEN Result(c, {}, TRUE)
        ELSE Result(c1, {HandshakePkt(c, u) : u \in units}, Failed(c))

(* The client's handshake is over; entries of 0-RTT packets join the       *)
(* others, and are due at once if the server has refused them.             *)
conn_write_almost_finished(c) ==
    LET r  == conn_write_handshake(c)
        c1 == [r.conn EXCEPT !.state = "POST_HANDSHAKE",
                             !.rtb = @ \cup c.early_rtb, !.early_rtb = {}]
    IN  Result(c1, r.out \cup (IF c.rejected
                               THEN {Pkt(c, "SHORT", u, {}, FALSE) :
                                       u \in c.early_rtb}
                               ELSE {}),
               ~c.params)

(* A plausible slip: the ACK runs from the first packet to the newest.     *)
WriteAckUpTo(c) ==
    LET post == c.state = "POST_HANDSHAKE"
        got  == {u \in 1..3 : \E v \in c.got : u <= v}
        fr   == IF post THEN got ELSE got \cap {1, 2}
    IN  IF ~c.active_ack \/ fr = {} THEN Result(c, {}, FALSE)
        ELSE Result([c EXCEPT !.active_ack = FALSE],
                    {Pkt(c, IF post THEN "SHORT" ELSE "HANDSHAKE", 0, fr,
                         FALSE)}, FALSE)

(* conn_write_handshake_ack_pkt lists unprotected packets only.            *)
WriteAck(c) ==
    LET post == c.state = "POST_HANDSHAKE"
        fr   == IF post THEN c.got ELSE c.got \cap {1, 2}
    IN  IF ~c.active_ack \/ fr = {} THEN Result(c, {}, FALSE)
        ELSE Result([c EXCEPT !.active_ack = FALSE],
                    {Pkt(c, IF post THEN "SHORT" ELSE "HANDSHAKE", 0, fr,
                         FALSE)}, FALSE)

(* The ACK that is due joins what was written, r, in a packet of the kind  *)
(* that the state before allows.                                           *)
write_ack_after(state, r, ack) ==
    LET a == WriteAck([r.conn EXCEPT !.state = state])
    IN  IF ~ack \/ r.err \/ state \in {"CLOSING", "DRAINING"} THEN r
        ELSE Result([a.conn EXCEPT !.state = r.conn.state], r.out \cup a.out,
                    FALSE)

conn_write_pkt(c, ack) ==
    write_ack_after(c.state,
        CASE c.state = "CLIENT_INITIAL" -> conn_write_client_initial(c)
          [] c.state = "CLIENT_HANDSHAKE_ALMOST_FINISHED" ->
               conn_write_almost_finished(c)
          [] c.state \in {"POST_HANDSHAKE", "CLOSING", "DRAINING"} ->
               Result(c, {}, FALSE)
          [] OTHER -> conn_write_handshake(c),
        ack)

(* The queued unit, protected with the key at hand.                        *)
conn_write_stream(c) ==
    IF c.app # "queued" THEN Result(c, {}, FALSE)
    ELSE IF c.tx_ckm
    THEN Result([c EXCEPT !.app = "sent", !.rtb = @ \cup {3}],
                {Pkt(c, "SHORT", 3, {}, FALSE)}, FALSE)
    ELSE IF c.early_ckm /\ ~c.server /\ ~c.rejected
    THEN Result([c EXCEPT !.app = "sent", !.early_rtb = @ \cup {3}],
                {Pkt(c, "0RTT", 3, {}, FALSE)}, FALSE)
    ELSE Result(c, {}, FALSE)

(* Call q was made after call r: the packets of both are sent.             *)
After(r, q) == Result(q.conn, r.out \cup q.out, q.err)

(* The rest of on_write, when conn_retransmit has returned r.              *)
write_pkt_after(r, ack) == After(r, conn_write_pkt(r.conn, ack))

write_stream_after(r) ==
    IF r.err THEN r ELSE After(r, conn_write_stream(r.conn))

(* Handler::on_write and Client::on_write: expired is what has expired;    *)
(* dead means that it is one packet, whose deadline has passed as well.    *)
on_write(c, expired, dead, ack) ==
    IF c.server /\ c.state = "CLOSING" THEN Result(c, {}, FALSE)
    ELSE IF dead THEN Result([c EXCEPT !.rtb = @ \ expired], {}, TRUE)
    ELSE write_stream_after(write_pkt_after(conn_retransmit(c, expired), ack))

(* ngtcp2_conn_write_connection_close: only an established connection can  *)
(* close; otherwise handle_error fails, and the handler is removed.        *)
handle_error(c) ==
    IF c.state \in {"POST_HANDSHAKE", "CLOSING"}
    THEN Result([c EXCEPT !.state = "CLOSING"],
                {Pkt(c, "SHORT", 0, {}, TRUE)}, FALSE)
    ELSE Result(c, {}, TRUE)

---------------------------------------------------------------------------
(* Receiving.  ack says whether an ACK is due.                             *)

(* Client::OnMigration, once, when the parameters come.                    *)
OnMigration(c) ==
    IF c.late_bound THEN c
    ELSE [c EXCEPT !.late_bound = TRUE, !.migrated = env.connects]

(* tls_handshake of the client, with the server's units up to rx.          *)
client_tls_handshake(c) ==
    LET c1 == [OnMigration(c) EXCEPT
                 !.params = TRUE,
                 !.rejected = env.early /\ ~env.take_early]
    IN  IF c.rx = 1 THEN Result(c1, {}, FALSE)
        ELSE IF "client" \notin env.fails
        THEN Result([c1 EXCEPT !.out = 2, !.completed = TRUE], {}, FALSE)
        ELSE Result([c1 EXCEPT !.out = 2, !.alert = TRUE], {}, TRUE)

(* tls_handshake of the server, which has its keys after the ClientHello.  *)
server_tls_handshake(c) ==
    IF c.rx = 2 THEN Result([c EXCEPT !.completed = TRUE], {}, FALSE)
    ELSE IF "server" \notin env.fails
    THEN Result([c EXCEPT !.out = 2, !.tx_ckm = TRUE, !.params = TRUE,
                          !.early_ckm = env.early /\ env.take_early], {}, FALSE)
    ELSE Result([c EXCEPT !.out = 1, !.alert = TRUE], {}, TRUE)

(* The in-order units go to TLS; an alert makes it fail.                   *)
recv_stream0(c, p) ==
    LET rob == c.rob \cup {p.unit}
        rx  == IF c.rx + 1 \notin rob THEN c.rx
               ELSE IF c.rx + 2 \in rob THEN c.rx + 2 ELSE c.rx + 1
        c1  == [c EXCEPT !.rx = rx, !.rob = {u \in rob : u > rx},
                         !.from = @ \cup {p.cid}]
    IN  IF p.unit <= c.rx \/ rx = c.rx
        THEN Result(IF p.unit <= c.rx THEN c ELSE c1, {}, FALSE)
        ELSE IF p.alert THEN Result(c1, {}, TRUE)
        ELSE IF c.server THEN server_tls_handshake(c1)
        ELSE client_tls_handshake(c1)

recv_ack(c, p, unprotected) ==
    [c EXCEPT !.rtb = @ \ (IF unprotected THEN p.ack \cap {1, 2} ELSE p.ack)]

sched_ack(c, p) ==
    IF p.unit = 0 THEN c
    ELSE [c EXCEPT !.got = @ \cup {p.unit}, !.active_ack = TRUE]

(* conn_recv_delayed_handshake_pkt: a packet of the handshake after it.    *)
recv_delayed_handshake(c, p) ==
    IF p.type # "INITIAL" /\ p.cid # c.conn_id THEN Result(c, {}, FALSE)
    ELSE IF p.cc THEN Result(c, {}, TRUE)
    ELSE Result(sched_ack(recv_ack(c, p, TRUE), p), {}, FALSE)

(* conn_recv_pkt: short and 0-RTT packets.                                 *)
conn_recv_pkt(c, p) ==
    LET c1 == IF p.type = "SHORT" THEN [c EXCEPT !.recv_protected = TRUE] ELSE c
        c2 == sched_ack(recv_ack(c1, p, FALSE), p)
        c3 == IF p.unit = 3 /\ c.server /\ c.app = "none"
              THEN [c2 EXCEPT !.app = "queued"] ELSE c2
    IN  IF p.type \in {"INITIAL", "HANDSHAKE"} THEN recv_delayed_handshake(c, p)
        ELSE IF p.type = "0RTT" /\ ~c.early_ckm THEN Result(c, {}, FALSE)
        ELSE IF p.type = "SHORT" /\ p.cid # c.conn_id THEN Result(c1, {}, FALSE)
        ELSE Result(IF p.cc THEN [c3 EXCEPT !.state = "DRAINING"] ELSE c3,
                    {}, FALSE)

(* A plausible slip: the limit is tested after the packet is kept.         *)
buffer_one_more(c, p) ==
    IF Len(c.buffed_rx_ppkts) > NGTCP2_MAX_NUM_BUFFED_RX_PPKTS THEN c
    ELSE [c EXCEPT !.buffed_rx_ppkts = Append(@, p)]

buffer_protected_pkt(c, p) ==
    IF Len(c.buffed_rx_ppkts) = NGTCP2_MAX_NUM_BUFFED_RX_PPKTS THEN c
    ELSE [c EXCEPT !.buffed_rx_ppkts = Append(@, p)]

(* The buffered packets, in order, up to the first that fails.             *)
process_buffered(c) ==
    LET last == FoldLeft(LAMBDA r, p : IF r.err THEN r ELSE conn_recv_pkt(r.conn, p),
                         Result(c, {}, FALSE), c.buffed_rx_ppkts)
    IN  IF last.err THEN last
        ELSE Result([last.conn EXCEPT !.buffed_rx_ppkts = <<>>], {}, FALSE)

(* A plausible slip: a client goes over to whichever id it sees.           *)
NewIdAny(c, p) == TRUE

(* The client takes the id of the first Handshake packet and then keeps it.*)
NewId(c, p) == ~c.negotiated \/ p.cid = c.conn_id

(* conn_recv_handshake_pkt for a packet of the handshake.                  *)
recv_long(c, p) ==
    LET c1 == [c EXCEPT !.negotiated = TRUE,
                        !.conn_id = IF c.server THEN @ ELSE p.cid]
        c2 == recv_ack(c1, p, TRUE)
        r  == IF p.unit = 0 THEN Result(c2, {}, FALSE) ELSE recv_stream0(c2, p)
        c3 == IF p.cc THEN [r.conn EXCEPT !.state = "DRAINING"] ELSE r.conn
    IN  IF p.type = "HANDSHAKE" /\ (IF c.server THEN p.cid # c.conn_id
                                                ELSE ~NewId(c, p))
        THEN Result(c, {}, FALSE)
        ELSE Result(sched_ack(c3, p), {}, r.err)

conn_recv_handshake_pkt(c, p) ==
    CASE p.type = "SHORT" ->
           Result(IF c.state = "SERVER_INITIAL" THEN c
                  ELSE buffer_protected_pkt(c, p), {}, FALSE)
      [] p.type = "0RTT" ->
           IF c.early_ckm THEN conn_recv_pkt(c, p)
           ELSE Result(IF c.negotiated THEN c ELSE buffer_protected_pkt(c, p),
                       {}, FALSE)
      [] OTHER -> recv_long(c, p)

(* The server has written o at the end of its handshake.                   *)
server_completed(o) ==
    LET c == [o.conn EXCEPT !.state = "POST_HANDSHAKE"]
    IN  IF c.params THEN After(o, process_buffered(c)) ELSE Result(c, o.out, TRUE)

(* conn_handshake_completed: the client gets its keys and makes its        *)
(* request, the server writes once before its state changes; then the      *)
(* packets that came too early are processed.                              *)
handshake_completed(c, ack) ==
    IF c.server THEN server_completed(on_write(c, {}, FALSE, ack))
    ELSE process_buffered(
           [c EXCEPT !.state = "CLIENT_HANDSHAKE_ALMOST_FINISHED",
                     !.tx_ckm = TRUE,
                     !.app = IF @ = "none" THEN "queued" ELSE @])

(* A packet was received during the handshake, with result r.  An alert    *)
(* that is received with CONNECTION_CLOSE leaves the connection failed and *)
(* not draining.                                                           *)
handshake_received(r, ack) ==
    IF r.err
    THEN Result([r.conn EXCEPT !.state = IF r.conn.server
                                         THEN "SERVER_TLS_HANDSHAKE_FAILED"
                                         ELSE "CLIENT_TLS_HANDSHAKE_FAILED"],
                {}, FALSE)
    ELSE IF r.conn.state = "SERVER_INITIAL" /\ r.conn.negotiated
    THEN process_buffered(r.conn)
    ELSE IF r.conn.completed THEN handshake_completed(r.conn, ack)
    ELSE r

(* ngtcp2_conn_recv.                                                       *)
conn_recv(c, p, ack) ==
    CASE c.state \in {"CLIENT_WAIT_HANDSHAKE", "SERVER_INITIAL",
                      "SERVER_WAIT_HANDSHAKE"} ->
           IF p.type = "VN" THEN Result(c, {}, TRUE)
           ELSE handshake_received(conn_recv_handshake_pkt(c, p), ack)
      [] Failed(c) -> conn_recv_handshake_pkt(c, p)
      [] c.state \in {"CLIENT_HANDSHAKE_ALMOST_FINISHED",
                      "POST_HANDSHAKE"} -> conn_recv_pkt(c, p)
      [] OTHER -> Result(c, {}, FALSE)

---------------------------------------------------------------------------
(* The client.                                                             *)

(* Client::disconnect.  It stops the timers and the first socket; the loop *)
(* of the program then ends, and close frees the connection, unless the    *)
(* second socket is open.                                                  *)
disconnect(c) ==
    LET r == handle_error(c)
    IN  Result(IF c.migrated THEN [r.conn EXCEPT !.timer = FALSE]
               ELSE [conn_new(client) EXCEPT
                       !.timer = FALSE, !.gone = TRUE, !.state = r.conn.state,
                       !.completed = c.completed, !.conn_id = c.conn_id,
                       !.from = c.from],
               r.out, TRUE)

(* An error disconnects.                                                   *)
disconnect_failed(r) == IF r.err THEN After(r, disconnect(r.conn)) ELSE r

client_write(c, expired, dead, ack) ==
    disconnect_failed(on_write(c, expired, dead, ack))

(* The rest of on_read: what was received starts the timer again.          *)
write_after_read(r, ack) ==
    IF r.err \/ r.conn.state = "DRAINING" THEN After(r, disconnect(r.conn))
    ELSE After(r, client_write([r.conn EXCEPT !.timer = TRUE], {}, FALSE, ack))

client_read(c, p, ack) == write_after_read(conn_recv(c, p, ack), ack)

(* The client's step: its connection becomes r's and r's packets are sent. *)
ClientTurn(r, bad) ==
    /\ ep' = [ep EXCEPT ![client] = r.conn]
    /\ net' = net \cup r.out
    /\ trouble' = (trouble \/ bad \/ r.err)
    /\ UNCHANGED <<handlers, ctos, serving, env>>

(* run: Client::init and the first on_write.                               *)
run ==
    /\ ep[client].state = "CLIENT_INITIAL"
    /\ ClientTurn(client_write(ep[client], {}, FALSE, FALSE), FALSE)

(* readcb and readcb2, for one packet.                                     *)
readcb(p, ack) ==
    /\ p.to = "client" /\ ~ep[client].gone
    /\ ep[client].timer \/ ep[client].migrated
    /\ ClientTurn(client_read(ep[client], p, ack), FALSE)

(* retransmitcb; the timer of the ACK makes the same call.                 *)
client_retransmitcb(due, dead, ack) ==
    /\ ep[client].timer /\ due \subseteq ep[client].rtb
    /\ dead => Cardinality(due) = 1
    /\ ClientTurn(client_write(ep[client], due, dead, ack), dead)

(* timeoutcb disconnects and exits; siginthandler ends the loop, and main  *)
(* disconnects.                                                            *)
client_timeoutcb ==
    /\ ep[client].timer /\ ep[client].state # "CLIENT_INITIAL"
    /\ LET d == disconnect([ep[client] EXCEPT !.migrated = FALSE])
       IN  ClientTurn(d, TRUE)

---------------------------------------------------------------------------
(* The server.  A result with err is a handler to remove.                  *)

(* handle_error if r has failed, after the packets so far.                 *)
Closed(r) == IF r.err THEN After(r, handle_error(r.conn)) ELSE r

handler_write(c, expired, dead, ack) == Closed(on_write(c, expired, dead, ack))

(* Handler::feed_data has returned r, and on_write follows if it has       *)
(* succeeded.                                                              *)
write_after_feed(r, ack) ==
    IF r.err THEN Closed(r)
    ELSE IF r.conn.state = "DRAINING" THEN [r EXCEPT !.conn.draining = TRUE]
    ELSE After(r, handler_write(r.conn, {}, FALSE, ack))

handler_read(c, p, ack) == write_after_feed(conn_recv(c, p, ack), ack)

(* A plausible slip: the id of the client is left behind.                  *)
remove_handler(h) ==
    /\ handlers' = handlers \ {h} /\ ctos' = ctos
    /\ ep' = [ep EXCEPT ![h] = [conn_new(h) EXCEPT !.gone = TRUE]]

(* Server::remove.                                                         *)
remove(h) ==
    /\ handlers' = handlers \ {h} /\ ctos' = 0
    /\ ep' = [ep EXCEPT ![h] = [conn_new(h) EXCEPT !.gone = TRUE]]

(* The step of handler h whose result is r.                                *)
HandlerTurn(h, r, bad) ==
    /\ IF r.err THEN remove(h)
       ELSE ep' = [ep EXCEPT ![h] = r.conn] /\ UNCHANGED <<handlers, ctos>>
    /\ net' = net \cup r.out
    /\ trouble' = (trouble \/ bad \/ r.err)
    /\ UNCHANGED <<serving, env>>

(* Server::on_read for a handler that exists: by its own id, or by the     *)
(* client's.  A closing handler repeats CONNECTION_CLOSE.                  *)
on_read(p, h, ack) ==
    /\ serving /\ p.to = "server" /\ h \in handlers
    /\ p.cid = h \/ (p.cid = client /\ ctos = h)
    /\ ~ep[h].draining
    /\ IF ep[h].state = "CLOSING"
       THEN HandlerTurn(h, handle_error(ep[h]), FALSE)
       ELSE HandlerTurn(h, handler_read(ep[h], p, ack), FALSE)

(* ngtcp2_accept: 0 for a packet that may begin a connection, 1 if only    *)
(* its version is unknown.                                                 *)
accept(p) ==
    IF p.type \notin {"INITIAL", "0RTT"} THEN -1 ELSE IF env.known THEN 0 ELSE 1

(* A new handler has read its first packet with result r.  It is kept when *)
(* it has read and written without an error and is not closing.            *)
KeepHandler(h, r, initial) ==
    LET kept == ~r.err /\ r.conn.state \notin {"CLOSING", "DRAINING"}
    IN  /\ IF kept THEN handlers' = handlers \cup {h} /\ ctos' = h
           ELSE UNCHANGED <<handlers, ctos>>
        /\ ep' = [ep EXCEPT ![h] = IF kept THEN r.conn
                                   ELSE IF r.out = {} THEN @
                                   ELSE [@ EXCEPT !.gone = TRUE]]
        /\ net' = net \cup r.out
        /\ trouble' = (trouble \/ (initial /\ ~kept))
        /\ UNCHANGED <<serving, env>>

(* Server::on_read for a client it does not know.                          *)
on_read_new(p, h, ack) ==
    /\ serving /\ p.to = "server" /\ p.cid = client /\ ctos = 0
    /\ accept(p) = 0
    /\ h <= env.conns /\ ~ep[h].gone /\ \A g \in 1..(h - 1) : ep[g].gone
    /\ KeepHandler(h, handler_read(ep[h], p, ack), p.type = "INITIAL")

(* send_version_negotiation.                                               *)
send_version_negotiation(p) ==
    /\ serving /\ accept(p) = 1
    /\ net' = net \cup {[to |-> "client", type |-> "VN", cid |-> client,
                         unit |-> 0, alert |-> FALSE, ack |-> {}, cc |-> FALSE]}
    /\ trouble' = TRUE
    /\ UNCHANGED <<ep, handlers, ctos, serving, env>>

(* retransmitcb of a handler; draining and closing have stopped its timer. *)
retransmitcb(h, due, dead, ack) ==
    /\ serving /\ h \in handlers /\ due \subseteq ep[h].rtb
    /\ ~ep[h].draining /\ ep[h].state # "CLOSING"
    /\ dead => Cardinality(due) = 1
    /\ HandlerTurn(h, handler_write(ep[h], due, dead, ack), dead)

(* A plausible slip: a handler that drains starts to drain again.          *)
timeoutcb_again(h) ==
    /\ serving /\ h \in handlers
    /\ HandlerTurn(h, Result([ep[h] EXCEPT !.draining = TRUE], {},
                             ep[h].state = "CLOSING"), TRUE)

(* timeoutcb: the closing or draining period is over, or the peer has been *)
(* silent and the handler drains.                                          *)
timeoutcb(h) ==
    /\ serving /\ h \in handlers
    /\ HandlerTurn(h, Result([ep[h] EXCEPT !.draining = TRUE], {},
                             ep[h].state = "CLOSING" \/ ep[h].draining), TRUE)

(* Server::disconnect, when the server is interrupted.                     *)
server_disconnect ==
    /\ serving /\ serving' = FALSE
    /\ net' = net \cup UNION {handle_error(ep[h]).out : h \in handlers}
    /\ ep' = [h \in 0..MaxConn |-> IF h \notin handlers THEN ep[h]
                                    ELSE [conn_new(h) EXCEPT !.gone = TRUE]]
    /\ handlers' = {} /\ ctos' = 0 /\ trouble' = TRUE
    /\ UNCHANGED env

---------------------------------------------------------------------------

Init ==
    /\ ep = [e \in 0..MaxConn |-> conn_new(e)]
    /\ handlers = {} /\ ctos = 0 /\ net = {}
    /\ serving = TRUE /\ trouble = FALSE
    /\ env \in Scenarios

Acks == IF Cardinality({p \in net : p.ack # {}}) < env.acks
        THEN BOOLEAN ELSE {FALSE}

Next ==
    \/ run
    \/ \E p \in net, ack \in Acks : readcb(p, ack)
    \/ \E due \in SUBSET (1..3), dead \in BOOLEAN, ack \in Acks :
          client_retransmitcb(due, dead, ack)
    \/ client_timeoutcb
    \/ \E p \in net, h \in Handlers, ack \in Acks : on_read(p, h, ack)
    \/ \E p \in net, h \in Handlers, ack \in Acks : on_read_new(p, h, ack)
    \/ \E p \in net : send_version_negotiation(p)
    \/ \E h \in Handlers, due \in SUBSET (1..3), dead \in BOOLEAN, ack \in Acks :
          retransmitcb(h, due, dead, ack)
    \/ \E h \in Handlers : timeoutcb(h)
    \/ server_disconnect

(* Both timers run until something arrives; the peer does not send for     *)
(* ever.                                                                   *)
Spec ==
    /\ Init /\ [][Next]_vars
    /\ WF_vars(run)
    /\ WF_vars(client_timeoutcb)
    /\ \A h \in Handlers : WF_vars(timeoutcb(h))

---------------------------------------------------------------------------
(* Properties.                                                             *)

States == {"CLIENT_INITIAL", "CLIENT_WAIT_HANDSHAKE",
           "CLIENT_HANDSHAKE_ALMOST_FINISHED", "CLIENT_TLS_HANDSHAKE_FAILED",
           "SERVER_INITIAL", "SERVER_WAIT_HANDSHAKE",
           "SERVER_TLS_HANDSHAKE_FAILED", "POST_HANDSHAKE", "CLOSING",
           "DRAINING"}

(* The state machine of ngtcp2_conn: client and handlers have states of    *)
(* their own side, what is to be sent again was sent, and packets wait in  *)
(* the buffer only before the handshake is over.                           *)
TypeOK ==
    /\ handlers \subseteq Handlers /\ ctos \in 0..MaxConn
    /\ \A e \in 0..MaxConn :
         LET c == ep[e]
         IN  /\ c.state \in States /\ c.conn_id \in 0..MaxConn
             /\ c.tx <= c.out /\ c.rtb \subseteq (1..c.tx) \cup {3}
             /\ 3 \in c.rtb \cup c.early_rtb => c.app = "sent"
             /\ Len(c.buffed_rx_ppkts) <= NGTCP2_MAX_NUM_BUFFED_RX_PPKTS
             /\ c.state = "POST_HANDSHAKE" => c.buffed_rx_ppkts = <<>>

(* Server::on_read asserts that the handler ctos_ names exists.  And a     *)
(* handler that exists is named there, so a repeated Initial of its client *)
(* finds it and makes no second one.                                       *)
RoutesAgree == handlers = {ctos} \ {0}

(* The handshake is with one server: what TLS was fed came from the        *)
(* handler whose id the client took, and a handler that has completed has  *)
(* a client that completed with it, also when an earlier handler for the   *)
(* same client was dropped and its packets still arrive.                   *)
OneServer ==
    /\ ep[client].completed => ep[client].from = {ep[client].conn_id}
    /\ \A h \in handlers : ep[h].completed =>
         ep[client].completed /\ ep[client].conn_id = h

(* Without 0-RTT a client lets go of its Finished only when the handler    *)
(* has it: the peer's first protected packet is proof that it has.  (With  *)
(* 0-RTT it is none: the handler answers the request before the handshake  *)
(* is over, and a Finished that is lost is not sent again.)                *)
FinishedNotAbandoned ==
    LET c == ep[client]
    IN  (/\ ~env.early /\ c.state = "POST_HANDSHAKE" /\ 2 \notin c.rtb
         /\ c.conn_id \in handlers)
          => 2 \in ep[c.conn_id].got

(* An exchange that nothing has disturbed never falls silent: until the    *)
(* client has its response, someone holds a packet that it will send again.*)
NotSilent ==
    (~trouble /\ ep[client].state # "CLIENT_INITIAL" /\ 3 \notin ep[client].got)
      => \E e \in handlers \cup {client} : ep[e].rtb \cup ep[e].early_rtb # {}

(* Both programs let go of the connection in the end, whatever became of   *)
(* the other: a handler is released, and the client ends.  A client that   *)
(* has migrated is left out: disconnect does not stop the second socket,   *)
(* and then nothing may ever end the loop.                                 *)
BothEnd ==
    /\ \A h \in Handlers : h \in handlers ~> h \notin handlers
    /\ <>(ep[client].gone \/ ep[client].migrated)

=============================================================================
