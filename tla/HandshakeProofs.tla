--------------------------- MODULE HandshakeProofs ---------------------------
(***************************************************************************)
(* Theorems about Handshake.tla, for any scenario, any number of handlers  *)
(* and any size of the buffer.  The invariant Inv says what the handshake  *)
(* has come to at each connection, what each one holds, and what the       *)
(* packets in the net tell of the connections that sent them.  One lemma   *)
(* for each operator of the model shows what it keeps; one for each action *)
(* shows that Inv holds after it.  The second half is about what a         *)
(* connection may let go of: Evidence says what each packet shows of the   *)
(* other end, Persists what an exchange that nothing has disturbed still   *)
(* holds.                                                                  *)
(***************************************************************************)
EXTENDS Handshake, Induction, TLAPS

---------------------------------------------------------------------------
(* The inductive invariant.                                                *)

Fields ==
    {"server", "state", "conn_id", "completed", "negotiated", "params",
     "recv_protected", "rejected", "rx", "rob", "out", "alert", "tx", "tx_ckm",
     "early_ckm", "rtb", "early_rtb", "got", "active_ack", "buffed_rx_ppkts",
     "app", "from", "draining", "timer", "late_bound", "migrated", "gone"}

Packet == [to : {"client", "server"},
           type : {"INITIAL", "0RTT", "HANDSHAKE", "SHORT", "VN"},
           cid : 0..MaxConn, unit : 0..3, alert : BOOLEAN,
           ack : SUBSET (1..3), cc : BOOLEAN]

ClientStates == {"CLIENT_INITIAL", "CLIENT_WAIT_HANDSHAKE",
                 "CLIENT_HANDSHAKE_ALMOST_FINISHED",
                 "CLIENT_TLS_HANDSHAKE_FAILED", "POST_HANDSHAKE", "CLOSING",
                 "DRAINING"}
ServerStates == {"SERVER_INITIAL", "SERVER_WAIT_HANDSHAKE",
                 "SERVER_TLS_HANDSHAKE_FAILED", "POST_HANDSHAKE", "CLOSING",
                 "DRAINING"}

(* The packets that wait in a buffer are protected.                        *)
Waiting == {p \in Packet : p.type \in {"SHORT", "0RTT"}}

(* What the handshake of connection c has come to, on either side.  The    *)
(* client: what TLS was fed came under the id it has, and it has none and  *)
(* was fed nothing before it has heard of a handler.  A handler: when it   *)
(* has completed, its client has, and with this handler.                   *)
Answered(h) == \E p \in net : p.to = "client" /\ p.type = "HANDSHAKE" /\ p.cid = h

Progress(c) ==
    /\ DOMAIN c = Fields
    /\ c.server \in BOOLEAN /\ c.conn_id \in 0..MaxConn
    /\ c.rx \in 0..2 /\ c.rob \subseteq 1..2 /\ c.out \in 0..2
    /\ c.completed \in BOOLEAN /\ c.negotiated \in BOOLEAN
    /\ c.alert \in BOOLEAN /\ ~c.gone

ClientProgress(c) ==
    /\ c.alert => c.out = 2
    /\ c.out = 2 => c.negotiated /\ env.known /\ (c.alert \/ c.completed)
    /\ c.from \subseteq {c.conn_id}
    /\ (c.rx > 0 \/ c.rob # {}) => env.known
    /\ (c.rx > 0 \/ c.rob # {} \/ c.completed) => c.from = {c.conn_id}
    /\ ~c.negotiated => /\ c.from = {} /\ c.rx = 0 /\ c.rob = {}
                        /\ ~c.completed /\ c.conn_id = 0
    /\ c.conn_id # 0 => env.known /\ Answered(c.conn_id)

HandlerProgress(c) ==
    /\ env.known /\ c.conn_id # 0 /\ c.rob = {}
    /\ c.rx = 0 => c.out = 0
    /\ c.completed => /\ c.rx = 2 /\ ep[client].completed
                      /\ ep[client].conn_id = c.conn_id

(* What it holds.                                                          *)
Holds(c) ==
    /\ c.state \in IF c.server THEN ServerStates ELSE ClientStates
    /\ c.tx \in 0..2 /\ c.tx <= c.out
    /\ c.rtb \subseteq (1..c.tx) \cup {3} /\ c.early_rtb \subseteq {3}
    /\ 3 \in c.rtb \cup c.early_rtb => c.app = "sent"
    /\ c.got \subseteq 1..3
    /\ c.buffed_rx_ppkts \in Seq(Waiting)
    /\ Len(c.buffed_rx_ppkts) <= NGTCP2_MAX_NUM_BUFFED_RX_PPKTS
    /\ (c.server /\ c.rx = 0) => c.state \in {"SERVER_INITIAL", "DRAINING"}
    /\ c.state = "CLIENT_INITIAL" =>
         c.out = 0 /\ c.rtb = {} /\ c.early_rtb = {} /\ ~c.alert
    /\ Failed(c) => c.rx > 0

Conn(c) ==
    /\ Progress(c)
    /\ IF c.server THEN HandlerProgress(c) ELSE ClientProgress(c)
    /\ Holds(c)

(* Nothing waits once the handshake is over.                               *)
Tidy(c) == c.state \in {"CLIENT_HANDSHAKE_ALMOST_FINISHED", "POST_HANDSHAKE"}
             => c.buffed_rx_ppkts = <<>>

(* A packet of the client's, when c is its connection.                     *)
FromClient(c, p) ==
    /\ p.type # "VN"
    /\ p.type \in {"INITIAL", "HANDSHAKE"} =>
         /\ p.unit # 3
         /\ p.unit = 2 => /\ p.type = "HANDSHAKE" /\ p.cid = c.conn_id
                          /\ c.negotiated \/ c.gone
                          /\ ~p.alert => c.completed

(* A packet of handler c.conn_id.                                          *)
FromHandler(c, p) ==
    /\ p.type \in {"HANDSHAKE", "SHORT"}
    /\ p.type = "HANDSHAKE" => p.unit # 3 /\ (c.rx > 0 \/ c.gone)

NetOk ==
    \A p \in net :
      /\ p \in Packet
      /\ p.to = "server" => FromClient(ep[client], p)
      /\ p.to = "client" =>
           \/ p.type = "VN" /\ ~env.known /\ p.unit = 0 /\ p.cid = 0
           \/ env.known /\ p.cid \in Handlers /\ FromHandler(ep[p.cid], p)

(* After disconnect the client only remembers.                             *)
Remembers(c) ==
    /\ DOMAIN c = Fields /\ c.gone /\ ~c.timer
    /\ ~c.server /\ c.state \in ClientStates \ {"CLIENT_INITIAL"}
    /\ c.conn_id \in 0..MaxConn
    /\ c.tx = 0 /\ c.out = 0 /\ c.rtb = {} /\ c.early_rtb = {}
    /\ c.buffed_rx_ppkts = <<>>
    /\ c.completed => c.from = {c.conn_id}
    /\ c.conn_id # 0 => env.known /\ Answered(c.conn_id)

Fresh(h) == ep[h] \in {conn_new(h), [conn_new(h) EXCEPT !.gone = TRUE]}

Inv ==
    /\ DOMAIN ep = 0..MaxConn
    /\ env \in Scenarios
    /\ handlers \subseteq Handlers /\ ctos \in 0..MaxConn
    /\ RoutesAgree /\ NetOk
    /\ \/ /\ ~ep[client].server /\ Conn(ep[client]) /\ Tidy(ep[client])
       \/ Remembers(ep[client])
    /\ \A h \in handlers : /\ ep[h].server /\ ep[h].conn_id = h
                            /\ Conn(ep[h]) /\ Tidy(ep[h])
    /\ \A h \in Handlers \ handlers : Fresh(h)

(* What a connection has sent or sends.                                    *)
Emitted(c, p) ==
    /\ p \in Packet
    /\ IF c.server THEN p.to = "client" /\ p.cid = c.conn_id /\ FromHandler(c, p)
                   ELSE p.to = "server" /\ FromClient(c, p)

Emits(c, out) == \A p \in out : Emitted(c, p)

(* What a write leaves alone; d is the connection afterwards.              *)
Kept(c, d) ==
    /\ DOMAIN d = Fields
    /\ d.server = c.server /\ d.conn_id = c.conn_id
    /\ d.rx = c.rx /\ d.rob = c.rob /\ d.from = c.from
    /\ d.completed = c.completed /\ d.negotiated = c.negotiated
    /\ d.alert = c.alert /\ d.gone = c.gone
    /\ d.got = c.got /\ d.buffed_rx_ppkts = c.buffed_rx_ppkts
    /\ d.out = c.out \/ (~c.server /\ ~c.alert /\ c.out = 0 /\ d.out = 1)

Over == {"CLIENT_HANDSHAKE_ALMOST_FINISHED", "POST_HANDSHAKE"}

(* r is the result of a write on connection c.                             *)
Wrote(c, r) ==
    /\ Kept(c, r.conn) /\ Conn(r.conn) /\ Emits(r.conn, r.out)
    /\ r.conn.state \in Over => c.state \in Over

Shape == {"conn", "out", "err"}

---------------------------------------------------------------------------
(* Writing.                                                                *)

\* What Pkt makes is a packet of the connection's side.
LEMMA PktIs ==
    ASSUME NEW c, c.server \in BOOLEAN, c.conn_id \in 0..MaxConn,
           NEW type \in {"INITIAL", "0RTT", "HANDSHAKE", "SHORT"},
           NEW unit \in 0..3, NEW ack \in SUBSET (1..3), NEW cc \in BOOLEAN
    PROVE  LET p == Pkt(c, type, unit, ack, cc)
           IN  /\ p \in Packet
               /\ p.to = IF c.server THEN "client" ELSE "server"
               /\ p.type = type /\ p.unit = unit
               /\ p.cid = IF type \in {"INITIAL", "0RTT"} THEN 0 ELSE c.conn_id
               /\ p.alert <=> c.alert /\ unit = c.out /\ unit # 0 /\ type # "SHORT"
<1> DEFINE al == c.alert /\ unit = c.out /\ unit # 0 /\ type # "SHORT"
           to == IF c.server THEN "client" ELSE "server"
           cid == IF type \in {"INITIAL", "0RTT"} THEN client ELSE c.conn_id
<1>1. al \in BOOLEAN
  OBVIOUS
<1>2. to \in {"client", "server"}
  OBVIOUS
<1>3. MaxConn \in Nat
  BY HandshakeAssumption
<1>4. cid \in 0..MaxConn
  BY <1>3 DEF client
<1>5. Pkt(c, type, unit, ack, cc)
        = [to |-> to, type |-> type, cid |-> cid, unit |-> unit, alert |-> al,
           ack |-> ack, cc |-> cc]
  BY DEF Pkt
<1>6. cid = IF type \in {"INITIAL", "0RTT"} THEN 0 ELSE c.conn_id
  BY DEF client
<1>7. type \in {"INITIAL", "0RTT", "HANDSHAKE", "SHORT", "VN"}
  OBVIOUS
<1> HIDE DEF al, to, cid
<1>8. Pkt(c, type, unit, ack, cc) \in Packet
  BY <1>1, <1>2, <1>4, <1>5, <1>7 DEF Packet
<1>9. al <=> c.alert /\ unit = c.out /\ unit # 0 /\ type # "SHORT"
  BY DEF al
<1>10. to = IF c.server THEN "client" ELSE "server"
  BY DEF to
<1> QED
  BY <1>5, <1>6, <1>8, <1>9, <1>10

\* A short packet may always be sent.
LEMMA ShortEmitted ==
    ASSUME NEW c, Progress(c), NEW unit \in 0..3, NEW ack \in SUBSET (1..3),
           NEW cc \in BOOLEAN
    PROVE  Emitted(c, Pkt(c, "SHORT", unit, ack, cc))
<1> DEFINE p == Pkt(c, "SHORT", unit, ack, cc)
<1>1. c.server \in BOOLEAN /\ c.conn_id \in 0..MaxConn
  BY DEF Progress
<1>2. /\ p \in Packet /\ p.type = "SHORT" /\ p.cid = c.conn_id
      /\ p.to = IF c.server THEN "client" ELSE "server"
  BY <1>1, PktIs
<1> HIDE DEF p
<1>3. FromHandler(c, p) /\ FromClient(c, p)
  BY <1>2 DEF FromHandler, FromClient
<1>4. Emitted(c, p)
  BY <1>1, <1>2, <1>3 DEF Emitted
<1> QED
  BY <1>4 DEF p

\* A client may always send a 0-RTT packet.
LEMMA EarlyEmitted ==
    ASSUME NEW c, Progress(c), ~c.server, NEW unit \in 0..3,
           NEW ack \in SUBSET (1..3), NEW cc \in BOOLEAN
    PROVE  Emitted(c, Pkt(c, "0RTT", unit, ack, cc))
<1> DEFINE p == Pkt(c, "0RTT", unit, ack, cc)
<1>1. c.server \in BOOLEAN /\ c.conn_id \in 0..MaxConn
  BY DEF Progress
<1>2. /\ p \in Packet /\ p.type = "0RTT"
      /\ p.to = IF c.server THEN "client" ELSE "server"
  BY <1>1, PktIs
<1> HIDE DEF p
<1>3. FromClient(c, p)
  BY <1>2 DEF FromClient
<1>4. Emitted(c, p)
  BY <1>1, <1>2, <1>3 DEF Emitted
<1> QED
  BY <1>4 DEF p

\* An ACK of the handshake may be sent once the ClientHello has come.
LEMMA AckEmitted ==
    ASSUME NEW c, Progress(c), c.server => c.rx > 0, NEW ack \in SUBSET (1..3),
           NEW cc \in BOOLEAN
    PROVE  Emitted(c, Pkt(c, "HANDSHAKE", 0, ack, cc))
<1> DEFINE p == Pkt(c, "HANDSHAKE", 0, ack, cc)
<1>1. c.server \in BOOLEAN /\ c.conn_id \in 0..MaxConn
  BY DEF Progress
<1>2. /\ p \in Packet /\ p.type = "HANDSHAKE" /\ p.cid = c.conn_id
      /\ p.to = IF c.server THEN "client" ELSE "server"
      /\ p.unit = 0
  <2>1. 0 \in 0..3
    OBVIOUS
  <2> QED
    BY <1>1, <2>1, PktIs
<1> HIDE DEF p
<1>3. c.server => FromHandler(c, p)
  BY <1>2 DEF FromHandler
<1>4. FromClient(c, p)
  BY <1>2 DEF FromClient
<1>5. Emitted(c, p)
  BY <1>1, <1>2, <1>3, <1>4 DEF Emitted
<1> QED
  BY <1>5 DEF p

\* A unit of stream 0: the client's second shows that its handshake is over.
LEMMA UnitEmitted ==
    ASSUME NEW c, Progress(c), ~c.server => ClientProgress(c),
           c.server => c.rx > 0, NEW u \in 1..2, u <= c.out
    PROVE  Emitted(c, HandshakePkt(c, u))
<1> DEFINE type == IF ~c.server /\ u = 1 THEN "INITIAL" ELSE "HANDSHAKE"
           cc == c.alert /\ u = c.out
           p == Pkt(c, type, u, {}, cc)
<1>1. c.server \in BOOLEAN /\ c.conn_id \in 0..MaxConn /\ c.out \in 0..2
  BY DEF Progress
<1>2. type \in {"INITIAL", "0RTT", "HANDSHAKE", "SHORT"} /\ type # "SHORT"
  OBVIOUS
<1>3. cc \in BOOLEAN /\ u \in 0..3 /\ {} \in SUBSET (1..3)
  OBVIOUS
<1>4. type = "INITIAL" <=> ~c.server /\ u = 1
  OBVIOUS
<1> HIDE DEF type, cc
<1>5. /\ p \in Packet /\ p.type = type /\ p.unit = u
      /\ p.to = IF c.server THEN "client" ELSE "server"
      /\ p.cid = IF type \in {"INITIAL", "0RTT"} THEN 0 ELSE c.conn_id
      /\ p.alert <=> c.alert /\ u = c.out /\ u # 0 /\ type # "SHORT"
  BY <1>1, <1>2, <1>3, PktIs
<1>6. type \in {"INITIAL", "HANDSHAKE"}
  BY DEF type
<1> HIDE DEF p
<1>7. ASSUME c.server PROVE FromHandler(c, p) /\ p.cid = c.conn_id
  BY <1>4, <1>5, <1>6, <1>7 DEF FromHandler
<1>8. ASSUME ~c.server PROVE FromClient(c, p)
  <2>1. u = 2 => p.type = "HANDSHAKE" /\ p.cid = c.conn_id
    BY <1>4, <1>5, <1>6
  <2>2. u = 2 => c.out = 2
    BY <1>1
  <2>3. u = 2 => c.negotiated /\ (c.alert \/ c.completed)
    BY <1>8, <2>2 DEF ClientProgress
  <2>4. u = 2 /\ c.alert => p.alert
    BY <1>2, <1>5, <2>2
  <2>5. p.type # "VN" /\ p.unit # 3 /\ p.unit = u
    BY <1>5, <1>6
  <2> QED
    BY <2>1, <2>3, <2>4, <2>5 DEF FromClient
<1>9. Emitted(c, p)
  BY <1>1, <1>5, <1>7, <1>8 DEF Emitted
<1>10. HandshakePkt(c, u) = p
  BY DEF HandshakePkt, p, type, cc
<1> QED
  BY <1>9, <1>10

\* What a write leaves alone is enough for what TLS has come to, and for
\* what was sent to stay true.
LEMMA KeptProgress ==
    ASSUME NEW c, Conn(c), NEW d, Kept(c, d)
    PROVE  Progress(d) /\ IF d.server THEN HandlerProgress(d) ELSE ClientProgress(d)
<1>1. Progress(c)
  BY DEF Conn
<1>2. d.out = c.out \/ d.out = 1
  BY DEF Kept
<1>3. Progress(d)
  BY <1>1, <1>2 DEF Progress, Kept
<1>4. CASE c.server
  <2>1. HandlerProgress(c)
    BY <1>4 DEF Conn
  <2>2. d.out = c.out /\ d.server
    BY <1>4 DEF Kept
  <2>3. HandlerProgress(d)
    BY <2>1, <2>2 DEF HandlerProgress, Kept
  <2> QED
    BY <1>3, <2>2, <2>3
<1>5. CASE ~c.server
  <2>1. ClientProgress(c)
    BY <1>5 DEF Conn
  <2>2. ~d.server
    BY <1>5 DEF Kept
  <2>3. d.alert => d.out = 2
    BY <2>1 DEF ClientProgress, Kept
  <2>4. d.out = 2 => d.negotiated /\ env.known /\ (d.alert \/ d.completed)
    BY <2>1 DEF ClientProgress, Kept
  <2>5. ClientProgress(d)
    BY <2>1, <2>3, <2>4 DEF ClientProgress, Kept
  <2> QED
    BY <1>3, <2>2, <2>5
<1> QED
  BY <1>4, <1>5

\* Two writes in turn leave alone what each of them does.
LEMMA KeptAgain ==
    ASSUME NEW a, NEW b, NEW c, Kept(a, b), Kept(b, c)
    PROVE  Kept(a, c)
BY DEF Kept

\* What was sent before a write is still accounted for after it.
LEMMA KeptSent ==
    ASSUME NEW c, NEW d, Kept(c, d), NEW out, Emits(c, out)
    PROVE  Emits(d, out)
<1> SUFFICES ASSUME NEW p \in out PROVE Emitted(d, p)
  BY DEF Emits
<1>1. Emitted(c, p)
  BY DEF Emits
<1>2. FromClient(c, p) => FromClient(d, p)
  BY DEF FromClient, Kept
<1>3. FromHandler(c, p) => FromHandler(d, p)
  BY DEF FromHandler, Kept
<1> QED
  BY <1>1, <1>2, <1>3 DEF Emitted, Kept

\* A connection may let go of what it holds.
LEMMA FewerHeld ==
    ASSUME NEW c, Conn(c), NEW d, Kept(c, d), d.state = c.state, d.tx = c.tx,
           d.out = c.out, d.app = c.app,
           d.rtb \subseteq c.rtb, d.early_rtb \subseteq c.early_rtb
    PROVE  Conn(d)
<1>1. Holds(c)
  BY DEF Conn
<1>2. Holds(d)
  BY <1>1 DEF Holds, Kept, Failed
<1> QED
  BY <1>2, KeptProgress DEF Conn

\* Retransmission drops entries and sends what the others hold again.
LEMMA Retransmitted ==
    ASSUME NEW c, Conn(c), NEW due, due \subseteq c.rtb,
           NEW r, r = conn_retransmit(c, due)
    PROVE  Wrote(c, r) /\ r.err = FALSE /\ r.conn.state = c.state
<1> DEFINE gone == c.recv_protected
           hs == due \cap {1, 2}
           R == IF gone THEN c.rtb \ hs ELSE c.rtb
           d == [c EXCEPT !.rtb = R]
           again == IF gone THEN {} ELSE {HandshakePkt(c, u) : u \in hs}
           out == again \cup {Pkt(c, "SHORT", u, {}, FALSE) : u \in due \cap {3}}
<1>1. Progress(c) /\ Holds(c) /\ IF c.server THEN HandlerProgress(c) ELSE ClientProgress(c)
  BY DEF Conn
<1>2. DOMAIN c = Fields
  BY <1>1 DEF Progress
<1>3. Kept(c, d) /\ d.state = c.state /\ d.tx = c.tx /\ d.rtb = R
      /\ d.early_rtb = c.early_rtb /\ d.app = c.app /\ d.out = c.out
  BY <1>2 DEF Kept, Fields
<1>4. R \subseteq c.rtb
  OBVIOUS
<1> HIDE DEF R, d
<1>5. Conn(d)
  BY <1>3, <1>4, FewerHeld
<1>7. Emits(c, out)
  <2>1. ASSUME NEW u \in hs PROVE Emitted(c, HandshakePkt(c, u))
    <3>1. u \in 1..2 /\ u \in c.rtb /\ u # 3
      BY <2>1
    <3>2. u \in 1..c.tx /\ c.tx \in 0..2 /\ c.tx <= c.out /\ c.out \in 0..2
      BY <1>1, <3>1 DEF Holds, Progress
    <3>3. u <= c.out /\ c.out # 0
      BY <3>1, <3>2
    <3>4. c.server => c.rx > 0
      <4>1. c.server => HandlerProgress(c)
        BY <1>1
      <4>2. c.server => c.rx # 0
        BY <3>3, <4>1 DEF HandlerProgress
      <4> QED
        BY <1>1, <4>2 DEF Progress
    <3> QED
      BY <1>1, <3>1, <3>3, <3>4, UnitEmitted
  <2>2. \A p \in again : Emitted(c, p)
    BY <2>1
  <2>3. ASSUME NEW u \in due \cap {3}
        PROVE  Emitted(c, Pkt(c, "SHORT", u, {}, FALSE))
    <3>1. u \in 0..3 /\ {} \in SUBSET (1..3) /\ FALSE \in BOOLEAN
      BY <2>3
    <3> QED
      BY <1>1, <3>1, ShortEmitted
  <2> QED
    BY <2>2, <2>3 DEF Emits
<1>8. Emits(d, out)
  BY <1>3, <1>7, KeptSent
<1>9. conn_retransmit(c, due) = Result(d, out, FALSE)
  BY DEF conn_retransmit, d, R
<1>10. r.conn = d /\ r.out = out /\ r.err = FALSE
  BY <1>9 DEF Result
<1> HIDE DEF out
<1> QED
  BY <1>3, <1>5, <1>8, <1>10 DEF Wrote

\* The client's first packet.
LEMMA InitialWritten ==
    ASSUME NEW c, Conn(c), ~c.server, c.state = "CLIENT_INITIAL",
           NEW r, r = conn_write_client_initial(c)
    PROVE  Wrote(c, r) /\ r.err = FALSE /\ r.conn.state = "CLIENT_WAIT_HANDSHAKE"
<1> DEFINE e == handle_early_data(c)
           f == [e EXCEPT !.out = 1]
           g == [f EXCEPT !.tx = 1]
           h == [g EXCEPT !.rtb = g.rtb \cup {1}]
           d == [h EXCEPT !.state = "CLIENT_WAIT_HANDSHAKE"]
<1>1. Progress(c) /\ Holds(c) /\ ClientProgress(c)
  BY DEF Conn
<1>2. DOMAIN c = Fields
  BY <1>1 DEF Progress
<1>3. /\ c.out = 0 /\ c.rtb = {} /\ c.early_rtb = {} /\ ~c.alert
      /\ c.state \in ClientStates /\ c.got \subseteq 1..3
      /\ c.buffed_rx_ppkts \in Seq(Waiting)
      /\ Len(c.buffed_rx_ppkts) <= NGTCP2_MAX_NUM_BUFFED_RX_PPKTS
  BY <1>1 DEF Holds
<1>4. DOMAIN e = Fields /\ Kept(c, e) /\ e.rtb = {} /\ e.early_rtb = {} /\ e.out = 0
  BY <1>2, <1>3 DEF handle_early_data, Kept, Fields
<1> HIDE DEF e
<1>5. DOMAIN f = Fields /\ Kept(c, f) /\ f.rtb = {} /\ f.early_rtb = {} /\ f.out = 1
  BY <1>3, <1>4 DEF Kept, Fields
<1> HIDE DEF f
<1>6. /\ DOMAIN g = Fields /\ Kept(c, g) /\ g.rtb = {} /\ g.early_rtb = {}
      /\ g.out = 1 /\ g.tx = 1
  BY <1>5 DEF Kept, Fields
<1> HIDE DEF g
<1>7. /\ DOMAIN h = Fields /\ Kept(c, h) /\ h.rtb = {1} /\ h.early_rtb = {}
      /\ h.out = 1 /\ h.tx = 1
  BY <1>6 DEF Kept, Fields
<1> HIDE DEF h
<1>8. /\ DOMAIN d = Fields /\ Kept(c, d) /\ d.rtb = {1} /\ d.early_rtb = {}
      /\ d.out = 1 /\ d.tx = 1 /\ d.state = "CLIENT_WAIT_HANDSHAKE"
  BY <1>7 DEF Kept, Fields
<1> HIDE DEF d
<1>9. d.buffed_rx_ppkts = c.buffed_rx_ppkts /\ d.got = c.got /\ d.rx = c.rx
      /\ ~d.server /\ d.state \in ClientStates
  BY <1>8 DEF Kept, ClientStates
<1>10. Holds(d)
  BY <1>3, <1>8, <1>9 DEF Holds, Failed
<1>11. Conn(d)
  BY <1>8, <1>10, KeptProgress DEF Conn
<1>12. Emits(d, {HandshakePkt(d, 1)})
  <2>1. Progress(d) /\ (~d.server => ClientProgress(d)) /\ (d.server => d.rx > 0)
    BY <1>9, <1>11 DEF Conn
  <2>2. Emitted(d, HandshakePkt(d, 1))
    BY <1>8, <2>1, UnitEmitted
  <2> QED
    BY <2>2 DEF Emits
<1>13. conn_write_client_initial(c) = Result(d, {HandshakePkt(d, 1)}, FALSE)
  <2>1. [e EXCEPT !.out = 1, !.tx = 1, !.rtb = @ \cup {1},
                  !.state = "CLIENT_WAIT_HANDSHAKE"] = d
    BY DEF d, h, g, f
  <2> QED
    BY <2>1 DEF conn_write_client_initial, e
<1> QED
  BY <1>8, <1>11, <1>12, <1>13 DEF Wrote, Result, Over

\* What TLS has made is sent; an error is a server without anything to say
\* or a side after its alert.
LEMMA HandshakeWritten ==
    ASSUME NEW c, Conn(c), c.state \notin {"CLIENT_INITIAL", "DRAINING"},
           NEW r, r = conn_write_handshake(c)
    PROVE  /\ Wrote(c, r)
           /\ r.err \in BOOLEAN
           /\ c.server /\ ~r.err => c.rx > 0
           /\ r.conn.state = IF c.state = "SERVER_INITIAL" /\ c.tx < c.out
                             THEN "SERVER_WAIT_HANDSHAKE" ELSE c.state
           /\ r.conn.early_rtb = c.early_rtb /\ r.conn.app = c.app
           /\ r.conn.out = c.out
<1> DEFINE units == (c.tx + 1)..c.out
           f == [c EXCEPT !.tx = c.out]
           R == c.rtb \cup units
           g == [f EXCEPT !.rtb = R]
           st == IF c.state = "SERVER_INITIAL" THEN "SERVER_WAIT_HANDSHAKE" ELSE c.state
           d == [g EXCEPT !.state = st]
           out == {HandshakePkt(c, u) : u \in units}
<1>1. /\ Progress(c) /\ Holds(c)
      /\ c.server => HandlerProgress(c)
      /\ ~c.server => ClientProgress(c)
  BY DEF Conn
<1>2. DOMAIN c = Fields /\ c.out \in 0..2 /\ c.tx \in 0..2 /\ c.tx <= c.out
      /\ c.server \in BOOLEAN /\ c.rx \in 0..2
  BY <1>1 DEF Progress, Holds
<1>3. CASE c.state = "SERVER_INITIAL" /\ units = {}
  <2>1. r = Result(c, {}, TRUE)
    BY <1>3 DEF conn_write_handshake
  <2>2. Kept(c, c)
    BY <1>2 DEF Kept
  <2>3. ~(c.tx < c.out)
    <3>1. c.tx < c.out => c.tx + 1 \in units
      BY <1>2
    <3> QED
      BY <1>3, <3>1
  <2>4. r.conn = c /\ r.out = {} /\ r.err = TRUE
    BY <2>1 DEF Result
  <2>5. Wrote(c, r)
    BY <2>2, <2>4 DEF Wrote, Emits
  <2> QED
    BY <2>3, <2>4, <2>5
<1>4. CASE ~(c.state = "SERVER_INITIAL" /\ units = {})
  <2>1. units \subseteq 1..c.out /\ units \subseteq 1..2
    BY <1>2
  <2>2. /\ DOMAIN f = Fields /\ Kept(c, f) /\ f.state = c.state /\ f.out = c.out
        /\ f.tx = c.out /\ f.early_rtb = c.early_rtb /\ f.app = c.app
        /\ f.rtb = c.rtb
    BY <1>2 DEF Kept, Fields
  <2>3. c.state = "SERVER_INITIAL" => c.tx < c.out
    BY <1>2, <1>4
  <2> HIDE DEF f, units
  <2>4. /\ DOMAIN g = Fields /\ Kept(c, g) /\ g.state = c.state /\ g.out = c.out
        /\ g.tx = c.out /\ g.early_rtb = c.early_rtb /\ g.app = c.app
        /\ g.rtb = R
    BY <2>2 DEF Kept, Fields
  <2> HIDE DEF g, R, st
  <2>5. /\ DOMAIN d = Fields /\ Kept(c, d) /\ d.state = st /\ d.out = c.out
        /\ d.tx = c.out /\ d.early_rtb = c.early_rtb /\ d.app = c.app
        /\ d.rtb = R
    BY <2>4 DEF Kept, Fields
  <2> HIDE DEF d
  <2>6. c.server => c.rx > 0
    <3>1. CASE c.state = "SERVER_INITIAL"
      <4>1. c.out # 0
        BY <1>2, <2>3, <3>1
      <4> QED
        BY <1>1, <1>2, <4>1 DEF HandlerProgress
    <3>2. CASE c.state # "SERVER_INITIAL"
      BY <1>1, <1>2, <3>2 DEF Holds
    <3> QED
      BY <3>1, <3>2
  <2>7. R \subseteq (1..c.out) \cup {3} /\ (3 \in R => 3 \in c.rtb)
    <3>1. c.rtb \subseteq (1..c.tx) \cup {3}
      BY <1>1 DEF Holds
    <3>2. 1..c.tx \subseteq 1..c.out
      BY <1>2
    <3>3. 3 \notin units
      BY <2>1
    <3> QED
      BY <2>1, <3>1, <3>2, <3>3 DEF R
  <2>8. d.buffed_rx_ppkts = c.buffed_rx_ppkts /\ d.got = c.got /\ d.rx = c.rx
        /\ d.server = c.server
    BY <2>5 DEF Kept
  <2>9. /\ d.state = IF c.state = "SERVER_INITIAL" /\ c.tx < c.out
                     THEN "SERVER_WAIT_HANDSHAKE" ELSE c.state
        /\ c.state = "SERVER_INITIAL" => c.server
        /\ d.state # "CLIENT_INITIAL" /\ (Failed(d) => Failed(c))
        /\ d.state \in Over => c.state \in Over
    BY <1>1, <2>3, <2>5 DEF st, Holds, ClientStates, Failed, Over
  <2>10. Holds(d)
    <3>1. d.state \in IF c.server THEN ServerStates ELSE ClientStates
      BY <1>1, <2>9 DEF Holds, ServerStates
    <3>2. 3 \in d.rtb \cup d.early_rtb => d.app = "sent"
      BY <1>1, <2>5, <2>7 DEF Holds
    <3>3. Failed(d) => d.rx > 0
      BY <1>1, <2>8, <2>9 DEF Holds
    <3>4. ~(d.server /\ d.rx = 0)
      BY <1>2, <2>6, <2>8
    <3> QED
      BY <1>1, <1>2, <2>5, <2>7, <2>8, <2>9, <3>1, <3>2, <3>3, <3>4 DEF Holds
  <2>11. Conn(d)
    BY <2>5, <2>10, KeptProgress DEF Conn
  <2>12. ASSUME NEW u \in units PROVE Emitted(c, HandshakePkt(c, u))
    <3>1. u \in 1..2 /\ u <= c.out
      BY <1>2, <2>1
    <3> QED
      BY <1>1, <2>6, <3>1, UnitEmitted
  <2>13. Emits(d, out)
    <3>1. Emits(c, out)
      BY <2>12 DEF Emits
    <3> QED
      BY <2>5, <3>1, KeptSent
  <2>14. r = Result(d, out, Failed(c))
    <3>1. [c EXCEPT !.tx = c.out, !.rtb = @ \cup units,
             !.state = IF @ = "SERVER_INITIAL" THEN "SERVER_WAIT_HANDSHAKE" ELSE @] = d
      BY DEF d, g, f, st, R
    <3> QED
      BY <1>4, <3>1 DEF conn_write_handshake, units
  <2> HIDE DEF out
  <2>15. r.conn = d /\ r.out = out /\ r.err = Failed(c)
    BY <2>14 DEF Result
  <2>16. Wrote(c, r)
    BY <2>5, <2>9, <2>11, <2>13, <2>15 DEF Wrote
  <2>17. r.err \in BOOLEAN
    BY <2>15 DEF Failed
  <2> QED
    BY <2>5, <2>6, <2>9, <2>15, <2>16, <2>17
<1> QED
  BY <1>3, <1>4

\* The client's Finished and what it sends again of its 0-RTT data.
LEMMA AlmostWritten ==
    ASSUME NEW c, Conn(c), c.state = "CLIENT_HANDSHAKE_ALMOST_FINISHED",
           NEW r, r = conn_write_almost_finished(c)
    PROVE  /\ Wrote(c, r) /\ r.err \in BOOLEAN /\ ~c.server
           /\ r.conn.state = "POST_HANDSHAKE"
<1> DEFINE q == conn_write_handshake(c)
           f == [q.conn EXCEPT !.state = "POST_HANDSHAKE"]
           R == q.conn.rtb \cup c.early_rtb
           g == [f EXCEPT !.rtb = R]
           d == [g EXCEPT !.early_rtb = {}]
           again == IF c.rejected THEN {Pkt(c, "SHORT", u, {}, FALSE) : u \in c.early_rtb}
                                  ELSE {}
<1> HIDE DEF q
<1>1. /\ Wrote(c, q) /\ q.conn.state = "CLIENT_HANDSHAKE_ALMOST_FINISHED"
      /\ q.conn.early_rtb = c.early_rtb /\ q.conn.app = c.app /\ q.conn.out = c.out
  BY HandshakeWritten DEF q
<1>2. Progress(c) /\ Holds(c) /\ c.server \in BOOLEAN
  BY DEF Conn, Progress
<1>3. ~c.server
  BY <1>2 DEF Holds, ServerStates
<1>4. Kept(c, q.conn) /\ Conn(q.conn) /\ Emits(q.conn, q.out) /\ DOMAIN q.conn = Fields
  BY <1>1 DEF Wrote, Kept
<1>5. Holds(q.conn)
  BY <1>4 DEF Conn
<1> DEFINE k == q.conn
<1> HIDE DEF k
<1>6. /\ DOMAIN f = Fields /\ Kept(k, f) /\ f.state = "POST_HANDSHAKE" /\ f.out = k.out
      /\ f.tx = k.tx /\ f.early_rtb = c.early_rtb /\ f.app = c.app /\ f.rtb = k.rtb
  BY <1>1, <1>4 DEF Kept, Fields, k
<1> HIDE DEF f
<1>7. /\ DOMAIN g = Fields /\ Kept(k, g) /\ g.state = "POST_HANDSHAKE" /\ g.out = k.out
      /\ g.tx = k.tx /\ g.early_rtb = c.early_rtb /\ g.app = c.app /\ g.rtb = R
  BY <1>6 DEF Kept, Fields
<1> HIDE DEF g, R
<1>8. /\ DOMAIN d = Fields /\ Kept(k, d) /\ d.state = "POST_HANDSHAKE" /\ d.out = k.out
      /\ d.tx = k.tx /\ d.early_rtb = {} /\ d.app = c.app /\ d.rtb = R
  BY <1>7 DEF Kept, Fields
<1> HIDE DEF d
<1>9. /\ d.buffed_rx_ppkts = k.buffed_rx_ppkts /\ d.got = k.got /\ d.rx = k.rx
      /\ d.server = k.server /\ ~k.server
  BY <1>3, <1>4, <1>8 DEF Kept, k
<1>10. /\ k.rtb \subseteq (1..k.tx) \cup {3} /\ c.early_rtb \subseteq {3}
       /\ 3 \in k.rtb \cup c.early_rtb => c.app = "sent"
  BY <1>1, <1>5 DEF Holds, k
<1>11. R \subseteq (1..k.tx) \cup {3} /\ (3 \in R => c.app = "sent")
  BY <1>10 DEF R, k
<1>12. /\ k.tx \in 0..2 /\ k.tx <= k.out /\ k.got \subseteq 1..3
       /\ k.buffed_rx_ppkts \in Seq(Waiting)
       /\ Len(k.buffed_rx_ppkts) <= NGTCP2_MAX_NUM_BUFFED_RX_PPKTS
  BY <1>5 DEF Holds, k
<1>13. Holds(d)
  BY <1>8, <1>9, <1>11, <1>12 DEF Holds, ClientStates, Failed
<1>14. Conn(k)
  BY <1>4 DEF k
<1>15. Conn(d)
  BY <1>8, <1>13, <1>14, KeptProgress DEF Conn
<1>16. Kept(c, d)
  BY <1>4, <1>8, KeptAgain DEF k
<1>17. Emits(d, q.out)
  BY <1>4, <1>8, KeptSent DEF k
<1>18. Emits(d, again)
  <2>1. ASSUME NEW u \in c.early_rtb
        PROVE  Emitted(c, Pkt(c, "SHORT", u, {}, FALSE))
    <3>1. u \in 0..3 /\ {} \in SUBSET (1..3) /\ FALSE \in BOOLEAN
      BY <1>10, <2>1
    <3> QED
      BY <1>2, <3>1, ShortEmitted
  <2>2. Emits(c, again)
    BY <2>1 DEF Emits
  <2> QED
    BY <1>16, <2>2, KeptSent
<1>19. r = Result(d, q.out \cup again, ~c.params)
  <2>1. [q.conn EXCEPT !.state = "POST_HANDSHAKE", !.rtb = @ \cup c.early_rtb,
                       !.early_rtb = {}] = d
    BY DEF d, g, R, f
  <2> QED
    BY <2>1 DEF conn_write_almost_finished, q
<1> HIDE DEF again
<1>20. r.conn = d /\ r.out = q.out \cup again /\ r.err = ~c.params
  BY <1>19 DEF Result
<1>21. r.err \in BOOLEAN
  BY <1>20
<1>22. Emits(d, r.out)
  BY <1>17, <1>18, <1>20 DEF Emits
<1> QED
  BY <1>3, <1>8, <1>15, <1>16, <1>20, <1>21, <1>22 DEF Wrote, Over

\* An ACK that joins what was written.
LEMMA AckWritten ==
    ASSUME NEW r, Conn(r.conn), Emits(r.conn, r.out), r.err \in BOOLEAN,
           NEW state, NEW ack,
           (r.conn.server /\ ~r.err /\ state \notin {"CLOSING", "DRAINING", "POST_HANDSHAKE"})
             => r.conn.rx > 0,
           NEW s, s = write_ack_after(state, r, ack)
    PROVE  Wrote(r.conn, s) /\ s.err = r.err /\ s.conn.state = r.conn.state
<1> DEFINE c == r.conn
           x == [c EXCEPT !.state = state]
           post == state = "POST_HANDSHAKE"
           fr == IF post THEN x.got ELSE x.got \cap {1, 2}
           y == [x EXCEPT !.active_ack = FALSE]
           d == [y EXCEPT !.state = c.state]
           e == [x EXCEPT !.state = c.state]
           p == Pkt(x, IF post THEN "SHORT" ELSE "HANDSHAKE", 0, fr, FALSE)
           a == WriteAck(x)
<1>1. Progress(c) /\ Holds(c) /\ DOMAIN c = Fields /\ c.server \in BOOLEAN
  BY DEF Conn, Progress
<1>2. Kept(c, c)
  BY <1>1 DEF Kept
<1> HIDE DEF c
<1>3. CASE ~ack \/ r.err \/ state \in {"CLOSING", "DRAINING"}
  <2>1. s = r
    BY <1>3 DEF write_ack_after
  <2> QED
    BY <1>2, <2>1 DEF Wrote, c
<1>4. CASE ~(~ack \/ r.err \/ state \in {"CLOSING", "DRAINING"})
  <2>1. /\ DOMAIN x = Fields /\ Kept(c, x) /\ x.state = state
        /\ x.tx = c.tx /\ x.out = c.out /\ x.rtb = c.rtb /\ x.app = c.app
        /\ x.early_rtb = c.early_rtb /\ x.got = c.got /\ x.rx = c.rx
    BY <1>1 DEF Kept, Fields
  <2>2. s = Result([a.conn EXCEPT !.state = c.state], r.out \cup a.out, FALSE)
    BY <1>4 DEF write_ack_after, c
  <2>3. post <=> x.state = "POST_HANDSHAKE"
    BY <2>1
  <2>4. Progress(x)
    BY <1>1, <2>1 DEF Progress, Kept
  <2> HIDE DEF x
  <2>5. CASE ~x.active_ack \/ fr = {}
    <3>1. a = Result(x, {}, FALSE)
      BY <2>3, <2>5 DEF WriteAck
    <3>2. a.conn = x /\ a.out = {}
      BY <3>1 DEF Result
    <3>3. /\ DOMAIN e = Fields /\ Kept(x, e) /\ e.state = c.state
          /\ e.tx = c.tx /\ e.out = c.out /\ e.rtb = c.rtb /\ e.app = c.app
          /\ e.early_rtb = c.early_rtb
      BY <2>1 DEF Kept, Fields
    <3> HIDE DEF e, a
    <3>4. s.conn = e /\ s.out = r.out /\ s.err = FALSE
      BY <2>2, <3>2 DEF Result, e
    <3>5. Kept(c, e)
      BY <2>1, <3>3, KeptAgain
    <3>6. Conn(e)
      BY <3>3, <3>5, FewerHeld DEF c
    <3>7. Emits(e, r.out)
      BY <3>5, KeptSent DEF c
    <3> QED
      BY <1>4, <3>3, <3>4, <3>5, <3>6, <3>7 DEF Wrote, c
  <2>6. CASE ~(~x.active_ack \/ fr = {})
    <3>1. a = Result(y, {p}, FALSE)
      BY <2>3, <2>6 DEF WriteAck
    <3>2. a.conn = y /\ a.out = {p}
      BY <3>1 DEF Result
    <3>3. /\ DOMAIN y = Fields /\ Kept(x, y)
          /\ y.tx = c.tx /\ y.out = c.out /\ y.rtb = c.rtb /\ y.app = c.app
          /\ y.early_rtb = c.early_rtb
      BY <2>1 DEF Kept, Fields
    <3>4. Emitted(x, p)
      <4>1. fr \in SUBSET (1..3)
        BY <1>1, <2>1 DEF Holds
      <4>2. 0 \in 0..3 /\ FALSE \in BOOLEAN
        OBVIOUS
      <4> HIDE DEF fr
      <4>3. CASE post
        <5>1. p = Pkt(x, "SHORT", 0, fr, FALSE)
          BY <4>3
        <5> QED
          BY <2>4, <4>1, <4>2, <5>1, ShortEmitted
      <4>4. CASE ~post
        <5>1. p = Pkt(x, "HANDSHAKE", 0, fr, FALSE)
          BY <4>4
        <5>2. x.server => x.rx > 0
          BY <1>4, <2>1, <4>4 DEF Kept, c
        <5> QED
          BY <2>4, <4>1, <4>2, <5>1, <5>2, AckEmitted
      <4> QED
        BY <4>3, <4>4
    <3> HIDE DEF y, a, p
    <3>5. /\ DOMAIN d = Fields /\ Kept(y, d) /\ d.state = c.state
          /\ d.tx = c.tx /\ d.out = c.out /\ d.rtb = c.rtb /\ d.app = c.app
          /\ d.early_rtb = c.early_rtb
      BY <3>3 DEF Kept, Fields
    <3> HIDE DEF d
    <3>6. s.conn = d /\ s.out = r.out \cup {p} /\ s.err = FALSE
      BY <2>2, <3>2 DEF Result, d
    <3>7. Kept(x, d) /\ Kept(c, d)
      BY <2>1, <3>3, <3>5, KeptAgain
    <3>8. Conn(d)
      BY <3>5, <3>7, FewerHeld DEF c
    <3>9. Emits(d, r.out)
      BY <3>7, KeptSent DEF c
    <3>10. Emits(d, {p})
      <4>1. Emits(x, {p})
        BY <3>4 DEF Emits
      <4> QED
        BY <3>7, <4>1, KeptSent
    <3>11. Emits(d, s.out)
      BY <3>6, <3>9, <3>10 DEF Emits
    <3> QED
      BY <1>4, <3>5, <3>6, <3>7, <3>8, <3>11 DEF Wrote, c
  <2> QED
    BY <2>5, <2>6
<1> QED
  BY <1>3, <1>4

\* What holds of a write holds of a second one after it.
LEMMA WroteAgain ==
    ASSUME NEW c, NEW r, NEW s, Wrote(c, r), Wrote(r.conn, s)
    PROVE  /\ Wrote(c, s) /\ Emits(s.conn, r.out)
           /\ Emits(s.conn, r.out \cup s.out)
<1>1. Kept(c, s.conn)
  BY KeptAgain DEF Wrote
<1>2. Emits(s.conn, r.out)
  BY KeptSent DEF Wrote
<1>3. Emits(s.conn, r.out \cup s.out)
  BY <1>2 DEF Emits, Wrote
<1> QED
  BY <1>1, <1>2, <1>3 DEF Wrote

\* Two calls, one after the other.
LEMMA WroteAfter ==
    ASSUME NEW c, NEW r, NEW s, Wrote(c, r), Wrote(r.conn, s),
           NEW t, t = After(r, s)
    PROVE  Wrote(c, t) /\ t.conn = s.conn /\ t.err = s.err
<1>1. t.conn = s.conn /\ t.out = r.out \cup s.out /\ t.err = s.err
  BY DEF After, Result
<1>2. Wrote(c, s) /\ Emits(s.conn, r.out \cup s.out)
  BY WroteAgain
<1> QED
  BY <1>1, <1>2 DEF Wrote

\* A write that finds nothing to send is a write.
LEMMA NothingWritten ==
    ASSUME NEW c, Conn(c), NEW err, NEW r, r = Result(c, {}, err)
    PROVE  Wrote(c, r) /\ r.err = err /\ r.conn = c
<1>1. DOMAIN c = Fields
  BY DEF Conn, Progress
<1>2. Kept(c, c)
  BY <1>1 DEF Kept
<1> QED
  BY <1>2 DEF Result, Wrote, Emits

\* ngtcp2_conn_write_pkt until it has nothing left.
LEMMA PktWritten ==
    ASSUME NEW c, Conn(c), NEW ack, NEW s, s = conn_write_pkt(c, ack)
    PROVE  /\ Wrote(c, s) /\ s.err \in BOOLEAN
           /\ s.conn.state # "CLIENT_INITIAL"
           /\ c.state = "CLIENT_INITIAL" => s.err = FALSE
<1>1. Progress(c) /\ Holds(c) /\ c.server \in BOOLEAN
  BY DEF Conn, Progress
<1> DEFINE Good(r) == /\ Wrote(c, r) /\ r.err \in BOOLEAN
                      /\ r.conn.state # "CLIENT_INITIAL"
                      /\ c.state = "CLIENT_INITIAL" => r.err = FALSE
                      /\ (c.server /\ ~r.err /\ c.state \notin
                           {"CLOSING", "DRAINING", "POST_HANDSHAKE"}) => c.rx > 0
<1>2. ASSUME NEW r, Good(r), s = write_ack_after(c.state, r, ack)
      PROVE  /\ Wrote(c, s) /\ s.err \in BOOLEAN
             /\ s.conn.state # "CLIENT_INITIAL"
             /\ c.state = "CLIENT_INITIAL" => s.err = FALSE
  <2>1. Conn(r.conn) /\ Emits(r.conn, r.out) /\ r.err \in BOOLEAN
    BY <1>2 DEF Wrote
  <2>2. (r.conn.server /\ ~r.err /\ c.state \notin {"CLOSING", "DRAINING", "POST_HANDSHAKE"})
             => r.conn.rx > 0
    BY <1>2 DEF Wrote, Kept
  <2>3. Wrote(r.conn, s) /\ s.err = r.err /\ s.conn.state = r.conn.state
    BY <1>2, <2>1, <2>2, AckWritten
  <2>4. Wrote(c, s)
    BY <1>2, <2>3, WroteAgain
  <2> QED
    BY <1>2, <2>3, <2>4
<1>3. CASE c.state = "CLIENT_INITIAL"
  <2> DEFINE r == conn_write_client_initial(c)
  <2> HIDE DEF r
  <2>1. ~c.server
    BY <1>1, <1>3 DEF Holds, ServerStates
  <2>2. Wrote(c, r) /\ r.err = FALSE /\ r.conn.state = "CLIENT_WAIT_HANDSHAKE"
    BY <1>3, <2>1, InitialWritten DEF r
  <2>3. s = write_ack_after(c.state, r, ack)
    BY <1>3 DEF conn_write_pkt, r
  <2> QED
    BY <1>2, <2>1, <2>2, <2>3
<1>4. CASE c.state = "CLIENT_HANDSHAKE_ALMOST_FINISHED"
  <2> DEFINE r == conn_write_almost_finished(c)
  <2> HIDE DEF r
  <2>1. Wrote(c, r) /\ r.err \in BOOLEAN /\ ~c.server /\ r.conn.state # "CLIENT_INITIAL"
    BY <1>4, AlmostWritten DEF r
  <2>2. s = write_ack_after(c.state, r, ack)
    BY <1>4 DEF conn_write_pkt, r
  <2> QED
    BY <1>2, <1>4, <2>1, <2>2
<1>5. CASE c.state \in {"POST_HANDSHAKE", "CLOSING", "DRAINING"}
  <2> DEFINE r == Result(c, {}, FALSE)
  <2> HIDE DEF r
  <2>1. Wrote(c, r) /\ r.err = FALSE /\ r.conn = c
    BY NothingWritten DEF r
  <2>2. s = write_ack_after(c.state, r, ack)
    BY <1>5 DEF conn_write_pkt, r
  <2> QED
    BY <1>2, <1>5, <2>1, <2>2
<1>6. CASE c.state \notin {"CLIENT_INITIAL", "CLIENT_HANDSHAKE_ALMOST_FINISHED",
                           "POST_HANDSHAKE", "CLOSING", "DRAINING"}
  <2> DEFINE r == conn_write_handshake(c)
  <2> HIDE DEF r
  <2>1. /\ Wrote(c, r) /\ r.err \in BOOLEAN
        /\ c.server /\ ~r.err => c.rx > 0
        /\ r.conn.state = IF c.state = "SERVER_INITIAL" /\ c.tx < c.out
                          THEN "SERVER_WAIT_HANDSHAKE" ELSE c.state
    BY <1>6, HandshakeWritten DEF r
  <2>2. s = write_ack_after(c.state, r, ack)
    BY <1>6 DEF conn_write_pkt, r
  <2> QED
    BY <1>2, <1>6, <2>1, <2>2
<1> QED
  BY <1>3, <1>4, <1>5, <1>6

\* The application's unit is in a packet that is sent again until it is
\* acknowledged.
LEMMA StreamWritten ==
    ASSUME NEW c, Conn(c), c.state # "CLIENT_INITIAL",
           NEW r, r = conn_write_stream(c)
    PROVE  Wrote(c, r) /\ r.err = FALSE /\ r.conn.state = c.state
<1>1. Progress(c) /\ Holds(c) /\ c.server \in BOOLEAN /\ DOMAIN c = Fields
      /\ c.conn_id \in 0..MaxConn
  BY DEF Conn, Progress
<1>2. ASSUME NEW d, Kept(c, d), d.state = c.state, d.tx = c.tx, d.out = c.out,
             d.app = "sent", d.rtb \subseteq c.rtb \cup {3},
             d.early_rtb \subseteq c.early_rtb \cup {3}
      PROVE  Conn(d)
  <2>1. Holds(d)
    BY <1>1, <1>2 DEF Holds, Kept, Failed
  <2> QED
    BY <1>2, <2>1, KeptProgress DEF Conn
<1> DEFINE f == [c EXCEPT !.app = "sent"]
<1>3. /\ DOMAIN f = Fields /\ Kept(c, f) /\ f.state = c.state /\ f.tx = c.tx
      /\ f.out = c.out /\ f.app = "sent" /\ f.rtb = c.rtb /\ f.early_rtb = c.early_rtb
  BY <1>1 DEF Kept, Fields
<1>4. 3 \in 0..3 /\ {} \in SUBSET (1..3) /\ FALSE \in BOOLEAN
  OBVIOUS
<1>5. CASE c.app = "queued" /\ c.tx_ckm
  <2> DEFINE d == [f EXCEPT !.rtb = f.rtb \cup {3}]
             p == Pkt(c, "SHORT", 3, {}, FALSE)
  <2> HIDE DEF f
  <2>1. /\ Kept(f, d) /\ d.state = c.state /\ d.tx = c.tx /\ d.out = c.out
        /\ d.app = "sent" /\ d.rtb = c.rtb \cup {3} /\ d.early_rtb = c.early_rtb
    BY <1>3 DEF Kept, Fields
  <2>2. [c EXCEPT !.app = "sent", !.rtb = @ \cup {3}] = d
    BY DEF f
  <2> HIDE DEF d, p
  <2>3. r = Result(d, {p}, FALSE)
    BY <1>5, <2>2 DEF conn_write_stream, p
  <2>4. Kept(c, d)
    BY <1>3, <2>1, KeptAgain
  <2>5. Emitted(c, p)
    BY <1>1, <1>4, ShortEmitted DEF p
  <2>6. Emits(c, {p})
    BY <2>5 DEF Emits
  <2> QED
    BY <1>2, <2>1, <2>3, <2>4, <2>6, KeptSent DEF Result, Wrote
<1>6. CASE c.app = "queued" /\ ~c.tx_ckm /\ c.early_ckm /\ ~c.server /\ ~c.rejected
  <2> DEFINE d == [f EXCEPT !.early_rtb = f.early_rtb \cup {3}]
             p == Pkt(c, "0RTT", 3, {}, FALSE)
  <2> HIDE DEF f
  <2>1. /\ Kept(f, d) /\ d.state = c.state /\ d.tx = c.tx /\ d.out = c.out
        /\ d.app = "sent" /\ d.rtb = c.rtb /\ d.early_rtb = c.early_rtb \cup {3}
    BY <1>3 DEF Kept, Fields
  <2>2. [c EXCEPT !.app = "sent", !.early_rtb = @ \cup {3}] = d
    BY DEF f
  <2> HIDE DEF d, p
  <2>3. r = Result(d, {p}, FALSE)
    BY <1>6, <2>2 DEF conn_write_stream, p
  <2>4. Kept(c, d)
    BY <1>3, <2>1, KeptAgain
  <2>6. Emitted(c, p)
    BY <1>1, <1>4, <1>6, EarlyEmitted DEF p
  <2>7. Emits(c, {p})
    BY <2>6 DEF Emits
  <2> QED
    BY <1>2, <2>1, <2>3, <2>4, <2>7, KeptSent DEF Result, Wrote
<1>7. CASE ~(c.app = "queued" /\ (c.tx_ckm \/ (c.early_ckm /\ ~c.server /\ ~c.rejected)))
  <2>1. r = Result(c, {}, FALSE)
    BY <1>7 DEF conn_write_stream
  <2>2. Wrote(c, r) /\ r.err = FALSE /\ r.conn = c
    BY <2>1, NothingWritten
  <2> QED
    BY <2>2
<1> QED
  BY <1>5, <1>6, <1>7

\* on_write of either side.
LEMMA OnWrite ==
    ASSUME NEW c, Conn(c), NEW expired, expired \subseteq c.rtb,
           NEW dead \in BOOLEAN, NEW ack, NEW s, s = on_write(c, expired, dead, ack)
    PROVE  /\ Wrote(c, s) /\ s.err \in BOOLEAN
           /\ c.state = "CLIENT_INITIAL" => s.err = dead
           /\ ~dead \/ c.state # "CLIENT_INITIAL" => s.conn.state # "CLIENT_INITIAL"
<1>1. CASE c.server /\ c.state = "CLOSING"
  <2>1. s = Result(c, {}, FALSE)
    BY <1>1 DEF on_write
  <2>2. Wrote(c, s) /\ s.err = FALSE /\ s.conn = c
    BY <2>1, NothingWritten
  <2> QED
    BY <1>1, <2>2
<1>2. CASE ~(c.server /\ c.state = "CLOSING") /\ dead
  <2> DEFINE R == c.rtb \ expired
             d == [c EXCEPT !.rtb = R]
  <2>1. DOMAIN c = Fields
    BY DEF Conn, Progress
  <2> HIDE DEF R
  <2>2. Kept(c, d) /\ d.state = c.state /\ d.tx = c.tx /\ d.out = c.out
        /\ d.app = c.app /\ d.rtb = R /\ d.early_rtb = c.early_rtb
    BY <2>1 DEF Kept, Fields
  <2>3. R \subseteq c.rtb
    BY DEF R
  <2> HIDE DEF d
  <2>4. Conn(d)
    BY <2>2, <2>3, FewerHeld
  <2>5. s = Result(d, {}, TRUE)
    BY <1>2 DEF on_write, d, R
  <2>6. Wrote(c, s) /\ s.err = TRUE /\ s.conn = d
    BY <2>2, <2>4, <2>5 DEF Wrote, Result, Emits
  <2> QED
    BY <1>2, <2>2, <2>6
<1>3. CASE ~(c.server /\ c.state = "CLOSING") /\ ~dead
  <2> DEFINE r == conn_retransmit(c, expired)
             q == conn_write_pkt(r.conn, ack)
             t == After(r, q)
             w == conn_write_stream(t.conn)
  <2> HIDE DEF r, q, t, w
  <2>1. s = IF t.err THEN t ELSE After(t, w)
    BY <1>3 DEF on_write, write_stream_after, write_pkt_after, r, q, t, w
  <2>2. Wrote(c, r) /\ r.err = FALSE /\ r.conn.state = c.state
    BY Retransmitted DEF r
  <2>3. /\ Wrote(r.conn, q) /\ q.err \in BOOLEAN
        /\ q.conn.state # "CLIENT_INITIAL"
        /\ c.state = "CLIENT_INITIAL" => q.err = FALSE
    <3>1. Conn(r.conn)
      BY <2>2 DEF Wrote
    <3> QED
      BY <2>2, <3>1, PktWritten DEF q
  <2>4. Wrote(c, t) /\ t.conn = q.conn /\ t.err = q.err
    BY <2>2, <2>3, WroteAfter DEF t
  <2>5. CASE t.err
    BY <1>3, <2>1, <2>3, <2>4, <2>5
  <2>6. CASE ~t.err
    <3>1. Conn(t.conn)
      BY <2>4 DEF Wrote
    <3>2. Wrote(t.conn, w) /\ w.err = FALSE /\ w.conn.state = t.conn.state
      BY <2>3, <2>4, <3>1, StreamWritten DEF w
    <3>3. s = After(t, w)
      BY <2>1, <2>6
    <3>4. Wrote(c, s) /\ s.conn = w.conn /\ s.err = w.err
      BY <2>4, <3>2, <3>3, WroteAfter
    <3> QED
      BY <1>3, <2>3, <2>4, <3>2, <3>4
  <2> QED
    BY <2>5, <2>6
<1> QED
  BY <1>1, <1>2, <1>3

\* CONNECTION_CLOSE.
LEMMA ErrorHandled ==
    ASSUME NEW c, Conn(c), NEW r, r = handle_error(c)
    PROVE  /\ Wrote(c, r) /\ r.err \in BOOLEAN
           /\ c.state # "CLIENT_INITIAL" => r.conn.state # "CLIENT_INITIAL"
<1>1. Progress(c) /\ Holds(c) /\ c.server \in BOOLEAN /\ DOMAIN c = Fields
  BY DEF Conn, Progress
<1>2. CASE c.state \in {"POST_HANDSHAKE", "CLOSING"}
  <2> DEFINE d == [c EXCEPT !.state = "CLOSING"]
             p == Pkt(c, "SHORT", 0, {}, TRUE)
  <2>1. /\ Kept(c, d) /\ d.state = "CLOSING" /\ d.tx = c.tx /\ d.out = c.out
        /\ d.app = c.app /\ d.rtb = c.rtb /\ d.early_rtb = c.early_rtb
    BY <1>1 DEF Kept, Fields
  <2>2. r = Result(d, {p}, FALSE)
    BY <1>2 DEF handle_error
  <2> HIDE DEF d, p
  <2>3. Holds(d)
    BY <1>1, <1>2, <2>1 DEF Holds, Kept, Failed, ServerStates, ClientStates
  <2>4. Conn(d)
    BY <2>1, <2>3, KeptProgress DEF Conn
  <2>5. 0 \in 0..3 /\ {} \in SUBSET (1..3) /\ TRUE \in BOOLEAN
    OBVIOUS
  <2>6. Emitted(c, p)
    BY <1>1, <2>5, ShortEmitted DEF p
  <2>7. Emits(c, {p})
    BY <2>6 DEF Emits
  <2>8. Emits(d, {p})
    BY <2>1, <2>7, KeptSent
  <2> QED
    BY <2>1, <2>2, <2>4, <2>8 DEF Result, Wrote, Over
<1>3. CASE c.state \notin {"POST_HANDSHAKE", "CLOSING"}
  <2>1. r = Result(c, {}, TRUE)
    BY <1>3 DEF handle_error
  <2>2. Wrote(c, r) /\ r.err = TRUE /\ r.conn = c
    BY <2>1, NothingWritten
  <2> QED
    BY <2>2
<1> QED
  BY <1>2, <1>3

---------------------------------------------------------------------------
(* Receiving.                                                              *)

(* What may come to connection c.                                          *)
Comes(c, p) ==
    /\ p \in Packet
    /\ IF c.server
       THEN /\ p.type # "VN"
            /\ p.type \in {"INITIAL", "HANDSHAKE"} =>
                 p.unit # 3 /\ (p.unit = 2 => p.type = "HANDSHAKE")
            /\ (p.type = "HANDSHAKE" /\ p.unit = 2 /\ p.cid = c.conn_id) =>
                 /\ c.rx > 0
                 /\ ~p.alert => /\ ep[client].completed
                                /\ ep[client].conn_id = c.conn_id
       ELSE \/ p.type = "VN" /\ ~env.known
            \/ /\ env.known /\ p.cid # 0 /\ p.type \in {"HANDSHAKE", "SHORT"}
               /\ p.type = "HANDSHAKE" => p.unit # 3 /\ Answered(p.cid)

(* What a packet that TLS has no part in leaves alone.                     *)
Took(c, d) ==
    /\ DOMAIN d = Fields
    /\ d.server = c.server /\ d.conn_id = c.conn_id
    /\ d.rx = c.rx /\ d.rob = c.rob /\ d.from = c.from
    /\ d.completed = c.completed /\ d.negotiated = c.negotiated
    /\ d.alert = c.alert /\ d.gone = c.gone
    /\ d.out = c.out /\ d.tx = c.tx /\ d.early_rtb = c.early_rtb
    /\ d.buffed_rx_ppkts = c.buffed_rx_ppkts
    /\ d.rtb \subseteq c.rtb
    /\ c.got \subseteq 1..3 => d.got \subseteq 1..3
    /\ d.app = c.app \/ c.app = "none"
    /\ d.state = c.state \/ d.state = "DRAINING"

(* d is c, at the same time or later.                                      *)
Later(c, d) ==
    /\ d.server = c.server /\ d.gone = c.gone /\ c.rx <= d.rx
    /\ c.completed => d.completed
    /\ c.negotiated => d.negotiated /\ d.conn_id = c.conn_id
    /\ c.server => d.conn_id = c.conn_id

\* Two packets in turn leave alone what each of them does.
LEMMA TookAgain ==
    ASSUME NEW a, NEW b, NEW c, Took(a, b), Took(b, c)
    PROVE  Took(a, c)
<1>1. c.rtb \subseteq a.rtb
  BY DEF Took
<1>2. a.got \subseteq 1..3 => c.got \subseteq 1..3
  BY DEF Took
<1> QED
  BY <1>1, <1>2 DEF Took

\* A connection that has taken such a packet is still one.
LEMMA TookConn ==
    ASSUME NEW c, Conn(c), NEW d, Took(c, d)
    PROVE  Conn(d) /\ Later(c, d)
<1>1. /\ Progress(c) /\ Holds(c)
      /\ c.server => HandlerProgress(c)
      /\ ~c.server => ClientProgress(c)
  BY DEF Conn
<1>2. Progress(d)
  BY <1>1 DEF Progress, Took
<1>3. d.server => HandlerProgress(d)
  BY <1>1 DEF HandlerProgress, Took
<1>4. ~d.server => ClientProgress(d)
  BY <1>1 DEF ClientProgress, Took
<1>5. Holds(d)
  <2>1. d.state \in IF d.server THEN ServerStates ELSE ClientStates
    BY <1>1 DEF Holds, Took, ServerStates, ClientStates
  <2>2. 3 \in d.rtb \cup d.early_rtb => d.app = "sent"
    BY <1>1 DEF Holds, Took
  <2>3. Failed(d) => Failed(c)
    BY DEF Took, Failed
  <2> QED
    BY <1>1, <2>1, <2>2, <2>3 DEF Holds, Took
<1>6. c.rx <= d.rx
  BY <1>1 DEF Progress, Took
<1> QED
  BY <1>2, <1>3, <1>4, <1>5, <1>6 DEF Conn, Later, Took

\* The ACK frame of a packet and its acknowledgement.
LEMMA AckTaken ==
    ASSUME NEW c, DOMAIN c = Fields, NEW p \in Packet, NEW b \in BOOLEAN
    PROVE  Took(c, recv_ack(c, p, b)) /\ Took(c, sched_ack(c, p))
<1>0. Took(c, c)
  BY DEF Took
<1>1. Took(c, recv_ack(c, p, b))
  <2> DEFINE R == c.rtb \ (IF b THEN p.ack \cap {1, 2} ELSE p.ack)
             d == [c EXCEPT !.rtb = R]
  <2>1. R \subseteq c.rtb
    OBVIOUS
  <2>2. recv_ack(c, p, b) = d
    BY DEF recv_ack
  <2> HIDE DEF R
  <2>3. Took(c, d)
    BY <2>1 DEF Took, Fields
  <2> QED
    BY <2>2, <2>3
<1>2. Took(c, sched_ack(c, p))
  <2>1. CASE p.unit = 0
    BY <1>0, <2>1 DEF sched_ack
  <2>2. CASE p.unit # 0
    <3> DEFINE G == c.got \cup {p.unit}
               f == [c EXCEPT !.got = G]
               d == [f EXCEPT !.active_ack = TRUE]
    <3>1. c.got \subseteq 1..3 => G \subseteq 1..3
      BY <2>2 DEF Packet
    <3> HIDE DEF G
    <3>2. Took(c, f)
      BY <3>1 DEF Took, Fields
    <3>3. DOMAIN f = Fields
      BY DEF Fields
    <3>4. [c EXCEPT !.got = @ \cup {p.unit}, !.active_ack = TRUE] = d
      BY DEF G
    <3> HIDE DEF f
    <3>5. Took(f, d)
      BY <3>3 DEF Took, Fields
    <3>6. sched_ack(c, p) = d
      BY <2>2, <3>4 DEF sched_ack
    <3> QED
      BY <3>2, <3>5, <3>6, TookAgain
  <2> QED
    BY <2>1, <2>2
<1> QED
  BY <1>1, <1>2

\* A protected packet is never an error, and changes nothing of the handshake.
LEMMA ProtectedTaken ==
    ASSUME NEW c, DOMAIN c = Fields, NEW p \in Packet,
           p.type \notin {"INITIAL", "HANDSHAKE"},
           NEW r, r = conn_recv_pkt(c, p)
    PROVE  Took(c, r.conn) /\ r = Result(r.conn, {}, FALSE)
<1> DEFINE a == IF p.type = "SHORT" THEN [c EXCEPT !.recv_protected = TRUE] ELSE c
           k == recv_ack(a, p, FALSE)
           b == sched_ack(k, p)
           d == IF p.unit = 3 /\ c.server /\ c.app = "none"
                THEN [b EXCEPT !.app = "queued"] ELSE b
           e == IF p.cc THEN [d EXCEPT !.state = "DRAINING"] ELSE d
<1>2. Took(c, c)
  BY DEF Took
<1>3. Took(c, a) /\ DOMAIN a = Fields /\ a.app = c.app
  BY DEF Took, Fields
<1> HIDE DEF a
<1>4. Took(a, k) /\ DOMAIN k = Fields
  <2>1. Took(a, k)
    BY <1>3, AckTaken
  <2> QED
    BY <2>1 DEF Took
<1>5. k.app = a.app
  BY <1>3 DEF recv_ack, Fields
<1> HIDE DEF k
<1>6. Took(k, b) /\ DOMAIN b = Fields
  <2>1. Took(k, b)
    BY <1>4, AckTaken
  <2> QED
    BY <2>1 DEF Took
<1>7. b.app = k.app
  BY <1>4 DEF sched_ack, Fields
<1> HIDE DEF b
<1>8. Took(b, d) /\ DOMAIN d = Fields
  BY <1>3, <1>5, <1>6, <1>7 DEF Took, Fields
<1> HIDE DEF d
<1>9. Took(d, e)
  BY <1>8 DEF Took, Fields
<1>10. Took(c, e)
  BY <1>3, <1>4, <1>6, <1>8, <1>9, TookAgain
<1> HIDE DEF e
<1>11. \/ r = Result(c, {}, FALSE) \/ r = Result(a, {}, FALSE)
       \/ r = Result(e, {}, FALSE)
  BY DEF conn_recv_pkt, e, d, b, k, a
<1> QED
  BY <1>2, <1>3, <1>10, <1>11 DEF Result

\* A packet of the handshake after it.
LEMMA DelayedTaken ==
    ASSUME NEW c, DOMAIN c = Fields, NEW p \in Packet,
           NEW r, r = recv_delayed_handshake(c, p)
    PROVE  Took(c, r.conn) /\ r.out = {} /\ r.err \in BOOLEAN /\ DOMAIN r = Shape
<1> DEFINE k == recv_ack(c, p, TRUE)
           d == sched_ack(k, p)
<1>1. Took(c, c)
  BY DEF Took
<1>2. TRUE \in BOOLEAN
  OBVIOUS
<1>3. Took(c, k)
  BY <1>2, AckTaken
<1> HIDE DEF k
<1>4. DOMAIN k = Fields
  BY <1>3 DEF Took
<1>5. Took(k, d)
  BY <1>2, <1>4, AckTaken
<1>6. Took(c, d)
  BY <1>3, <1>5, TookAgain
<1> HIDE DEF d
<1>7. \/ r = Result(c, {}, FALSE) \/ r = Result(c, {}, TRUE)
      \/ r = Result(d, {}, FALSE)
  BY DEF recv_delayed_handshake, d, k
<1>8. (r.conn = c \/ r.conn = d) /\ r.out = {} /\ (r.err = FALSE \/ r.err = TRUE)
      /\ DOMAIN r = Shape
  BY <1>7 DEF Result, Shape
<1> QED
  BY <1>1, <1>6, <1>8

(* The values that fields of c may get when protected packets come.        *)
Values(c) == {c[f] : f \in Fields} \cup (SUBSET c.rtb) \cup (SUBSET (1..3))
               \cup BOOLEAN \cup {"queued", "DRAINING"}

Reached(c) == {d \in {c} \cup [Fields -> Values(c)] : Took(c, d)}

Results(c) == {Result(d, {}, FALSE) : d \in Reached(c)}

\* One field more has changed.
LEMMA ReachedMore ==
    ASSUME NEW c, DOMAIN c = Fields, NEW d \in {c} \cup [Fields -> Values(c)],
           NEW f \in Fields, NEW v \in Values(c)
    PROVE  [d EXCEPT ![f] = v] \in {c} \cup [Fields -> Values(c)]
<1>1. DOMAIN d = Fields
  OBVIOUS
<1>2. \A g \in Fields : d[g] \in Values(c)
  BY DEF Values
<1> QED
  BY <1>1, <1>2

\* One waiting packet more is taken.
LEMMA ReachedStep ==
    ASSUME NEW c, DOMAIN c = Fields, c.got \subseteq 1..3, NEW x \in Reached(c),
           NEW p \in Waiting, NEW r, r = conn_recv_pkt(x, p)
    PROVE  r \in Results(c)
<1> DEFINE D == {c} \cup [Fields -> Values(c)]
           a == IF p.type = "SHORT" THEN [x EXCEPT !.recv_protected = TRUE] ELSE x
           R == a.rtb \ p.ack
           k == [a EXCEPT !.rtb = R]
           G == k.got \cup {p.unit}
           g == [k EXCEPT !.got = G]
           h == [g EXCEPT !.active_ack = TRUE]
           b == IF p.unit = 0 THEN k ELSE h
           d == IF p.unit = 3 /\ x.server /\ x.app = "none"
                THEN [b EXCEPT !.app = "queued"] ELSE b
           e == IF p.cc THEN [d EXCEPT !.state = "DRAINING"] ELSE d
<1>0. /\ TRUE \in Values(c) /\ "queued" \in Values(c) /\ "DRAINING" \in Values(c)
      /\ (SUBSET (1..3)) \subseteq Values(c) /\ (SUBSET c.rtb) \subseteq Values(c)
  <2> DEFINE own == {c[f] : f \in Fields}
  <2> HIDE DEF own
  <2>1. Values(c) = own \cup (SUBSET c.rtb) \cup (SUBSET (1..3)) \cup BOOLEAN
                      \cup {"queued", "DRAINING"}
    BY DEF Values, own
  <2>2. BOOLEAN \subseteq Values(c)
    BY <2>1
  <2>3. TRUE \in Values(c)
    BY <2>2, Zenon
  <2>4. "queued" \in Values(c) /\ "DRAINING" \in Values(c)
    BY <2>1
  <2>5. (SUBSET (1..3)) \subseteq Values(c) /\ (SUBSET c.rtb) \subseteq Values(c)
    BY <2>1
  <2> QED
    BY <2>3, <2>4, <2>5
<1>1. /\ x \in D /\ Took(c, x) /\ DOMAIN x = Fields
      /\ x.rtb \subseteq c.rtb /\ x.got \subseteq 1..3
  BY DEF Reached, Took
<1>2. p \in Packet /\ p.type \in {"SHORT", "0RTT"} /\ p.unit \in 0..3
  BY DEF Waiting, Packet
<1>3. Took(x, r.conn) /\ r = Result(r.conn, {}, FALSE)
  BY <1>1, <1>2, ProtectedTaken
<1>4. Took(c, r.conn)
  BY <1>1, <1>3, TookAgain
<1> HIDE DEF D
<1>5. ASSUME NEW y \in D, NEW f \in Fields, NEW v \in Values(c)
      PROVE  [y EXCEPT ![f] = v] \in D
  BY <1>5, ReachedMore DEF D
<1>6. a \in D /\ DOMAIN a = Fields /\ a.rtb = x.rtb /\ a.got = x.got
  <2>1. "recv_protected" \in Fields /\ TRUE \in Values(c)
    BY <1>0 DEF Fields
  <2>2. [x EXCEPT !.recv_protected = TRUE] \in D
    BY <1>1, <1>5, <2>1
  <2> QED
    BY <1>1, <2>2 DEF Fields
<1> HIDE DEF a
<1>7. k \in D /\ DOMAIN k = Fields /\ k.got = x.got
  <2>1. "rtb" \in Fields /\ R \in Values(c)
    BY <1>0, <1>1, <1>6 DEF Fields
  <2> HIDE DEF R
  <2>2. k \in D
    BY <1>5, <1>6, <2>1
  <2> QED
    BY <1>6, <2>2 DEF Fields
<1>8. recv_ack(a, p, FALSE) = k
  BY DEF recv_ack
<1> HIDE DEF k
<1>9. ASSUME p.unit # 0 PROVE h \in D /\ DOMAIN h = Fields
  <2>1. "got" \in Fields /\ G \in SUBSET (1..3)
    BY <1>1, <1>2, <1>7, <1>9 DEF Fields
  <2>2. G \in Values(c)
    BY <1>0, <2>1
  <2> HIDE DEF G
  <2>3. g \in D
    BY <1>5, <1>7, <2>1, <2>2
  <2>4. "active_ack" \in Fields /\ TRUE \in Values(c)
    BY <1>0 DEF Fields
  <2> HIDE DEF g
  <2>5. h \in D
    BY <1>5, <2>3, <2>4
  <2>6. DOMAIN h = Fields
    BY <1>7 DEF g
  <2> QED
    BY <2>5, <2>6
<1>10. b \in D /\ DOMAIN b = Fields
  BY <1>7, <1>9
<1>11. sched_ack(k, p) = b
  BY DEF sched_ack
<1> HIDE DEF b
<1>12. d \in D /\ DOMAIN d = Fields
  <2>1. "app" \in Fields /\ "queued" \in Values(c)
    BY <1>0 DEF Fields
  <2>2. [b EXCEPT !.app = "queued"] \in D
    BY <1>5, <1>10, <2>1
  <2> QED
    BY <1>10, <2>2
<1> HIDE DEF d
<1>13. e \in D
  <2>1. "state" \in Fields /\ "DRAINING" \in Values(c)
    BY <1>0 DEF Fields
  <2>2. [d EXCEPT !.state = "DRAINING"] \in D
    BY <1>5, <1>12, <2>1
  <2> QED
    BY <1>12, <2>2
<1> HIDE DEF e
<1>14. \/ r = Result(x, {}, FALSE) \/ r = Result(a, {}, FALSE)
       \/ r = Result(e, {}, FALSE)
  BY <1>2, <1>8, <1>11 DEF conn_recv_pkt, e, d, a
<1>15. r.conn = x \/ r.conn = a \/ r.conn = e
  BY <1>14 DEF Result
<1>16. r.conn \in D
  BY <1>1, <1>6, <1>13, <1>15
<1>17. r.conn \in Reached(c)
  BY <1>4, <1>16 DEF Reached, D
<1> QED
  BY <1>3, <1>17 DEF Results

\* Packets that waited are taken in without an error, and none is left.
LEMMA BufferedTaken ==
    ASSUME NEW c, Conn(c), NEW r, r = process_buffered(c)
    PROVE  /\ Conn(r.conn) /\ Later(c, r.conn) /\ r.out = {} /\ r.err = FALSE
           /\ DOMAIN r = Shape /\ r.conn.buffed_rx_ppkts = << >>
           /\ r.conn.state = c.state \/ r.conn.state = "DRAINING"
<1> DEFINE q == c.buffed_rx_ppkts
           R == DOMAIN q
           base == Result(c, {}, FALSE)
           Step(a, x) == IF a.err THEN a ELSE conn_recv_pkt(a.conn, x)
           Eq(it) == it = [s \in SUBSET R |-> IF s = {} THEN base
                             ELSE Step(it[s \ {Max(s)}], q[Max(s)])]
           last == (CHOOSE it : Eq(it))[R]
           A == Results(c)
           ch == [s \in SUBSET R |-> Max(s)]
           step == [z \in R \X A |-> Step(z[2], q[z[1]])]
<1>1. /\ DOMAIN c = Fields /\ c.got \subseteq 1..3 /\ q \in Seq(Waiting)
  BY DEF Conn, Progress, Holds
<1>2. r = IF last.err THEN last
          ELSE Result([last.conn EXCEPT !.buffed_rx_ppkts = << >>], {}, FALSE)
  BY DEF process_buffered, FoldLeft, MapThenFoldSet
<1>3. R = 1..Len(q) /\ Len(q) \in Nat
  BY <1>1
<1>4. IsFiniteSet(R)
  BY <1>3, FS_Interval
<1>5. ASSUME NEW s \in SUBSET R, s # {} PROVE ch[s] = Max(s) /\ Max(s) \in s
  BY <1>3, <1>5, LastOfSome
<1>6. base \in A
  <2>1. Took(c, c)
    BY <1>1 DEF Took
  <2> QED
    BY <2>1 DEF Results, Reached
<1>7. ASSUME NEW a \in A, NEW i \in R PROVE Step(a, q[i]) \in A
  <2>1. PICK d \in Reached(c) : a = Result(d, {}, FALSE)
    BY DEF Results
  <2>2. a.err = FALSE /\ a.conn = d
    BY <2>1 DEF Result
  <2>3. q[i] \in Waiting
    BY <1>1, <1>3
  <2>4. conn_recv_pkt(d, q[i]) \in A
    BY <1>1, <2>3, ReachedStep
  <2> QED
    BY <2>2, <2>4
<1> HIDE DEF base, A, Step
<1>8. \E it : Eq(it)
  <2>1. \A z \in R \X A : step[z] = Step(z[2], q[z[1]])
    OBVIOUS
  <2>2. ASSUME NEW i \in R, NEW a \in A
        PROVE  step[<<i, a>>] = Step(a, q[i]) /\ step[<<i, a>>] \in A
    BY <1>7, <2>1, <2>2
  <2> HIDE DEF step
  <2>3. Chooses(ch, R) /\ StepsWithin(step, R, A)
    BY <1>5, <2>2 DEF Chooses, StepsWithin
  <2> HIDE DEF ch
  <2>4. PICK it \in [SUBSET R -> A] : IsFold(it, R, base, ch, step)
    BY <1>4, <1>6, <2>3, FoldExists
  <2>5. ASSUME NEW s \in SUBSET R
        PROVE  it[s] = IF s = {} THEN base ELSE Step(it[s \ {Max(s)}], q[Max(s)])
    <3>1. CASE s = {}
      BY <2>4, <3>1 DEF IsFold
    <3>2. CASE s # {}
      <4>1. ch[s] = Max(s) /\ Max(s) \in R /\ s \ {Max(s)} \in SUBSET R
        BY <1>5, <3>2
      <4>2. it[s \ {Max(s)}] \in A
        BY <2>4, <4>1
      <4>3. it[s] = step[<<Max(s), it[s \ {Max(s)}]>>]
        BY <2>4, <3>2, <4>1 DEF IsFold
      <4> QED
        BY <2>2, <3>2, <4>1, <4>2, <4>3
    <3> QED
      BY <3>1, <3>2
  <2>6. Eq(it)
    BY <2>4, <2>5
  <2> QED
    BY <2>6
<1> DEFINE it == CHOOSE it : Eq(it)
<1>9. Eq(it)
  BY <1>8
<1> HIDE DEF it
<1>10. last = it[R]
  BY DEF it
<1>11. last \in A
  <2>1. it[{}] \in A
    BY <1>6, <1>9
  <2>2. ASSUME NEW s \in SUBSET R, s # {}, it[s \ {ch[s]}] \in A PROVE it[s] \in A
    <3>1. ch[s] = Max(s) /\ Max(s) \in R
      BY <1>5, <2>2
    <3>2. it[s] = Step(it[s \ {Max(s)}], q[Max(s)])
      BY <1>9, <2>2
    <3> QED
      BY <1>7, <2>2, <3>1, <3>2
  <2>3. Chooses(ch, R)
    BY <1>5 DEF Chooses
  <2> HIDE DEF ch
  <2> QED
    BY <1>4, <1>10, <2>1, <2>2, <2>3, FoldWithin
<1> HIDE DEF last
<1>12. PICK d \in Reached(c) : last = Result(d, {}, FALSE)
  BY <1>11 DEF Results, A
<1>13. Took(c, d) /\ DOMAIN d = Fields
  BY DEF Reached, Took
<1> DEFINE e == [d EXCEPT !.buffed_rx_ppkts = << >>]
<1>14. r.conn = e /\ r.out = {} /\ r.err = FALSE /\ DOMAIN r = Shape
  BY <1>2, <1>12 DEF Result, Shape
<1>15. Conn(d) /\ Later(c, d)
  BY <1>13, TookConn
<1>16. /\ DOMAIN e = Fields /\ e.buffed_rx_ppkts = << >>
       /\ \A f \in Fields \ {"buffed_rx_ppkts"} : e[f] = d[f]
  BY <1>13 DEF Fields
<1>17. /\ e.server = d.server /\ e.conn_id = d.conn_id
       /\ e.rx = d.rx /\ e.rob = d.rob /\ e.from = d.from
       /\ e.completed = d.completed /\ e.negotiated = d.negotiated
       /\ e.alert = d.alert /\ e.gone = d.gone
       /\ e.out = d.out /\ e.tx = d.tx /\ e.early_rtb = d.early_rtb
       /\ e.rtb = d.rtb /\ e.got = d.got /\ e.app = d.app /\ e.state = d.state
  BY <1>13 DEF Fields
<1> HIDE DEF e
<1>18. Progress(e) /\ (HandlerProgress(d) => HandlerProgress(e))
       /\ (ClientProgress(d) => ClientProgress(e))
  BY <1>15, <1>16, <1>17 DEF Conn, Progress, HandlerProgress, ClientProgress
<1>19. Holds(e)
  <2>1. << >> \in Seq(Waiting) /\ Len(<< >>) = 0
    OBVIOUS
  <2>2. NGTCP2_MAX_NUM_BUFFED_RX_PPKTS \in Nat
    BY HandshakeAssumption
  <2>3. Holds(d)
    BY <1>15 DEF Conn
  <2>4. Len(e.buffed_rx_ppkts) <= NGTCP2_MAX_NUM_BUFFED_RX_PPKTS
    BY <1>16, <2>1, <2>2
  <2> QED
    BY <1>16, <1>17, <2>1, <2>3, <2>4 DEF Holds, Failed
<1>20. Conn(e)
  BY <1>15, <1>17, <1>18, <1>19 DEF Conn
<1>21. Later(c, e)
  BY <1>15, <1>17 DEF Later
<1>22. e.state = c.state \/ e.state = "DRAINING"
  BY <1>13, <1>17 DEF Took
<1> QED
  BY <1>14, <1>16, <1>20, <1>21, <1>22

(* What the units of stream 0 leave alone.                                 *)
Fed(c, d) ==
    /\ DOMAIN d = Fields
    /\ d.server = c.server /\ d.conn_id = c.conn_id
    /\ d.negotiated = c.negotiated /\ d.gone = c.gone /\ d.got = c.got
    /\ d.buffed_rx_ppkts = c.buffed_rx_ppkts /\ d.state = c.state
    /\ d.tx = c.tx /\ d.rtb = c.rtb /\ d.early_rtb = c.early_rtb /\ d.app = c.app

\* TLS is fed one unit after the other.
LEMMA FedAgain ==
    ASSUME NEW a, NEW b, NEW c, Fed(a, b), Fed(b, c) PROVE Fed(a, c)
BY DEF Fed

\* A connection whose TLS has been fed is still one.
LEMMA FedConn ==
    ASSUME NEW c, Conn(c), NEW d, Fed(c, d), c.state # "CLIENT_INITIAL",
           d.rx \in 0..2, c.rx <= d.rx, d.rob \subseteq 1..2,
           d.out \in 0..2, c.out <= d.out, d.completed \in BOOLEAN, d.alert \in BOOLEAN,
           c.completed => d.completed,
           d.server => HandlerProgress(d), ~d.server => ClientProgress(d)
    PROVE  Conn(d) /\ Later(c, d)
<1>1. Progress(c) /\ Holds(c)
  BY DEF Conn
<1>2. Progress(d)
  BY <1>1 DEF Progress, Fed
<1>3. c.tx \in 0..2 /\ c.tx <= c.out /\ c.out \in 0..2 /\ c.rx \in 0..2
  BY <1>1 DEF Progress, Holds
<1>4. d.tx \in 0..2 /\ d.tx <= d.out
  BY <1>3 DEF Fed
<1>5. (d.server /\ d.rx = 0) => d.state \in {"SERVER_INITIAL", "DRAINING"}
  BY <1>1, <1>3 DEF Holds, Fed
<1>6. Failed(d) => d.rx > 0
  BY <1>1, <1>3 DEF Holds, Fed, Failed
<1>7. Holds(d)
  BY <1>1, <1>4, <1>5, <1>6 DEF Holds, Fed
<1> QED
  BY <1>2, <1>7 DEF Conn, Later, Fed

\* tls_handshake of the client.
LEMMA ClientFed ==
    ASSUME NEW c, Conn(c), ~c.server, c.state # "CLIENT_INITIAL",
           env.known, c.negotiated, c.rx > 0,
           NEW r, r = client_tls_handshake(c)
    PROVE  /\ Conn(r.conn) /\ Later(c, r.conn) /\ r.out = {} /\ r.err \in BOOLEAN
           /\ r.conn.state = c.state /\ r.conn.buffed_rx_ppkts = c.buffed_rx_ppkts
<1> DEFINE a == [c EXCEPT !.late_bound = TRUE]
           m == [a EXCEPT !.migrated = env.connects]
           o == OnMigration(c)
           b == [o EXCEPT !.params = TRUE]
           v == env.early /\ ~env.take_early
           k == [b EXCEPT !.rejected = v]
           Kin(d) == /\ Fed(c, d) /\ d.rx = c.rx /\ d.rob = c.rob /\ d.from = c.from
                     /\ d.completed = c.completed /\ d.alert = c.alert
<1>1. Progress(c) /\ Holds(c) /\ ClientProgress(c) /\ DOMAIN c = Fields
  BY DEF Conn, Progress
<1>2. /\ c.rx \in 0..2 /\ c.rob \subseteq 1..2 /\ c.out \in 0..2
      /\ c.completed \in BOOLEAN /\ c.alert \in BOOLEAN
  BY <1>1 DEF Progress
<1>3. c.from = {c.conn_id}
  BY <1>1 DEF ClientProgress
<1>4. Kin(c) /\ c.out = c.out
  BY <1>1 DEF Fed
<1>5. Kin(a) /\ a.out = c.out /\ DOMAIN a = Fields
  BY <1>1 DEF Fed, Fields
<1>6. Kin(m) /\ m.out = c.out
  <2> HIDE DEF a
  <2> QED
    BY <1>5 DEF Fed, Fields
<1>7. [c EXCEPT !.late_bound = TRUE, !.migrated = env.connects] = m
  OBVIOUS
<1>8. o = c \/ o = m
  BY <1>7 DEF OnMigration
<1> HIDE DEF m, a, o
<1>9. Kin(o) /\ o.out = c.out /\ DOMAIN o = Fields
  BY <1>1, <1>4, <1>6, <1>8 DEF Fed
<1>10. Kin(b) /\ b.out = c.out /\ DOMAIN b = Fields
  BY <1>9 DEF Fed, Fields
<1> HIDE DEF b, v
<1>11. Kin(k) /\ k.out = c.out /\ DOMAIN k = Fields
  BY <1>10 DEF Fed, Fields
<1>12. [o EXCEPT !.params = TRUE, !.rejected = env.early /\ ~env.take_early] = k
  BY DEF b, v
<1> HIDE DEF k
<1> DEFINE f == [k EXCEPT !.out = 2]
           g == [f EXCEPT !.completed = TRUE]
           h == [f EXCEPT !.alert = TRUE]
<1>13. [k EXCEPT !.out = 2, !.completed = TRUE] = g
       /\ [k EXCEPT !.out = 2, !.alert = TRUE] = h
  OBVIOUS
<1>14. Kin(f) /\ f.out = 2 /\ DOMAIN f = Fields
  BY <1>11 DEF Fed, Fields
<1> HIDE DEF f
<1>15. /\ Fed(c, g) /\ g.rx = c.rx /\ g.rob = c.rob /\ g.from = c.from
       /\ g.completed = TRUE /\ g.alert = c.alert /\ g.out = 2
  BY <1>14 DEF Fed, Fields
<1>16. /\ Fed(c, h) /\ h.rx = c.rx /\ h.rob = c.rob /\ h.from = c.from
       /\ h.completed = c.completed /\ h.alert = TRUE /\ h.out = 2
  BY <1>14 DEF Fed, Fields
<1> HIDE DEF g, h
<1>17. \/ r = Result(k, {}, FALSE) \/ r = Result(g, {}, FALSE)
       \/ r = Result(h, {}, TRUE)
  BY <1>12, <1>13 DEF client_tls_handshake, o
<1>18. Conn(k) /\ Later(c, k)
  <2>1. ClientProgress(k)
    BY <1>1, <1>11 DEF ClientProgress, Fed
  <2>2. ~k.server
    BY <1>11 DEF Fed
  <2> QED
    BY <1>2, <1>11, <2>1, <2>2, FedConn
<1>19. Conn(g) /\ Later(c, g)
  <2>1. ClientProgress(g)
    BY <1>1, <1>3, <1>15 DEF ClientProgress, Fed
  <2>2. ~g.server
    BY <1>15 DEF Fed
  <2>3. c.out <= g.out /\ g.out \in 0..2
    BY <1>2, <1>15
  <2>4. g.completed \in BOOLEAN
    BY <1>15
  <2> QED
    BY <1>2, <1>15, <2>1, <2>2, <2>3, <2>4, FedConn
<1>20. Conn(h) /\ Later(c, h)
  <2>1. ClientProgress(h)
    BY <1>1, <1>3, <1>16 DEF ClientProgress, Fed
  <2>2. ~h.server
    BY <1>16 DEF Fed
  <2>3. c.out <= h.out /\ h.out \in 0..2
    BY <1>2, <1>16
  <2>4. h.alert \in BOOLEAN
    BY <1>16
  <2> QED
    BY <1>2, <1>16, <2>1, <2>2, <2>3, <2>4, FedConn
<1>21. /\ r.conn \in {k, g, h} /\ r.out = {} /\ (r.err = FALSE \/ r.err = TRUE)
  BY <1>17 DEF Result
<1>22. r.conn.state = c.state /\ r.conn.buffed_rx_ppkts = c.buffed_rx_ppkts
  BY <1>11, <1>15, <1>16, <1>21 DEF Fed
<1> QED
  BY <1>18, <1>19, <1>20, <1>21, <1>22

\* tls_handshake of a handler, which has nothing of stream 0 to send before
\* its ClientHello.
LEMMA ServerFed ==
    ASSUME NEW c, Conn(c), c.server, c.rx > 0,
           c.rx = 1 => c.out = 0,
           c.rx = 2 => ep[client].completed /\ ep[client].conn_id = c.conn_id,
           NEW r, r = server_tls_handshake(c)
    PROVE  /\ Conn(r.conn) /\ Later(c, r.conn) /\ r.out = {} /\ r.err \in BOOLEAN
           /\ r.conn.state = c.state /\ r.conn.buffed_rx_ppkts = c.buffed_rx_ppkts
<1> DEFINE g == [c EXCEPT !.completed = TRUE]
           f == [c EXCEPT !.out = 2]
           a == [f EXCEPT !.tx_ckm = TRUE]
           b == [a EXCEPT !.params = TRUE]
           v == env.early /\ env.take_early
           k == [b EXCEPT !.early_ckm = v]
           e == [c EXCEPT !.out = 1]
           h == [e EXCEPT !.alert = TRUE]
           Kin(d) == Fed(c, d) /\ d.rx = c.rx /\ d.rob = c.rob
<1>1. Progress(c) /\ Holds(c) /\ HandlerProgress(c) /\ DOMAIN c = Fields
  BY DEF Conn, Progress
<1>2. /\ c.rx \in 0..2 /\ c.rob \subseteq 1..2 /\ c.out \in 0..2
      /\ c.completed \in BOOLEAN /\ c.alert \in BOOLEAN
  BY <1>1 DEF Progress
<1>3. c.state # "CLIENT_INITIAL"
  BY <1>1 DEF Holds, ServerStates
<1>4. Kin(g) /\ g.out = c.out /\ g.alert = c.alert /\ g.completed = TRUE
  BY <1>1 DEF Fed, Fields
<1>5. Kin(f) /\ f.out = 2 /\ f.alert = c.alert /\ f.completed = c.completed
  BY <1>1 DEF Fed, Fields
<1>6. Kin(e) /\ e.out = 1 /\ e.alert = c.alert /\ e.completed = c.completed
  BY <1>1 DEF Fed, Fields
<1>7. [c EXCEPT !.out = 2, !.tx_ckm = TRUE, !.params = TRUE,
                !.early_ckm = env.early /\ env.take_early] = k
      /\ [c EXCEPT !.out = 1, !.alert = TRUE] = h
  OBVIOUS
<1>8. \/ c.rx = 2 /\ r = Result(g, {}, FALSE)
      \/ c.rx # 2 /\ r = Result(k, {}, FALSE)
      \/ c.rx # 2 /\ r = Result(h, {}, TRUE)
  BY <1>7 DEF server_tls_handshake
<1> HIDE DEF g, f, e, v
<1>9. Kin(a) /\ a.out = 2 /\ a.alert = c.alert /\ a.completed = c.completed
  BY <1>5 DEF Fed, Fields
<1> HIDE DEF a
<1>10. Kin(b) /\ b.out = 2 /\ b.alert = c.alert /\ b.completed = c.completed
  BY <1>9 DEF Fed, Fields
<1> HIDE DEF b
<1>11. Kin(k) /\ k.out = 2 /\ k.alert = c.alert /\ k.completed = c.completed
  BY <1>10 DEF Fed, Fields
<1>12. Kin(h) /\ h.out = 1 /\ h.alert = TRUE /\ h.completed = c.completed
  BY <1>6 DEF Fed, Fields
<1> HIDE DEF k, h
<1>13. CASE c.rx = 2
  <2>1. r.conn = g /\ r.out = {} /\ r.err = FALSE
    BY <1>8, <1>13 DEF Result
  <2>2. g.server
    BY <1>4 DEF Fed
  <2>3. HandlerProgress(g)
    BY <1>1, <1>4, <1>13 DEF HandlerProgress, Fed
  <2>4. g.completed \in BOOLEAN
    BY <1>4
  <2>5. Conn(g) /\ Later(c, g)
    BY <1>2, <1>3, <1>4, <2>2, <2>3, <2>4, FedConn
  <2> QED
    BY <1>4, <2>1, <2>5 DEF Fed
<1>14. CASE c.rx # 2
  <2>1. c.rx = 1 /\ c.out = 0 /\ ~c.completed
    BY <1>1, <1>2, <1>14 DEF HandlerProgress
  <2>2. ASSUME NEW d, Kin(d), d.out \in 1..2, d.alert \in BOOLEAN, d.completed = c.completed
        PROVE  Conn(d) /\ Later(c, d)
    <3>1. d.server
      BY <2>2 DEF Fed
    <3>2. HandlerProgress(d)
      BY <1>1, <2>1, <2>2 DEF HandlerProgress, Fed
    <3>3. d.out \in 0..2 /\ c.out <= d.out /\ c.rx <= d.rx
      BY <2>1, <2>2
    <3> QED
      BY <1>2, <1>3, <2>2, <3>1, <3>2, <3>3, FedConn
  <2>3. Conn(k) /\ Later(c, k)
    BY <1>2, <1>11, <2>2
  <2>4. Conn(h) /\ Later(c, h)
    <3>1. h.alert \in BOOLEAN
      BY <1>12
    <3>2. h.out \in 1..2
      BY <1>12
    <3> QED
      BY <1>12, <2>2, <3>1, <3>2
  <2>5. r.conn \in {k, h} /\ r.out = {} /\ (r.err = FALSE \/ r.err = TRUE)
    BY <1>8, <1>14 DEF Result
  <2>6. r.conn.state = c.state /\ r.conn.buffed_rx_ppkts = c.buffed_rx_ppkts
    BY <1>11, <1>12, <2>5 DEF Fed
  <2> QED
    BY <2>3, <2>4, <2>5, <2>6
<1> QED
  BY <1>13, <1>14

\* A unit of stream 0.
LEMMA UnitFed ==
    ASSUME NEW c, Conn(c), c.state # "CLIENT_INITIAL", NEW p \in Packet, p.unit \in 1..2,
           ~c.server => env.known /\ c.negotiated /\ p.cid = c.conn_id,
           (c.server /\ p.unit = 2) =>
             /\ c.rx > 0
             /\ ~p.alert => ep[client].completed /\ ep[client].conn_id = c.conn_id,
           NEW r, r = recv_stream0(c, p)
    PROVE  /\ Conn(r.conn) /\ Later(c, r.conn) /\ r.out = {} /\ r.err \in BOOLEAN
           /\ r.err => r.conn.rx > 0
           /\ r.conn.state = c.state /\ r.conn.buffed_rx_ppkts = c.buffed_rx_ppkts
<1> DEFINE rob == c.rob \cup {p.unit}
           rx == IF c.rx + 1 \notin rob THEN c.rx
                 ELSE IF c.rx + 2 \in rob THEN c.rx + 2 ELSE c.rx + 1
           left == {u \in rob : u > rx}
           a == [c EXCEPT !.rx = rx]
           b == [a EXCEPT !.rob = left]
           F == b.from \cup {p.cid}
           d == [b EXCEPT !.from = F]
           Fits(q) == /\ Conn(q.conn) /\ Later(c, q.conn) /\ q.out = {} /\ q.err \in BOOLEAN
                      /\ q.err => q.conn.rx > 0
                      /\ q.conn.state = c.state
                      /\ q.conn.buffed_rx_ppkts = c.buffed_rx_ppkts
<1>1. Progress(c) /\ Holds(c) /\ DOMAIN c = Fields /\ c.server \in BOOLEAN
  BY DEF Conn, Progress
<1>2. /\ c.rx \in 0..2 /\ c.rob \subseteq 1..2 /\ c.out \in 0..2
      /\ c.completed \in BOOLEAN /\ c.alert \in BOOLEAN
  BY <1>1 DEF Progress
<1>3. rob \subseteq 1..2
  BY <1>2
<1>4. rx \in 0..2 /\ c.rx <= rx /\ left \subseteq 1..2
  BY <1>2, <1>3
<1>5. [c EXCEPT !.rx = rx, !.rob = left, !.from = @ \cup {p.cid}] = d
  OBVIOUS
<1>6. r = IF p.unit <= c.rx \/ rx = c.rx
          THEN Result(IF p.unit <= c.rx THEN c ELSE d, {}, FALSE)
          ELSE IF p.alert THEN Result(d, {}, TRUE)
          ELSE IF c.server THEN server_tls_handshake(d)
          ELSE client_tls_handshake(d)
  BY <1>5 DEF recv_stream0
<1>7. CASE p.unit <= c.rx
  <2>1. r.conn = c /\ r.out = {} /\ r.err = FALSE
    BY <1>6, <1>7 DEF Result
  <2>2. Later(c, c)
    BY <1>2 DEF Later
  <2> QED
    BY <2>1, <2>2
<1>8. CASE ~(p.unit <= c.rx)
  <2>1. c.server => rx > c.rx /\ left = {} /\ rx = p.unit
    <3> SUFFICES ASSUME c.server PROVE rx > c.rx /\ left = {} /\ rx = p.unit
      OBVIOUS
    <3>1. c.rob = {}
      BY <1>1 DEF Conn, HandlerProgress
    <3>2. rob = {p.unit}
      BY <3>1
    <3>3. p.unit = c.rx + 1
      BY <1>2, <1>8
    <3>4. rx = p.unit
      BY <1>2, <3>2, <3>3
    <3> QED
      BY <1>2, <3>2, <3>3, <3>4
  <2> HIDE DEF rx, left
  <2>2. /\ Fed(c, a) /\ a.rx = rx /\ a.out = c.out /\ a.completed = c.completed
        /\ a.alert = c.alert /\ a.from = c.from
    BY <1>1 DEF Fed, Fields
  <2> HIDE DEF a
  <2>3. /\ Fed(c, b) /\ b.rx = rx /\ b.rob = left /\ b.out = c.out
        /\ b.completed = c.completed /\ b.alert = c.alert /\ b.from = c.from
    BY <2>2 DEF Fed, Fields
  <2> HIDE DEF b, F
  <2>4. /\ Fed(c, d) /\ d.rx = rx /\ d.rob = left /\ d.out = c.out
        /\ d.completed = c.completed /\ d.alert = c.alert /\ d.from = F
    BY <2>3 DEF Fed, Fields
  <2> HIDE DEF d
  <2>5. Conn(d) /\ Later(c, d)
    <3>1. d.server => HandlerProgress(d)
      <4> SUFFICES ASSUME d.server PROVE HandlerProgress(d)
        OBVIOUS
      <4>1. c.server /\ d.conn_id = c.conn_id
        BY <2>4 DEF Fed
      <4>2. HandlerProgress(c)
        BY <4>1 DEF Conn
      <4>3. d.rob = {} /\ d.rx > c.rx
        BY <2>1, <2>4, <4>1
      <4>4. d.rx # 0 /\ (c.rx = 2 => d.rx = 2) /\ c.rx # 2
        BY <1>2, <1>4, <2>4, <4>3
      <4>5. ~d.completed
        BY <2>4, <4>2, <4>4 DEF HandlerProgress
      <4> QED
        BY <4>1, <4>2, <4>3, <4>4, <4>5 DEF HandlerProgress
    <3>2. ~d.server => ClientProgress(d)
      <4> SUFFICES ASSUME ~d.server PROVE ClientProgress(d)
        OBVIOUS
      <4>1. ~c.server /\ d.conn_id = c.conn_id /\ d.negotiated = c.negotiated
        BY <2>4 DEF Fed
      <4>2. ClientProgress(c) /\ env.known /\ c.negotiated /\ p.cid = c.conn_id
        BY <4>1 DEF Conn
      <4>3. d.from = {d.conn_id}
        BY <2>3, <2>4, <4>1, <4>2 DEF ClientProgress, F
      <4> QED
        BY <2>4, <4>1, <4>2, <4>3 DEF ClientProgress
    <3>3. c.out <= d.out
      BY <1>2, <2>4
    <3> QED
      BY <1>2, <1>4, <2>4, <3>1, <3>2, <3>3, FedConn
  <2>6. d.state = c.state /\ d.buffed_rx_ppkts = c.buffed_rx_ppkts /\ d.server = c.server
        /\ d.conn_id = c.conn_id /\ d.negotiated = c.negotiated
    BY <2>4 DEF Fed
  <2>7. CASE rx = c.rx
    <3>1. r.conn = d /\ r.out = {} /\ r.err = FALSE
      BY <1>6, <1>8, <2>7 DEF Result
    <3> QED
      BY <2>5, <2>6, <3>1
  <2>8. CASE rx # c.rx /\ p.alert
    <3>1. r.conn = d /\ r.out = {} /\ r.err = TRUE
      BY <1>6, <1>8, <2>8 DEF Result
    <3>2. d.rx > 0
      BY <1>2, <1>4, <2>4, <2>8
    <3> QED
      BY <2>5, <2>6, <3>1, <3>2
  <2>9. ASSUME NEW q, Conn(q.conn), Later(d, q.conn), q.out = {}, q.err \in BOOLEAN,
               q.conn.state = d.state, q.conn.buffed_rx_ppkts = d.buffed_rx_ppkts,
               rx # c.rx
        PROVE  Fits(q)
    <3>1. q.conn.rx \in 0..2 /\ d.rx <= q.conn.rx
      BY <2>9 DEF Conn, Progress, Later
    <3>2. q.conn.rx > 0 /\ c.rx <= q.conn.rx
      BY <1>2, <1>4, <2>4, <2>9, <3>1
    <3>3. Later(c, q.conn)
      BY <2>5, <2>9, <3>2 DEF Later
    <3> QED
      BY <2>6, <2>9, <3>2, <3>3
  <2>10. CASE rx # c.rx /\ ~p.alert /\ c.server
    <3>1. r = server_tls_handshake(d)
      BY <1>6, <1>8, <2>10
    <3>2. d.rx > 0 /\ d.rx = p.unit
      BY <2>1, <2>4, <2>10
    <3>3. d.rx = 1 => d.out = 0
      <4>1. d.rx = 1 => c.rx = 0
        BY <1>2, <1>4, <2>4, <2>10
      <4>2. HandlerProgress(c)
        BY <2>10 DEF Conn
      <4> QED
        BY <2>4, <4>1, <4>2 DEF HandlerProgress
    <3>4. d.rx = 2 => ep[client].completed /\ ep[client].conn_id = d.conn_id
      BY <2>6, <2>10, <3>2
    <3>5. /\ Conn(r.conn) /\ Later(d, r.conn) /\ r.out = {} /\ r.err \in BOOLEAN
          /\ r.conn.state = d.state /\ r.conn.buffed_rx_ppkts = d.buffed_rx_ppkts
      BY <2>5, <2>6, <2>10, <3>1, <3>2, <3>3, <3>4, ServerFed
    <3>6. Fits(r)
      BY <2>9, <2>10, <3>5
    <3> QED
      BY <3>6
  <2>11. CASE rx # c.rx /\ ~p.alert /\ ~c.server
    <3>1. r = client_tls_handshake(d)
      BY <1>6, <1>8, <2>11
    <3>2. d.rx > 0
      BY <1>2, <1>4, <2>4, <2>11
    <3>3. /\ Conn(r.conn) /\ Later(d, r.conn) /\ r.out = {} /\ r.err \in BOOLEAN
          /\ r.conn.state = d.state /\ r.conn.buffed_rx_ppkts = d.buffed_rx_ppkts
      BY <2>5, <2>6, <2>11, <3>1, <3>2, ClientFed
    <3>4. Fits(r)
      BY <2>9, <2>11, <3>3
    <3> QED
      BY <3>4
  <2> QED
    BY <1>1, <2>7, <2>8, <2>10, <2>11
<1> QED
  BY <1>7, <1>8

\* A packet of the handshake: the first one gives the client its id.
LEMMA LongTaken ==
    ASSUME NEW c, Conn(c), c.state # "CLIENT_INITIAL", NEW p, Comes(c, p),
           p.type \in {"INITIAL", "HANDSHAKE"},
           NEW r, r = recv_long(c, p)
    PROVE  /\ Conn(r.conn) /\ Later(c, r.conn) /\ r.out = {} /\ r.err \in BOOLEAN
           /\ DOMAIN r = Shape
           /\ r.err => r.conn.rx > 0
           /\ r.conn.state = c.state \/ r.conn.state = "DRAINING"
           /\ r.conn.buffed_rx_ppkts = c.buffed_rx_ppkts
<1> DEFINE n == [c EXCEPT !.negotiated = TRUE]
           id == IF c.server THEN c.conn_id ELSE p.cid
           a == [n EXCEPT !.conn_id = id]
           b == recv_ack(a, p, TRUE)
           q == IF p.unit = 0 THEN Result(b, {}, FALSE) ELSE recv_stream0(b, p)
           d == IF p.cc THEN [q.conn EXCEPT !.state = "DRAINING"] ELSE q.conn
           e == sched_ack(d, p)
           stale == p.type = "HANDSHAKE" /\ (IF c.server THEN p.cid # c.conn_id
                                                          ELSE ~NewId(c, p))
<1>1. Progress(c) /\ Holds(c) /\ DOMAIN c = Fields /\ c.server \in BOOLEAN
      /\ c.rx \in 0..2 /\ p \in Packet /\ TRUE \in BOOLEAN
  BY DEF Conn, Progress, Comes
<1>2. [c EXCEPT !.negotiated = TRUE, !.conn_id = IF c.server THEN @ ELSE p.cid] = a
  OBVIOUS
<1>3. r = IF stale THEN Result(c, {}, FALSE) ELSE Result(e, {}, q.err)
  BY <1>2 DEF recv_long
<1>4. CASE stale
  <2> HIDE DEF stale, e, q
  <2>1. r.conn = c /\ r.out = {} /\ r.err = FALSE /\ DOMAIN r = Shape
    BY <1>3, <1>4 DEF Result, Shape
  <2>2. Later(c, c)
    BY <1>1 DEF Later
  <2> QED
    BY <2>1, <2>2
<1>5. CASE ~stale
  <2>1. ~c.server => /\ env.known /\ p.cid # 0 /\ Answered(p.cid) /\ p.unit # 3
                     /\ p.type = "HANDSHAKE"
                     /\ c.negotiated => p.cid = c.conn_id
    BY <1>5 DEF Comes, NewId
  <2>2. c.server => p.unit # 3 /\ (p.unit = 2 => p.type = "HANDSHAKE" /\ p.cid = c.conn_id)
    BY <1>5 DEF Comes
  <2>3. c.negotiated \/ c.server => id = c.conn_id
    BY <2>1
  <2>4. id \in 0..MaxConn
    BY <1>1 DEF Progress, Packet
  <2> HIDE DEF id, stale
  <2>5. /\ DOMAIN n = Fields /\ n.server = c.server /\ n.conn_id = c.conn_id
        /\ n.rx = c.rx /\ n.rob = c.rob /\ n.from = c.from
        /\ n.completed = c.completed /\ n.negotiated = TRUE
        /\ n.alert = c.alert /\ n.gone = c.gone /\ n.got = c.got
        /\ n.out = c.out /\ n.tx = c.tx /\ n.early_rtb = c.early_rtb
        /\ n.buffed_rx_ppkts = c.buffed_rx_ppkts
        /\ n.rtb = c.rtb /\ n.app = c.app /\ n.state = c.state
    BY <1>1 DEF Fields
  <2> HIDE DEF n
  <2>6. /\ DOMAIN a = Fields /\ a.server = c.server /\ a.conn_id = id
        /\ a.rx = c.rx /\ a.rob = c.rob /\ a.from = c.from
        /\ a.completed = c.completed /\ a.negotiated = TRUE
        /\ a.alert = c.alert /\ a.gone = c.gone /\ a.got = c.got
        /\ a.out = c.out /\ a.tx = c.tx /\ a.early_rtb = c.early_rtb
        /\ a.buffed_rx_ppkts = c.buffed_rx_ppkts
        /\ a.rtb = c.rtb /\ a.app = c.app /\ a.state = c.state
    BY <2>5 DEF Fields
  <2> HIDE DEF a
  <2>7. Conn(a)
    <3>1. Progress(a)
      <4>1. a.negotiated \in BOOLEAN
        BY <2>6
      <4> QED
        BY <1>1, <2>4, <2>6, <4>1 DEF Progress
    <3>2. Holds(a)
      BY <1>1, <2>6 DEF Holds, Failed
    <3>3. ASSUME c.server PROVE HandlerProgress(a)
      BY <2>3, <2>6, <3>3 DEF Conn, HandlerProgress
    <3>4. ASSUME ~c.server PROVE ClientProgress(a)
      <4>1. ClientProgress(c)
        BY <3>4 DEF Conn
      <4>2. id = p.cid
        BY <3>4 DEF id
      <4>3. a.negotiated
        BY <2>6
      <4>4. CASE c.negotiated
        BY <2>1, <2>3, <2>6, <3>4, <4>1, <4>2, <4>3, <4>4 DEF ClientProgress
      <4>5. CASE ~c.negotiated
        <5>1. /\ a.from = {} /\ a.rx = 0 /\ a.rob = {} /\ ~a.completed
              /\ a.out # 2 /\ ~a.alert
          BY <2>6, <4>1, <4>5 DEF ClientProgress
        <5> QED
          BY <2>1, <2>6, <3>4, <4>2, <4>3, <5>1 DEF ClientProgress
      <4> QED
        BY <4>4, <4>5
    <3> QED
      BY <2>6, <3>1, <3>2, <3>3, <3>4 DEF Conn
  <2>8. Later(c, a)
    BY <1>1, <2>3, <2>6 DEF Later
  <2>9. Took(a, b)
    BY <1>1, <2>6, AckTaken
  <2>10. b.state = c.state
    BY <2>6 DEF recv_ack, Fields
  <2> HIDE DEF b
  <2>11. Conn(b) /\ Later(a, b)
    BY <2>7, <2>9, TookConn
  <2>12. /\ b.server = c.server /\ b.conn_id = id /\ b.rx = c.rx /\ b.negotiated = TRUE
         /\ b.buffed_rx_ppkts = c.buffed_rx_ppkts /\ DOMAIN b = Fields
    BY <2>6, <2>9 DEF Took
  <2>13. /\ Conn(q.conn) /\ Later(b, q.conn) /\ q.err \in BOOLEAN
         /\ q.err => q.conn.rx > 0
         /\ q.conn.state = c.state /\ q.conn.buffed_rx_ppkts = c.buffed_rx_ppkts
    <3>1. CASE p.unit = 0
      <4>1. q.conn = b /\ q.err = FALSE
        BY <3>1 DEF Result
      <4>2. Later(b, b)
        BY <1>1, <2>12 DEF Later
      <4> QED
        BY <2>10, <2>11, <2>12, <4>1, <4>2
    <3>2. CASE p.unit # 0
      <4>1. q = recv_stream0(b, p)
        BY <3>2
      <4>2. p.unit \in 1..2
        BY <1>1, <2>1, <2>2, <3>2 DEF Packet
      <4>3. ~b.server => env.known /\ b.negotiated /\ p.cid = b.conn_id
        BY <2>1, <2>12 DEF id
      <4>4. (b.server /\ p.unit = 2) =>
             /\ b.rx > 0
             /\ ~p.alert => ep[client].completed /\ ep[client].conn_id = b.conn_id
        BY <2>2, <2>3, <2>12 DEF Comes
      <4> HIDE DEF q
      <4>5. b.state # "CLIENT_INITIAL"
        BY <2>10
      <4>6. /\ Conn(q.conn) /\ Later(b, q.conn) /\ q.out = {} /\ q.err \in BOOLEAN
            /\ q.err => q.conn.rx > 0
            /\ q.conn.state = b.state /\ q.conn.buffed_rx_ppkts = b.buffed_rx_ppkts
        BY <1>1, <2>11, <4>1, <4>2, <4>3, <4>4, <4>5, UnitFed
      <4> QED
        BY <2>10, <2>12, <4>6
    <3> QED
      BY <3>1, <3>2
  <2> HIDE DEF q
  <2>14. DOMAIN q.conn = Fields
    BY <2>13 DEF Conn, Progress
  <2>15. Took(q.conn, d) /\ DOMAIN d = Fields
    BY <2>14 DEF Took, Fields
  <2> HIDE DEF d
  <2>16. Took(d, e)
    BY <1>1, <2>15, AckTaken
  <2> HIDE DEF e
  <2>17. Took(q.conn, e)
    BY <2>15, <2>16, TookAgain
  <2>18. Conn(e) /\ Later(q.conn, e)
    BY <2>13, <2>17, TookConn
  <2>19. r.conn = e /\ r.out = {} /\ r.err = q.err /\ DOMAIN r = Shape
    BY <1>3, <1>5 DEF Result, Shape
  <2>20. /\ e.rx = q.conn.rx /\ e.buffed_rx_ppkts = c.buffed_rx_ppkts
         /\ e.state = c.state \/ e.state = "DRAINING"
    BY <2>13, <2>17 DEF Took
  <2>21. Later(c, e)
    <3>1. c.rx <= b.rx /\ b.rx <= q.conn.rx /\ b.rx = c.rx
      BY <1>1, <2>12, <2>13 DEF Later
    <3> QED
      BY <2>8, <2>11, <2>13, <2>18, <2>20, <3>1 DEF Later
  <2> QED
    BY <2>13, <2>18, <2>19, <2>20, <2>21
<1> QED
  BY <1>4, <1>5

(* r is the result of receiving on connection c.                           *)
Read(c, r) ==
    /\ Conn(r.conn) /\ Later(c, r.conn) /\ Emits(r.conn, r.out)
    /\ r.err \in BOOLEAN /\ DOMAIN r = Shape
    /\ c.state # "CLIENT_INITIAL" => r.conn.state # "CLIENT_INITIAL"

\* What a connection has come to is never taken back.
LEMMA LaterAgain ==
    ASSUME NEW a, NEW b, NEW c, Conn(a), Conn(b), Conn(c), Later(a, b), Later(b, c)
    PROVE  Later(a, c)
<1>1. a.rx \in 0..2 /\ b.rx \in 0..2 /\ c.rx \in 0..2
  BY DEF Conn, Progress
<1>2. a.rx <= c.rx
  BY <1>1 DEF Later
<1> QED
  BY <1>2 DEF Later

\* Nor do the packets it has sent become wrong.
LEMMA LaterSent ==
    ASSUME NEW c, Conn(c), NEW d, Conn(d), Later(c, d), NEW out, Emits(c, out)
    PROVE  Emits(d, out)
<1> SUFFICES ASSUME NEW p \in out PROVE Emitted(d, p)
  BY DEF Emits
<1>1. Emitted(c, p)
  BY DEF Emits
<1>2. ~c.gone /\ c.rx \in 0..2 /\ d.rx \in 0..2
  BY DEF Conn, Progress
<1>3. FromClient(c, p) => FromClient(d, p)
  BY <1>2 DEF FromClient, Later
<1>4. c.rx > 0 => d.rx > 0
  BY <1>2 DEF Later
<1>5. FromHandler(c, p) => FromHandler(d, p)
  BY <1>2, <1>4 DEF FromHandler
<1> QED
  BY <1>1, <1>3, <1>5 DEF Emitted, Later

\* A write takes nothing back.
LEMMA WroteLater ==
    ASSUME NEW c, Conn(c), NEW r, Wrote(c, r)
    PROVE  Conn(r.conn) /\ Later(c, r.conn) /\ Emits(r.conn, r.out)
<1>1. c.rx \in 0..2
  BY DEF Conn, Progress
<1> QED
  BY <1>1 DEF Wrote, Kept, Later

\* A protected packet that waits.
LEMMA Buffered ==
    ASSUME NEW c, Conn(c), NEW p \in Waiting,
           NEW d, d = buffer_protected_pkt(c, p)
    PROVE  Conn(d) /\ Later(c, d) /\ d.state = c.state
<1>1. Progress(c) /\ Holds(c) /\ DOMAIN c = Fields /\ c.rx \in 0..2
  BY DEF Conn, Progress
<1>2. /\ c.buffed_rx_ppkts \in Seq(Waiting)
      /\ Len(c.buffed_rx_ppkts) <= NGTCP2_MAX_NUM_BUFFED_RX_PPKTS
      /\ NGTCP2_MAX_NUM_BUFFED_RX_PPKTS \in Nat
  BY <1>1, HandshakeAssumption DEF Holds
<1>3. CASE Len(c.buffed_rx_ppkts) = NGTCP2_MAX_NUM_BUFFED_RX_PPKTS
  BY <1>1, <1>3 DEF buffer_protected_pkt, Later
<1>4. CASE Len(c.buffed_rx_ppkts) # NGTCP2_MAX_NUM_BUFFED_RX_PPKTS
  <2> DEFINE q == Append(c.buffed_rx_ppkts, p)
  <2>1. /\ q \in Seq(Waiting)
        /\ Len(q) <= NGTCP2_MAX_NUM_BUFFED_RX_PPKTS
    BY <1>2, <1>4
  <2>2. d = [c EXCEPT !.buffed_rx_ppkts = q]
    BY <1>4 DEF buffer_protected_pkt
  <2> HIDE DEF q
  <2>3. /\ DOMAIN d = Fields /\ d.buffed_rx_ppkts = q
        /\ d.server = c.server /\ d.conn_id = c.conn_id
        /\ d.rx = c.rx /\ d.rob = c.rob /\ d.from = c.from
        /\ d.completed = c.completed /\ d.negotiated = c.negotiated
        /\ d.alert = c.alert /\ d.gone = c.gone /\ d.got = c.got
        /\ d.out = c.out /\ d.tx = c.tx /\ d.early_rtb = c.early_rtb
        /\ d.rtb = c.rtb /\ d.app = c.app /\ d.state = c.state
    BY <1>1, <2>2 DEF Fields
  <2>4. Progress(d) /\ (HandlerProgress(c) => HandlerProgress(d))
        /\ (ClientProgress(c) => ClientProgress(d))
    BY <1>1, <2>3 DEF Progress, HandlerProgress, ClientProgress
  <2>5. Holds(d)
    BY <1>1, <2>1, <2>3 DEF Holds, Failed
  <2>6. Later(c, d)
    BY <1>1, <2>3 DEF Later
  <2> QED
    BY <2>3, <2>4, <2>5, <2>6 DEF Conn
<1> QED
  BY <1>3, <1>4

\* A packet during the handshake, or after it has failed.
LEMMA HandshakePktTaken ==
    ASSUME NEW c, Conn(c), c.state # "CLIENT_INITIAL", NEW p, Comes(c, p),
           p.type # "VN",
           NEW r, r = conn_recv_handshake_pkt(c, p)
    PROVE  /\ Conn(r.conn) /\ Later(c, r.conn) /\ r.out = {} /\ r.err \in BOOLEAN
           /\ DOMAIN r = Shape
           /\ r.err => r.conn.rx > 0
           /\ r.conn.state = c.state \/ r.conn.state = "DRAINING"
<1>1. p \in Packet /\ DOMAIN c = Fields /\ c.rx \in 0..2
  BY DEF Comes, Conn, Progress
<1>2. Later(c, c)
  BY <1>1 DEF Later
<1>3. p.type \in {"SHORT", "0RTT"} => p \in Waiting
  BY <1>1 DEF Waiting
<1> DEFINE b == buffer_protected_pkt(c, p)
<1> HIDE DEF b
<1>4. p.type \in {"SHORT", "0RTT"} => Conn(b) /\ Later(c, b) /\ b.state = c.state
  BY <1>3, Buffered DEF b
<1>5. CASE p.type = "SHORT" \/ (p.type = "0RTT" /\ ~c.early_ckm)
  <2>1. r = Result(c, {}, FALSE) \/ r = Result(b, {}, FALSE)
    BY <1>5 DEF conn_recv_handshake_pkt, b
  <2>2. (r.conn = c \/ r.conn = b) /\ r.out = {} /\ r.err = FALSE /\ DOMAIN r = Shape
    BY <2>1 DEF Result, Shape
  <2> QED
    BY <1>2, <1>4, <1>5, <2>2
<1>6. CASE p.type = "0RTT" /\ c.early_ckm
  <2>1. r = conn_recv_pkt(c, p)
    BY <1>6 DEF conn_recv_handshake_pkt
  <2>2. Took(c, r.conn) /\ r = Result(r.conn, {}, FALSE)
    BY <1>1, <1>3, <1>6, <2>1, ProtectedTaken
  <2>3. r.out = {} /\ r.err = FALSE /\ DOMAIN r = Shape
    BY <2>2 DEF Result, Shape
  <2>4. Conn(r.conn) /\ Later(c, r.conn)
    BY <2>2, TookConn
  <2>5. r.conn.state = c.state \/ r.conn.state = "DRAINING"
    BY <2>2 DEF Took
  <2> QED
    BY <2>3, <2>4, <2>5
<1>7. CASE p.type \in {"INITIAL", "HANDSHAKE"}
  <2>1. r = recv_long(c, p)
    BY <1>7 DEF conn_recv_handshake_pkt
  <2> QED
    BY <1>7, <2>1, LongTaken
<1>8. p.type \in {"INITIAL", "0RTT", "HANDSHAKE", "SHORT"}
  BY <1>1 DEF Packet
<1> QED
  BY <1>5, <1>6, <1>7, <1>8

\* A change of state alone.
LEMMA StateChanged ==
    ASSUME NEW c, Conn(c), NEW st, st \in IF c.server THEN ServerStates ELSE ClientStates,
           c.server => c.rx > 0, st # "CLIENT_INITIAL",
           st \in {"CLIENT_TLS_HANDSHAKE_FAILED", "SERVER_TLS_HANDSHAKE_FAILED"} => c.rx > 0,
           NEW d, d = [c EXCEPT !.state = st]
    PROVE  Kept(c, d) /\ Conn(d) /\ Later(c, d) /\ d.state = st
<1>1. Progress(c) /\ Holds(c) /\ DOMAIN c = Fields /\ c.rx \in 0..2
  BY DEF Conn, Progress
<1>2. /\ Kept(c, d) /\ d.state = st /\ d.tx = c.tx /\ d.out = c.out
      /\ d.app = c.app /\ d.rtb = c.rtb /\ d.early_rtb = c.early_rtb
  BY <1>1 DEF Kept, Fields
<1>3. ~(c.server /\ c.rx = 0)
  BY <1>1
<1>4. Holds(d)
  BY <1>1, <1>2, <1>3 DEF Holds, Kept, Failed
<1>5. Conn(d)
  BY <1>2, <1>4, KeptProgress DEF Conn
<1>6. Later(c, d)
  BY <1>1, <1>2 DEF Kept, Later
<1> QED
  BY <1>2, <1>5, <1>6

(* Nothing waits, or the connection has failed for want of parameters.     *)
TidyOrFailed(r) == Tidy(r.conn) \/ (r.err /\ r.conn.state = "POST_HANDSHAKE")

\* The end of the handshake.
LEMMA HandshakeOver ==
    ASSUME NEW c, Conn(c), c.completed, c.state # "CLIENT_INITIAL", NEW ack,
           NEW s, s = handshake_completed(c, ack)
    PROVE  Read(c, s) /\ TidyOrFailed(s)
<1>1. Progress(c) /\ DOMAIN c = Fields /\ c.server \in BOOLEAN /\ c.rx \in 0..2
  BY DEF Conn, Progress
<1>2. CASE c.server
  <2> DEFINE o == on_write(c, {}, FALSE, ack)
             k == [o.conn EXCEPT !.state = "POST_HANDSHAKE"]
             t == process_buffered(k)
  <2>1. s = IF k.params THEN After(o, t) ELSE Result(k, o.out, TRUE)
    BY <1>2 DEF handshake_completed, server_completed
  <2> HIDE DEF o
  <2>2. Wrote(c, o)
    <3>1. {} \subseteq c.rtb /\ FALSE \in BOOLEAN
      OBVIOUS
    <3> QED
      BY <3>1, OnWrite DEF o
  <2>3. Conn(o.conn) /\ Later(c, o.conn) /\ Emits(o.conn, o.out)
    BY <2>2, WroteLater
  <2>4. o.conn.server /\ o.conn.completed
    BY <1>2, <2>2 DEF Wrote, Kept
  <2>5. o.conn.rx = 2
    BY <2>3, <2>4 DEF Conn, HandlerProgress
  <2>6. "POST_HANDSHAKE" \in ServerStates
    BY DEF ServerStates
  <2>7. Conn(k) /\ Later(o.conn, k) /\ k.state = "POST_HANDSHAKE"
    BY <2>3, <2>4, <2>5, <2>6, StateChanged
  <2> HIDE DEF k
  <2>8. /\ Conn(t.conn) /\ Later(k, t.conn) /\ t.out = {} /\ t.err = FALSE
        /\ t.conn.buffed_rx_ppkts = << >>
        /\ t.conn.state = k.state \/ t.conn.state = "DRAINING"
    BY <2>7, BufferedTaken
  <2> HIDE DEF t
  <2>9. Later(c, k) /\ Emits(k, o.out)
    BY <2>3, <2>7, LaterAgain, LaterSent
  <2>10. Later(c, t.conn) /\ Emits(t.conn, o.out)
    BY <2>7, <2>8, <2>9, LaterAgain, LaterSent
  <2>11. CASE k.params
    <3>1. s.conn = t.conn /\ s.out = o.out /\ s.err = FALSE /\ DOMAIN s = Shape
      BY <2>1, <2>8, <2>11 DEF After, Result, Shape
    <3> QED
      BY <2>7, <2>8, <2>10, <3>1 DEF Read, TidyOrFailed, Tidy
  <2>12. CASE ~k.params
    <3>1. s.conn = k /\ s.out = o.out /\ s.err = TRUE /\ DOMAIN s = Shape
      BY <2>1, <2>12 DEF Result, Shape
    <3> QED
      BY <2>7, <2>9, <3>1 DEF Read, TidyOrFailed
  <2> QED
    BY <2>11, <2>12
<1>3. CASE ~c.server
  <2> DEFINE st == "CLIENT_HANDSHAKE_ALMOST_FINISHED"
             k == [c EXCEPT !.state = st]
             f == [k EXCEPT !.tx_ckm = TRUE]
             v == IF f.app = "none" THEN "queued" ELSE f.app
             d == [f EXCEPT !.app = v]
  <2>1. [c EXCEPT !.state = st, !.tx_ckm = TRUE,
                  !.app = IF @ = "none" THEN "queued" ELSE @] = d
    <3>1. f.app = c.app
      BY <1>1 DEF Fields
    <3> QED
      BY <3>1
  <2>2. s = process_buffered(d)
    BY <1>3, <2>1 DEF handshake_completed
  <2>3. Conn(k) /\ Later(c, k) /\ k.state = st /\ DOMAIN k = Fields
    <3>1. st \in ClientStates /\ st # "CLIENT_INITIAL"
          /\ st \notin {"CLIENT_TLS_HANDSHAKE_FAILED", "SERVER_TLS_HANDSHAKE_FAILED"}
      BY DEF ClientStates
    <3>2. Conn(k) /\ Later(c, k) /\ k.state = st
      BY <1>3, <3>1, StateChanged
    <3> QED
      BY <1>1, <3>2 DEF Fields
  <2> HIDE DEF k
  <2>4. Took(k, f) /\ DOMAIN f = Fields
    BY <2>3 DEF Took, Fields
  <2>5. f.app = "none" \/ v = f.app
    OBVIOUS
  <2> HIDE DEF f, v
  <2>6. Took(f, d)
    BY <2>4, <2>5 DEF Took, Fields
  <2> HIDE DEF d
  <2>7. Took(k, d)
    BY <2>4, <2>6, TookAgain
  <2>8. Conn(d) /\ Later(k, d)
    BY <2>3, <2>7, TookConn
  <2>9. d.state = st \/ d.state = "DRAINING"
    BY <2>3, <2>7 DEF Took
  <2>10. Later(c, d)
    BY <2>3, <2>8, LaterAgain
  <2>11. /\ Conn(s.conn) /\ Later(d, s.conn) /\ s.out = {} /\ s.err = FALSE
         /\ DOMAIN s = Shape /\ s.conn.buffed_rx_ppkts = << >>
         /\ s.conn.state = d.state \/ s.conn.state = "DRAINING"
    BY <2>2, <2>8, BufferedTaken
  <2>12. Later(c, s.conn)
    BY <2>8, <2>10, <2>11, LaterAgain
  <2> QED
    BY <2>9, <2>11, <2>12 DEF Read, TidyOrFailed, Tidy, Emits
<1> QED
  BY <1>1, <1>2, <1>3

\* What follows a packet of the handshake.
LEMMA HandshakeReceived ==
    ASSUME NEW c, Conn(c), c.state \notin Over, c.state # "CLIENT_INITIAL",
           NEW r, Conn(r.conn), Later(c, r.conn), r.out = {}, r.err \in BOOLEAN,
           DOMAIN r = Shape,
           r.err => r.conn.rx > 0,
           r.conn.state = c.state \/ r.conn.state = "DRAINING",
           NEW ack, NEW s, s = handshake_received(r, ack)
    PROVE  Read(c, s) /\ TidyOrFailed(s)
<1>1. r.conn.state \notin Over /\ r.conn.state # "CLIENT_INITIAL"
  BY DEF Over
<1>2. r.conn.server \in BOOLEAN
  BY DEF Conn, Progress
<1>3. CASE r.err
  <2> DEFINE st == IF r.conn.server THEN "SERVER_TLS_HANDSHAKE_FAILED"
                   ELSE "CLIENT_TLS_HANDSHAKE_FAILED"
             d == [r.conn EXCEPT !.state = st]
  <2>1. s = Result(d, {}, FALSE)
    BY <1>3 DEF handshake_received
  <2>2. /\ st \in IF r.conn.server THEN ServerStates ELSE ClientStates
        /\ st # "CLIENT_INITIAL" /\ st \notin Over
    BY DEF ServerStates, ClientStates, Over
  <2> HIDE DEF st
  <2>3. Conn(d) /\ Later(r.conn, d) /\ d.state = st
    BY <1>3, <2>2, StateChanged
  <2> HIDE DEF d
  <2>4. s.conn = d /\ s.out = {} /\ s.err = FALSE /\ DOMAIN s = Shape
    BY <2>1 DEF Result, Shape
  <2>5. Later(c, d)
    BY <2>3, LaterAgain
  <2> QED
    BY <2>2, <2>3, <2>4, <2>5 DEF Read, TidyOrFailed, Tidy, Over, Emits
<1>4. CASE ~r.err /\ r.conn.state = "SERVER_INITIAL" /\ r.conn.negotiated
  <2>1. s = process_buffered(r.conn)
    BY <1>4 DEF handshake_received
  <2>2. /\ Conn(s.conn) /\ Later(r.conn, s.conn) /\ s.out = {} /\ s.err = FALSE
        /\ DOMAIN s = Shape /\ s.conn.buffed_rx_ppkts = << >>
        /\ s.conn.state = r.conn.state \/ s.conn.state = "DRAINING"
    BY <2>1, BufferedTaken
  <2>3. Later(c, s.conn)
    BY <2>2, LaterAgain
  <2> QED
    BY <1>1, <2>2, <2>3 DEF Read, TidyOrFailed, Tidy, Emits
<1>5. CASE ~r.err /\ ~(r.conn.state = "SERVER_INITIAL" /\ r.conn.negotiated)
           /\ r.conn.completed
  <2>1. s = handshake_completed(r.conn, ack)
    BY <1>5 DEF handshake_received
  <2>2. Read(r.conn, s) /\ TidyOrFailed(s)
    BY <1>1, <1>5, <2>1, HandshakeOver
  <2>3. Later(c, s.conn)
    BY <2>2, LaterAgain DEF Read
  <2> QED
    BY <1>1, <2>2, <2>3 DEF Read
<1>6. CASE ~r.err /\ ~(r.conn.state = "SERVER_INITIAL" /\ r.conn.negotiated)
           /\ ~r.conn.completed
  <2>1. s = r
    BY <1>6 DEF handshake_received
  <2> QED
    BY <1>1, <2>1 DEF Read, TidyOrFailed, Tidy, Over, Emits
<1> QED
  BY <1>3, <1>4, <1>5, <1>6

\* ngtcp2_conn_recv, for whatever comes.
LEMMA Received ==
    ASSUME NEW c, Conn(c), Tidy(c), NEW p, Comes(c, p), NEW ack,
           NEW s, s = conn_recv(c, p, ack)
    PROVE  /\ Read(c, s) /\ TidyOrFailed(s)
           /\ c.state = "CLIENT_INITIAL" => s = Result(c, {}, FALSE)
<1> DEFINE W == {"CLIENT_WAIT_HANDSHAKE", "SERVER_INITIAL", "SERVER_WAIT_HANDSHAKE"}
<1>1. Progress(c) /\ Holds(c) /\ DOMAIN c = Fields /\ c.rx \in 0..2 /\ p \in Packet
      /\ c.server \in BOOLEAN
  BY DEF Conn, Progress, Comes
<1>2. Later(c, c)
  BY <1>1 DEF Later
<1>3. CASE c.state \in W /\ p.type = "VN"
  <2>1. s = Result(c, {}, TRUE)
    BY <1>3 DEF conn_recv, Failed
  <2>2. s.conn = c /\ s.out = {} /\ s.err = TRUE /\ DOMAIN s = Shape
    BY <2>1 DEF Result, Shape
  <2> QED
    BY <1>2, <1>3, <2>2 DEF Read, TidyOrFailed, Emits
<1>4. CASE c.state \in W /\ p.type # "VN"
  <2> DEFINE r == conn_recv_handshake_pkt(c, p)
  <2>1. s = handshake_received(r, ack)
    BY <1>4 DEF conn_recv, Failed
  <2> HIDE DEF r
  <2>2. c.state \notin Over /\ c.state # "CLIENT_INITIAL"
    BY <1>4 DEF Over
  <2>3. /\ Conn(r.conn) /\ Later(c, r.conn) /\ r.out = {} /\ r.err \in BOOLEAN
        /\ DOMAIN r = Shape
        /\ r.err => r.conn.rx > 0
        /\ r.conn.state = c.state \/ r.conn.state = "DRAINING"
    BY <1>4, <2>2, HandshakePktTaken DEF r
  <2>4. Read(c, s) /\ TidyOrFailed(s)
    BY <2>1, <2>2, <2>3, HandshakeReceived
  <2> QED
    BY <1>4, <2>4
<1>5. CASE Failed(c)
  <2>1. s = conn_recv_handshake_pkt(c, p)
    BY <1>5 DEF conn_recv, Failed
  <2>2. c.state \notin Over /\ c.state # "CLIENT_INITIAL" /\ c.rx > 0
    BY <1>1, <1>5 DEF Over, Failed, Holds
  <2>3. p.type # "VN"
    <3>1. CASE c.server
      BY <3>1 DEF Comes
    <3>2. CASE ~c.server
      <4>1. env.known
        BY <2>2, <3>2 DEF Conn, ClientProgress
      <4> QED
        BY <3>2, <4>1 DEF Comes
    <3> QED
      BY <3>1, <3>2
  <2>4. /\ Conn(s.conn) /\ Later(c, s.conn) /\ s.out = {} /\ s.err \in BOOLEAN
        /\ DOMAIN s = Shape
        /\ s.conn.state = c.state \/ s.conn.state = "DRAINING"
    BY <2>1, <2>2, <2>3, HandshakePktTaken
  <2> QED
    BY <2>2, <2>4 DEF Read, TidyOrFailed, Tidy, Over, Emits
<1>6. CASE c.state \in Over
  <2>1. s = conn_recv_pkt(c, p)
    BY <1>6 DEF conn_recv, Over, Failed
  <2>2. Took(c, s.conn) /\ s.out = {} /\ s.err \in BOOLEAN /\ DOMAIN s = Shape
    <3>1. CASE p.type \notin {"INITIAL", "HANDSHAKE"}
      <4>1. Took(c, s.conn) /\ s = Result(s.conn, {}, FALSE)
        BY <1>1, <2>1, <3>1, ProtectedTaken
      <4>2. s.out = {} /\ s.err = FALSE /\ DOMAIN s = Shape
        BY <4>1 DEF Result, Shape
      <4> QED
        BY <4>1, <4>2
    <3>2. CASE p.type \in {"INITIAL", "HANDSHAKE"}
      <4>1. s = recv_delayed_handshake(c, p)
        BY <2>1, <3>2 DEF conn_recv_pkt
      <4> QED
        BY <1>1, <4>1, DelayedTaken
    <3> QED
      BY <3>1, <3>2
  <2>3. Conn(s.conn) /\ Later(c, s.conn)
    BY <2>2, TookConn
  <2>4. s.conn.buffed_rx_ppkts = c.buffed_rx_ppkts
        /\ (s.conn.state = c.state \/ s.conn.state = "DRAINING")
    BY <2>2 DEF Took
  <2> QED
    BY <1>6, <2>2, <2>3, <2>4 DEF Read, TidyOrFailed, Tidy, Over, Emits
<1>7. CASE c.state \notin W /\ ~Failed(c) /\ c.state \notin Over
  <2>1. s = Result(c, {}, FALSE)
    BY <1>7 DEF conn_recv, Over
  <2>2. s.conn = c /\ s.out = {} /\ s.err = FALSE /\ DOMAIN s = Shape
    BY <2>1 DEF Result, Shape
  <2> QED
    BY <1>2, <2>1, <2>2 DEF Read, TidyOrFailed, Emits
<1> QED
  BY <1>3, <1>4, <1>5, <1>6, <1>7

---------------------------------------------------------------------------
(* The turns of the server and of the client.                              *)

(* r is the result of a turn of handler c.                                 *)
Served(c, r) ==
    /\ Conn(r.conn) /\ Later(c, r.conn) /\ Emits(r.conn, r.out)
    /\ Tidy(r.conn) /\ r.err \in BOOLEAN

\* A write leaves the buffer empty where it must be.
LEMMA TidyWrote ==
    ASSUME NEW c, Tidy(c), NEW r, Wrote(c, r) PROVE Tidy(r.conn)
BY DEF Tidy, Wrote, Kept, Over

\* So does CONNECTION_CLOSE.
LEMMA TidyError ==
    ASSUME NEW c, Conn(c), Tidy(c) \/ c.state = "POST_HANDSHAKE",
           NEW r, r = handle_error(c)
    PROVE  Tidy(r.conn)
<1>1. CASE c.state \in {"POST_HANDSHAKE", "CLOSING"}
  <2>1. DOMAIN c = Fields
    BY DEF Conn, Progress
  <2>2. r.conn = [c EXCEPT !.state = "CLOSING"]
    BY <1>1 DEF handle_error, Result
  <2>3. r.conn.state = "CLOSING"
    BY <2>1, <2>2 DEF Fields
  <2> QED
    BY <2>3 DEF Tidy
<1>2. CASE c.state \notin {"POST_HANDSHAKE", "CLOSING"}
  <2>1. r.conn = c
    BY <1>2 DEF handle_error, Result
  <2> QED
    BY <1>2, <2>1
<1> QED
  BY <1>1, <1>2

\* Handler::on_write, and CONNECTION_CLOSE if it fails.
LEMMA HandlerWrote ==
    ASSUME NEW c, Conn(c), Tidy(c), NEW due, due \subseteq c.rtb,
           NEW dead \in BOOLEAN, NEW ack, NEW r, r = handler_write(c, due, dead, ack)
    PROVE  Served(c, r)
<1> DEFINE o == on_write(c, due, dead, ack)
           e == handle_error(o.conn)
<1>1. r = IF o.err THEN After(o, e) ELSE o
  BY DEF handler_write, Closed
<1> HIDE DEF o
<1>2. Wrote(c, o) /\ o.err \in BOOLEAN
  BY OnWrite DEF o
<1>3. Tidy(o.conn)
  BY <1>2, TidyWrote
<1>4. Conn(o.conn)
  BY <1>2 DEF Wrote
<1>5. Wrote(o.conn, e) /\ e.err \in BOOLEAN
  BY <1>4, ErrorHandled
<1>6. Tidy(e.conn)
  BY <1>3, <1>5, TidyWrote
<1> HIDE DEF e
<1>7. CASE o.err
  <2>1. r = After(o, e)
    BY <1>1, <1>7
  <2>2. Wrote(c, r) /\ r.conn = e.conn /\ r.err = e.err
    BY <1>2, <1>5, <2>1, WroteAfter
  <2> QED
    BY <1>5, <1>6, <2>2, WroteLater DEF Served
<1>8. CASE ~o.err
  BY <1>1, <1>2, <1>3, <1>8, WroteLater DEF Served
<1> QED
  BY <1>7, <1>8

\* Handler::on_read.
LEMMA HandlerRead ==
    ASSUME NEW c, Conn(c), Tidy(c), NEW p, Comes(c, p), NEW ack,
           NEW r, r = handler_read(c, p, ack)
    PROVE  Served(c, r)
<1> DEFINE s == conn_recv(c, p, ack)
           e == handle_error(s.conn)
           w == handler_write(s.conn, {}, FALSE, ack)
           d == [s.conn EXCEPT !.draining = TRUE]
<1>1. r = IF s.err THEN After(s, e)
          ELSE IF s.conn.state = "DRAINING" THEN [s EXCEPT !.conn.draining = TRUE]
          ELSE After(s, w)
  BY DEF handler_read, write_after_feed, Closed
<1> HIDE DEF s
<1>2. Read(c, s) /\ TidyOrFailed(s)
  BY Received DEF s
<1>3. /\ Conn(s.conn) /\ Later(c, s.conn) /\ Emits(s.conn, s.out) /\ s.err \in BOOLEAN
      /\ DOMAIN s.conn = Fields /\ DOMAIN s = Shape
  BY <1>2 DEF Read, Conn, Progress
<1>4. CASE s.err
  <2>1. Wrote(s.conn, e) /\ e.err \in BOOLEAN
    BY <1>3, ErrorHandled
  <2>2. Tidy(e.conn)
    BY <1>2, <1>3, TidyError DEF TidyOrFailed
  <2> HIDE DEF e
  <2>3. r.conn = e.conn /\ r.out = s.out \cup e.out /\ r.err = e.err
    BY <1>1, <1>4 DEF After, Result
  <2>4. Conn(e.conn) /\ Later(s.conn, e.conn) /\ Emits(e.conn, e.out)
    BY <1>3, <2>1, WroteLater
  <2>5. Later(c, e.conn) /\ Emits(e.conn, s.out)
    BY <1>3, <2>4, LaterAgain, LaterSent
  <2>6. Emits(e.conn, s.out \cup e.out)
    BY <2>4, <2>5 DEF Emits
  <2> QED
    BY <2>1, <2>2, <2>3, <2>4, <2>5, <2>6 DEF Served
<1>5. CASE ~s.err /\ s.conn.state = "DRAINING"
  <2>1. Took(s.conn, d)
    BY <1>3 DEF Took, Fields
  <2>2. Conn(d) /\ Later(s.conn, d)
    BY <1>3, <2>1, TookConn
  <2>3. d.state = "DRAINING"
    BY <1>5, <2>1 DEF Took
  <2>4. Later(c, d) /\ Emits(d, s.out)
    BY <1>3, <2>2, LaterAgain, LaterSent
  <2>5. r.conn = d /\ r.out = s.out /\ r.err = s.err
    <3>1. r = [s EXCEPT !.conn = d]
      BY <1>1, <1>5
    <3> HIDE DEF d
    <3> QED
      BY <1>3, <3>1 DEF Shape
  <2> HIDE DEF d
  <2> QED
    BY <1>3, <2>2, <2>3, <2>4, <2>5 DEF Served, Tidy
<1>6. CASE ~s.err /\ s.conn.state # "DRAINING"
  <2>1. Tidy(s.conn)
    BY <1>2, <1>6 DEF TidyOrFailed
  <2>2. {} \subseteq s.conn.rtb /\ FALSE \in BOOLEAN
    OBVIOUS
  <2>3. Served(s.conn, w)
    BY <1>3, <2>1, <2>2, HandlerWrote
  <2> HIDE DEF w
  <2>4. r.conn = w.conn /\ r.out = s.out \cup w.out /\ r.err = w.err
    BY <1>1, <1>6 DEF After, Result
  <2>5. Later(c, w.conn) /\ Emits(w.conn, s.out)
    BY <1>3, <2>3, LaterAgain, LaterSent DEF Served
  <2>6. Emits(w.conn, s.out \cup w.out)
    BY <2>3, <2>5 DEF Emits, Served
  <2> QED
    BY <2>3, <2>4, <2>5, <2>6 DEF Served
<1> QED
  BY <1>4, <1>5, <1>6

(* r is the result of a turn of the client's connection c.                 *)
Turned(c, r) ==
    /\ \/ Conn(r.conn) /\ Tidy(r.conn) /\ ~r.conn.server
       \/ Remembers(r.conn)
    /\ c.completed => r.conn.completed
    /\ c.negotiated => /\ r.conn.negotiated \/ r.conn.gone
                       /\ r.conn.conn_id = c.conn_id
    /\ \A p \in r.out : p \in Packet /\ p.to = "server" /\ FromClient(r.conn, p)

\* A client that has not disconnected has had a turn.
LEMMA TurnedLater ==
    ASSUME NEW c, ~c.server, NEW r, Later(c, r.conn), Conn(r.conn), Tidy(r.conn),
           Emits(r.conn, r.out)
    PROVE  Turned(c, r)
<1>1. ~r.conn.server
  BY DEF Later
<1> QED
  BY <1>1 DEF Turned, Later, Emits, Emitted

\* Client::disconnect.
LEMMA Disconnected ==
    ASSUME NEW c, Conn(c), ~c.server, c.state # "CLIENT_INITIAL",
           Tidy(c) \/ c.state = "POST_HANDSHAKE", NEW r, r = disconnect(c)
    PROVE  Turned(c, r)
<1> DEFINE e == handle_error(c)
<1> HIDE DEF e
<1>1. /\ Wrote(c, e) /\ e.err \in BOOLEAN /\ e.conn.state # "CLIENT_INITIAL"
  BY ErrorHandled DEF e
<1>2. Conn(e.conn) /\ Later(c, e.conn) /\ Emits(e.conn, e.out) /\ Kept(c, e.conn)
  BY <1>1, WroteLater DEF Wrote
<1>3. Tidy(e.conn)
  BY TidyError DEF e
<1>4. DOMAIN e.conn = Fields /\ ~e.conn.server
  BY <1>2 DEF Kept
<1>5. CASE c.migrated
  <2> DEFINE d == [e.conn EXCEPT !.timer = FALSE]
  <2>1. r = Result(d, e.out, TRUE)
    BY <1>5 DEF disconnect, e
  <2>2. Took(e.conn, d)
    BY <1>4 DEF Took, Fields
  <2> HIDE DEF d
  <2>3. Conn(d) /\ Later(e.conn, d)
    BY <1>2, <2>2, TookConn
  <2>4. r.conn = d /\ r.out = e.out
    BY <2>1 DEF Result
  <2>5. Later(c, d) /\ Emits(d, e.out)
    BY <1>2, <2>3, LaterAgain, LaterSent
  <2>6. Tidy(d)
    BY <1>3, <2>2 DEF Tidy, Took
  <2> QED
    BY <2>3, <2>4, <2>5, <2>6, TurnedLater
<1>6. CASE ~c.migrated
  <2> DEFINE n == conn_new(client)
             f == [n EXCEPT !.timer = FALSE]
             g == [f EXCEPT !.gone = TRUE]
             h == [g EXCEPT !.state = e.conn.state]
             i == [h EXCEPT !.completed = c.completed]
             j == [i EXCEPT !.conn_id = c.conn_id]
             d == [j EXCEPT !.from = c.from]
             Blank(x) == /\ DOMAIN x = Fields /\ ~x.server /\ x.tx = 0 /\ x.out = 0
                         /\ x.rtb = {} /\ x.early_rtb = {} /\ x.buffed_rx_ppkts = << >>
  <2>1. [n EXCEPT !.timer = FALSE, !.gone = TRUE, !.state = e.conn.state,
                  !.completed = c.completed, !.conn_id = c.conn_id, !.from = c.from] = d
    OBVIOUS
  <2>2. r = Result(d, e.out, TRUE)
    BY <1>6, <2>1 DEF disconnect, e
  <2>3. Blank(n)
    <3>1. ~n.server
      BY DEF conn_new
    <3> QED
      BY <3>1 DEF conn_new, Fields
  <2> HIDE DEF n
  <2>4. Blank(f) /\ ~f.timer
    BY <2>3 DEF Fields
  <2> HIDE DEF f
  <2>5. Blank(g) /\ ~g.timer /\ g.gone
    BY <2>4 DEF Fields
  <2> HIDE DEF g
  <2>6. Blank(h) /\ ~h.timer /\ h.gone /\ h.state = e.conn.state
    BY <2>5 DEF Fields
  <2> HIDE DEF h
  <2>7. Blank(i) /\ ~i.timer /\ i.gone /\ i.state = e.conn.state
        /\ i.completed = c.completed
    BY <2>6 DEF Fields
  <2> HIDE DEF i
  <2>8. Blank(j) /\ ~j.timer /\ j.gone /\ j.state = e.conn.state
        /\ j.completed = c.completed /\ j.conn_id = c.conn_id
    BY <2>7 DEF Fields
  <2> HIDE DEF j
  <2>9. Blank(d) /\ ~d.timer /\ d.gone /\ d.state = e.conn.state
        /\ d.completed = c.completed /\ d.conn_id = c.conn_id /\ d.from = c.from
    BY <2>8 DEF Fields
  <2> HIDE DEF d
  <2>10. r.conn = d /\ r.out = e.out
    BY <2>2 DEF Result
  <2>11. d.state \in ClientStates \ {"CLIENT_INITIAL"}
    BY <1>1, <1>2, <1>4, <2>9 DEF Conn, Holds
  <2>12. Progress(c) /\ ClientProgress(c)
    BY DEF Conn
  <2>13. Remembers(d)
    <3>1. c.conn_id \in 0..MaxConn
      BY <2>12 DEF Progress
    <3>2. c.completed => c.from = {c.conn_id}
      BY <2>12 DEF ClientProgress
    <3>3. c.conn_id # 0 => env.known /\ Answered(c.conn_id)
      BY <2>12 DEF ClientProgress
    <3> QED
      BY <2>9, <2>11, <3>1, <3>2, <3>3 DEF Remembers
  <2>14. ASSUME NEW p \in e.out
         PROVE  p \in Packet /\ p.to = "server" /\ FromClient(d, p)
    <3>1. p \in Packet /\ p.to = "server" /\ FromClient(e.conn, p)
      BY <1>2, <1>4 DEF Emits, Emitted
    <3>2. e.conn.conn_id = d.conn_id /\ e.conn.completed = d.completed
      BY <1>2, <2>9 DEF Kept
    <3> QED
      BY <2>9, <3>1, <3>2 DEF FromClient
  <2> QED
    BY <2>9, <2>10, <2>13, <2>14 DEF Turned
<1> QED
  BY <1>5, <1>6

\* A turn after packets that were sent before it is a turn.
LEMMA TurnedAfter ==
    ASSUME NEW c, Conn(c), ~c.server, NEW s, Conn(s.conn), Later(c, s.conn),
           Emits(s.conn, s.out), NEW t, Turned(s.conn, t), NEW r, r = After(s, t)
    PROVE  Turned(c, r)
<1>1. r.conn = t.conn /\ r.out = s.out \cup t.out
  BY DEF After, Result
<1>2. ~s.conn.server /\ ~s.conn.gone
  BY DEF Later, Conn, Progress
<1>3. ASSUME NEW p \in s.out
      PROVE  p \in Packet /\ p.to = "server" /\ FromClient(t.conn, p)
  <2>1. p \in Packet /\ p.to = "server" /\ FromClient(s.conn, p)
    BY <1>2 DEF Emits, Emitted
  <2> QED
    BY <1>2, <2>1 DEF FromClient, Turned
<1>4. \A p \in r.out : p \in Packet /\ p.to = "server" /\ FromClient(r.conn, p)
  BY <1>1, <1>3 DEF Turned
<1>5. c.completed => t.conn.completed
  BY DEF Later, Turned
<1>6. c.negotiated => /\ t.conn.negotiated \/ t.conn.gone
                      /\ t.conn.conn_id = c.conn_id
  BY DEF Later, Turned
<1> QED
  BY <1>1, <1>4, <1>5, <1>6 DEF Turned

\* Client::on_write, and disconnect if it fails.
LEMMA ClientWrote ==
    ASSUME NEW c, Conn(c), Tidy(c), ~c.server, NEW due, due \subseteq c.rtb,
           NEW dead \in BOOLEAN, dead => c.state # "CLIENT_INITIAL", NEW ack,
           NEW r, r = client_write(c, due, dead, ack)
    PROVE  Turned(c, r)
<1> DEFINE o == on_write(c, due, dead, ack)
           e == disconnect(o.conn)
<1>1. r = IF o.err THEN After(o, e) ELSE o
  BY DEF client_write, disconnect_failed
<1> HIDE DEF o
<1>2. /\ Wrote(c, o) /\ o.err \in BOOLEAN
      /\ c.state = "CLIENT_INITIAL" => o.err = dead
      /\ ~dead \/ c.state # "CLIENT_INITIAL" => o.conn.state # "CLIENT_INITIAL"
  BY OnWrite DEF o
<1>3. Conn(o.conn) /\ Later(c, o.conn) /\ Emits(o.conn, o.out)
  BY <1>2, WroteLater
<1>4. Tidy(o.conn)
  BY <1>2, TidyWrote
<1>5. ~o.conn.server
  BY <1>3 DEF Later
<1>6. CASE o.err
  <2>1. o.conn.state # "CLIENT_INITIAL"
    BY <1>2
  <2>2. Turned(o.conn, e)
    BY <1>3, <1>4, <1>5, <2>1, Disconnected
  <2>3. r = After(o, e)
    BY <1>1, <1>6
  <2> HIDE DEF e
  <2> QED
    BY <1>3, <2>2, <2>3, TurnedAfter
<1>7. CASE ~o.err
  <2>1. r = o
    BY <1>1, <1>7
  <2> QED
    BY <1>3, <1>4, <2>1, TurnedLater
<1> QED
  BY <1>6, <1>7

\* Client::on_read.
LEMMA ClientRead ==
    ASSUME NEW c, Conn(c), Tidy(c), ~c.server, NEW p, Comes(c, p), NEW ack,
           NEW r, r = client_read(c, p, ack)
    PROVE  Turned(c, r)
<1> DEFINE s == conn_recv(c, p, ack)
           e == disconnect(s.conn)
           k == [s.conn EXCEPT !.timer = TRUE]
           w == client_write(k, {}, FALSE, ack)
<1>1. r = IF s.err \/ s.conn.state = "DRAINING" THEN After(s, e) ELSE After(s, w)
  BY DEF client_read, write_after_read
<1> HIDE DEF s
<1>2. /\ Read(c, s) /\ TidyOrFailed(s)
      /\ c.state = "CLIENT_INITIAL" => s = Result(c, {}, FALSE)
  <2> HIDE DEF e, k, w
  <2>1. Read(c, s) /\ TidyOrFailed(s)
    BY Received DEF s
  <2>3. c.state = "CLIENT_INITIAL" => s = Result(c, {}, FALSE)
    BY DEF s, conn_recv, Failed
  <2> QED
    BY <2>1, <2>3
<1>3. /\ Conn(s.conn) /\ Later(c, s.conn) /\ Emits(s.conn, s.out) /\ s.err \in BOOLEAN
      /\ DOMAIN s.conn = Fields /\ ~s.conn.server
  BY <1>2 DEF Read, Conn, Progress, Later
<1>4. CASE s.err \/ s.conn.state = "DRAINING"
  <2>1. s.conn.state # "CLIENT_INITIAL"
    <3>1. CASE c.state = "CLIENT_INITIAL"
      <4>1. s.conn = c /\ s.err = FALSE
        BY <1>2, <3>1 DEF Result
      <4> QED
        BY <1>4, <3>1, <4>1
    <3>2. CASE c.state # "CLIENT_INITIAL"
      BY <1>2, <3>2 DEF Read
    <3> QED
      BY <3>1, <3>2
  <2>2. Tidy(s.conn) \/ s.conn.state = "POST_HANDSHAKE"
    BY <1>2 DEF TidyOrFailed
  <2>3. Turned(s.conn, e)
    BY <1>3, <2>1, <2>2, Disconnected
  <2>4. r = After(s, e)
    BY <1>1, <1>4
  <2> HIDE DEF e
  <2> QED
    BY <1>3, <2>3, <2>4, TurnedAfter
<1>5. CASE ~(s.err \/ s.conn.state = "DRAINING")
  <2>1. Took(s.conn, k)
    BY <1>3 DEF Took, Fields
  <2>2. Conn(k) /\ Later(s.conn, k)
    BY <1>3, <2>1, TookConn
  <2>3. Tidy(k) /\ ~k.server
    BY <1>2, <1>3, <1>5, <2>1 DEF TidyOrFailed, Tidy, Took
  <2> HIDE DEF k
  <2>4. {} \subseteq k.rtb /\ FALSE \in BOOLEAN /\ (FALSE => k.state # "CLIENT_INITIAL")
    OBVIOUS
  <2>5. Turned(k, w)
    BY <2>2, <2>3, <2>4, ClientWrote
  <2> HIDE DEF w
  <2>6. Turned(s.conn, w)
    BY <2>2, <2>5 DEF Turned, Later
  <2>7. r = After(s, w)
    BY <1>1, <1>5
  <2> QED
    BY <1>3, <2>6, <2>7, TurnedAfter
<1> QED
  BY <1>4, <1>5

---------------------------------------------------------------------------
(* The steps.                                                              *)

\* What holds of a connection goes on to hold when others take their turns.
LEMMA ConnCarried ==
    ASSUME NEW d, Conn(d), env' = env, net \subseteq net',
           d.server /\ ep[client].completed =>
             ep'[client].completed /\ ep'[client].conn_id = ep[client].conn_id
    PROVE  Conn(d)'
<1>1. /\ Progress(d) /\ Holds(d)
      /\ d.server => HandlerProgress(d)
      /\ ~d.server => ClientProgress(d)
  BY DEF Conn
<1>2. \A h : Answered(h) => Answered(h)'
  BY DEF Answered
<1>3. Progress(d)' /\ Holds(d)'
  BY <1>1 DEF Progress, Holds
<1>4. ASSUME d.server PROVE HandlerProgress(d)'
  BY <1>1, <1>4 DEF HandlerProgress
<1>5. ASSUME ~d.server PROVE ClientProgress(d)'
  BY <1>1, <1>2, <1>5 DEF ClientProgress
<1> QED
  BY <1>3, <1>4, <1>5 DEF Conn

\* Nor does the client that has disconnected change.
LEMMA RemembersCarried ==
    ASSUME NEW d, Remembers(d), env' = env, net \subseteq net'
    PROVE  Remembers(d)'
<1>1. \A h : Answered(h) => Answered(h)'
  BY DEF Answered
<1> QED
  BY <1>1 DEF Remembers

\* The client's step.
LEMMA ClientStep ==
    ASSUME Inv, Conn(ep[client]), ~ep[client].server,
           NEW r, Turned(ep[client], r), NEW bad, ClientTurn(r, bad), RoutesAgree'
    PROVE  Inv'
<1> PICK d : d = r.conn
  OBVIOUS
<1> PICK c : c = ep[client]
  OBVIOUS
<1>1. /\ ep' = [ep EXCEPT ![0] = d] /\ net' = net \cup r.out
      /\ handlers' = handlers /\ ctos' = ctos /\ env' = env
  BY DEF ClientTurn, client
<1>2. DOMAIN ep = 0..MaxConn /\ MaxConn \in Nat /\ 0 \in 0..MaxConn
  BY HandshakeAssumption DEF Inv
<1>3. ep'[client] = d /\ \A h \in Handlers : ep'[h] = ep[h]
  BY <1>1, <1>2 DEF client, Handlers
<1>4. /\ (Conn(d) /\ Tidy(d) /\ ~d.server) \/ Remembers(d)
      /\ c.completed => d.completed
      /\ c.negotiated => (d.negotiated \/ d.gone) /\ d.conn_id = c.conn_id
      /\ \A p \in r.out : p \in Packet /\ p.to = "server" /\ FromClient(d, p)
  BY DEF Turned
<1>5. Conn(c) /\ ~c.server /\ ~c.gone /\ (c.completed => c.negotiated)
  BY DEF Conn, Progress, ClientProgress
<1>6. NetOk'
  <2> SUFFICES ASSUME NEW p \in net'
               PROVE  /\ p \in Packet
                      /\ p.to = "server" => FromClient(ep'[client], p)
                      /\ p.to = "client" =>
                           \/ p.type = "VN" /\ ~env'.known /\ p.unit = 0 /\ p.cid = 0
                           \/ env'.known /\ p.cid \in Handlers /\ FromHandler(ep'[p.cid], p)
    BY DEF NetOk, FromClient, FromHandler
  <2>1. CASE p \in net
    <3>1. /\ p \in Packet
          /\ p.to = "server" => FromClient(c, p)
          /\ p.to = "client" =>
               \/ p.type = "VN" /\ ~env.known /\ p.unit = 0 /\ p.cid = 0
               \/ env.known /\ p.cid \in Handlers /\ FromHandler(ep[p.cid], p)
      BY <2>1 DEF Inv, NetOk
    <3>2. FromClient(c, p) => FromClient(d, p)
      BY <1>4, <1>5 DEF FromClient
    <3> QED
      BY <1>1, <1>3, <3>1, <3>2
  <2>2. CASE p \in r.out
    <3>1. p \in Packet /\ p.to = "server" /\ FromClient(d, p)
      BY <1>4, <2>2
    <3> QED
      BY <1>3, <3>1
  <2> QED
    BY <1>1, <2>1, <2>2
<1>7. (\/ ~ep[client].server /\ Conn(ep[client]) /\ Tidy(ep[client])
       \/ Remembers(ep[client]))'
  <2>1. CASE Conn(d) /\ Tidy(d) /\ ~d.server
    <3>1. Conn(d)'
      BY <1>1, <2>1, ConnCarried
    <3>2. Conn(ep[client])' <=> Conn(d)'
      BY <1>3 DEF Conn, Progress, Holds, HandlerProgress, ClientProgress, Failed, Answered
    <3>3. ~ep'[client].server /\ Tidy(ep[client])'
      BY <1>3, <2>1 DEF Tidy
    <3> QED
      BY <3>1, <3>2, <3>3
  <2>2. CASE Remembers(d)
    <3>1. Remembers(d)'
      BY <1>1, <2>2, RemembersCarried
    <3>2. Remembers(ep[client])' <=> Remembers(d)'
      BY <1>3 DEF Remembers, Answered
    <3> QED
      BY <3>1, <3>2
  <2> QED
    BY <1>4, <2>1, <2>2
<1>8. ASSUME NEW h \in handlers'
      PROVE  (ep[h].server /\ ep[h].conn_id = h /\ Conn(ep[h]) /\ Tidy(ep[h]))'
  <2> PICK k : k = ep[h]
    OBVIOUS
  <2>1. h \in handlers /\ h \in Handlers /\ ep'[h] = k
    BY <1>1, <1>3, <1>8 DEF Inv
  <2>2. k.server /\ k.conn_id = h /\ Conn(k) /\ Tidy(k)
    BY <2>1 DEF Inv
  <2>3. Conn(k)'
    <3>1. k.server /\ ep[client].completed =>
             ep'[client].completed /\ ep'[client].conn_id = ep[client].conn_id
      BY <1>3, <1>4, <1>5
    <3> QED
      BY <1>1, <2>2, <3>1, ConnCarried
  <2>4. Conn(ep[h])' <=> Conn(k)'
    BY <2>1 DEF Conn, Progress, Holds, HandlerProgress, ClientProgress, Failed, Answered
  <2>5. Tidy(ep[h])'
    BY <2>1, <2>2 DEF Tidy
  <2> QED
    BY <2>1, <2>2, <2>3, <2>4, <2>5
<1>9. (\A h \in Handlers \ handlers : Fresh(h))'
  BY <1>1, <1>3 DEF Inv, Fresh
<1>10. (DOMAIN ep = 0..MaxConn /\ env \in Scenarios /\ handlers \subseteq Handlers
        /\ ctos \in 0..MaxConn)'
  BY <1>1, <1>2 DEF Inv
<1> QED
  BY <1>6, <1>7, <1>8, <1>9, <1>10 DEF Inv

\* Where the client does not move and the net only grows, the packets of the
\* client and of the handlers that do not move stay what they are.
LEMMA NetGrows ==
    ASSUME Inv, env' = env, ep'[client] = ep[client], NEW g, NEW out,
           net' = net \cup out, \A h \in Handlers : h # g => ep'[h] = ep[h],
           \A p : g \in Handlers /\ FromHandler(ep[g], p) => FromHandler(ep'[g], p),
           \A p \in out : /\ p \in Packet /\ p.to = "client"
                          /\ \/ p.type = "VN" /\ ~env.known /\ p.unit = 0 /\ p.cid = 0
                             \/ /\ env.known /\ p.cid \in Handlers
                                /\ FromHandler(ep'[p.cid], p)
    PROVE  NetOk'
<1> SUFFICES ASSUME NEW p \in net'
             PROVE  /\ p \in Packet
                    /\ p.to = "server" => FromClient(ep'[client], p)
                    /\ p.to = "client" =>
                         \/ p.type = "VN" /\ ~env'.known /\ p.unit = 0 /\ p.cid = 0
                         \/ env'.known /\ p.cid \in Handlers /\ FromHandler(ep'[p.cid], p)
  BY DEF NetOk, FromClient, FromHandler
<1>1. CASE p \in net
  <2>1. /\ p \in Packet
        /\ p.to = "server" => FromClient(ep[client], p)
        /\ p.to = "client" =>
             \/ p.type = "VN" /\ ~env.known /\ p.unit = 0 /\ p.cid = 0
             \/ env.known /\ p.cid \in Handlers /\ FromHandler(ep[p.cid], p)
    BY <1>1 DEF Inv, NetOk
  <2>2. ASSUME p.cid \in Handlers, FromHandler(ep[p.cid], p)
        PROVE  FromHandler(ep'[p.cid], p)
    <3>1. CASE p.cid = g
      BY <2>2, <3>1
    <3>2. CASE p.cid # g
      <4>1. ep'[p.cid] = ep[p.cid]
        BY <2>2, <3>2
      <4> QED
        BY <2>2, <4>1
    <3> QED
      BY <3>1, <3>2
  <2> QED
    BY <2>1, <2>2
<1>2. CASE p \in out
  <2>1. p.to # "server"
    BY <1>2
  <2> QED
    BY <1>2, <2>1
<1> QED
  BY <1>1, <1>2

\* The client goes on to be what it was when it does not move.
LEMMA ClientStays ==
    ASSUME Inv, env' = env, net \subseteq net', ep'[client] = ep[client]
    PROVE  (\/ ~ep[client].server /\ Conn(ep[client]) /\ Tidy(ep[client])
            \/ Remembers(ep[client]))'
<1> PICK d : d = ep[client]
  OBVIOUS
<1>1. (~d.server /\ Conn(d) /\ Tidy(d)) \/ Remembers(d)
  BY DEF Inv
<1>2. CASE ~d.server /\ Conn(d) /\ Tidy(d)
  <2>1. Conn(d)'
    BY <1>2, ConnCarried
  <2>2. Conn(ep[client])' <=> Conn(d)'
    BY DEF Conn, Progress, Holds, HandlerProgress, ClientProgress, Failed, Answered
  <2>3. ~ep'[client].server /\ Tidy(ep[client])'
    BY <1>2 DEF Tidy
  <2> QED
    BY <2>1, <2>2, <2>3
<1>3. CASE Remembers(d)
  <2>1. Remembers(d)'
    BY <1>3, RemembersCarried
  <2>2. Remembers(ep[client])' <=> Remembers(d)'
    BY DEF Remembers, Answered
  <2> QED
    BY <2>1, <2>2
<1> QED
  BY <1>1, <1>2, <1>3

\* So does a handler whose connection is d afterwards.
LEMMA HandlerStays ==
    ASSUME Inv, env' = env, net \subseteq net', ep'[client] = ep[client],
           NEW h, NEW d, d = ep'[h], d.server, d.conn_id = h, Conn(d), Tidy(d)
    PROVE  (ep[h].server /\ ep[h].conn_id = h /\ Conn(ep[h]) /\ Tidy(ep[h]))'
<1>1. Conn(d)'
  BY ConnCarried
<1>2. Conn(ep[h])' <=> Conn(d)'
  BY DEF Conn, Progress, Holds, HandlerProgress, ClientProgress, Failed, Answered
<1>3. Tidy(ep[h])'
  BY DEF Tidy
<1> QED
  BY <1>1, <1>2, <1>3

\* The step of handler h.
LEMMA HandlerStep ==
    ASSUME Inv, NEW h \in handlers, NEW r, Served(ep[h], r), NEW bad,
           HandlerTurn(h, r, bad), RoutesAgree'
    PROVE  Inv'
<1> PICK d : d = r.conn
  OBVIOUS
<1> PICK e : e = IF r.err THEN [conn_new(h) EXCEPT !.gone = TRUE] ELSE d
  OBVIOUS
<1>1. h \in Handlers /\ h \in 0..MaxConn /\ h # 0 /\ DOMAIN ep = 0..MaxConn
      /\ 0 \in 0..MaxConn
  BY HandshakeAssumption DEF Inv, Handlers
<1>2. /\ ep' = [ep EXCEPT ![h] = e] /\ net' = net \cup r.out /\ env' = env
      /\ IF r.err THEN handlers' = handlers \ {h} /\ ctos' = 0
                  ELSE handlers' = handlers /\ ctos' = ctos
  BY DEF HandlerTurn, remove
<1>3. ep'[client] = ep[client] /\ ep'[h] = e /\ \A g \in Handlers : g # h => ep'[g] = ep[g]
  BY <1>1, <1>2 DEF client, Handlers
<1>4. /\ ep[h].server /\ ep[h].conn_id = h /\ Conn(ep[h]) /\ env.known
  BY DEF Inv, Conn, HandlerProgress
<1>5. /\ Conn(d) /\ Later(ep[h], d) /\ Emits(d, r.out) /\ Tidy(d)
      /\ d.server /\ d.conn_id = h /\ ep[h].rx <= d.rx
  BY <1>4 DEF Served, Later
<1>6. r.err => e.gone
  BY DEF conn_new
<1>7. ASSUME NEW p, FromHandler(d, p) PROVE FromHandler(e, p)
  <2>1. CASE r.err
    BY <1>6, <1>7, <2>1 DEF FromHandler
  <2>2. CASE ~r.err
    BY <1>7, <2>2
  <2> QED
    BY <2>1, <2>2
<1>8. ASSUME NEW p, FromHandler(ep[h], p) PROVE FromHandler(e, p)
  <2>1. ep[h].rx \in 0..2 /\ d.rx \in 0..2 /\ ~ep[h].gone
    BY <1>4, <1>5 DEF Conn, Progress
  <2>2. ep[h].rx > 0 => d.rx > 0
    BY <1>5, <2>1
  <2>3. FromHandler(d, p)
    BY <1>8, <2>1, <2>2 DEF FromHandler
  <2> QED
    BY <1>7, <2>3
<1>9. NetOk'
  <2>1. \A p \in r.out : /\ p \in Packet /\ p.to = "client" /\ p.cid = h
                         /\ FromHandler(e, p)
    BY <1>5, <1>7 DEF Emits, Emitted
  <2>2. \A p \in r.out : /\ p \in Packet /\ p.to = "client"
                         /\ \/ p.type = "VN" /\ ~env.known /\ p.unit = 0 /\ p.cid = 0
                            \/ /\ env.known /\ p.cid \in Handlers
                               /\ FromHandler(ep'[p.cid], p)
    BY <1>1, <1>3, <1>4, <2>1
  <2>3. \A p : h \in Handlers /\ FromHandler(ep[h], p) => FromHandler(ep'[h], p)
    BY <1>3, <1>8
  <2> QED
    BY <1>2, <1>3, <2>2, <2>3, NetGrows
<1>10. net \subseteq net'
  BY <1>2
<1>11. (\/ ~ep[client].server /\ Conn(ep[client]) /\ Tidy(ep[client])
        \/ Remembers(ep[client]))'
  BY <1>2, <1>3, <1>10, ClientStays
<1>12. ASSUME NEW g \in handlers'
       PROVE  (ep[g].server /\ ep[g].conn_id = g /\ Conn(ep[g]) /\ Tidy(ep[g]))'
  <2>1. g \in handlers /\ g \in Handlers /\ (g = h => ~r.err)
    BY <1>2, <1>12 DEF Inv
  <2> PICK k : k = ep'[g]
    OBVIOUS
  <2>2. k.server /\ k.conn_id = g /\ Conn(k) /\ Tidy(k)
    <3>1. CASE g = h
      BY <1>3, <1>5, <2>1, <3>1
    <3>2. CASE g # h
      <4>1. k = ep[g]
        BY <1>3, <2>1, <3>2
      <4> QED
        BY <2>1, <4>1 DEF Inv
    <3> QED
      BY <3>1, <3>2
  <2> QED
    BY <1>2, <1>3, <1>10, <2>2, HandlerStays
<1>13. (\A g \in Handlers \ handlers : Fresh(g))'
  <2> SUFFICES ASSUME NEW g \in Handlers, g \notin handlers'
               PROVE  ep'[g] \in {conn_new(g), [conn_new(g) EXCEPT !.gone = TRUE]}
    BY DEF Fresh
  <2>1. CASE g = h
    BY <1>2, <1>3, <2>1
  <2>2. CASE g # h
    BY <1>2, <1>3, <2>2 DEF Inv, Fresh
  <2> QED
    BY <2>1, <2>2
<1>14. (DOMAIN ep = 0..MaxConn /\ env \in Scenarios /\ handlers \subseteq Handlers
        /\ ctos \in 0..MaxConn)'
  BY <1>1, <1>2 DEF Inv
<1> QED
  BY <1>9, <1>11, <1>12, <1>13, <1>14 DEF Inv

\* A connection that no packet has reached.
LEMMA NewConn ==
    ASSUME NEW h \in Handlers, env.known, NEW c, c = conn_new(h)
    PROVE  Conn(c) /\ Tidy(c) /\ c.server /\ c.conn_id = h /\ ~c.gone /\ c.rx = 0
<1>1. h \in 0..MaxConn /\ h # 0 /\ MaxConn \in Nat /\ NGTCP2_MAX_NUM_BUFFED_RX_PPKTS \in Nat
  BY HandshakeAssumption DEF Handlers
<1>2. DOMAIN c = Fields
  BY DEF conn_new, Fields
<1>3. /\ c.server = TRUE /\ c.conn_id = h /\ c.state = "SERVER_INITIAL" /\ c.rx = 0
      /\ c.rob = {} /\ c.out = 0 /\ c.completed = FALSE /\ c.negotiated = FALSE
      /\ c.alert = FALSE /\ c.gone = FALSE
  BY <1>1 DEF conn_new, client
<1>4. /\ c.tx = 0 /\ c.rtb = {} /\ c.early_rtb = {} /\ c.got = {}
      /\ c.buffed_rx_ppkts = <<>>
  BY <1>1 DEF conn_new, client
<1>5. Progress(c)
  <2>1. c.conn_id \in 0..MaxConn /\ c.rx \in 0..2 /\ c.rob \subseteq 1..2 /\ c.out \in 0..2
    BY <1>1, <1>3
  <2>2. c.server \in BOOLEAN /\ c.completed \in BOOLEAN /\ c.negotiated \in BOOLEAN
        /\ c.alert \in BOOLEAN /\ ~c.gone
    BY <1>3
  <2> QED
    BY <1>2, <2>1, <2>2 DEF Progress
<1>6. HandlerProgress(c)
  BY <1>1, <1>3 DEF HandlerProgress
<1>7. c.buffed_rx_ppkts \in Seq(Waiting) /\ Len(c.buffed_rx_ppkts) = 0
  BY <1>4
<1>8. Holds(c)
  BY <1>1, <1>3, <1>4, <1>7 DEF Holds, Failed, ServerStates
<1>9. Tidy(c)
  BY <1>3 DEF Tidy
<1> QED
  BY <1>3, <1>5, <1>6, <1>8, <1>9 DEF Conn

\* The step in which the server makes a handler.
LEMMA NewStep ==
    ASSUME Inv, NEW h \in Handlers, h \notin handlers, ep[h] = conn_new(h), env.known,
           NEW r, Served(ep[h], r), NEW initial, KeepHandler(h, r, initial), RoutesAgree'
    PROVE  Inv'
<1> PICK d : d = r.conn
  OBVIOUS
<1> PICK kept : kept = (~r.err /\ d.state \notin {"CLOSING", "DRAINING"})
  OBVIOUS
<1> PICK e : e = IF kept THEN d ELSE IF r.out = {} THEN ep[h]
                 ELSE [ep[h] EXCEPT !.gone = TRUE]
  OBVIOUS
<1>1. h \in 0..MaxConn /\ h # 0 /\ DOMAIN ep = 0..MaxConn /\ 0 \in 0..MaxConn
  BY HandshakeAssumption DEF Inv, Handlers
<1>2. /\ ep' = [ep EXCEPT ![h] = e] /\ net' = net \cup r.out /\ env' = env
      /\ IF kept THEN handlers' = handlers \cup {h} /\ ctos' = h
                 ELSE handlers' = handlers /\ ctos' = ctos
  BY <1>1 DEF KeepHandler
<1>3. ep'[client] = ep[client] /\ ep'[h] = e /\ \A g \in Handlers : g # h => ep'[g] = ep[g]
  BY <1>1, <1>2 DEF client, Handlers
<1>4. Conn(ep[h]) /\ ep[h].server /\ ep[h].conn_id = h /\ ~ep[h].gone /\ ep[h].rx = 0
      /\ DOMAIN ep[h] = Fields
  BY NewConn DEF Conn, Progress
<1>5. /\ Conn(d) /\ Later(ep[h], d) /\ Emits(d, r.out) /\ Tidy(d)
      /\ d.server /\ d.conn_id = h
  BY <1>4 DEF Served, Later
<1>6. ~kept /\ r.out # {} => e.gone
  BY <1>4 DEF Fields
<1>7. ASSUME NEW p \in r.out, FromHandler(d, p) PROVE FromHandler(e, p)
  <2>1. CASE kept
    BY <1>7, <2>1
  <2>2. CASE ~kept
    BY <1>6, <1>7, <2>2 DEF FromHandler
  <2> QED
    BY <2>1, <2>2
<1>8. ASSUME NEW p, FromHandler(ep[h], p) PROVE FromHandler(e, p)
  <2>1. p.type = "SHORT"
    BY <1>4, <1>8 DEF FromHandler
  <2> QED
    BY <2>1 DEF FromHandler
<1>9. NetOk'
  <2>1. \A p \in r.out : /\ p \in Packet /\ p.to = "client" /\ p.cid = h
                         /\ FromHandler(e, p)
    BY <1>5, <1>7 DEF Emits, Emitted
  <2>2. \A p \in r.out : /\ p \in Packet /\ p.to = "client"
                         /\ \/ p.type = "VN" /\ ~env.known /\ p.unit = 0 /\ p.cid = 0
                            \/ /\ env.known /\ p.cid \in Handlers
                               /\ FromHandler(ep'[p.cid], p)
    BY <1>1, <1>3, <2>1
  <2>3. \A p : h \in Handlers /\ FromHandler(ep[h], p) => FromHandler(ep'[h], p)
    BY <1>3, <1>8
  <2> QED
    BY <1>2, <1>3, <2>2, <2>3, NetGrows
<1>10. net \subseteq net'
  BY <1>2
<1>11. (\/ ~ep[client].server /\ Conn(ep[client]) /\ Tidy(ep[client])
        \/ Remembers(ep[client]))'
  BY <1>2, <1>3, <1>10, ClientStays
<1>12. ASSUME NEW g \in handlers'
       PROVE  (ep[g].server /\ ep[g].conn_id = g /\ Conn(ep[g]) /\ Tidy(ep[g]))'
  <2>1. (g = h /\ kept) \/ (g \in handlers /\ g \in Handlers /\ g # h)
    <3>1. handlers \subseteq Handlers
      BY DEF Inv
    <3>2. CASE kept
      <4>1. handlers' = handlers \cup {h}
        BY <1>2, <3>2
      <4> QED
        BY <1>12, <3>1, <3>2, <4>1
    <3>3. CASE ~kept
      <4>1. handlers' = handlers
        BY <1>2, <3>3
      <4> QED
        BY <1>12, <3>1, <4>1
    <3> QED
      BY <3>2, <3>3
  <2> PICK k : k = ep'[g]
    OBVIOUS
  <2>2. k.server /\ k.conn_id = g /\ Conn(k) /\ Tidy(k)
    <3>1. CASE g = h /\ kept
      BY <1>3, <1>5, <3>1
    <3>2. CASE g \in handlers /\ g \in Handlers /\ g # h
      <4>1. k = ep[g]
        BY <1>3, <3>2
      <4> QED
        BY <3>2, <4>1 DEF Inv
    <3> QED
      BY <2>1, <3>1, <3>2
  <2> QED
    BY <1>2, <1>3, <1>10, <2>2, HandlerStays
<1>13. (\A g \in Handlers \ handlers : Fresh(g))'
  <2> SUFFICES ASSUME NEW g \in Handlers, g \notin handlers'
               PROVE  ep'[g] \in {conn_new(g), [conn_new(g) EXCEPT !.gone = TRUE]}
    BY DEF Fresh
  <2>1. CASE g = h
    <3>1. ~kept
      BY <1>2, <2>1
    <3> QED
      BY <1>3, <2>1, <3>1
  <2>2. CASE g # h
    BY <1>2, <1>3, <2>2 DEF Inv, Fresh
  <2> QED
    BY <2>1, <2>2
<1>14. (DOMAIN ep = 0..MaxConn /\ env \in Scenarios /\ handlers \subseteq Handlers
        /\ ctos \in 0..MaxConn)'
  BY <1>1, <1>2 DEF Inv
<1> QED
  BY <1>9, <1>11, <1>12, <1>13, <1>14 DEF Inv

\* What comes to a handler from its client.
LEMMA ToHandler ==
    ASSUME Inv, NEW p \in net, p.to = "server", NEW h \in Handlers, NEW c,
           c = ep[h], Conn(c), c.server, c.conn_id = h
    PROVE  Comes(c, p)
<1> PICK k : k = ep[client]
  OBVIOUS
<1>1. p \in Packet /\ FromClient(k, p)
  BY DEF Inv, NetOk
<1>2. ASSUME p.type = "HANDSHAKE", p.unit = 2, p.cid = h
      PROVE  /\ c.rx > 0
             /\ ~p.alert => k.completed /\ k.conn_id = h
  <2>1. k.conn_id = h /\ (~p.alert => k.completed)
    BY <1>1, <1>2 DEF FromClient
  <2>2. h # 0
    BY DEF Handlers
  <2>3. Answered(h)
    BY <2>1, <2>2 DEF Inv, Conn, ClientProgress, Remembers
  <2>4. PICK q \in net : q.to = "client" /\ q.type = "HANDSHAKE" /\ q.cid = h
    BY <2>3 DEF Answered
  <2>5. FromHandler(c, q)
    BY <2>4 DEF Inv, NetOk
  <2>6. c.rx > 0
    BY <2>4, <2>5 DEF FromHandler, Conn, Progress
  <2> QED
    BY <2>1, <2>6
<1> QED
  BY <1>1, <1>2 DEF Comes, FromClient

\* And to the client.
LEMMA ToClient ==
    ASSUME Inv, NEW p \in net, p.to = "client", ~ep[client].server
    PROVE  Comes(ep[client], p)
<1>1. p \in Packet
  BY DEF Inv, NetOk
<1>2. \/ p.type = "VN" /\ ~env.known
      \/ env.known /\ p.cid \in Handlers /\ FromHandler(ep[p.cid], p)
  BY DEF Inv, NetOk
<1>3. p.type = "HANDSHAKE" => Answered(p.cid)
  BY DEF Answered
<1>4. p.cid \in Handlers => p.cid # 0
  BY DEF Handlers
<1> QED
  BY <1>1, <1>2, <1>3, <1>4 DEF Comes, FromHandler

\* handlers_ and ctos_ agree at first and after every step of the server.
LEMMA RoutesStep ==
    ASSUME RoutesAgree, [Next]_vars
    PROVE  RoutesAgree'
<1> USE DEF RoutesAgree
<1>1. CASE UNCHANGED << handlers, ctos >>
  BY <1>1
<1>2. ASSUME NEW h \in handlers, NEW r, NEW bad, HandlerTurn(h, r, bad)
      PROVE  RoutesAgree'
  BY <1>2 DEF HandlerTurn, remove
<1>3. ASSUME NEW h \in Handlers, NEW r, NEW initial, ctos = 0,
             KeepHandler(h, r, initial)
      PROVE  RoutesAgree'
  <2>1. h # 0
    BY DEF Handlers
  <2>2. \/ handlers' = handlers \cup {h} /\ ctos' = h
        \/ UNCHANGED << handlers, ctos >>
    BY <1>3 DEF KeepHandler
  <2> QED
    BY <1>1, <1>3, <2>1, <2>2
<1>4. ASSUME NEW r, NEW bad, ClientTurn(r, bad) PROVE RoutesAgree'
  BY <1>1, <1>4 DEF ClientTurn
<1>5. run => RoutesAgree'
  BY <1>4 DEF run
<1>6. ASSUME NEW p, NEW ack, readcb(p, ack) PROVE RoutesAgree'
  BY <1>4, <1>6 DEF readcb
<1>7. ASSUME NEW due, NEW dead, NEW ack, client_retransmitcb(due, dead, ack)
      PROVE  RoutesAgree'
  BY <1>4, <1>7 DEF client_retransmitcb
<1>8. client_timeoutcb => RoutesAgree'
  BY <1>4 DEF client_timeoutcb
<1>9. ASSUME NEW p, NEW h, NEW ack, on_read(p, h, ack) PROVE RoutesAgree'
  BY <1>2, <1>9 DEF on_read
<1>10. ASSUME NEW p, NEW h \in Handlers, NEW ack, on_read_new(p, h, ack)
       PROVE  RoutesAgree'
  BY <1>3, <1>10 DEF on_read_new
<1>11. ASSUME NEW p, send_version_negotiation(p) PROVE RoutesAgree'
  BY <1>1, <1>11 DEF send_version_negotiation
<1>12. ASSUME NEW h, NEW due, NEW dead, NEW ack, retransmitcb(h, due, dead, ack)
       PROVE  RoutesAgree'
  BY <1>2, <1>12 DEF retransmitcb
<1>13. ASSUME NEW h, timeoutcb(h) PROVE RoutesAgree'
  BY <1>2, <1>13 DEF timeoutcb
<1>14. server_disconnect => RoutesAgree'
  BY DEF server_disconnect
<1>15. CASE UNCHANGED vars
  BY <1>1, <1>15 DEF vars
<1> QED
  BY <1>5, <1>6, <1>7, <1>8, <1>9, <1>10, <1>11, <1>12, <1>13, <1>14, <1>15 DEF Next

\* Server::on_read never finds an id in ctos_ without a handler, nor has a
\* handler that the id of its client does not lead to, whatever packets and
\* timers come in whatever order.
THEOREM TablesOfServerAgree == Spec => []RoutesAgree
<1>1. Init => RoutesAgree
  BY DEF Init, RoutesAgree
<1> QED
  BY <1>1, RoutesStep, PTL DEF Spec

\* The client has an id it can be reached under, and moves only while it has
\* not disconnected.
LEMMA ClientMoves ==
    ASSUME Inv, \/ ep[client].timer
                \/ ~ep[client].gone
                \/ ep[client].state = "CLIENT_INITIAL"
    PROVE  Conn(ep[client]) /\ Tidy(ep[client]) /\ ~ep[client].server
<1>1. ~Remembers(ep[client])
  BY DEF Remembers
<1> QED
  BY <1>1 DEF Inv

\* The client's steps.
LEMMA ClientSteps ==
    ASSUME Inv, RoutesAgree',
           \/ run
           \/ \E p \in net, ack \in Acks : readcb(p, ack)
           \/ \E due \in SUBSET (1..3), dead \in BOOLEAN, ack \in Acks :
                 client_retransmitcb(due, dead, ack)
           \/ client_timeoutcb
    PROVE  Inv'
<1>1. CASE run
  <2>1. Conn(ep[client]) /\ Tidy(ep[client]) /\ ~ep[client].server
    BY <1>1, ClientMoves DEF run
  <2> PICK r : r = client_write(ep[client], {}, FALSE, FALSE)
    OBVIOUS
  <2>2. {} \subseteq ep[client].rtb /\ FALSE \in BOOLEAN
        /\ (FALSE => ep[client].state # "CLIENT_INITIAL")
    OBVIOUS
  <2>3. Turned(ep[client], r)
    BY <2>1, <2>2, ClientWrote
  <2>4. ClientTurn(r, FALSE)
    BY <1>1 DEF run
  <2> QED
    BY <2>1, <2>3, <2>4, ClientStep
<1>2. ASSUME NEW p \in net, NEW ack \in Acks, readcb(p, ack) PROVE Inv'
  <2>1. Conn(ep[client]) /\ Tidy(ep[client]) /\ ~ep[client].server /\ p.to = "client"
    BY <1>2, ClientMoves DEF readcb
  <2> PICK r : r = client_read(ep[client], p, ack)
    OBVIOUS
  <2>2. Comes(ep[client], p)
    BY <2>1, ToClient
  <2>3. Turned(ep[client], r)
    BY <2>1, <2>2, ClientRead
  <2>4. ClientTurn(r, FALSE)
    BY <1>2 DEF readcb
  <2> QED
    BY <2>1, <2>3, <2>4, ClientStep
<1>3. ASSUME NEW due \in SUBSET (1..3), NEW dead \in BOOLEAN, NEW ack \in Acks,
             client_retransmitcb(due, dead, ack)
      PROVE  Inv'
  <2>1. Conn(ep[client]) /\ Tidy(ep[client]) /\ ~ep[client].server
    BY <1>3, ClientMoves DEF client_retransmitcb
  <2>2. due \subseteq ep[client].rtb /\ (dead => Cardinality(due) = 1)
    BY <1>3 DEF client_retransmitcb
  <2>3. dead => ep[client].state # "CLIENT_INITIAL"
    <3> SUFFICES ASSUME dead, ep[client].state = "CLIENT_INITIAL" PROVE FALSE
      OBVIOUS
    <3>1. ep[client].rtb = {}
      BY <2>1 DEF Conn, Holds
    <3>2. due = {}
      BY <2>2, <3>1
    <3> QED
      BY <2>2, <3>2, FS_EmptySet
  <2> PICK r : r = client_write(ep[client], due, dead, ack)
    OBVIOUS
  <2>4. Turned(ep[client], r)
    BY <2>1, <2>2, <2>3, ClientWrote
  <2>5. ClientTurn(r, dead)
    BY <1>3 DEF client_retransmitcb
  <2> QED
    BY <2>1, <2>4, <2>5, ClientStep
<1>4. CASE client_timeoutcb
  <2>1. /\ Conn(ep[client]) /\ Tidy(ep[client]) /\ ~ep[client].server
        /\ ep[client].state # "CLIENT_INITIAL" /\ DOMAIN ep[client] = Fields
    BY <1>4, ClientMoves DEF client_timeoutcb, Conn, Progress
  <2> PICK c : c = ep[client]
    OBVIOUS
  <2> PICK d : d = [c EXCEPT !.migrated = FALSE]
    OBVIOUS
  <2> PICK r : r = disconnect(d)
    OBVIOUS
  <2>2. Took(c, d)
    BY <2>1 DEF Took, Fields
  <2>3. Conn(d) /\ Later(c, d)
    BY <2>1, <2>2, TookConn
  <2>4. ~d.server /\ d.state = c.state /\ Tidy(d)
    BY <2>1 DEF Fields, Tidy
  <2>5. Turned(d, r)
    BY <2>1, <2>3, <2>4, Disconnected
  <2>6. Turned(c, r)
    BY <2>3, <2>5 DEF Turned, Later
  <2>7. ClientTurn(r, TRUE)
    BY <1>4 DEF client_timeoutcb
  <2> QED
    BY <2>1, <2>6, <2>7, ClientStep
<1> QED
  BY <1>1, <1>2, <1>3, <1>4

\* The steps of a handler.
LEMMA HandlerSteps ==
    ASSUME Inv, RoutesAgree', NEW h \in Handlers,
           \/ \E p \in net, ack \in Acks : on_read(p, h, ack)
           \/ \E due \in SUBSET (1..3), dead \in BOOLEAN, ack \in Acks :
                 retransmitcb(h, due, dead, ack)
           \/ timeoutcb(h)
    PROVE  Inv'
<1>1. h \in handlers
  BY DEF on_read, retransmitcb, timeoutcb
<1> PICK c : c = ep[h]
  OBVIOUS
<1>2. c.server /\ c.conn_id = h /\ Conn(c) /\ Tidy(c) /\ DOMAIN c = Fields
  BY <1>1 DEF Inv, Conn, Progress
<1>3. ASSUME NEW r, NEW bad, Served(c, r), HandlerTurn(h, r, bad) PROVE Inv'
  BY <1>1, <1>3, HandlerStep
<1>4. ASSUME NEW p \in net, NEW ack \in Acks, on_read(p, h, ack) PROVE Inv'
  <2>1. p.to = "server"
    BY <1>4 DEF on_read
  <2>2. CASE c.state = "CLOSING"
    <3> PICK r : r = handle_error(c)
      OBVIOUS
    <3>1. Wrote(c, r) /\ r.err \in BOOLEAN
      BY <1>2, ErrorHandled
    <3>2. Conn(r.conn) /\ Later(c, r.conn) /\ Emits(r.conn, r.out)
      BY <1>2, <3>1, WroteLater
    <3>3. Tidy(r.conn)
      BY <1>2, TidyError
    <3>4. HandlerTurn(h, r, FALSE)
      BY <1>4, <2>2 DEF on_read
    <3> QED
      BY <1>3, <3>1, <3>2, <3>3, <3>4 DEF Served
  <2>3. CASE c.state # "CLOSING"
    <3> PICK r : r = handler_read(c, p, ack)
      OBVIOUS
    <3>1. Comes(c, p)
      BY <1>2, <2>1, ToHandler
    <3>2. Served(c, r)
      BY <1>2, <3>1, HandlerRead
    <3>3. HandlerTurn(h, r, FALSE)
      BY <1>4, <2>3 DEF on_read
    <3> QED
      BY <1>3, <3>2, <3>3
  <2> QED
    BY <2>2, <2>3
<1>5. ASSUME NEW due \in SUBSET (1..3), NEW dead \in BOOLEAN, NEW ack \in Acks,
             retransmitcb(h, due, dead, ack)
      PROVE  Inv'
  <2> PICK r : r = handler_write(c, due, dead, ack)
    OBVIOUS
  <2>1. due \subseteq c.rtb /\ HandlerTurn(h, r, dead)
    BY <1>5 DEF retransmitcb
  <2>2. Served(c, r)
    BY <1>2, <2>1, HandlerWrote
  <2> QED
    BY <1>3, <2>1, <2>2
<1>6. CASE timeoutcb(h)
  <2> PICK d : d = [c EXCEPT !.draining = TRUE]
    OBVIOUS
  <2> PICK r : r = Result(d, {}, c.state = "CLOSING" \/ c.draining)
    OBVIOUS
  <2>1. HandlerTurn(h, r, TRUE)
    BY <1>6 DEF timeoutcb
  <2>2. Took(c, d)
    BY <1>2 DEF Took, Fields
  <2>3. Conn(d) /\ Later(c, d)
    BY <1>2, <2>2, TookConn
  <2>4. Tidy(d)
    BY <1>2 DEF Fields, Tidy
  <2>5. r.conn = d /\ r.out = {} /\ r.err = (c.state = "CLOSING" \/ c.draining)
    BY DEF Result
  <2>6. Served(c, r)
    BY <2>3, <2>4, <2>5 DEF Served, Emits
  <2> QED
    BY <1>3, <2>1, <2>6
<1> QED
  BY <1>4, <1>5, <1>6

\* The server makes a handler for a client it does not know.
LEMMA FirstPacket ==
    ASSUME Inv, RoutesAgree', NEW p \in net, NEW h \in Handlers, NEW ack,
           on_read_new(p, h, ack)
    PROVE  Inv'
<1>1. ctos = 0 /\ ~ep[h].gone /\ accept(p) = 0 /\ p.cid = 0 /\ p.to = "server"
  BY DEF on_read_new, client
<1>2. h \notin handlers /\ h # 0
  BY <1>1 DEF Inv, RoutesAgree, Handlers
<1>3. ep[h] = conn_new(h)
  <2>1. [conn_new(h) EXCEPT !.gone = TRUE].gone = TRUE
    BY DEF conn_new
  <2> QED
    BY <1>1, <1>2, <2>1 DEF Inv, Fresh
<1>4. env.known
  BY <1>1 DEF accept
<1> PICK c : c = ep[h]
  OBVIOUS
<1>5. Conn(c) /\ Tidy(c) /\ c.server /\ c.conn_id = h
  BY <1>3, <1>4, NewConn
<1>6. Comes(c, p)
  BY <1>1, <1>5, ToHandler
<1> PICK r : r = handler_read(c, p, ack)
  OBVIOUS
<1>7. Served(c, r)
  BY <1>5, <1>6, HandlerRead
<1>8. KeepHandler(h, r, p.type = "INITIAL")
  BY DEF on_read_new
<1> QED
  BY <1>2, <1>3, <1>4, <1>7, <1>8, NewStep

\* The version of the client is unknown.
LEMMA VersionStep ==
    ASSUME Inv, RoutesAgree', NEW p \in net, send_version_negotiation(p)
    PROVE  Inv'
<1> DEFINE v == [to |-> "client", type |-> "VN", cid |-> client, unit |-> 0,
                 alert |-> FALSE, ack |-> {}, cc |-> FALSE]
<1>1. /\ net' = net \cup {v} /\ ep' = ep /\ handlers' = handlers /\ ctos' = ctos
      /\ env' = env /\ accept(p) = 1
  BY DEF send_version_negotiation
<1>2. ~env.known
  BY <1>1 DEF accept
<1>3. MaxConn \in Nat
  BY HandshakeAssumption
<1>4. v \in Packet
  BY <1>3 DEF Packet, client
<1>5. v.to = "client" /\ v.type = "VN" /\ v.unit = 0 /\ v.cid = 0
  BY DEF client
<1> HIDE DEF v
<1>6. NetOk'
  <2> PICK g : g = client
    OBVIOUS
  <2> PICK out : out = {v}
    OBVIOUS
  <2>1. \A q \in out : /\ q \in Packet /\ q.to = "client"
                       /\ \/ q.type = "VN" /\ ~env.known /\ q.unit = 0 /\ q.cid = 0
                          \/ /\ env.known /\ q.cid \in Handlers
                             /\ FromHandler(ep'[q.cid], q)
    BY <1>2, <1>4, <1>5
  <2>2. /\ ep'[client] = ep[client]
        /\ \A h \in Handlers : h # g => ep'[h] = ep[h]
        /\ \A q : g \in Handlers /\ FromHandler(ep[g], q) => FromHandler(ep'[g], q)
    BY <1>1
  <2>3. net' = net \cup out
    BY <1>1
  <2> QED
    BY <1>1, <2>1, <2>2, <2>3, NetGrows
<1>7. (\/ ~ep[client].server /\ Conn(ep[client]) /\ Tidy(ep[client])
       \/ Remembers(ep[client]))'
  BY <1>1, ClientStays
<1>8. handlers = {}
  <2> SUFFICES ASSUME NEW h \in handlers PROVE FALSE
    OBVIOUS
  <2> QED
    BY <1>2 DEF Inv, Conn, HandlerProgress
<1>9. (\A h \in Handlers \ handlers : Fresh(h))'
  BY <1>1 DEF Inv, Fresh
<1> QED
  BY <1>1, <1>6, <1>7, <1>8, <1>9 DEF Inv

\* The server is interrupted.
LEMMA ServerEnds ==
    ASSUME Inv, RoutesAgree', server_disconnect
    PROVE  Inv'
<1> DEFINE out == UNION {handle_error(ep[h]).out : h \in handlers}
<1>1. /\ net' = net \cup out /\ handlers' = {} /\ ctos' = 0 /\ env' = env
      /\ ep' = [h \in 0..MaxConn |-> IF h \notin handlers THEN ep[h]
                                     ELSE [conn_new(h) EXCEPT !.gone = TRUE]]
  BY DEF server_disconnect
<1>2. MaxConn \in Nat /\ Handlers \subseteq 0..MaxConn /\ handlers \subseteq Handlers
      /\ 0 \notin Handlers /\ 0 \in 0..MaxConn
  BY HandshakeAssumption DEF Inv, Handlers
<1>3. /\ ep'[client] = ep[client]
      /\ \A h \in Handlers \ handlers : ep'[h] = ep[h]
      /\ \A h \in handlers : ep'[h] = [conn_new(h) EXCEPT !.gone = TRUE]
  BY <1>1, <1>2 DEF client
<1>4. ASSUME NEW h \in handlers PROVE ep'[h].gone
  <2>1. [conn_new(h) EXCEPT !.gone = TRUE].gone = TRUE
    BY DEF conn_new
  <2> QED
    BY <1>3, <2>1
<1>5. ASSUME NEW p \in out
      PROVE  /\ p \in Packet /\ p.to = "client" /\ env.known /\ p.cid \in Handlers
             /\ FromHandler(ep'[p.cid], p)
  <2>1. PICK h \in handlers : p \in handle_error(ep[h]).out
    OBVIOUS
  <2> PICK c : c = ep[h]
    OBVIOUS
  <2> PICK r : r = handle_error(c)
    OBVIOUS
  <2>2. Conn(c) /\ c.server /\ c.conn_id = h /\ h \in Handlers
    BY <1>2 DEF Inv
  <2>3. env.known
    BY <2>2 DEF Conn, HandlerProgress
  <2>4. Wrote(c, r)
    BY <2>2, ErrorHandled
  <2>5. Emitted(r.conn, p) /\ r.conn.server /\ r.conn.conn_id = h
    BY <2>1, <2>2, <2>4 DEF Wrote, Emits, Kept
  <2>6. p \in Packet /\ p.to = "client" /\ p.cid = h /\ FromHandler(r.conn, p)
    BY <2>5 DEF Emitted
  <2>7. FromHandler(ep'[h], p)
    BY <1>4, <2>6 DEF FromHandler
  <2> QED
    BY <2>2, <2>3, <2>6, <2>7
<1> HIDE DEF out
<1>6. NetOk'
  <2> SUFFICES ASSUME NEW p \in net'
               PROVE  /\ p \in Packet
                      /\ p.to = "server" => FromClient(ep'[client], p)
                      /\ p.to = "client" =>
                           \/ p.type = "VN" /\ ~env'.known /\ p.unit = 0 /\ p.cid = 0
                           \/ env'.known /\ p.cid \in Handlers /\ FromHandler(ep'[p.cid], p)
    BY DEF NetOk, FromClient, FromHandler
  <2>1. CASE p \in net
    <3>1. /\ p \in Packet
          /\ p.to = "server" => FromClient(ep[client], p)
          /\ p.to = "client" =>
               \/ p.type = "VN" /\ ~env.known /\ p.unit = 0 /\ p.cid = 0
               \/ env.known /\ p.cid \in Handlers /\ FromHandler(ep[p.cid], p)
      BY <2>1 DEF Inv, NetOk
    <3>2. ASSUME p.cid \in Handlers, FromHandler(ep[p.cid], p)
          PROVE  FromHandler(ep'[p.cid], p)
      <4>1. CASE p.cid \in handlers
        BY <1>4, <3>2, <4>1 DEF FromHandler
      <4>2. CASE p.cid \notin handlers
        <5>1. ep'[p.cid] = ep[p.cid]
          BY <1>3, <3>2, <4>2
        <5> QED
          BY <3>2, <5>1
      <4> QED
        BY <4>1, <4>2
    <3> QED
      BY <1>1, <1>3, <3>1, <3>2
  <2>2. CASE p \in out
    <3>1. p.to # "server"
      BY <1>5, <2>2
    <3> QED
      BY <1>1, <1>5, <2>2, <3>1
  <2> QED
    BY <1>1, <2>1, <2>2
<1>7. (\/ ~ep[client].server /\ Conn(ep[client]) /\ Tidy(ep[client])
       \/ Remembers(ep[client]))'
  BY <1>1, <1>3, ClientStays
<1>8. (\A h \in Handlers \ handlers : Fresh(h))'
  <2> SUFFICES ASSUME NEW h \in Handlers
               PROVE  ep'[h] \in {conn_new(h), [conn_new(h) EXCEPT !.gone = TRUE]}
    BY DEF Fresh
  <2>1. CASE h \in handlers
    BY <1>3, <2>1
  <2>2. CASE h \notin handlers
    BY <1>3, <2>2 DEF Inv, Fresh
  <2> QED
    BY <2>1, <2>2
<1>9. DOMAIN ep' = 0..MaxConn
  BY <1>1
<1> QED
  BY <1>1, <1>2, <1>6, <1>7, <1>8, <1>9 DEF Inv

\* Nothing moves.
LEMMA Stutters ==
    ASSUME Inv, UNCHANGED vars PROVE Inv'
<1>1. ep' = ep /\ handlers' = handlers /\ ctos' = ctos /\ net' = net /\ env' = env
  BY DEF vars
<1>2. NetOk'
  BY <1>1 DEF Inv, NetOk, FromClient, FromHandler
<1>3. (\/ ~ep[client].server /\ Conn(ep[client]) /\ Tidy(ep[client])
       \/ Remembers(ep[client]))'
  BY <1>1, ClientStays
<1>4. ASSUME NEW h \in handlers'
      PROVE  (ep[h].server /\ ep[h].conn_id = h /\ Conn(ep[h]) /\ Tidy(ep[h]))'
  <2> PICK d : d = ep[h]
    OBVIOUS
  <2>1. d = ep'[h] /\ d.server /\ d.conn_id = h /\ Conn(d) /\ Tidy(d)
    BY <1>1, <1>4 DEF Inv
  <2> QED
    BY <1>1, <2>1, HandlerStays
<1>5. (\A h \in Handlers \ handlers : Fresh(h))'
  BY <1>1 DEF Inv, Fresh
<1>6. RoutesAgree'
  BY <1>1 DEF Inv, RoutesAgree
<1> QED
  BY <1>1, <1>2, <1>3, <1>4, <1>5, <1>6 DEF Inv

\* The invariant is inductive.
LEMMA InvStep ==
    ASSUME Inv, [Next]_vars PROVE Inv'
<1>1. RoutesAgree'
  BY RoutesStep DEF Inv
<1>2. CASE \/ run
           \/ \E p \in net, ack \in Acks : readcb(p, ack)
           \/ \E due \in SUBSET (1..3), dead \in BOOLEAN, ack \in Acks :
                 client_retransmitcb(due, dead, ack)
           \/ client_timeoutcb
  BY <1>1, <1>2, ClientSteps
<1>3. ASSUME NEW h \in Handlers,
             \/ \E p \in net, ack \in Acks : on_read(p, h, ack)
             \/ \E due \in SUBSET (1..3), dead \in BOOLEAN, ack \in Acks :
                   retransmitcb(h, due, dead, ack)
             \/ timeoutcb(h)
      PROVE  Inv'
  BY <1>1, <1>3, HandlerSteps
<1>4. ASSUME NEW p \in net, NEW h \in Handlers, NEW ack \in Acks, on_read_new(p, h, ack)
      PROVE  Inv'
  BY <1>1, <1>4, FirstPacket
<1>5. ASSUME NEW p \in net, send_version_negotiation(p) PROVE Inv'
  BY <1>1, <1>5, VersionStep
<1>6. CASE server_disconnect
  BY <1>1, <1>6, ServerEnds
<1>7. CASE UNCHANGED vars
  BY <1>7, Stutters
<1> QED
  BY <1>2, <1>3, <1>4, <1>5, <1>6, <1>7 DEF Next

\* It holds before anything has been sent.
LEMMA InvInit ==
    ASSUME Init PROVE Inv
<1>1. /\ ep = [e \in 0..MaxConn |-> conn_new(e)] /\ handlers = {} /\ ctos = 0
      /\ net = {} /\ env \in Scenarios
  BY DEF Init
<1>2. MaxConn \in Nat /\ 0 \in 0..MaxConn /\ NGTCP2_MAX_NUM_BUFFED_RX_PPKTS \in Nat
  BY HandshakeAssumption
<1> PICK c : c = conn_new(0)
  OBVIOUS
<1>3. ep[client] = c
  BY <1>1, <1>2 DEF client
<1>4. DOMAIN c = Fields
  BY DEF conn_new, Fields
<1>5. /\ c.server = FALSE /\ c.conn_id = 0 /\ c.state = "CLIENT_INITIAL" /\ c.rx = 0
      /\ c.rob = {} /\ c.out = 0 /\ c.completed = FALSE /\ c.negotiated = FALSE
      /\ c.alert = FALSE /\ c.gone = FALSE /\ c.from = {}
  BY DEF conn_new, client
<1>6. /\ c.tx = 0 /\ c.rtb = {} /\ c.early_rtb = {} /\ c.got = {}
      /\ c.buffed_rx_ppkts = <<>>
  BY DEF conn_new, client
<1>7. Progress(c)
  <2>1. c.conn_id \in 0..MaxConn /\ c.rx \in 0..2 /\ c.rob \subseteq 1..2 /\ c.out \in 0..2
    BY <1>2, <1>5
  <2>2. c.server \in BOOLEAN /\ c.completed \in BOOLEAN /\ c.negotiated \in BOOLEAN
        /\ c.alert \in BOOLEAN /\ ~c.gone
    BY <1>5
  <2> QED
    BY <1>4, <2>1, <2>2 DEF Progress
<1>8. ClientProgress(c)
  BY <1>5 DEF ClientProgress
<1>9. c.buffed_rx_ppkts \in Seq(Waiting) /\ Len(c.buffed_rx_ppkts) = 0
  <2>1. <<>> \in Seq(Waiting) /\ Len(<<>>) = 0
    OBVIOUS
  <2> QED
    BY <1>6, <2>1
<1>10. Holds(c)
  BY <1>2, <1>5, <1>6, <1>9 DEF Holds, Failed, ClientStates
<1>11. Conn(c) /\ Tidy(c) /\ ~c.server
  BY <1>5, <1>7, <1>8, <1>10 DEF Conn, Tidy
<1>12. \A h \in Handlers : Fresh(h)
  <2>1. Handlers \subseteq 0..MaxConn
    BY <1>2 DEF Handlers
  <2> QED
    BY <1>1, <2>1 DEF Fresh
<1>13. NetOk /\ RoutesAgree
  BY <1>1 DEF NetOk, RoutesAgree
<1> QED
  BY <1>1, <1>2, <1>3, <1>11, <1>12, <1>13 DEF Inv

\* What TLS was fed at a client that completed came from the handler whose id
\* the client took, and a handler completes only with a client that completed
\* with it, whatever the net loses, repeats and reorders, whichever handler is
\* dropped on the way, and however many there are.
THEOREM HandshakeWithOneServer == Spec => []OneServer
<1>1. Inv => OneServer
  <2> SUFFICES ASSUME Inv PROVE OneServer
    OBVIOUS
  <2>1. ep[client].completed => ep[client].from = {ep[client].conn_id}
    BY DEF Inv, Conn, ClientProgress, Remembers
  <2>2. ASSUME NEW h \in handlers, ep[h].completed
        PROVE  ep[client].completed /\ ep[client].conn_id = h
    BY <2>2 DEF Inv, Conn, HandlerProgress
  <2> QED
    BY <2>1, <2>2 DEF OneServer
<1> QED
  BY <1>1, InvInit, InvStep, PTL DEF Spec

\* The states of ngtcp2_conn keep to their side, what waits to be sent again
\* was sent, the buffer of early packets keeps its bound and is empty after
\* the handshake.
THEOREM StatesKept == Spec => []TypeOK
<1>1. Inv => TypeOK
  <2> SUFFICES ASSUME Inv PROVE TypeOK
    OBVIOUS
  <2> DEFINE Good(c) == /\ c.state \in States /\ c.conn_id \in 0..MaxConn
                        /\ c.tx <= c.out /\ c.rtb \subseteq (1..c.tx) \cup {3}
                        /\ 3 \in c.rtb \cup c.early_rtb => c.app = "sent"
                        /\ Len(c.buffed_rx_ppkts) <= NGTCP2_MAX_NUM_BUFFED_RX_PPKTS
                        /\ c.state = "POST_HANDSHAKE" => c.buffed_rx_ppkts = <<>>
  <2>1. MaxConn \in Nat /\ NGTCP2_MAX_NUM_BUFFED_RX_PPKTS \in Nat
    BY HandshakeAssumption
  <2>2. ASSUME NEW c, Conn(c), Tidy(c) PROVE Good(c)
    <3>1. c.state \in States
      BY <2>2 DEF Conn, Holds, ClientStates, ServerStates, States
    <3> QED
      BY <2>2, <3>1 DEF Conn, Progress, Holds, Tidy
  <2>3. ASSUME NEW c, Remembers(c) PROVE Good(c)
    <3>1. c.state \in States
      BY <2>3 DEF Remembers, ClientStates, States
    <3>2. /\ c.conn_id \in 0..MaxConn /\ c.tx = 0 /\ c.out = 0 /\ c.rtb = {}
          /\ c.early_rtb = {} /\ c.buffed_rx_ppkts = <<>>
      BY <2>3 DEF Remembers
    <3> QED
      BY <2>1, <3>1, <3>2
  <2>4. ASSUME NEW h \in Handlers, NEW c, c = conn_new(h) \/ c = [conn_new(h) EXCEPT !.gone = TRUE]
        PROVE  Good(c)
    <3>1. /\ c.state = "SERVER_INITIAL" /\ c.conn_id = h /\ c.tx = 0 /\ c.out = 0
          /\ c.rtb = {} /\ c.early_rtb = {} /\ c.buffed_rx_ppkts = <<>> /\ h \in 0..MaxConn
      BY <2>1, <2>4 DEF conn_new, client, Handlers
    <3> QED
      BY <2>1, <3>1 DEF States
  <2>5. ASSUME NEW e \in 0..MaxConn PROVE Good(ep[e])
    <3> HIDE DEF Good
    <3>1. CASE e = client
      BY <2>2, <2>3, <3>1 DEF Inv
    <3>2. CASE e # client /\ e \in handlers
      BY <2>2, <3>2 DEF Inv
    <3>3. CASE e # client /\ e \notin handlers
      <4>1. e \in Handlers
        BY <2>1, <2>5, <3>3 DEF Handlers, client
      <4>2. ep[e] = conn_new(e) \/ ep[e] = [conn_new(e) EXCEPT !.gone = TRUE]
        BY <3>3, <4>1 DEF Inv, Fresh
      <4> QED
        BY <2>4, <4>1, <4>2
    <3> QED
      BY <3>1, <3>2, <3>3
  <2> QED
    BY <2>5 DEF TypeOK, Inv
<1> QED
  BY <1>1, InvInit, InvStep, PTL DEF Spec

---------------------------------------------------------------------------
(* What the other end of a connection has got.                             *)

(* Unit u has come to e, or e is no more.                                  *)
Came(e, u) == u \in ep[e].got \/ ep[e].gone

(* What a packet that comes to c shows of the other end: what it lists was *)
(* got; the client protects packets when its handshake is complete; a      *)
(* handler without 0-RTT does when it has the Finished.                    *)
Shows(c, p) ==
    /\ p.type = "0RTT" => env.early
    /\ IF c.server
       THEN /\ p.type = "SHORT" => ep[client].completed
            /\ \A u \in p.ack : Came(client, u)
       ELSE /\ p.type # "0RTT"
            /\ p.type = "SHORT" /\ ~env.early => c.negotiated /\ Came(c.conn_id, 2)
            /\ \A u \in p.ack : Came(p.cid, u)

(* Connection c has something to protect.                                  *)
Protects(c) ==
    \/ c.app = "queued" /\ (c.tx_ckm \/ c.server)
    \/ 3 \in c.rtb
    \/ c.state \in {"CLIENT_HANDSHAKE_ALMOST_FINISHED", "POST_HANDSHAKE", "CLOSING"}

(* With 0-RTT a handler protects packets before its handshake is complete. *)
Early(c) == c.server /\ env.early

(* What c waits for, has got, and may let go of, whatever happens.         *)
Waits(c) ==
    \A i \in DOMAIN c.buffed_rx_ppkts :
      /\ Shows(c, c.buffed_rx_ppkts[i])
      /\ c.state = "SERVER_INITIAL" => c.buffed_rx_ppkts[i].type = "0RTT"

(* The client's side of it.                                                *)
Finishes(c) ==
    /\ c.completed => c.out = 2
    /\ c.tx_ckm => c.completed
    /\ c.negotiated => c.conn_id # 0
    /\ c.state \in {"CLIENT_INITIAL", "CLIENT_WAIT_HANDSHAKE",
                    "CLIENT_HANDSHAKE_ALMOST_FINISHED"} => c.tx < 2
    /\ ~env.early /\ c.recv_protected => c.negotiated /\ Came(c.conn_id, 2)
    /\ ~env.early /\ c.state = "POST_HANDSHAKE" /\ 2 \notin c.rtb =>
         Came(c.conn_id, 2)

Secured(c) ==
    /\ c.early_ckm => env.early
    /\ Protects(c) => c.completed \/ Early(c)
    /\ Waits(c)
    /\ IF c.server THEN \A u \in 1..2 : u <= c.rx => u \in c.got ELSE Finishes(c)

(* Between the calls of a turn, the client has TLS's last unit only with   *)
(* its keys.                                                               *)
Calm(c) ==
    ~c.server => /\ c.state \in {"CLIENT_INITIAL", "CLIENT_WAIT_HANDSHAKE"} =>
                      c.out < 2 /\ ~c.completed
                 /\ c.state \in Over => c.tx_ckm

(* The part of the invariant about connection c that needs no calm.        *)
Good(c) == Secured(c) /\ Calm(c)

(* What a handler c lets go of has come to its client, or is not needed    *)
(* there any more.                                                         *)
Answers(c) ==
    /\ c.rx > 0 => c.out = 2 /\ c.tx_ckm /\ c.params
    /\ \A u \in 1..2 : u <= c.tx /\ u \notin c.rtb =>
         Came(client, u) \/ ep[client].completed
    /\ 3 \in c.got => c.app # "none"
    /\ c.app = "sent" /\ 3 \notin c.rtb => Came(client, 3)
    /\ c.recv_protected => ep[client].completed
    /\ c.state # "SERVER_INITIAL" => c.tx = c.out

(* The same of the client.                                                 *)
Asks(c) ==
    /\ c.state # "CLIENT_INITIAL" => c.tx >= 1
    /\ c.tx >= 1 /\ 1 \notin c.rtb =>
         c.completed \/ (c.negotiated /\ Came(c.conn_id, 1))
    /\ c.app = "sent" /\ 3 \notin c.rtb \cup c.early_rtb =>
         c.negotiated /\ Came(c.conn_id, 3)
    /\ c.tx_ckm => c.app # "none"
    /\ c.recv_protected => c.completed
    /\ ~c.completed => /\ c.rx < 2 /\ c.rx + 1 \notin c.rob
                       /\ \A u \in c.got \cap {1, 2} : u <= c.rx \/ u \in c.rob

(* No CONNECTION_CLOSE waits.                                              *)
Plain(c) == \A i \in DOMAIN c.buffed_rx_ppkts : ~c.buffed_rx_ppkts[i].cc

(* As long as TLS has not failed.                                          *)
Insists(c) ==
    ~c.alert => /\ Plain(c)
                /\ c.app \in {"none", "queued", "sent"}
                /\ IF c.server THEN Answers(c) ELSE Asks(c)

(* Nothing has ended c, and it has written all it could.                   *)
Runs(c) == ~c.alert /\ c.state \notin {"CLOSING", "DRAINING"} /\ ~Failed(c)

Settled(c) ==
    /\ Runs(c) /\ ~c.gone
    /\ c.tx_ckm => c.app # "queued"
    /\ c.server => c.state # "SERVER_INITIAL"

(* What each packet that was ever sent shows.                              *)
NetShows ==
    \A p \in net :
      /\ p.type = "0RTT" => env.early
      /\ p.to = "server" => /\ p.type = "SHORT" => ep[client].completed
                            /\ \A u \in p.ack : Came(client, u)
      /\ p.to = "client" => /\ p.type = "SHORT" /\ ~env.early =>
                                 /\ ep[client].completed
                                 /\ ep[client].conn_id = p.cid /\ Came(p.cid, 2)
                            /\ \A u \in p.ack : Came(p.cid, u)

(* Together with Inv, inductive.                                           *)
Evidence ==
    /\ NetShows
    /\ \A e \in handlers \cup {client} :
         ep[e].gone \/ Good(ep[e])
    /\ ep[client].gone => ep[client].state # "POST_HANDSHAKE"

(* While nothing has disturbed the exchange.                               *)
Persists ==
    ~trouble =>
    /\ \A p \in net : ~p.alert /\ ~p.cc
    /\ \A e \in handlers \cup {client} : Insists(ep[e]) /\ Settled(ep[e])
    /\ \A h \in Handlers : ~ep[h].gone

---------------------------------------------------------------------------
(* Writing lets go of nothing that is still needed.                        *)

(* The fields that Secured, Calm and Insists are about, but for rtb.       *)
Alike(c, d) ==
    /\ DOMAIN d = Fields
    /\ d.server = c.server /\ d.state = c.state /\ d.conn_id = c.conn_id
    /\ d.completed = c.completed /\ d.negotiated = c.negotiated /\ d.params = c.params
    /\ d.recv_protected = c.recv_protected /\ d.rx = c.rx /\ d.rob = c.rob
    /\ d.out = c.out /\ d.alert = c.alert /\ d.tx = c.tx /\ d.tx_ckm = c.tx_ckm
    /\ d.early_ckm = c.early_ckm /\ d.early_rtb = c.early_rtb /\ d.got = c.got
    /\ d.buffed_rx_ppkts = c.buffed_rx_ppkts /\ d.app = c.app

(* What no write changes.                                                  *)
Fixed(c, d) ==
    /\ DOMAIN d = Fields
    /\ d.server = c.server /\ d.conn_id = c.conn_id
    /\ d.completed = c.completed /\ d.negotiated = c.negotiated /\ d.params = c.params
    /\ d.recv_protected = c.recv_protected /\ d.rx = c.rx /\ d.rob = c.rob
    /\ d.alert = c.alert /\ d.tx_ckm = c.tx_ckm /\ d.got = c.got
    /\ d.buffed_rx_ppkts = c.buffed_rx_ppkts

(* Unit u has come to the other end of c.                                  *)
Through(c, u) ==
    IF c.server THEN Came(client, u) ELSE c.negotiated /\ Came(c.conn_id, u)

(* What a packet of c shows.                                               *)
Sound(c, p) ==
    /\ p.type = "SHORT" => c.completed \/ Early(c)
    /\ p.type = "0RTT" => env.early
    /\ p.ack \subseteq c.got

(* Only an alert goes with a close.                                        *)
Quiet(c, p) == p.alert \/ p.cc => c.alert

(* A write on c with result r takes nothing from either.                   *)
Writes(c, r) ==
    /\ Good(r.conn) /\ (Insists(c) => Insists(r.conn))
    /\ \A p \in r.out : Sound(r.conn, p) /\ Quiet(r.conn, p)

\* The connection is as before, but for what it lets go of.
LEMMA LetGo ==
    ASSUME NEW c, Good(c), NEW d, Alike(c, d), d.rtb \subseteq c.rtb,
           \A u \in c.rtb \ d.rtb : (u \in {1, 2} /\ c.recv_protected) \/ Through(c, u)
    PROVE  Good(d) /\ (Insists(c) => Insists(d))
<1>1. Secured(c) /\ Calm(c)
  BY DEF Good
<1>2. Calm(d)
  BY <1>1 DEF Calm, Alike
<1>3. Waits(d)
  BY <1>1 DEF Secured, Waits, Shows, Alike
<1>4. Protects(d) => d.completed \/ Early(d)
  BY <1>1 DEF Secured, Protects, Early, Alike
<1>5. ~c.server => Finishes(d)
  <2> SUFFICES ASSUME ~c.server PROVE Finishes(d)
    OBVIOUS
  <2>1. Finishes(c)
    BY <1>1 DEF Secured
  <2>2. ~env.early /\ d.state = "POST_HANDSHAKE" /\ 2 \notin d.rtb => Came(d.conn_id, 2)
    BY <2>1 DEF Finishes, Alike, Through
  <2> QED
    BY <2>1, <2>2 DEF Finishes, Alike
<1>6. Secured(d)
  BY <1>1, <1>3, <1>4, <1>5 DEF Secured, Alike
<1>7. ASSUME Insists(c), ~d.alert PROVE Insists(d)
  <2>1. ~c.alert /\ Plain(d)
    BY <1>7 DEF Alike, Insists, Plain
  <2>2. CASE c.server
    <3>1. Answers(c)
      BY <1>7, <2>1, <2>2 DEF Insists
    <3>2. Answers(d)
      BY <2>2, <3>1 DEF Answers, Alike, Through
    <3> QED
      BY <1>7, <2>1, <2>2, <3>2 DEF Insists, Alike
  <2>3. CASE ~c.server
    <3>1. Asks(c)
      BY <1>7, <2>1, <2>3 DEF Insists
    <3>2. d.tx >= 1 /\ 1 \notin d.rtb => d.completed \/ (d.negotiated /\ Came(d.conn_id, 1))
      BY <2>3, <3>1 DEF Asks, Alike, Through
    <3>3. d.app = "sent" /\ 3 \notin d.rtb \cup d.early_rtb =>
            d.negotiated /\ Came(d.conn_id, 3)
      BY <2>3, <3>1 DEF Asks, Alike, Through
    <3>4. Asks(d)
      BY <3>1, <3>2, <3>3 DEF Asks, Alike
    <3> QED
      BY <1>7, <2>1, <2>3, <3>4 DEF Insists, Alike
  <2> QED
    BY <2>2, <2>3
<1>8. d.alert => Insists(d)
  BY DEF Insists
<1> QED
  BY <1>2, <1>6, <1>7, <1>8 DEF Good

\* What a packet of the connection shows stays true.
LEMMA StillSound ==
    ASSUME NEW c, NEW d, d.server = c.server, c.completed => d.completed,
           c.got \subseteq d.got, c.alert => d.alert, NEW p
    PROVE  (Sound(c, p) => Sound(d, p)) /\ (Quiet(c, p) => Quiet(d, p))
BY DEF Sound, Quiet, Early

\* A packet that is not of the handshake, as Pkt makes it.
LEMMA ShortSound ==
    ASSUME NEW c, c.completed \/ Early(c), NEW u, NEW A, A \subseteq c.got, NEW cc
    PROVE  LET p == Pkt(c, "SHORT", u, A, cc)
           IN  Sound(c, p) /\ (~cc => Quiet(c, p))
BY DEF Pkt, Sound, Quiet

\* A packet of the handshake.
LEMMA UnitSound ==
    ASSUME NEW c, NEW u
    PROVE  Sound(c, HandshakePkt(c, u)) /\ Quiet(c, HandshakePkt(c, u))
BY DEF HandshakePkt, Pkt, Sound, Quiet

\* One write after another.
LEMMA WritesAfter ==
    ASSUME NEW c, NEW r, NEW q, Writes(c, r), Writes(r.conn, q),
           Fixed(r.conn, q.conn)
    PROVE  Writes(c, After(r, q)) /\ Writes(c, q)
<1> DEFINE s == After(r, q)
<1>1. s.conn = q.conn /\ s.out = r.out \cup q.out
  BY DEF After, Result
<1>2. ASSUME NEW p \in r.out PROVE Sound(q.conn, p) /\ Quiet(q.conn, p)
  <2>1. Sound(r.conn, p) /\ Quiet(r.conn, p)
    BY DEF Writes
  <2>2. /\ q.conn.server = r.conn.server
        /\ r.conn.completed => q.conn.completed
        /\ r.conn.got \subseteq q.conn.got
        /\ r.conn.alert => q.conn.alert
    BY DEF Fixed
  <2> QED
    BY ONLY <2>1, <2>2, StillSound
<1>3. \A p \in s.out : Sound(s.conn, p) /\ Quiet(s.conn, p)
  BY <1>1, <1>2 DEF Writes
<1>4. Good(q.conn) /\ (Insists(c) => Insists(q.conn))
  BY DEF Writes
<1> QED
  BY <1>1, <1>3, <1>4 DEF Writes

\* What is due is sent again, or let go of when the other end does not need
\* it any more.
LEMMA RetransmitWrites ==
    ASSUME NEW c, Conn(c), Good(c), NEW due, due \subseteq c.rtb,
           NEW r, r = conn_retransmit(c, due)
    PROVE  Writes(c, r)
<1> DEFINE gone == c.recv_protected
           hs == due \cap {1, 2}
           R == IF gone THEN c.rtb \ hs ELSE c.rtb
           d == [c EXCEPT !.rtb = R]
           again == IF gone THEN {} ELSE {HandshakePkt(c, u) : u \in hs}
           out == again \cup {Pkt(c, "SHORT", u, {}, FALSE) : u \in due \cap {3}}
<1>1. DOMAIN c = Fields
  BY DEF Conn, Progress
<1>2. Alike(c, d) /\ d.rtb = R
  BY <1>1 DEF Alike, Fields
<1>3. R \subseteq c.rtb /\ \A u \in c.rtb \ R : u \in {1, 2} /\ c.recv_protected
  OBVIOUS
<1>4. r = Result(d, out, FALSE)
  BY DEF conn_retransmit
<1> HIDE DEF R, d
<1>5. Good(d) /\ (Insists(c) => Insists(d))
  BY <1>2, <1>3, LetGo
<1>6. ASSUME NEW p \in out PROVE Sound(c, p) /\ Quiet(c, p)
  <2>1. CASE p \in again
    BY <2>1, UnitSound
  <2>2. CASE p \in {Pkt(c, "SHORT", u, {}, FALSE) : u \in due \cap {3}}
    <3>1. 3 \in c.rtb /\ p = Pkt(c, "SHORT", 3, {}, FALSE)
      BY <2>2
    <3>2. c.completed \/ Early(c)
      BY <3>1 DEF Good, Secured, Protects
    <3> QED
      BY <3>1, <3>2, ShortSound
  <2> QED
    BY <2>1, <2>2
<1>7. d.server = c.server /\ d.completed = c.completed /\ d.got = c.got /\ d.alert = c.alert
  BY <1>2 DEF Alike
<1>8. \A p \in out : Sound(d, p) /\ Quiet(d, p)
  BY <1>6, <1>7, StillSound
<1>9. r.conn = d /\ r.out = out
  BY <1>4 DEF Result
<1> HIDE DEF out
<1> QED
  BY <1>5, <1>8, <1>9 DEF Writes

\* The first packet.
LEMMA InitialWrites ==
    ASSUME NEW c, Conn(c), Good(c), ~c.server, c.state = "CLIENT_INITIAL",
           NEW r, r = conn_write_client_initial(c)
    PROVE  Writes(c, r) /\ Fixed(c, r.conn)
<1> DEFINE e1 == [c EXCEPT !.early_ckm = TRUE]
           e2 == [e1 EXCEPT !.app = "queued"]
           e == handle_early_data(c)
           f == [e EXCEPT !.out = 1]
           g == [f EXCEPT !.tx = 1]
           h == [g EXCEPT !.rtb = g.rtb \cup {1}]
           d == [h EXCEPT !.state = "CLIENT_WAIT_HANDSHAKE"]
<1>1. DOMAIN c = Fields /\ c.rtb = {} /\ c.early_rtb = {}
  BY DEF Conn, Progress, Holds
<1>2. /\ Fixed(c, e) /\ e.rtb = {} /\ e.early_rtb = {}
      /\ e.early_ckm => c.early_ckm \/ env.early
      /\ e.app = c.app \/ e.app = "queued"
  <2>1. e = IF env.early THEN e2 ELSE c
    BY DEF handle_early_data
  <2>2. Fixed(c, c)
    BY <1>1 DEF Fixed
  <2>3. Fixed(c, e1) /\ e1.rtb = {} /\ e1.early_rtb = {}
    BY <1>1 DEF Fixed, Fields
  <2> HIDE DEF e1
  <2>4. Fixed(e1, e2) /\ e2.rtb = {} /\ e2.early_rtb = {} /\ e2.app = "queued"
    BY <2>3 DEF Fixed, Fields
  <2> HIDE DEF e2
  <2>5. Fixed(c, e2)
    BY <2>3, <2>4 DEF Fixed
  <2>6. CASE env.early
    BY <2>1, <2>4, <2>5, <2>6
  <2>7. CASE ~env.early
    BY <1>1, <2>1, <2>2, <2>7
  <2> QED
    BY <2>6, <2>7
<1>3. conn_write_client_initial(c) = Result(d, {HandshakePkt(d, 1)}, FALSE)
  <2>1. [e EXCEPT !.out = 1, !.tx = 1, !.rtb = @ \cup {1},
                  !.state = "CLIENT_WAIT_HANDSHAKE"] = d
    OBVIOUS
  <2> QED
    BY <2>1 DEF conn_write_client_initial
<1> HIDE DEF e
<1>4. /\ Fixed(e, f) /\ f.rtb = {} /\ f.early_rtb = {} /\ f.early_ckm = e.early_ckm
      /\ f.app = e.app /\ f.out = 1
  BY <1>2 DEF Fixed, Fields
<1> HIDE DEF f
<1>5. /\ Fixed(f, g) /\ g.rtb = {} /\ g.early_rtb = {} /\ g.early_ckm = e.early_ckm
      /\ g.app = e.app /\ g.out = 1 /\ g.tx = 1
  BY <1>4 DEF Fixed, Fields
<1> HIDE DEF g
<1>6. /\ Fixed(g, h) /\ h.rtb = {1} /\ h.early_rtb = {} /\ h.early_ckm = e.early_ckm
      /\ h.app = e.app /\ h.out = 1 /\ h.tx = 1
  BY <1>5 DEF Fixed, Fields
<1> HIDE DEF h
<1>7. /\ Fixed(h, d) /\ d.rtb = {1} /\ d.early_rtb = {} /\ d.early_ckm = e.early_ckm
      /\ d.app = e.app /\ d.out = 1 /\ d.tx = 1 /\ d.state = "CLIENT_WAIT_HANDSHAKE"
  BY <1>6 DEF Fixed, Fields
<1> HIDE DEF d
<1>8. Fixed(c, d)
  BY <1>2, <1>4, <1>5, <1>6, <1>7 DEF Fixed
<1>9. Secured(c) /\ Finishes(c) /\ ~c.completed /\ ~c.tx_ckm
  BY DEF Good, Secured, Calm, Finishes
<1>10. Secured(d)
  <2>1. Waits(d)
    BY <1>7, <1>8, <1>9 DEF Secured, Waits, Shows, Fixed
  <2>2. ~Protects(d)
    BY <1>7, <1>8, <1>9 DEF Protects, Fixed
  <2>3. Finishes(d)
    BY <1>7, <1>8, <1>9 DEF Finishes, Fixed
  <2>4. d.early_ckm => env.early
    BY <1>2, <1>7, <1>9 DEF Secured
  <2>5. ~d.server
    BY <1>8 DEF Fixed
  <2> QED
    BY <2>1, <2>2, <2>3, <2>4, <2>5 DEF Secured
<1>11. Calm(d)
  BY <1>7, <1>8, <1>9 DEF Calm, Fixed, Over
<1>12. ASSUME Insists(c) PROVE Insists(d)
  <2>1. ~c.alert => Asks(c) /\ c.app \in {"none", "queued", "sent"}
    BY <1>12 DEF Insists
  <2>2. ~c.alert => d.app \in {"none", "queued", "sent"} /\ Plain(d)
    BY <1>2, <1>7, <1>8, <1>12, <2>1 DEF Insists, Plain, Fixed
  <2>3. ~c.alert => Asks(d)
    BY <1>1, <1>2, <1>7, <1>8, <1>9, <2>1 DEF Asks, Fixed
  <2> QED
    BY <1>8, <2>2, <2>3 DEF Insists, Fixed
<1>13. r.conn = d /\ r.out = {HandshakePkt(d, 1)}
  BY <1>3 DEF Result
<1>14. Sound(d, HandshakePkt(d, 1)) /\ Quiet(d, HandshakePkt(d, 1))
  BY UnitSound
<1> QED
  BY <1>8, <1>10, <1>11, <1>12, <1>13, <1>14 DEF Writes, Good

\* What conn_write_handshake does to the connection and sends.
LEMMA HandshakeWritesUnits ==
    ASSUME NEW c, Conn(c), NEW r, r = conn_write_handshake(c)
    PROVE  /\ Fixed(c, r.conn)
           /\ r.conn.out = c.out /\ r.conn.early_ckm = c.early_ckm
           /\ r.conn.early_rtb = c.early_rtb /\ r.conn.app = c.app
           /\ r.conn.state = c.state \/ (c.state = "SERVER_INITIAL"
                                         /\ r.conn.state = "SERVER_WAIT_HANDSHAKE")
           /\ r.conn.tx = c.out
           /\ \A u : u \in r.conn.rtb <=> u \in c.rtb \/ u \in (c.tx + 1)..c.out
           /\ \A p \in r.out : Sound(c, p) /\ Quiet(c, p)
           /\ c.state # "SERVER_INITIAL" => r.err = Failed(c)
           /\ r.err /\ c.state = "SERVER_INITIAL" => r.out = {}
           /\ c.state = "SERVER_INITIAL" /\ ~r.err =>
                r.conn.state = "SERVER_WAIT_HANDSHAKE"
<1> DEFINE units == (c.tx + 1)..c.out
           f == [c EXCEPT !.tx = c.out]
           R == c.rtb \cup units
           g == [f EXCEPT !.rtb = R]
           st == IF c.state = "SERVER_INITIAL" THEN "SERVER_WAIT_HANDSHAKE" ELSE c.state
           d == [g EXCEPT !.state = st]
           out == {HandshakePkt(c, u) : u \in units}
<1>1. DOMAIN c = Fields /\ c.out \in 0..2 /\ c.tx \in 0..2 /\ c.tx <= c.out
  BY DEF Conn, Progress, Holds
<1>2. Fixed(c, c)
  BY <1>1 DEF Fixed
<1>3. CASE c.state = "SERVER_INITIAL" /\ units = {}
  <2>1. r = Result(c, {}, TRUE)
    BY <1>3 DEF conn_write_handshake
  <2>2. c.tx = c.out
    <3>1. c.tx < c.out => c.tx + 1 \in units
      BY <1>1
    <3> QED
      BY <1>1, <1>3, <3>1
  <2>3. r.conn = c /\ r.out = {} /\ r.err = TRUE
    BY <2>1 DEF Result
  <2>4. \A u : u \notin units
    BY <1>3
  <2> HIDE DEF units
  <2>5. \A u : u \in (c.tx + 1)..c.out <=> u \in units
    BY DEF units
  <2> QED
    BY <1>1, <1>2, <1>3, <2>2, <2>3, <2>4, <2>5
<1>4. CASE ~(c.state = "SERVER_INITIAL" /\ units = {})
  <2>1. r = Result(d, out, Failed(c))
    <3>1. [c EXCEPT !.tx = c.out, !.rtb = @ \cup units,
             !.state = IF @ = "SERVER_INITIAL" THEN "SERVER_WAIT_HANDSHAKE" ELSE @] = d
      OBVIOUS
    <3> QED
      BY <1>4, <3>1 DEF conn_write_handshake
  <2>2. r.conn = d /\ r.out = out /\ r.err = Failed(c)
    BY <2>1 DEF Result
  <2>3. \A p \in out : Sound(c, p) /\ Quiet(c, p)
    BY UnitSound
  <2> HIDE DEF out
  <2>4. \A u : u \in R <=> u \in c.rtb \/ u \in (c.tx + 1)..c.out
    OBVIOUS
  <2>5. st = c.state \/ (c.state = "SERVER_INITIAL" /\ st = "SERVER_WAIT_HANDSHAKE")
    OBVIOUS
  <2> HIDE DEF R, st
  <2>6. /\ Fixed(c, f) /\ f.out = c.out /\ f.early_ckm = c.early_ckm
        /\ f.early_rtb = c.early_rtb /\ f.app = c.app /\ f.tx = c.out
    BY <1>1 DEF Fixed, Fields
  <2> HIDE DEF f
  <2>7. /\ Fixed(f, g) /\ g.out = c.out /\ g.early_ckm = c.early_ckm
        /\ g.early_rtb = c.early_rtb /\ g.app = c.app /\ g.tx = c.out /\ g.rtb = R
    BY <2>6 DEF Fixed, Fields
  <2> HIDE DEF g
  <2>8. /\ Fixed(g, d) /\ d.out = c.out /\ d.early_ckm = c.early_ckm
        /\ d.early_rtb = c.early_rtb /\ d.app = c.app /\ d.tx = c.out /\ d.rtb = R
        /\ d.state = st
    BY <2>7 DEF Fixed, Fields
  <2> HIDE DEF d
  <2>9. Fixed(c, d)
    BY <2>6, <2>7, <2>8 DEF Fixed
  <2>10. r.err /\ c.state = "SERVER_INITIAL" => r.out = {}
    BY <2>2 DEF Failed
  <2>11. c.state = "SERVER_INITIAL" => d.state = "SERVER_WAIT_HANDSHAKE"
    BY <2>8 DEF st
  <2> QED
    BY <2>2, <2>3, <2>4, <2>5, <2>8, <2>9, <2>10, <2>11
<1> QED
  BY <1>3, <1>4

(* r is the result of a write on c; what else a turn needs of it.          *)
Wrought(c, r) ==
    /\ Writes(c, r) /\ Fixed(c, r.conn)
    /\ Runs(c) => Runs(r.conn)
    /\ c.server => r.conn.out = c.out /\ (c.tx = c.out => r.conn.tx = c.out)
    /\ r.conn.state = "SERVER_INITIAL" => c.state = "SERVER_INITIAL"

\* One after another.
LEMMA WroughtAfter ==
    ASSUME NEW c, NEW r, NEW q, Wrought(c, r), Wrought(r.conn, q),
           NEW s, s = After(r, q)
    PROVE  /\ Wrought(c, s) /\ s.conn = q.conn /\ s.err = q.err /\ s.out = r.out \cup q.out
           /\ Wrought(c, q)
<1>1. s.conn = q.conn /\ s.err = q.err /\ s.out = r.out \cup q.out
  BY DEF After, Result
<1>2. Writes(c, s) /\ Writes(c, q)
  BY WritesAfter DEF Wrought
<1>3. Fixed(c, q.conn)
  BY DEF Wrought, Fixed
<1>4. c.server => r.conn.server
  BY DEF Wrought, Fixed
<1>5. /\ Runs(c) => Runs(q.conn)
      /\ c.server => q.conn.out = c.out /\ (c.tx = c.out => q.conn.tx = c.out)
  BY <1>4 DEF Wrought
<1> QED
  BY <1>1, <1>2, <1>3, <1>5 DEF Wrought

\* Nothing is written.
LEMMA NothingWrought ==
    ASSUME NEW c, Conn(c), Good(c), NEW err, NEW r, r = Result(c, {}, err)
    PROVE  Wrought(c, r) /\ r.conn = c /\ r.out = {} /\ r.err = err
<1>1. r.conn = c /\ r.out = {} /\ r.err = err
  BY DEF Result
<1>2. DOMAIN c = Fields
  BY DEF Conn, Progress
<1> QED
  BY <1>1, <1>2 DEF Wrought, Writes, Fixed

\* The units of the handshake.
LEMMA HandshakeWrites ==
    ASSUME NEW c, Conn(c), Good(c),
           c.state \notin {"CLIENT_INITIAL", "CLIENT_HANDSHAKE_ALMOST_FINISHED",
                           "POST_HANDSHAKE", "CLOSING", "DRAINING"},
           NEW r, r = conn_write_handshake(c)
    PROVE  Wrought(c, r)
<1> DEFINE d == r.conn
<1>1. /\ Fixed(c, d)
      /\ d.out = c.out /\ d.early_ckm = c.early_ckm
      /\ d.early_rtb = c.early_rtb /\ d.app = c.app
      /\ d.state = c.state \/ (c.state = "SERVER_INITIAL"
                                    /\ d.state = "SERVER_WAIT_HANDSHAKE")
      /\ d.tx = c.out
      /\ \A u : u \in d.rtb <=> u \in c.rtb \/ u \in (c.tx + 1)..c.out
      /\ \A p \in r.out : Sound(c, p) /\ Quiet(c, p)
  BY HandshakeWritesUnits
<1> HIDE DEF d
<1>2. c.out \in 0..2 /\ c.tx \in 0..2 /\ c.tx <= c.out /\ c.server \in BOOLEAN
      /\ (c.state = "SERVER_INITIAL" => c.server)
  BY DEF Conn, Progress, Holds, ClientStates
<1>3. /\ d.server = c.server /\ d.completed = c.completed /\ d.got = c.got
      /\ d.alert = c.alert /\ d.buffed_rx_ppkts = c.buffed_rx_ppkts
      /\ d.conn_id = c.conn_id /\ d.negotiated = c.negotiated /\ d.rx = c.rx
      /\ d.tx_ckm = c.tx_ckm /\ d.params = c.params /\ d.rob = c.rob
      /\ d.recv_protected = c.recv_protected
  BY <1>1 DEF Fixed
<1>4. (1 \in c.rtb => 1 \in d.rtb) /\ (2 \in c.rtb => 2 \in d.rtb) /\ (3 \in d.rtb <=> 3 \in c.rtb)
  <2>1. 3 \notin (c.tx + 1)..c.out
    BY <1>2
  <2> QED
    BY <1>1, <2>1
<1>5. \A u \in 1..2 : u <= d.tx /\ u \notin d.rtb => u <= c.tx /\ u \notin c.rtb
  BY <1>1, <1>2
<1>6. Secured(c) /\ Calm(c)
  BY DEF Good
<1>7. Waits(d)
  <2>1. Waits(c)
    BY <1>6 DEF Secured
  <2> QED
    BY <1>1, <1>3, <2>1 DEF Waits, Shows
<1>8. Protects(d) => d.completed \/ Early(d)
  BY <1>1, <1>3, <1>4, <1>6 DEF Secured, Protects, Early
<1>9. ~c.server => Finishes(d) /\ d.state = c.state
  <2> SUFFICES ASSUME ~c.server PROVE Finishes(d) /\ d.state = c.state
    OBVIOUS
  <2>1. Finishes(c) /\ d.state = c.state
    BY <1>1, <1>2, <1>6 DEF Secured
  <2>2. c.state = "CLIENT_WAIT_HANDSHAKE" => c.out < 2
    BY <1>6 DEF Calm
  <2> QED
    BY <1>1, <1>2, <1>3, <2>1, <2>2 DEF Finishes
<1>10. Calm(d)
  BY <1>1, <1>3, <1>6, <1>9 DEF Calm
<1>11. Secured(d)
  <2>1. d.early_ckm => env.early
    BY <1>1, <1>6 DEF Secured
  <2>2. d.server => \A u \in 1..2 : u <= d.rx => u \in d.got
    BY <1>3, <1>6 DEF Secured
  <2> QED
    BY <1>3, <1>7, <1>8, <1>9, <2>1, <2>2 DEF Secured
<1>12. ASSUME Insists(c) PROVE Insists(d)
  <2> SUFFICES ASSUME ~c.alert PROVE Insists(d)
    BY <1>3 DEF Insists
  <2>1. d.app \in {"none", "queued", "sent"} /\ Plain(d)
    BY <1>1, <1>3, <1>12 DEF Insists, Plain
  <2>2. CASE c.server
    <3>1. Answers(c)
      BY <1>12, <2>2 DEF Insists
    <3>2. Answers(d)
      BY <1>1, <1>3, <1>4, <1>5, <3>1 DEF Answers
    <3> QED
      BY <1>3, <2>1, <2>2, <3>2 DEF Insists
  <2>3. CASE ~c.server
    <3>1. Asks(c)
      BY <1>12, <2>3 DEF Insists
    <3>2. d.tx >= 1 /\ (1 \notin d.rtb => 1 \notin c.rtb /\ c.tx >= 1)
      BY <1>1, <1>2, <1>4, <1>5, <3>1 DEF Asks
    <3>3. Asks(d)
      BY <1>1, <1>3, <1>4, <3>1, <3>2 DEF Asks
    <3> QED
      BY <1>3, <2>1, <2>3, <3>3 DEF Insists
  <2> QED
    BY <2>2, <2>3
<1>13. \A p \in r.out : Sound(d, p) /\ Quiet(d, p)
  BY <1>1, <1>3, StillSound
<1>14. Writes(c, r)
  BY <1>10, <1>11, <1>12, <1>13 DEF Writes, Good, d
<1>15. Runs(c) => Runs(d)
  BY <1>1, <1>3 DEF Runs, Failed
<1> QED
  BY <1>1, <1>14, <1>15 DEF Wrought, d

\* The Finished, and what was sent with 0-RTT.
LEMMA AlmostWrites ==
    ASSUME NEW c, Conn(c), Good(c), c.state = "CLIENT_HANDSHAKE_ALMOST_FINISHED",
           NEW r, r = conn_write_almost_finished(c)
    PROVE  Wrought(c, r)
<1> DEFINE q == conn_write_handshake(c)
           k == q.conn
           f == [k EXCEPT !.state = "POST_HANDSHAKE"]
           R == k.rtb \cup c.early_rtb
           g == [f EXCEPT !.rtb = R]
           d == [g EXCEPT !.early_rtb = {}]
           again == IF c.rejected THEN {Pkt(c, "SHORT", u, {}, FALSE) : u \in c.early_rtb}
                                  ELSE {}
<1>1. r = Result(d, q.out \cup again, ~c.params)
  BY DEF conn_write_almost_finished
<1>2. r.conn = d /\ r.out = q.out \cup again
  BY <1>1 DEF Result
<1> HIDE DEF q
<1>3. /\ Fixed(c, k)
      /\ k.out = c.out /\ k.early_ckm = c.early_ckm
      /\ k.early_rtb = c.early_rtb /\ k.app = c.app
      /\ k.tx = c.out
      /\ \A u : u \in k.rtb <=> u \in c.rtb \/ u \in (c.tx + 1)..c.out
      /\ \A p \in q.out : Sound(c, p) /\ Quiet(c, p)
  BY HandshakeWritesUnits DEF q
<1> HIDE DEF k
<1>4. /\ Fixed(k, f) /\ f.state = "POST_HANDSHAKE" /\ f.out = c.out
      /\ f.early_ckm = c.early_ckm /\ f.app = c.app /\ f.tx = c.out /\ f.rtb = k.rtb
  BY <1>3 DEF Fixed, Fields
<1> HIDE DEF f
<1>5. \A u : u \in R <=> u \in c.rtb \/ u \in (c.tx + 1)..c.out \/ u \in c.early_rtb
  BY <1>3
<1> HIDE DEF R
<1>6. /\ Fixed(f, g) /\ g.state = "POST_HANDSHAKE" /\ g.out = c.out
      /\ g.early_ckm = c.early_ckm /\ g.app = c.app /\ g.tx = c.out /\ g.rtb = R
  BY <1>4 DEF Fixed, Fields
<1> HIDE DEF g
<1>7. /\ Fixed(g, d) /\ d.state = "POST_HANDSHAKE" /\ d.out = c.out
      /\ d.early_ckm = c.early_ckm /\ d.app = c.app /\ d.tx = c.out /\ d.rtb = R
  BY <1>6 DEF Fixed, Fields
<1> HIDE DEF d
<1>8. Fixed(c, d)
  BY <1>3, <1>4, <1>6, <1>7 DEF Fixed
<1>9. /\ d.server = c.server /\ d.completed = c.completed /\ d.got = c.got
      /\ d.alert = c.alert /\ d.buffed_rx_ppkts = c.buffed_rx_ppkts
      /\ d.conn_id = c.conn_id /\ d.negotiated = c.negotiated /\ d.rx = c.rx
      /\ d.tx_ckm = c.tx_ckm /\ d.params = c.params /\ d.rob = c.rob
      /\ d.recv_protected = c.recv_protected
  BY <1>8 DEF Fixed
<1>10. ~c.server /\ c.out \in 0..2 /\ c.tx \in 0..2 /\ c.tx <= c.out
  BY DEF Conn, Progress, Holds, ServerStates
<1>11. Secured(c) /\ Calm(c) /\ Finishes(c) /\ Waits(c)
  BY <1>10 DEF Good, Secured
<1>12. c.completed /\ c.tx_ckm /\ c.out = 2 /\ c.tx < 2
  <2>1. c.completed
    BY <1>10, <1>11 DEF Secured, Protects, Early
  <2> QED
    BY <1>10, <1>11, <2>1 DEF Finishes, Calm, Over
<1>13. 2 \in R /\ (1 \in R \/ (1 \notin c.rtb /\ c.tx >= 1))
  BY <1>5, <1>10, <1>12
<1>14. Secured(d)
  <2>1. Waits(d)
    BY <1>7, <1>9, <1>11 DEF Waits, Shows
  <2>2. Finishes(d)
    BY <1>7, <1>9, <1>11, <1>12, <1>13 DEF Finishes
  <2>3. d.early_ckm => env.early
    BY <1>7, <1>11 DEF Secured
  <2> QED
    BY <1>9, <1>10, <1>12, <2>1, <2>2, <2>3 DEF Secured
<1>15. Calm(d)
  BY <1>7, <1>9, <1>12 DEF Calm
<1>16. ASSUME Insists(c) PROVE Insists(d)
  <2> SUFFICES ASSUME ~c.alert PROVE Insists(d)
    BY <1>9 DEF Insists
  <2>1. Asks(c) /\ c.app \in {"none", "queued", "sent"} /\ Plain(d)
    BY <1>9, <1>10, <1>16 DEF Insists, Plain
  <2>2. 3 \notin d.rtb => 3 \notin c.rtb \cup c.early_rtb
    BY <1>5, <1>7
  <2>3. Asks(d)
    BY <1>7, <1>9, <1>12, <2>1, <2>2 DEF Asks
  <2> QED
    BY <1>7, <1>9, <1>10, <2>1, <2>3 DEF Insists
<1>17. ASSUME NEW p \in r.out PROVE Sound(d, p) /\ Quiet(d, p)
  <2>1. CASE p \in q.out
    BY <1>3, <1>9, <2>1, StillSound
  <2>2. CASE p \in again
    <3>1. PICK u : p = Pkt(c, "SHORT", u, {}, FALSE)
      BY <2>2
    <3>2. Sound(c, p) /\ Quiet(c, p)
      BY <1>12, <3>1, ShortSound
    <3> QED
      BY <1>9, <3>2, StillSound
  <2> HIDE DEF again
  <2> QED
    BY <1>2, <2>1, <2>2
<1>18. Writes(c, r)
  BY <1>2, <1>14, <1>15, <1>16, <1>17 DEF Writes, Good
<1> QED
  BY <1>2, <1>7, <1>8, <1>9, <1>10, <1>18 DEF Wrought, Runs, Failed

\* The ACK.
LEMMA AckWrites ==
    ASSUME NEW r, Conn(r.conn), Good(r.conn), r.err \in BOOLEAN,
           \A p \in r.out : Sound(r.conn, p) /\ Quiet(r.conn, p),
           NEW state, NEW ack,
           state = "POST_HANDSHAKE" => r.conn.completed \/ Early(r.conn),
           NEW s, s = write_ack_after(state, r, ack)
    PROVE  /\ Wrought(r.conn, s) /\ s.err = r.err /\ s.conn.state = r.conn.state
           /\ s.conn.tx = r.conn.tx /\ (r.err => s.out = r.out)
<1> DEFINE c == r.conn
           x == [c EXCEPT !.state = state]
           post == state = "POST_HANDSHAKE"
           fr == IF post THEN x.got ELSE x.got \cap {1, 2}
           y == [x EXCEPT !.active_ack = FALSE]
           d == [y EXCEPT !.state = c.state]
           e == [x EXCEPT !.state = c.state]
           p == Pkt(x, IF post THEN "SHORT" ELSE "HANDSHAKE", 0, fr, FALSE)
           a == WriteAck(x)
<1>1. DOMAIN c = Fields
  BY DEF Conn, Progress
<1>2. ASSUME NEW z, Alike(c, z), z.rtb = c.rtb, s.conn = z,
             \A o \in s.out : Sound(c, o) /\ Quiet(c, o)
      PROVE  Wrought(c, s) /\ s.conn.state = c.state /\ s.conn.tx = c.tx
  <2>1. Good(z) /\ (Insists(c) => Insists(z))
    BY <1>2, LetGo
  <2>2. z.server = c.server /\ z.completed = c.completed /\ z.got = c.got
        /\ z.alert = c.alert /\ z.state = c.state /\ z.tx = c.tx /\ z.out = c.out
    BY <1>2 DEF Alike
  <2>3. \A o \in s.out : Sound(z, o) /\ Quiet(z, o)
    BY <1>2, <2>2, StillSound
  <2>4. Writes(c, s)
    BY <1>2, <2>1, <2>3 DEF Writes
  <2>5. Fixed(c, z)
    BY <1>2 DEF Fixed, Alike
  <2> QED
    BY <1>2, <2>2, <2>4, <2>5 DEF Wrought, Runs, Failed
<1>3. Alike(c, c)
  BY <1>1 DEF Alike
<1> HIDE DEF c
<1>4. CASE ~ack \/ r.err \/ state \in {"CLOSING", "DRAINING"}
  <2>1. s = r
    BY <1>4 DEF write_ack_after
  <2> QED
    BY <1>2, <1>3, <2>1 DEF c
<1>5. CASE ~(~ack \/ r.err \/ state \in {"CLOSING", "DRAINING"})
  <2>1. s = Result([a.conn EXCEPT !.state = c.state], r.out \cup a.out, FALSE)
    BY <1>5 DEF write_ack_after, c
  <2>2. /\ Fixed(c, x) /\ x.state = state /\ x.out = c.out /\ x.tx = c.tx
        /\ x.early_ckm = c.early_ckm /\ x.early_rtb = c.early_rtb /\ x.app = c.app
        /\ x.rtb = c.rtb
    BY <1>1 DEF Fixed, Fields
  <2>3. post <=> x.state = "POST_HANDSHAKE"
    BY <2>2
  <2> HIDE DEF x
  <2>4. CASE ~x.active_ack \/ fr = {}
    <3>1. a = Result(x, {}, FALSE)
      BY <2>3, <2>4 DEF WriteAck
    <3>2. a.conn = x /\ a.out = {}
      BY <3>1 DEF Result
    <3>3. /\ Fixed(x, e) /\ e.state = c.state /\ e.out = c.out /\ e.tx = c.tx
          /\ e.early_ckm = c.early_ckm /\ e.early_rtb = c.early_rtb /\ e.app = c.app
          /\ e.rtb = c.rtb
      BY <2>2 DEF Fixed, Fields
    <3> HIDE DEF e, a
    <3>4. s.conn = e /\ s.out = r.out /\ s.err = FALSE
      BY <2>1, <3>2 DEF Result, e
    <3>5. Alike(c, e)
      BY <2>2, <3>3 DEF Alike, Fixed
    <3> QED
      BY <1>2, <1>5, <3>3, <3>4, <3>5 DEF c
  <2>5. CASE ~(~x.active_ack \/ fr = {})
    <3>1. a = Result(y, {p}, FALSE)
      BY <2>3, <2>5 DEF WriteAck
    <3>2. a.conn = y /\ a.out = {p}
      BY <3>1 DEF Result
    <3>3. /\ Fixed(x, y) /\ y.out = c.out /\ y.tx = c.tx
          /\ y.early_ckm = c.early_ckm /\ y.early_rtb = c.early_rtb /\ y.app = c.app
          /\ y.rtb = c.rtb
      BY <2>2 DEF Fixed, Fields
    <3>4. p.type = (IF post THEN "SHORT" ELSE "HANDSHAKE") /\ p.ack = fr
          /\ p.cc = FALSE /\ (p.alert <=> FALSE)
      BY DEF Pkt
    <3>5. fr \subseteq c.got
      BY <2>2 DEF Fixed
    <3>6. Sound(c, p) /\ Quiet(c, p)
      <4>1. post => c.completed \/ Early(c)
        BY DEF c
      <4> HIDE DEF p, post, fr
      <4> QED
        BY <3>4, <3>5, <4>1 DEF Sound, Quiet
    <3> HIDE DEF y, a, p
    <3>7. /\ Fixed(y, d) /\ d.state = c.state /\ d.out = c.out /\ d.tx = c.tx
          /\ d.early_ckm = c.early_ckm /\ d.early_rtb = c.early_rtb /\ d.app = c.app
          /\ d.rtb = c.rtb
      BY <3>3 DEF Fixed, Fields
    <3> HIDE DEF d
    <3>8. s.conn = d /\ s.out = r.out \cup {p} /\ s.err = FALSE
      BY <2>1, <3>2 DEF Result, d
    <3>9. Alike(c, d)
      BY <2>2, <3>3, <3>7 DEF Alike, Fixed
    <3>10. \A o \in s.out : Sound(c, o) /\ Quiet(c, o)
      BY <3>6, <3>8 DEF c
    <3> QED
      BY <1>2, <1>5, <3>7, <3>8, <3>9, <3>10 DEF c
  <2> QED
    BY <2>4, <2>5
<1> QED
  BY <1>4, <1>5

\* ngtcp2_conn_write_pkt.
LEMMA PktWrites ==
    ASSUME NEW c, Conn(c), Good(c), NEW ack, NEW s, s = conn_write_pkt(c, ack)
    PROVE  /\ Wrought(c, s)
           /\ Failed(c) => s.err
           /\ c.server /\ s.err => s.conn.state \notin {"POST_HANDSHAKE", "CLOSING"}
           /\ c.state = "SERVER_INITIAL" => s.conn.tx = c.out
           /\ c.state = "SERVER_INITIAL" /\ ~s.err => s.conn.state = "SERVER_WAIT_HANDSHAKE"
           /\ c.state = "SERVER_INITIAL" /\ s.err => s.out = {}
<1>1. Holds(c) /\ c.server \in BOOLEAN
  BY DEF Conn, Progress
<1>2. Failed(c) \/ c.state = "SERVER_INITIAL" =>
        c.state \notin {"CLIENT_INITIAL", "CLIENT_HANDSHAKE_ALMOST_FINISHED",
                        "POST_HANDSHAKE", "CLOSING", "DRAINING"}
  BY DEF Failed
<1>3. ASSUME NEW r, Wrote(c, r), Wrought(c, r), r.err \in BOOLEAN,
             s = write_ack_after(c.state, r, ack)
      PROVE  /\ Wrought(c, s) /\ s.err = r.err /\ s.conn.state = r.conn.state
             /\ s.conn.tx = r.conn.tx /\ (r.err => s.out = r.out)
  <2>1. Conn(r.conn) /\ Kept(c, r.conn)
    BY <1>3 DEF Wrote
  <2>2. Good(r.conn) /\ \A p \in r.out : Sound(r.conn, p) /\ Quiet(r.conn, p)
    BY <1>3 DEF Wrought, Writes
  <2>3. c.state = "POST_HANDSHAKE" => r.conn.completed \/ Early(r.conn)
    <3>1. c.state = "POST_HANDSHAKE" => c.completed \/ Early(c)
      BY DEF Good, Secured, Protects
    <3> QED
      BY <2>1, <3>1 DEF Kept, Early
  <2>4. /\ Wrought(r.conn, s) /\ s.err = r.err /\ s.conn.state = r.conn.state
        /\ s.conn.tx = r.conn.tx /\ (r.err => s.out = r.out)
    BY <1>3, <2>1, <2>2, <2>3, AckWrites
  <2> DEFINE t == After(r, s)
  <2> HIDE DEF t
  <2>5. Wrought(c, s)
    BY <1>3, <2>4, WroughtAfter DEF t
  <2> QED
    BY <2>4, <2>5
<1>4. CASE c.state = "CLIENT_INITIAL"
  <2> DEFINE r == conn_write_client_initial(c)
  <2> HIDE DEF r
  <2>1. ~c.server
    BY <1>1, <1>4 DEF Holds, ServerStates
  <2>2. Wrote(c, r) /\ r.err = FALSE /\ r.conn.state = "CLIENT_WAIT_HANDSHAKE"
    BY <1>4, <2>1, InitialWritten DEF r
  <2>3. Writes(c, r) /\ Fixed(c, r.conn)
    BY <1>4, <2>1, InitialWrites DEF r
  <2>4. Wrought(c, r)
    BY <2>1, <2>2, <2>3 DEF Wrought, Fixed, Runs, Failed
  <2>5. s = write_ack_after(c.state, r, ack)
    BY <1>4 DEF conn_write_pkt, r
  <2> QED
    BY <1>2, <1>3, <1>4, <2>1, <2>2, <2>4, <2>5
<1>5. CASE c.state = "CLIENT_HANDSHAKE_ALMOST_FINISHED"
  <2> DEFINE r == conn_write_almost_finished(c)
  <2> HIDE DEF r
  <2>1. Wrote(c, r) /\ r.err \in BOOLEAN /\ ~c.server
    BY <1>5, AlmostWritten DEF r
  <2>2. Wrought(c, r)
    BY <1>5, AlmostWrites DEF r
  <2>3. s = write_ack_after(c.state, r, ack)
    BY <1>5 DEF conn_write_pkt, r
  <2> QED
    BY <1>2, <1>3, <1>5, <2>1, <2>2, <2>3
<1>6. CASE c.state \in {"POST_HANDSHAKE", "CLOSING", "DRAINING"}
  <2> DEFINE r == Result(c, {}, FALSE)
  <2> HIDE DEF r
  <2>1. Wrote(c, r) /\ r.err = FALSE
    BY NothingWritten DEF r
  <2>2. Wrought(c, r)
    BY NothingWrought DEF r
  <2>3. s = write_ack_after(c.state, r, ack)
    BY <1>6 DEF conn_write_pkt, r
  <2>4. r.err \in BOOLEAN
    BY ONLY <2>1
  <2>5. Wrought(c, s) /\ s.err = r.err
    BY <1>3, <2>1, <2>2, <2>3, <2>4
  <2>6. ~s.err /\ ~Failed(c) /\ c.state # "SERVER_INITIAL"
    BY <1>2, <1>6, <2>1, <2>5
  <2> QED
    BY <2>5, <2>6
<1>7. CASE c.state \notin {"CLIENT_INITIAL", "CLIENT_HANDSHAKE_ALMOST_FINISHED",
                           "POST_HANDSHAKE", "CLOSING", "DRAINING"}
  <2> DEFINE r == conn_write_handshake(c)
  <2> HIDE DEF r
  <2>1. Wrote(c, r) /\ r.err \in BOOLEAN
    BY <1>7, HandshakeWritten DEF r
  <2>2. /\ r.conn.state = c.state \/ (c.state = "SERVER_INITIAL"
                                      /\ r.conn.state = "SERVER_WAIT_HANDSHAKE")
        /\ r.conn.tx = c.out
        /\ c.state # "SERVER_INITIAL" => r.err = Failed(c)
        /\ r.err /\ c.state = "SERVER_INITIAL" => r.out = {}
        /\ c.state = "SERVER_INITIAL" /\ ~r.err => r.conn.state = "SERVER_WAIT_HANDSHAKE"
    BY HandshakeWritesUnits DEF r
  <2>3. Wrought(c, r)
    BY <1>7, HandshakeWrites DEF r
  <2>4. s = write_ack_after(c.state, r, ack)
    BY <1>7 DEF conn_write_pkt, r
  <2>5. /\ Wrought(c, s) /\ s.err = r.err /\ s.conn.state = r.conn.state
        /\ s.conn.tx = r.conn.tx /\ (r.err => s.out = r.out)
    BY <1>3, <2>1, <2>3, <2>4
  <2>6. Failed(c) => s.err
    BY <2>2, <2>5 DEF Failed
  <2>7. s.conn.state \notin {"POST_HANDSHAKE", "CLOSING"}
    BY <1>7, <2>2, <2>5
  <2> QED
    BY <2>2, <2>5, <2>6, <2>7
<1> QED
  BY <1>4, <1>5, <1>6, <1>7

\* No more is written, without an error.
LEMMA NothingWroughtCleanly ==
    ASSUME NEW c, Conn(c), Good(c), NEW r, r = Result(c, {}, FALSE)
    PROVE  Wrought(c, r) /\ r.conn = c /\ r.out = {} /\ r.err = FALSE
<1>1. r.conn = c /\ r.out = {} /\ r.err = FALSE
  BY DEF Result
<1>2. DOMAIN c = Fields
  BY DEF Conn, Progress
<1> QED
  BY <1>1, <1>2 DEF Wrought, Writes, Fixed

\* The application's unit.
LEMMA StreamWrites ==
    ASSUME NEW c, Conn(c), Good(c), c.state # "CLIENT_INITIAL",
           NEW r, r = conn_write_stream(c)
    PROVE  /\ Wrought(c, r) /\ r.err = FALSE /\ r.conn.state = c.state /\ r.conn.tx = c.tx
           /\ r.conn.tx_ckm => r.conn.app # "queued"
<1> DEFINE f == [c EXCEPT !.app = "sent"]
           Same(d) == /\ Fixed(c, d) /\ d.state = c.state /\ d.tx = c.tx /\ d.out = c.out
                      /\ d.early_ckm = c.early_ckm
<1>1. DOMAIN c = Fields /\ c.server \in BOOLEAN
  BY DEF Conn, Progress
<1>2. Same(f) /\ f.app = "sent" /\ f.rtb = c.rtb /\ f.early_rtb = c.early_rtb
  BY <1>1 DEF Fixed, Fields
<1>3. Secured(c) /\ Calm(c)
  BY DEF Good
<1>4. ASSUME NEW d, Same(d), d.app = "sent", NEW p, Sound(c, p), Quiet(c, p),
             r = Result(d, {p}, FALSE),
             \/ /\ d.early_rtb = c.early_rtb /\ (c.completed \/ Early(c))
                /\ \A u : u \in d.rtb <=> u \in c.rtb \/ u = 3
             \/ ~c.server /\ d.rtb = c.rtb /\ 3 \in d.early_rtb
      PROVE  Wrought(c, r) /\ r.err = FALSE /\ r.conn = d
  <2>1. r.conn = d /\ r.out = {p} /\ r.err = FALSE
    BY <1>4 DEF Result
  <2>2. /\ d.server = c.server /\ d.completed = c.completed /\ d.got = c.got
        /\ d.alert = c.alert /\ d.buffed_rx_ppkts = c.buffed_rx_ppkts
        /\ d.conn_id = c.conn_id /\ d.negotiated = c.negotiated /\ d.rx = c.rx
        /\ d.tx_ckm = c.tx_ckm /\ d.params = c.params /\ d.rob = c.rob
        /\ d.recv_protected = c.recv_protected /\ d.state = c.state /\ d.tx = c.tx
        /\ d.out = c.out /\ d.early_ckm = c.early_ckm
    BY <1>4 DEF Fixed
  <2>3. (1 \in d.rtb <=> 1 \in c.rtb) /\ (2 \in d.rtb <=> 2 \in c.rtb)
    BY <1>4
  <2>4. Waits(d)
    BY <1>3, <2>2 DEF Secured, Waits, Shows
  <2>5. Protects(d) => d.completed \/ Early(d)
    <3>1. CASE 3 \in d.rtb /\ 3 \notin c.rtb
      BY <1>4, <2>2, <3>1 DEF Early
    <3>2. CASE ~(3 \in d.rtb /\ 3 \notin c.rtb)
      BY <1>3, <1>4, <2>2, <3>2 DEF Secured, Protects, Early
    <3> QED
      BY <3>1, <3>2
  <2>6. ~d.server => Finishes(d)
    BY <1>3, <2>2, <2>3 DEF Secured, Finishes
  <2>7. d.early_ckm => env.early
    BY <1>3, <2>2 DEF Secured
  <2>8. d.server => \A u \in 1..2 : u <= d.rx => u \in d.got
    BY <1>3, <2>2 DEF Secured
  <2>9. Good(d)
    BY <1>3, <2>2, <2>4, <2>5, <2>6, <2>7, <2>8 DEF Good, Secured, Calm
  <2>10. ASSUME Insists(c) PROVE Insists(d)
    <3> SUFFICES ASSUME ~c.alert PROVE Insists(d)
      BY <2>2 DEF Insists
    <3>1. d.app \in {"none", "queued", "sent"} /\ Plain(d)
      BY <1>4, <2>2, <2>10 DEF Insists, Plain
    <3>2. CASE c.server
      <4>1. Answers(c)
        BY <2>10, <3>2 DEF Insists
      <4>2. 3 \in d.rtb
        BY <1>4, <3>2
      <4>3. ASSUME NEW u \in 1..2, u \notin d.rtb PROVE u \notin c.rtb
        BY <1>4, <4>3
      <4>4. Answers(d)
        BY <1>4, <2>2, <4>1, <4>2, <4>3 DEF Answers
      <4> QED
        BY <2>2, <3>1, <3>2, <4>4 DEF Insists
    <3>3. CASE ~c.server
      <4>1. Asks(c)
        BY <2>10, <3>3 DEF Insists
      <4>2. 3 \in d.rtb \cup d.early_rtb
        BY <1>4
      <4>3. Asks(d)
        BY <1>4, <2>2, <2>3, <4>1, <4>2 DEF Asks
      <4> QED
        BY <2>2, <3>1, <3>3, <4>3 DEF Insists
    <3> QED
      BY <3>2, <3>3
  <2>11. Sound(d, p) /\ Quiet(d, p)
    BY <1>4, <2>2, StillSound
  <2>12. Writes(c, r)
    BY <2>1, <2>9, <2>10, <2>11 DEF Writes
  <2> QED
    BY <1>4, <2>1, <2>2, <2>12 DEF Wrought, Runs, Failed
<1>5. CASE c.app = "queued" /\ c.tx_ckm
  <2> DEFINE d == [f EXCEPT !.rtb = f.rtb \cup {3}]
             p == Pkt(c, "SHORT", 3, {}, FALSE)
  <2>1. [c EXCEPT !.app = "sent", !.rtb = @ \cup {3}] = d
    OBVIOUS
  <2> HIDE DEF f
  <2>2. Fixed(f, d) /\ d.state = f.state /\ d.tx = f.tx /\ d.out = f.out
        /\ d.early_ckm = f.early_ckm /\ d.early_rtb = f.early_rtb /\ d.app = f.app
        /\ d.rtb = f.rtb \cup {3}
    BY <1>2 DEF Fixed, Fields
  <2>3. r = Result(d, {p}, FALSE)
    BY <1>5, <2>1 DEF conn_write_stream
  <2> HIDE DEF d
  <2>4. Same(d)
    BY <1>2, <2>2 DEF Fixed
  <2>5. c.completed \/ Early(c)
    BY <1>3, <1>5 DEF Secured, Protects
  <2>6. Sound(c, p) /\ Quiet(c, p)
    BY <2>5, ShortSound
  <2> HIDE DEF p
  <2>7. \A u : u \in d.rtb <=> u \in c.rtb \/ u = 3
    BY <1>2, <2>2
  <2>8. Wrought(c, r) /\ r.err = FALSE /\ r.conn = d
    BY <1>2, <1>4, <2>2, <2>3, <2>4, <2>5, <2>6, <2>7
  <2> QED
    BY <1>2, <2>2, <2>4, <2>8
<1>6. CASE c.app = "queued" /\ ~c.tx_ckm /\ c.early_ckm /\ ~c.server /\ ~c.rejected
  <2> DEFINE d == [f EXCEPT !.early_rtb = f.early_rtb \cup {3}]
             p == Pkt(c, "0RTT", 3, {}, FALSE)
  <2>1. [c EXCEPT !.app = "sent", !.early_rtb = @ \cup {3}] = d
    OBVIOUS
  <2> HIDE DEF f
  <2>2. Fixed(f, d) /\ d.state = f.state /\ d.tx = f.tx /\ d.out = f.out
        /\ d.early_ckm = f.early_ckm /\ d.early_rtb = f.early_rtb \cup {3}
        /\ d.app = f.app /\ d.rtb = f.rtb
    BY <1>2 DEF Fixed, Fields
  <2>3. r = Result(d, {p}, FALSE)
    BY <1>6, <2>1 DEF conn_write_stream
  <2> HIDE DEF d
  <2>4. Same(d)
    BY <1>2, <2>2 DEF Fixed
  <2>5. env.early
    BY <1>3, <1>6 DEF Secured
  <2>6. Sound(c, p) /\ Quiet(c, p)
    <3>1. p.type = "0RTT" /\ p.ack = {} /\ p.cc = FALSE /\ (p.alert => c.alert)
      BY DEF Pkt
    <3> QED
      BY <2>5, <3>1 DEF Sound, Quiet
  <2> HIDE DEF p
  <2>7. ~c.server /\ d.rtb = c.rtb /\ 3 \in d.early_rtb
    BY <1>2, <1>6, <2>2
  <2>8. Wrought(c, r) /\ r.err = FALSE /\ r.conn = d
    BY <1>2, <1>4, <2>2, <2>3, <2>4, <2>6, <2>7
  <2> QED
    BY <1>2, <2>2, <2>4, <2>8
<1>7. CASE ~(c.app = "queued" /\ (c.tx_ckm \/ (c.early_ckm /\ ~c.server /\ ~c.rejected)))
  <2>1. r = Result(c, {}, FALSE)
    BY <1>7 DEF conn_write_stream
  <2>2. Wrought(c, r) /\ r.err = FALSE /\ r.conn = c
    BY ONLY Conn(c), Good(c), <2>1, NothingWroughtCleanly
  <2> QED
    BY <1>7, <2>2
<1> QED
  BY <1>5, <1>6, <1>7

(* s is the result of on_write on c.                                       *)
Written(c, s) ==
    /\ Wrought(c, s)
    /\ Failed(c) => s.err
    /\ c.server /\ s.err => s.conn.state \notin {"POST_HANDSHAKE", "CLOSING"}
    /\ c.state = "SERVER_INITIAL" => s.conn.tx = c.out
    /\ c.state = "SERVER_INITIAL" /\ ~s.err => s.conn.state = "SERVER_WAIT_HANDSHAKE"
    /\ c.state # "CLOSING" /\ ~s.err /\ s.conn.tx_ckm => s.conn.app # "queued"

\* on_write of either side, when no deadline has passed.
LEMMA OnWrites ==
    ASSUME NEW c, Conn(c), Good(c), NEW expired, expired \subseteq c.rtb,
           NEW dead, ~dead, NEW ack, NEW s, s = on_write(c, expired, dead, ack)
    PROVE  /\ Written(c, s)
           /\ c.state = "SERVER_INITIAL" /\ s.err /\ expired = {} => s.out = {}
<1>1. CASE c.server /\ c.state = "CLOSING"
  <2>1. s = Result(c, {}, FALSE)
    BY <1>1 DEF on_write
  <2>2. Wrought(c, s) /\ s.err = FALSE /\ s.conn = c
    BY ONLY Conn(c), Good(c), <2>1, NothingWroughtCleanly
  <2> QED
    BY <1>1, <2>2 DEF Failed, Written
<1>2. CASE ~(c.server /\ c.state = "CLOSING")
  <2> DEFINE r == conn_retransmit(c, expired)
             q == conn_write_pkt(r.conn, ack)
             t == After(r, q)
             w == conn_write_stream(t.conn)
  <2>1. expired = {} => r.out = {}
    BY DEF conn_retransmit, Result
  <2> HIDE DEF r, q, t, w
  <2>2. s = IF t.err THEN t ELSE After(t, w)
    BY <1>2 DEF on_write, write_stream_after, write_pkt_after, r, q, t, w
  <2>3. Wrote(c, r) /\ r.err = FALSE /\ r.conn.state = c.state
    BY Retransmitted DEF r
  <2>4. Writes(c, r)
    BY RetransmitWrites DEF r
  <2>5. /\ Fixed(c, r.conn) /\ r.conn.out = c.out /\ r.conn.tx = c.tx
    <3> DEFINE R == IF c.recv_protected THEN c.rtb \ (expired \cap {1, 2}) ELSE c.rtb
    <3>1. r.conn = [c EXCEPT !.rtb = R]
      BY DEF conn_retransmit, Result, r
    <3>2. DOMAIN c = Fields
      BY DEF Conn, Progress
    <3> HIDE DEF R
    <3> QED
      BY <3>1, <3>2 DEF Fixed, Fields
  <2>6. Wrought(c, r) /\ Conn(r.conn) /\ Good(r.conn)
    BY <2>3, <2>4, <2>5 DEF Wrought, Writes, Wrote, Runs, Failed, Fixed
  <2>7. r.conn.server = c.server /\ (Failed(c) => Failed(r.conn))
    BY <2>3, <2>5 DEF Fixed, Failed
  <2>8. /\ Wrought(r.conn, q)
        /\ Failed(r.conn) => q.err
        /\ r.conn.server /\ q.err => q.conn.state \notin {"POST_HANDSHAKE", "CLOSING"}
        /\ r.conn.state = "SERVER_INITIAL" => q.conn.tx = r.conn.out
        /\ r.conn.state = "SERVER_INITIAL" /\ ~q.err => q.conn.state = "SERVER_WAIT_HANDSHAKE"
        /\ r.conn.state = "SERVER_INITIAL" /\ q.err => q.out = {}
    BY <2>6, PktWrites DEF q
  <2>9. Wrote(r.conn, q) /\ q.err \in BOOLEAN /\ q.conn.state # "CLIENT_INITIAL"
    BY <2>6, PktWritten DEF q
  <2>10. Wrought(c, t) /\ t.conn = q.conn /\ t.err = q.err /\ t.out = r.out \cup q.out
    BY <2>6, <2>8, WroughtAfter DEF t
  <2>11. Conn(t.conn) /\ Good(t.conn)
    BY <2>9, <2>10 DEF Wrote, Wrought, Writes
  <2>12. CASE t.err
    <3>1. s = t
      BY <2>2, <2>12
    <3> QED
      BY <2>1, <2>3, <2>5, <2>7, <2>8, <2>10, <2>12, <3>1 DEF Written
  <2>13. CASE ~t.err
    <3>1. s = After(t, w)
      BY <2>2, <2>13
    <3>2. /\ Wrought(t.conn, w) /\ w.err = FALSE /\ w.conn.state = t.conn.state
          /\ w.conn.tx = t.conn.tx /\ (w.conn.tx_ckm => w.conn.app # "queued")
      BY <2>9, <2>10, <2>11, StreamWrites DEF w
    <3>3. Wrought(c, s) /\ s.conn = w.conn /\ s.err = w.err
      <4>1. Wrought(c, t) /\ Wrought(t.conn, w)
        BY <2>10, <3>2
      <4> QED
        BY ONLY <3>1, <4>1, WroughtAfter
    <3>4. ~Failed(c)
      BY <2>7, <2>8, <2>10, <2>13
    <3> QED
      BY <2>3, <2>5, <2>8, <2>10, <2>13, <3>2, <3>3, <3>4 DEF Written
  <2> QED
    BY <2>12, <2>13
<1> QED
  BY <1>1, <1>2

(* What is never taken back in a turn.                                     *)
Gains(c, d) ==
    /\ d.server = c.server /\ (c.completed => d.completed) /\ c.got \subseteq d.got
    /\ c.alert => d.alert

\* A packet whose deadline has passed is given up, and with it the connection:
\* x is c without what it gives up.
LEMMA ErrorCloses ==
    ASSUME NEW c, Conn(c), Good(c), NEW x, Alike(c, x), x.rtb \subseteq c.rtb,
           NEW r, r = handle_error(x)
    PROVE  /\ Good(r.conn) /\ Gains(c, r.conn) /\ \A p \in r.out : Sound(r.conn, p)
           /\ r.err <=> c.state \notin {"POST_HANDSHAKE", "CLOSING"}
           /\ r.err => r.out = {} /\ r.conn = x
           /\ r.conn.state # "POST_HANDSHAKE"
<1>1. Secured(c) /\ Calm(c)
  BY DEF Good
<1>2. ASSUME NEW d, Fixed(c, d), d.rtb \subseteq c.rtb, d.out = c.out, d.tx = c.tx,
             d.early_ckm = c.early_ckm, d.app = c.app,
             \/ d.state = c.state /\ c.state # "POST_HANDSHAKE"
             \/ d.state = "CLOSING" /\ c.state \in {"POST_HANDSHAKE", "CLOSING"}
      PROVE  Good(d) /\ Gains(c, d)
  <2>1. /\ d.server = c.server /\ d.completed = c.completed /\ d.got = c.got
        /\ d.alert = c.alert /\ d.buffed_rx_ppkts = c.buffed_rx_ppkts
        /\ d.conn_id = c.conn_id /\ d.negotiated = c.negotiated /\ d.rx = c.rx
        /\ d.tx_ckm = c.tx_ckm /\ d.recv_protected = c.recv_protected
    BY <1>2 DEF Fixed
  <2>2. Waits(d)
    BY <1>1, <1>2, <2>1 DEF Secured, Waits, Shows
  <2>3. Protects(d) => d.completed \/ Early(d)
    BY <1>1, <1>2, <2>1 DEF Secured, Protects, Early
  <2>4. ~d.server => Finishes(d)
    BY <1>1, <1>2, <2>1 DEF Secured, Finishes
  <2>5. Secured(d)
    BY <1>1, <1>2, <2>1, <2>2, <2>3, <2>4 DEF Secured
  <2>6. Calm(d)
    BY <1>1, <1>2, <2>1 DEF Calm, Over
  <2> QED
    BY <2>1, <2>5, <2>6 DEF Good, Gains
<1>3. x.state = c.state /\ DOMAIN x = Fields
  BY DEF Alike
<1>4. CASE c.state \in {"POST_HANDSHAKE", "CLOSING"}
  <2> DEFINE d == [x EXCEPT !.state = "CLOSING"]
             p == Pkt(x, "SHORT", 0, {}, TRUE)
  <2>1. r = Result(d, {p}, FALSE)
    BY <1>3, <1>4 DEF handle_error
  <2>2. Fixed(x, d) /\ d.rtb = x.rtb /\ d.out = x.out /\ d.tx = x.tx
        /\ d.early_ckm = x.early_ckm /\ d.app = x.app /\ d.state = "CLOSING"
    BY <1>3 DEF Fixed, Fields
  <2> HIDE DEF d
  <2>3. Fixed(c, d) /\ d.out = c.out /\ d.tx = c.tx /\ d.early_ckm = c.early_ckm
        /\ d.app = c.app
    BY <2>2 DEF Fixed, Alike
  <2>4. Good(d) /\ Gains(c, d)
    BY <1>2, <1>4, <2>2, <2>3
  <2>5. c.completed \/ Early(c)
    BY <1>1, <1>4 DEF Secured, Protects
  <2>6. Sound(d, p)
    <3>1. d.completed \/ Early(d)
      BY <2>3, <2>5 DEF Fixed, Early
    <3>2. p.type = "SHORT" /\ p.ack = {}
      BY DEF Pkt
    <3> QED
      BY <3>1, <3>2 DEF Sound
  <2> HIDE DEF p
  <2>7. r.conn = d /\ r.out = {p} /\ r.err = FALSE
    BY <2>1 DEF Result
  <2> QED
    BY <1>4, <2>2, <2>4, <2>6, <2>7
<1>5. CASE c.state \notin {"POST_HANDSHAKE", "CLOSING"}
  <2>1. r = Result(x, {}, TRUE)
    BY <1>3, <1>5 DEF handle_error
  <2>2. r.conn = x /\ r.out = {} /\ r.err = TRUE
    BY <2>1 DEF Result
  <2>3. Fixed(c, x) /\ x.out = c.out /\ x.tx = c.tx /\ x.early_ckm = c.early_ckm
        /\ x.app = c.app
    BY DEF Fixed, Alike
  <2>4. Good(x) /\ Gains(c, x)
    BY <1>2, <1>3, <1>5, <2>3
  <2> QED
    BY <1>3, <1>5, <2>2, <2>4
<1> QED
  BY <1>4, <1>5

(* Receiving a packet that TLS has no part in.                             *)

(* What such a packet leaves alone.                                        *)
Rest(c, d) ==
    /\ DOMAIN d = Fields
    /\ d.server = c.server /\ d.conn_id = c.conn_id
    /\ d.completed = c.completed /\ d.negotiated = c.negotiated /\ d.params = c.params
    /\ d.rx = c.rx /\ d.rob = c.rob /\ d.out = c.out /\ d.alert = c.alert
    /\ d.tx = c.tx /\ d.tx_ckm = c.tx_ckm /\ d.early_ckm = c.early_ckm
    /\ d.early_rtb = c.early_rtb /\ d.buffed_rx_ppkts = c.buffed_rx_ppkts

(* A protected packet has shown what there is to show.                     *)
Trusts(c) ==
    IF c.server THEN ep[client].completed
    ELSE c.completed /\ (~env.early => c.negotiated /\ Came(c.conn_id, 2))

(* d is c when such packets have come.                                     *)
Heard(c, d) ==
    /\ Rest(c, d)
    /\ c.got \subseteq d.got /\ d.rtb \subseteq c.rtb
    /\ \A u \in c.rtb \ d.rtb : Through(c, u)
    /\ d.recv_protected => c.recv_protected \/ Trusts(c)
    /\ d.app = c.app \/ (c.server /\ c.app = "none" /\ d.app = "queued")
    /\ c.server /\ 3 \in d.got => 3 \in c.got \/ d.app # "none"
    /\ d.state = c.state \/ d.state = "DRAINING"

\* Two packets in turn.
LEMMA HeardAgain ==
    ASSUME NEW a, NEW b, NEW c, Heard(a, b), Heard(b, c)
    PROVE  Heard(a, c)
<1>1. Rest(a, c)
  BY DEF Heard, Rest
<1>2. b.server = a.server /\ b.conn_id = a.conn_id /\ b.negotiated = a.negotiated
      /\ b.completed = a.completed
  BY DEF Heard, Rest
<1>3. a.got \subseteq c.got /\ c.rtb \subseteq a.rtb
  BY DEF Heard
<1>4. \A u \in a.rtb \ c.rtb : Through(a, u)
  BY <1>2 DEF Heard, Through
<1>5. c.recv_protected => a.recv_protected \/ Trusts(a)
  BY <1>2 DEF Heard, Trusts
<1>6. /\ c.app = a.app \/ (a.server /\ a.app = "none" /\ c.app = "queued")
      /\ a.server /\ 3 \in c.got => 3 \in a.got \/ c.app # "none"
      /\ c.state = a.state \/ c.state = "DRAINING"
  BY <1>2 DEF Heard
<1> QED
  BY <1>1, <1>3, <1>4, <1>5, <1>6 DEF Heard

\* No packet at all.
LEMMA NothingHeard ==
    ASSUME NEW c, DOMAIN c = Fields PROVE Heard(c, c)
BY DEF Heard, Rest

(* d is c with what packet p acknowledges let go of, and its unit listed.  *)
Listed(c, p, d) ==
    /\ Rest(c, d) /\ d.rtb \subseteq c.rtb
    /\ \A u \in c.rtb \ d.rtb : u \in p.ack
    /\ \A u : u \in d.got <=> u \in c.got \/ (p.unit # 0 /\ u = p.unit)
    /\ d.recv_protected = c.recv_protected /\ d.app = c.app /\ d.state = c.state

\* The ACK frame, and the acknowledgement to come.
LEMMA AckHeard ==
    ASSUME NEW c, DOMAIN c = Fields, NEW p, NEW R, R \subseteq c.rtb,
           \A u \in c.rtb \ R : u \in p.ack,
           NEW k, k = [c EXCEPT !.rtb = R], NEW d, d = sched_ack(k, p)
    PROVE  Listed(c, p, d)
<1> DEFINE G == k.got \cup {p.unit}
           g == [k EXCEPT !.got = G]
           h == [g EXCEPT !.active_ack = TRUE]
<1>3. /\ Rest(c, k) /\ k.rtb = R /\ k.got = c.got
      /\ k.recv_protected = c.recv_protected /\ k.app = c.app /\ k.state = c.state
  BY DEF Rest, Fields
<1>4. CASE p.unit = 0
  BY <1>3, <1>4 DEF sched_ack, Listed
<1>5. CASE p.unit # 0
  <2>1. d = h
    BY <1>5 DEF sched_ack
  <2>2. DOMAIN k = Fields
    BY <1>3 DEF Rest
  <2>3. \A u : u \in G <=> u \in c.got \/ u = p.unit
    BY <1>3
  <2> HIDE DEF G
  <2>4. /\ Rest(k, g) /\ g.rtb = k.rtb /\ g.got = G
        /\ g.recv_protected = k.recv_protected /\ g.app = k.app /\ g.state = k.state
    BY <2>2 DEF Rest, Fields
  <2> HIDE DEF g
  <2>5. DOMAIN g = Fields
    BY <2>4 DEF Rest
  <2>6. /\ Rest(g, h) /\ h.rtb = g.rtb /\ h.got = g.got
        /\ h.recv_protected = g.recv_protected /\ h.app = g.app /\ h.state = g.state
    BY <2>5 DEF Rest, Fields
  <2> HIDE DEF h
  <2>7. Rest(c, d)
    BY <1>3, <2>1, <2>4, <2>6 DEF Rest
  <2> QED
    BY <1>3, <1>5, <2>1, <2>3, <2>4, <2>6, <2>7 DEF Listed
<1> QED
  BY <1>4, <1>5

\* The same, as the code says it.
LEMMA AckListed ==
    ASSUME NEW c, DOMAIN c = Fields, NEW p
    PROVE  /\ Listed(c, p, sched_ack(recv_ack(c, p, FALSE), p))
           /\ Listed(c, p, sched_ack(recv_ack(c, p, TRUE), p))
<1>1. Listed(c, p, sched_ack(recv_ack(c, p, FALSE), p))
  <2> DEFINE R == c.rtb \ p.ack
             k == recv_ack(c, p, FALSE)
             d == sched_ack(k, p)
  <2>1. k = [c EXCEPT !.rtb = R]
    BY DEF recv_ack
  <2>2. R \subseteq c.rtb /\ \A u \in c.rtb \ R : u \in p.ack
    OBVIOUS
  <2>3. d = sched_ack(k, p)
    OBVIOUS
  <2> HIDE DEF R, k, d
  <2>4. Listed(c, p, d)
    BY <2>1, <2>2, <2>3, AckHeard
  <2> QED
    BY <2>4 DEF d, k
<1>2. Listed(c, p, sched_ack(recv_ack(c, p, TRUE), p))
  <2> DEFINE R == c.rtb \ (p.ack \cap {1, 2})
             k == recv_ack(c, p, TRUE)
             d == sched_ack(k, p)
  <2>1. k = [c EXCEPT !.rtb = R]
    BY DEF recv_ack
  <2>2. R \subseteq c.rtb /\ \A u \in c.rtb \ R : u \in p.ack
    OBVIOUS
  <2>3. d = sched_ack(k, p)
    OBVIOUS
  <2> HIDE DEF R, k, d
  <2>4. Listed(c, p, d)
    BY <2>1, <2>2, <2>3, AckHeard
  <2> QED
    BY <2>4 DEF d, k
<1> QED
  BY <1>1, <1>2

\* A protected packet.
LEMMA ProtectedHeard ==
    ASSUME NEW c, DOMAIN c = Fields, c.server \/ (c.completed /\ c.negotiated),
           NEW p, p.type \in {"SHORT", "0RTT"}, Shows(c, p),
           NEW r, r = conn_recv_pkt(c, p)
    PROVE  /\ Heard(c, r.conn) /\ r.out = {} /\ ~r.err
           /\ ~p.cc => r.conn.state = c.state
<1> DEFINE a == IF p.type = "SHORT" THEN [c EXCEPT !.recv_protected = TRUE] ELSE c
           k == recv_ack(a, p, FALSE)
           b == sched_ack(k, p)
           d == IF p.unit = 3 /\ c.server /\ c.app = "none"
                THEN [b EXCEPT !.app = "queued"] ELSE b
           e == IF p.cc THEN [d EXCEPT !.state = "DRAINING"] ELSE d
<1>1. /\ Rest(c, a) /\ a.rtb = c.rtb /\ a.got = c.got /\ a.app = c.app /\ a.state = c.state
      /\ a.recv_protected => c.recv_protected \/ p.type = "SHORT"
  BY DEF Rest, Fields
<1>2. p.type = "SHORT" => Trusts(c)
  BY DEF Shows, Trusts
<1>3. Heard(c, a)
  BY <1>1, <1>2 DEF Heard
<1> HIDE DEF a
<1>4. Listed(a, p, b)
  <2>1. DOMAIN a = Fields
    BY <1>1 DEF Rest
  <2> QED
    BY <2>1, AckListed
<1> HIDE DEF b
<1>5. /\ Rest(b, d) /\ d.rtb = b.rtb /\ d.got = b.got /\ d.state = b.state
      /\ d.recv_protected = b.recv_protected
      /\ d.app = IF p.unit = 3 /\ c.server /\ c.app = "none" THEN "queued" ELSE b.app
  <2>1. DOMAIN b = Fields
    BY <1>4 DEF Rest, Listed
  <2> QED
    BY <2>1 DEF Rest, Fields
<1> HIDE DEF d
<1>6. /\ Rest(d, e) /\ e.rtb = d.rtb /\ e.got = d.got /\ e.app = d.app
      /\ e.recv_protected = d.recv_protected
      /\ (e.state = d.state \/ (p.cc /\ e.state = "DRAINING"))
  <2>1. DOMAIN d = Fields
    BY <1>5 DEF Rest
  <2> QED
    BY <2>1 DEF Rest, Fields
<1> HIDE DEF e
<1>7. ASSUME p.type = "0RTT" \/ p.cid = c.conn_id PROVE Heard(c, e)
  <2>1. Rest(c, e)
    BY <1>1, <1>4, <1>5, <1>6 DEF Rest, Listed
  <2>2. c.got \subseteq e.got /\ e.rtb \subseteq c.rtb
    BY <1>1, <1>4, <1>5, <1>6 DEF Listed
  <2>3. \A u \in p.ack : Through(c, u)
    BY <1>7 DEF Shows, Through
  <2>4. \A u \in c.rtb \ e.rtb : Through(c, u)
    BY <1>1, <1>4, <1>5, <1>6, <2>3 DEF Listed
  <2>5. e.recv_protected => c.recv_protected \/ Trusts(c)
    BY <1>1, <1>2, <1>4, <1>5, <1>6 DEF Listed
  <2>6. e.app = c.app \/ (c.server /\ c.app = "none" /\ e.app = "queued")
    BY <1>1, <1>4, <1>5, <1>6 DEF Listed
  <2>7. c.server /\ 3 \in e.got => 3 \in c.got \/ e.app # "none"
    BY <1>1, <1>4, <1>5, <1>6 DEF Listed
  <2>8. e.state = c.state \/ (p.cc /\ e.state = "DRAINING")
    BY <1>1, <1>4, <1>5, <1>6 DEF Listed
  <2> QED
    BY <2>1, <2>2, <2>4, <2>5, <2>6, <2>7, <2>8 DEF Heard
<1>8. \/ r = Result(c, {}, FALSE)
      \/ r = Result(a, {}, FALSE)
      \/ r = Result(e, {}, FALSE) /\ (p.type = "0RTT" \/ p.cid = c.conn_id)
  BY DEF conn_recv_pkt, e, d, b, k, a
<1>9. Heard(c, c)
  BY NothingHeard
<1>10. r.conn \in {c, a, e} /\ r.out = {} /\ ~r.err
       /\ (r.conn = c \/ r.conn = a \/ (r.conn = e /\ (p.type = "0RTT" \/ p.cid = c.conn_id)))
  BY <1>8 DEF Result
<1>11. a.state = c.state /\ (e.state = c.state \/ p.cc)
  BY <1>1, <1>4, <1>5, <1>6 DEF Listed
<1> QED
  BY <1>3, <1>7, <1>9, <1>10, <1>11

\* A packet of the handshake after it.
LEMMA DelayedHeard ==
    ASSUME NEW c, DOMAIN c = Fields, c.server \/ (c.completed /\ c.negotiated),
           NEW p \in Packet, p.type \in {"INITIAL", "HANDSHAKE"}, Shows(c, p), p.unit # 3,
           c.server \/ p.type = "HANDSHAKE",
           NEW r, r = recv_delayed_handshake(c, p)
    PROVE  Heard(c, r.conn) /\ r.conn.state = c.state /\ (r.err => p.cc) /\ r.out = {} /\ r.err \in BOOLEAN
<1> DEFINE k == recv_ack(c, p, TRUE)
           d == sched_ack(k, p)
<1>1. Listed(c, p, d)
  BY AckListed
<1>2. \/ r = Result(c, {}, FALSE)
      \/ r = Result(c, {}, TRUE) /\ p.cc
      \/ r = Result(d, {}, FALSE) /\ (p.type = "INITIAL" \/ p.cid = c.conn_id)
  BY DEF recv_delayed_handshake
<1> HIDE DEF d
<1>3. ASSUME p.type = "INITIAL" \/ p.cid = c.conn_id PROVE Heard(c, d)
  <2>1. \A u \in p.ack : Through(c, u)
    BY <1>3 DEF Shows, Through
  <2> QED
    BY <1>1, <2>1 DEF Heard, Listed
<1>6. d.state = c.state
  BY <1>1 DEF Listed
<1>4. Heard(c, c)
  BY NothingHeard
<1>5. /\ r.out = {} /\ (r.err = FALSE \/ r.err = TRUE)
      /\ \/ r.conn = c /\ (r.err = TRUE => p.cc)
         \/ r.conn = d /\ (p.type = "INITIAL" \/ p.cid = c.conn_id) /\ r.err = FALSE
  BY <1>2 DEF Result
<1> QED
  BY <1>3, <1>4, <1>5, <1>6

\* A connection that can take such packets stays as sound as it was.
LEMMA HeardGood ==
    ASSUME NEW c, Conn(c), Secured(c), c.completed \/ Early(c), NEW d, Heard(c, d)
    PROVE  /\ Secured(d) /\ (Calm(c) => Calm(d)) /\ Gains(c, d)
           /\ d.state = c.state /\ Insists(c) => Insists(d)
           /\ d.state = c.state /\ Runs(c) => Runs(d)
<1>1. /\ DOMAIN d = Fields
      /\ d.server = c.server /\ d.conn_id = c.conn_id
      /\ d.completed = c.completed /\ d.negotiated = c.negotiated /\ d.params = c.params
      /\ d.rx = c.rx /\ d.rob = c.rob /\ d.out = c.out /\ d.alert = c.alert
      /\ d.tx = c.tx /\ d.tx_ckm = c.tx_ckm /\ d.early_ckm = c.early_ckm
      /\ d.early_rtb = c.early_rtb /\ d.buffed_rx_ppkts = c.buffed_rx_ppkts
  BY DEF Heard, Rest
<1>2. /\ c.got \subseteq d.got /\ d.rtb \subseteq c.rtb
      /\ \A u \in c.rtb \ d.rtb : Through(c, u)
      /\ d.recv_protected => c.recv_protected \/ Trusts(c)
      /\ d.app = c.app \/ (c.server /\ c.app = "none" /\ d.app = "queued")
      /\ c.server /\ 3 \in d.got => 3 \in c.got \/ d.app # "none"
      /\ d.state = c.state \/ d.state = "DRAINING"
  BY DEF Heard
<1>3. Waits(d)
  BY <1>1, <1>2 DEF Secured, Waits, Shows
<1>4. d.completed \/ Early(d)
  BY <1>1 DEF Early
<1>5. ~d.server => Finishes(d)
  <2> SUFFICES ASSUME ~c.server PROVE Finishes(d)
    BY <1>1
  <2>1. Finishes(c)
    BY DEF Secured
  <2>2. ~env.early /\ d.recv_protected => d.negotiated /\ Came(d.conn_id, 2)
    BY <1>1, <1>2, <2>1 DEF Finishes, Trusts
  <2>3. ~env.early /\ d.state = "POST_HANDSHAKE" /\ 2 \notin d.rtb => Came(d.conn_id, 2)
    BY <1>1, <1>2, <2>1 DEF Finishes, Through
  <2> QED
    BY <1>1, <1>2, <2>1, <2>2, <2>3 DEF Finishes
<1>6. d.server => \A u \in 1..2 : u <= d.rx => u \in d.got
  BY <1>1, <1>2 DEF Secured
<1>7. Secured(d)
  BY <1>1, <1>3, <1>4, <1>5, <1>6 DEF Secured
<1>8. Calm(c) => Calm(d)
  BY <1>1, <1>2 DEF Calm, Over
<1>9. Gains(c, d)
  BY <1>1, <1>2 DEF Gains
<1>10. ASSUME d.state = c.state, Insists(c) PROVE Insists(d)
  <2> SUFFICES ASSUME ~c.alert PROVE Insists(d)
    BY <1>1 DEF Insists
  <2>1. d.app \in {"none", "queued", "sent"} /\ Plain(d)
    BY <1>1, <1>2, <1>10 DEF Insists, Plain
  <2>2. CASE c.server
    <3>1. Answers(c)
      BY <1>10, <2>2 DEF Insists
    <3>2. \A u \in 1..2 : u <= d.tx /\ u \notin d.rtb =>
            Came(client, u) \/ ep[client].completed
      BY <1>1, <1>2, <2>2, <3>1 DEF Answers, Through
    <3>3. d.app = "sent" /\ 3 \notin d.rtb => Came(client, 3)
      BY <1>1, <1>2, <2>2, <3>1 DEF Answers, Through
    <3>4. d.recv_protected => ep[client].completed
      BY <1>1, <1>2, <2>2, <3>1 DEF Answers, Trusts
    <3>5. 3 \in d.got => d.app # "none"
      BY <1>1, <1>2, <2>2, <3>1 DEF Answers
    <3>6. Answers(d)
      BY <1>1, <1>2, <1>10, <3>1, <3>2, <3>3, <3>4, <3>5 DEF Answers
    <3> QED
      BY <1>1, <2>1, <2>2, <3>6 DEF Insists
  <2>3. CASE ~c.server
    <3>1. Asks(c)
      BY <1>10, <2>3 DEF Insists
    <3>2. c.completed
      BY <2>3 DEF Early
    <3>3. d.app = "sent" /\ 3 \notin d.rtb \cup d.early_rtb =>
            d.negotiated /\ Came(d.conn_id, 3)
      BY <1>1, <1>2, <2>3, <3>1 DEF Asks, Through
    <3>4. Asks(d)
      BY <1>1, <1>2, <1>10, <2>3, <3>1, <3>2, <3>3 DEF Asks
    <3> QED
      BY <1>1, <2>1, <2>3, <3>4 DEF Insists
  <2> QED
    BY <2>2, <2>3
<1>11. d.state = c.state /\ Runs(c) => Runs(d)
  BY <1>1, <1>2 DEF Runs, Failed
<1> QED
  BY <1>7, <1>8, <1>9, <1>10, <1>11

(* c, and nothing else; c when what waited has been taken in.              *)
Clean(c) == Result(c, {}, FALSE)

Emptied(c) == Clean([c EXCEPT !.buffed_rx_ppkts = << >>])

\* The packets that waited are taken in one by one.
LEMMA BufferedWithin ==
    ASSUME NEW c, Conn(c), NEW A, Clean(c) \in A,
           \A a \in A : /\ ~a.err
                        /\ \A i \in DOMAIN c.buffed_rx_ppkts :
                             conn_recv_pkt(a.conn, c.buffed_rx_ppkts[i]) \in A,
           NEW r, r = process_buffered(c)
    PROVE  \E a \in A : r = Emptied(a.conn)
<1> DEFINE q == c.buffed_rx_ppkts
           R == DOMAIN q
           base == Result(c, {}, FALSE)
           Step(a, x) == IF a.err THEN a ELSE conn_recv_pkt(a.conn, x)
           Eq(it) == it = [s \in SUBSET R |-> IF s = {} THEN base
                             ELSE Step(it[s \ {Max(s)}], q[Max(s)])]
           last == (CHOOSE it : Eq(it))[R]
           ch == [s \in SUBSET R |-> Max(s)]
           step == [z \in R \X A |-> Step(z[2], q[z[1]])]
<1>1. q \in Seq(Waiting)
  BY DEF Conn, Holds
<1>2. r = IF last.err THEN last
          ELSE Result([last.conn EXCEPT !.buffed_rx_ppkts = << >>], {}, FALSE)
  BY DEF process_buffered, FoldLeft, MapThenFoldSet
<1>3. R = 1..Len(q) /\ Len(q) \in Nat
  BY <1>1
<1>4. IsFiniteSet(R)
  BY <1>3, FS_Interval
<1>5. ASSUME NEW s \in SUBSET R, s # {} PROVE ch[s] = Max(s) /\ Max(s) \in s
  BY <1>3, <1>5, LastOfSome
<1>6. base \in A
  BY DEF Clean
<1>7. ASSUME NEW a \in A, NEW i \in R PROVE Step(a, q[i]) \in A
  OBVIOUS
<1> HIDE DEF base, Step
<1>8. \E it : Eq(it)
  <2>1. \A z \in R \X A : step[z] = Step(z[2], q[z[1]])
    OBVIOUS
  <2>2. ASSUME NEW i \in R, NEW a \in A
        PROVE  step[<<i, a>>] = Step(a, q[i]) /\ step[<<i, a>>] \in A
    BY <1>7, <2>1, <2>2
  <2> HIDE DEF step
  <2>3. Chooses(ch, R) /\ StepsWithin(step, R, A)
    BY <1>5, <2>2 DEF Chooses, StepsWithin
  <2> HIDE DEF ch
  <2>4. PICK it \in [SUBSET R -> A] : IsFold(it, R, base, ch, step)
    BY <1>4, <1>6, <2>3, FoldExists
  <2>5. ASSUME NEW s \in SUBSET R
        PROVE  it[s] = IF s = {} THEN base ELSE Step(it[s \ {Max(s)}], q[Max(s)])
    <3>1. CASE s = {}
      BY <2>4, <3>1 DEF IsFold
    <3>2. CASE s # {}
      <4>1. ch[s] = Max(s) /\ Max(s) \in R /\ s \ {Max(s)} \in SUBSET R
        BY <1>5, <3>2
      <4>2. it[s \ {Max(s)}] \in A
        BY <2>4, <4>1
      <4>3. it[s] = step[<<Max(s), it[s \ {Max(s)}]>>]
        BY <2>4, <3>2, <4>1 DEF IsFold
      <4> QED
        BY <2>2, <3>2, <4>1, <4>2, <4>3
    <3> QED
      BY <3>1, <3>2
  <2>6. Eq(it)
    BY <2>4, <2>5
  <2> QED
    BY <2>6
<1> DEFINE it == CHOOSE it : Eq(it)
<1>9. Eq(it)
  BY <1>8
<1> HIDE DEF it
<1>10. last = it[R]
  BY DEF it
<1>11. last \in A
  <2>1. it[{}] \in A
    BY <1>6, <1>9
  <2>2. ASSUME NEW s \in SUBSET R, s # {}, it[s \ {ch[s]}] \in A PROVE it[s] \in A
    <3>1. ch[s] = Max(s) /\ Max(s) \in R
      BY <1>5, <2>2
    <3>2. it[s] = Step(it[s \ {Max(s)}], q[Max(s)])
      BY <1>9, <2>2
    <3> QED
      BY <1>7, <2>2, <3>1, <3>2
  <2>3. Chooses(ch, R)
    BY <1>5 DEF Chooses
  <2> HIDE DEF ch
  <2> QED
    BY <1>4, <1>10, <2>1, <2>2, <2>3, FoldWithin
<1> HIDE DEF last
<1>12. ~last.err
  BY <1>11
<1>13. r = Emptied(last.conn)
  BY <1>2, <1>12 DEF Emptied, Clean
<1> QED
  BY <1>11, <1>13

\* What the buffered packets have shown.
LEMMA BufferedHeard ==
    ASSUME NEW c, Conn(c), Secured(c), NEW r, r = process_buffered(c),
           c.buffed_rx_ppkts # << >> => c.completed \/ Early(c)
    PROVE  \E d : /\ \/ d = c
                     \/ Heard(c, d) /\ (Plain(c) => d.state = c.state) /\ (c.completed \/ Early(c))
                  /\ r = Emptied(d)
                  /\ DOMAIN d = Fields
<1> DEFINE q == c.buffed_rx_ppkts
<1>1. /\ DOMAIN c = Fields /\ c.got \subseteq 1..3 /\ q \in Seq(Waiting)
      /\ ~c.server /\ c.completed => c.negotiated
  BY DEF Conn, Progress, Holds, ClientProgress
<1>2. CASE q = << >>
  <2> DEFINE A == {Result(c, {}, FALSE)}
  <2>1. \A a \in A : /\ ~a.err
                     /\ \A i \in DOMAIN q : conn_recv_pkt(a.conn, q[i]) \in A
    BY <1>2 DEF Result
  <2>2. Clean(c) \in A
    BY DEF Clean
  <2>3. \A a \in A : a.conn = c
    BY DEF Result
  <2> HIDE DEF A
  <2>4. \E a \in A : r = Emptied(a.conn)
    BY ONLY Conn(c), r = process_buffered(c), <2>1, <2>2, BufferedWithin
  <2> QED
    BY <1>1, <2>3, <2>4
<1>3. CASE q # << >>
  <2> DEFINE A == {a \in Results(c) : /\ Heard(c, a.conn)
                                      /\ Plain(c) => a.conn.state = c.state}
  <2>1. c.completed \/ Early(c)
    BY <1>3
  <2>2. c.server \/ (c.completed /\ c.negotiated)
    BY <1>1, <2>1 DEF Early, Conn, Progress
  <2>3. ASSUME NEW a \in A PROVE ~a.err
    BY DEF Results, Result
  <2>4. ASSUME NEW a \in A, NEW i \in DOMAIN q PROVE conn_recv_pkt(a.conn, q[i]) \in A
    <3>1. PICK x \in Reached(c) : a = Result(x, {}, FALSE)
      BY DEF Results
    <3>2. a.conn = x
      BY <3>1 DEF Result
    <3>3. Heard(c, x) /\ (Plain(c) => x.state = c.state)
      <4>1. Heard(c, a.conn) /\ (Plain(c) => a.conn.state = c.state)
        BY Zenon
      <4> QED
        BY <3>2, <4>1
    <3>4. q[i] \in Waiting
      BY <1>1
    <3>5. q[i].type \in {"SHORT", "0RTT"}
      BY <3>4 DEF Waiting
    <3>6. Shows(c, q[i])
      BY DEF Secured, Waits
    <3>7. /\ DOMAIN x = Fields /\ x.server = c.server /\ x.completed = c.completed
          /\ x.negotiated = c.negotiated /\ x.conn_id = c.conn_id
      BY <3>3 DEF Heard, Rest
    <3>8. Shows(x, q[i])
      BY <3>6, <3>7 DEF Shows
    <3> DEFINE s == conn_recv_pkt(x, q[i])
               p == q[i]
    <3>9. s \in Results(c)
      BY <1>1, <3>4, ReachedStep
    <3>10. Heard(x, s.conn) /\ (~p.cc => s.conn.state = x.state)
      <4>1. s = conn_recv_pkt(x, p) /\ (x.server \/ (x.completed /\ x.negotiated))
            /\ DOMAIN x = Fields /\ p.type \in {"SHORT", "0RTT"} /\ Shows(x, p)
        BY <2>2, <3>5, <3>7, <3>8
      <4> HIDE DEF s, p
      <4> QED
        BY ONLY <4>1, ProtectedHeard
    <3>11. p.cc => ~Plain(c)
      BY DEF Plain
    <3> HIDE DEF s
    <3>12. Plain(c) => s.conn.state = c.state
      BY <3>3, <3>10, <3>11
    <3>13. Heard(c, s.conn)
      BY ONLY <3>3, <3>10, HeardAgain
    <3> QED
      BY <3>2, <3>9, <3>12, <3>13 DEF s
  <2>5. Result(c, {}, FALSE) \in A
    <3>1. Took(c, c)
      BY <1>1 DEF Took
    <3>2. Result(c, {}, FALSE) \in Results(c)
      BY <3>1 DEF Results, Reached
    <3>3. Heard(c, c)
      BY <1>1, NothingHeard
    <3>4. Result(c, {}, FALSE).conn = c
      BY DEF Result
    <3> QED
      BY <3>2, <3>3, <3>4
  <2>6. \A a \in A : /\ Heard(c, a.conn) /\ (Plain(c) => a.conn.state = c.state)
                     /\ DOMAIN a.conn = Fields
    <3> TAKE a \in A
    <3>1. Heard(c, a.conn) /\ (Plain(c) => a.conn.state = c.state)
      BY Zenon
    <3> QED
      BY <3>1 DEF Heard, Rest
  <2>9. Clean(c) \in A
    BY <2>5 DEF Clean
  <2> HIDE DEF A
  <2>7. \A a \in A : /\ ~a.err
                     /\ \A i \in DOMAIN q : conn_recv_pkt(a.conn, q[i]) \in A
    BY <2>3, <2>4
  <2>8. PICK a \in A : r = Emptied(a.conn)
    BY ONLY Conn(c), r = process_buffered(c), <2>9, <2>7, BufferedWithin
  <2> QED
    BY <2>1, <2>6, <2>8
<1> QED
  BY <1>2, <1>3

\* Nothing waits any more.
LEMMA EmptyGood ==
    ASSUME NEW c, DOMAIN c = Fields, NEW d, d = [c EXCEPT !.buffed_rx_ppkts = << >>]
    PROVE  /\ Secured(c) => Secured(d)
           /\ Calm(c) => Calm(d)
           /\ Gains(c, d)
           /\ Insists(c) => Insists(d)
           /\ Runs(c) => Runs(d)
           /\ d.buffed_rx_ppkts = << >>
           /\ d.state = c.state /\ d.tx = c.tx /\ d.out = c.out /\ d.tx_ckm = c.tx_ckm
           /\ d.params = c.params /\ d.completed = c.completed
<1>1. /\ d.server = c.server /\ d.state = c.state /\ d.conn_id = c.conn_id
      /\ d.completed = c.completed /\ d.negotiated = c.negotiated /\ d.params = c.params
      /\ d.recv_protected = c.recv_protected /\ d.rx = c.rx /\ d.rob = c.rob
      /\ d.out = c.out /\ d.alert = c.alert /\ d.tx = c.tx /\ d.tx_ckm = c.tx_ckm
      /\ d.early_ckm = c.early_ckm /\ d.early_rtb = c.early_rtb /\ d.got = c.got
      /\ d.app = c.app /\ d.rtb = c.rtb
  BY DEF Fields
<1>2. d.buffed_rx_ppkts = << >> /\ Waits(d) /\ Plain(d)
  BY DEF Waits, Plain, Fields
<1>3. Secured(c) => Secured(d)
  <2>1. Finishes(c) => Finishes(d)
    BY <1>1 DEF Finishes
  <2>2. Protects(d) => Protects(c)
    BY <1>1 DEF Protects
  <2> QED
    BY <1>1, <1>2, <2>1, <2>2 DEF Secured, Early
<1>4. Insists(c) => Insists(d)
  <2>1. Answers(c) => Answers(d)
    BY <1>1 DEF Answers
  <2>2. Asks(c) => Asks(d)
    BY <1>1 DEF Asks
  <2> QED
    BY <1>1, <1>2, <2>1, <2>2 DEF Insists
<1> QED
  BY <1>1, <1>2, <1>3, <1>4 DEF Calm, Gains, Runs, Failed

(* What a call that receives does to connection c.                         *)
Keeps(c, d) ==
    /\ Secured(d) /\ (Calm(c) => Calm(d)) /\ Gains(c, d)
    /\ d.state = c.state => (Insists(c) => Insists(d)) /\ (Runs(c) => Runs(d))

\* Packets that waited.
LEMMA BufferedKeeps ==
    ASSUME NEW c, Conn(c), Secured(c), NEW r, r = process_buffered(c),
           c.buffed_rx_ppkts # << >> => c.completed \/ Early(c)
    PROVE  /\ Keeps(c, r.conn) /\ r.out = {} /\ r.err = FALSE
           /\ Plain(c) => r.conn.state = c.state
           /\ r.conn.state = c.state \/ r.conn.state = "DRAINING"
           /\ r.conn.tx = c.tx /\ r.conn.out = c.out /\ r.conn.tx_ckm = c.tx_ckm
<1>1. PICK d : /\ \/ d = c
                  \/ Heard(c, d) /\ (Plain(c) => d.state = c.state) /\ (c.completed \/ Early(c))
               /\ r = Emptied(d)
               /\ DOMAIN d = Fields
  BY BufferedHeard
<1> DEFINE e == [d EXCEPT !.buffed_rx_ppkts = << >>]
<1>2. r.conn = e /\ r.out = {} /\ r.err = FALSE
  BY <1>1 DEF Emptied, Clean, Result
<1>3. /\ Secured(d) => Secured(e)
      /\ Calm(d) => Calm(e)
      /\ Gains(d, e)
      /\ Insists(d) => Insists(e)
      /\ Runs(d) => Runs(e)
      /\ e.state = d.state /\ e.tx = d.tx /\ e.out = d.out /\ e.tx_ckm = d.tx_ckm
  BY <1>1, EmptyGood
<1> HIDE DEF e
<1>4. CASE d = c
  BY <1>2, <1>3, <1>4 DEF Keeps
<1>5. CASE Heard(c, d) /\ (Plain(c) => d.state = c.state) /\ (c.completed \/ Early(c))
  <2>1. /\ Secured(d) /\ (Calm(c) => Calm(d)) /\ Gains(c, d)
        /\ d.state = c.state /\ Insists(c) => Insists(d)
        /\ d.state = c.state /\ Runs(c) => Runs(d)
    BY <1>5, HeardGood
  <2>2. /\ d.state = c.state \/ d.state = "DRAINING"
        /\ d.tx = c.tx /\ d.out = c.out /\ d.tx_ckm = c.tx_ckm
    BY <1>5 DEF Heard, Rest
  <2>3. Gains(c, e)
    BY <1>3, <2>1 DEF Gains
  <2> QED
    BY <1>2, <1>3, <1>5, <2>1, <2>2, <2>3 DEF Keeps
<1> QED
  BY <1>1, <1>4, <1>5

(* Receiving the units of stream 0.                                        *)

(* What TLS leaves alone.                                                  *)
Still(c, d) ==
    /\ DOMAIN d = Fields
    /\ d.server = c.server /\ d.conn_id = c.conn_id /\ d.negotiated = c.negotiated
    /\ d.recv_protected = c.recv_protected /\ d.state = c.state /\ d.tx = c.tx
    /\ d.rtb = c.rtb /\ d.early_rtb = c.early_rtb /\ d.got = c.got
    /\ d.buffed_rx_ppkts = c.buffed_rx_ppkts /\ d.app = c.app

\* tls_handshake of the client.
LEMMA ClientTold ==
    ASSUME NEW c, DOMAIN c = Fields, NEW r, r = client_tls_handshake(c)
    PROVE  /\ Still(c, r.conn)
           /\ r.conn.rx = c.rx /\ r.conn.rob = c.rob
           /\ r.conn.tx_ckm = c.tx_ckm /\ r.conn.early_ckm = c.early_ckm
           /\ \/ /\ c.rx = 1 /\ ~r.err /\ r.conn.completed = c.completed
                 /\ r.conn.out = c.out /\ r.conn.alert = c.alert
              \/ ~r.err /\ r.conn.completed /\ r.conn.out = 2 /\ r.conn.alert = c.alert
              \/ /\ r.err /\ r.conn.completed = c.completed
                 /\ r.conn.out = 2 /\ r.conn.alert
<1> DEFINE a == [c EXCEPT !.late_bound = TRUE]
           m == [a EXCEPT !.migrated = env.connects]
           o == OnMigration(c)
           b == [o EXCEPT !.params = TRUE]
           v == env.early /\ ~env.take_early
           k == [b EXCEPT !.rejected = v]
           Kin(d) == /\ Still(c, d) /\ d.rx = c.rx /\ d.rob = c.rob
                     /\ d.tx_ckm = c.tx_ckm /\ d.early_ckm = c.early_ckm
           Alert(d) == d.completed = c.completed /\ d.alert = c.alert
<1>1. Kin(c) /\ Alert(c)
  BY DEF Still
<1>2. Kin(a) /\ a.out = c.out /\ DOMAIN a = Fields /\ Alert(a)
  BY DEF Still, Fields
<1>3. Kin(m) /\ m.out = c.out /\ Alert(m)
  <2> HIDE DEF a
  <2> QED
    BY <1>2 DEF Still, Fields
<1>4. [c EXCEPT !.late_bound = TRUE, !.migrated = env.connects] = m
  OBVIOUS
<1>5. o = c \/ o = m
  BY <1>4 DEF OnMigration
<1> HIDE DEF m, a, o
<1>6. Kin(o) /\ o.out = c.out /\ DOMAIN o = Fields /\ Alert(o)
  BY <1>1, <1>3, <1>5 DEF Still
<1>7. Kin(b) /\ b.out = c.out /\ DOMAIN b = Fields /\ Alert(b)
  BY <1>6 DEF Still, Fields
<1> HIDE DEF b, v
<1>8. Kin(k) /\ k.out = c.out /\ DOMAIN k = Fields /\ Alert(k)
  BY <1>7 DEF Still, Fields
<1>9. [o EXCEPT !.params = TRUE, !.rejected = env.early /\ ~env.take_early] = k
  BY DEF b, v
<1> HIDE DEF k
<1> DEFINE f == [k EXCEPT !.out = 2]
           g == [f EXCEPT !.completed = TRUE]
           h == [f EXCEPT !.alert = TRUE]
<1>10. [k EXCEPT !.out = 2, !.completed = TRUE] = g
       /\ [k EXCEPT !.out = 2, !.alert = TRUE] = h
  OBVIOUS
<1>11. Kin(f) /\ f.out = 2 /\ DOMAIN f = Fields /\ Alert(f)
  BY <1>8 DEF Still, Fields
<1> HIDE DEF f
<1>12. Kin(g) /\ g.completed = TRUE /\ g.alert = c.alert /\ g.out = 2
  BY <1>11 DEF Still, Fields
<1>13. Kin(h) /\ h.completed = c.completed /\ h.alert = TRUE /\ h.out = 2
  BY <1>11 DEF Still, Fields
<1> HIDE DEF g, h
<1>14. \/ c.rx = 1 /\ r = Result(k, {}, FALSE)
       \/ r = Result(g, {}, FALSE)
       \/ r = Result(h, {}, TRUE)
  BY <1>9, <1>10 DEF client_tls_handshake, o
<1>15. \/ c.rx = 1 /\ r.conn = k /\ ~r.err
       \/ r.conn = g /\ ~r.err
       \/ r.conn = h /\ r.err
  BY <1>14 DEF Result
<1> QED
  BY <1>8, <1>12, <1>13, <1>15

\* tls_handshake of a handler.
LEMMA ServerTold ==
    ASSUME NEW c, DOMAIN c = Fields, NEW r, r = server_tls_handshake(c)
    PROVE  /\ Still(c, r.conn)
           /\ r.conn.rx = c.rx /\ r.conn.rob = c.rob
           /\ r.conn.early_ckm => c.early_ckm \/ env.early
           /\ \/ /\ c.rx = 2 /\ ~r.err /\ r.conn.completed
                 /\ r.conn.out = c.out /\ r.conn.alert = c.alert
                 /\ r.conn.tx_ckm = c.tx_ckm /\ r.conn.params = c.params
              \/ /\ c.rx # 2 /\ ~r.err /\ r.conn.completed = c.completed
                 /\ r.conn.out = 2 /\ r.conn.alert = c.alert
                 /\ r.conn.tx_ckm /\ r.conn.params
              \/ /\ c.rx # 2 /\ r.err /\ r.conn.completed = c.completed
                 /\ r.conn.alert
<1> DEFINE g == [c EXCEPT !.completed = TRUE]
           f == [c EXCEPT !.out = 2]
           a == [f EXCEPT !.tx_ckm = TRUE]
           b == [a EXCEPT !.params = TRUE]
           v == env.early /\ env.take_early
           k == [b EXCEPT !.early_ckm = v]
           e == [c EXCEPT !.out = 1]
           h == [e EXCEPT !.alert = TRUE]
           Kin(d) == Still(c, d) /\ d.rx = c.rx /\ d.rob = c.rob
<1>1. [c EXCEPT !.out = 2, !.tx_ckm = TRUE, !.params = TRUE,
                !.early_ckm = env.early /\ env.take_early] = k
      /\ [c EXCEPT !.out = 1, !.alert = TRUE] = h
  OBVIOUS
<1>2. \/ c.rx = 2 /\ r = Result(g, {}, FALSE)
      \/ c.rx # 2 /\ r = Result(k, {}, FALSE)
      \/ c.rx # 2 /\ r = Result(h, {}, TRUE)
  BY <1>1 DEF server_tls_handshake
<1>3. \/ c.rx = 2 /\ r.conn = g /\ ~r.err
      \/ c.rx # 2 /\ r.conn = k /\ ~r.err
      \/ c.rx # 2 /\ r.conn = h /\ r.err
  <2>1. r = Result(g, {}, FALSE) => r.conn = g /\ ~r.err
    BY DEF Result
  <2>2. r = Result(k, {}, FALSE) => r.conn = k /\ ~r.err
    BY DEF Result
  <2>3. r = Result(h, {}, TRUE) => r.conn = h /\ r.err
    BY DEF Result
  <2> HIDE DEF g, k, h
  <2> QED
    BY <1>2, <2>1, <2>2, <2>3
<1>4. /\ Kin(g) /\ g.out = c.out /\ g.alert = c.alert /\ g.completed
      /\ g.early_ckm = c.early_ckm /\ g.tx_ckm = c.tx_ckm /\ g.params = c.params
  BY DEF Still, Fields
<1>5. Kin(f) /\ f.out = 2 /\ f.alert = c.alert /\ f.completed = c.completed
      /\ DOMAIN f = Fields
  BY DEF Still, Fields
<1>6. Kin(e) /\ e.completed = c.completed /\ e.early_ckm = c.early_ckm /\ DOMAIN e = Fields
  BY DEF Still, Fields
<1>7. v => env.early
  OBVIOUS
<1> HIDE DEF g, f, e, v
<1>8. /\ Kin(a) /\ a.out = 2 /\ a.alert = c.alert /\ a.completed = c.completed
      /\ a.tx_ckm = TRUE /\ DOMAIN a = Fields
  BY <1>5 DEF Still, Fields
<1> HIDE DEF a
<1>9. /\ Kin(b) /\ b.out = 2 /\ b.alert = c.alert /\ b.completed = c.completed
      /\ b.tx_ckm = TRUE /\ b.params = TRUE /\ DOMAIN b = Fields
  BY <1>8 DEF Still, Fields
<1> HIDE DEF b
<1>10. /\ Kin(k) /\ k.out = 2 /\ k.alert = c.alert /\ k.completed = c.completed
       /\ k.tx_ckm = TRUE /\ k.params = TRUE /\ (k.early_ckm <=> v)
  BY <1>9 DEF Still, Fields
<1>11. /\ Kin(h) /\ h.alert = TRUE /\ h.completed = c.completed
       /\ h.early_ckm = c.early_ckm
  BY <1>6 DEF Still, Fields
<1> HIDE DEF k, h
<1> QED
  BY <1>3, <1>4, <1>7, <1>10, <1>11

(* What a unit of stream 0, u, does to client c.                           *)
ToldClient(c, d, u, err) ==
    /\ d.tx_ckm = c.tx_ckm /\ d.early_ckm = c.early_ckm
    /\ d.completed => c.completed \/ d.out = 2
    /\ d.out = c.out \/ d.out = 2
    /\ ~err => d.alert = c.alert /\ (d.out # c.out => d.completed)
    /\ (~err /\ ~d.completed /\ c.rx < 2 /\ c.rx + 1 \notin c.rob) =>
         /\ d.rx < 2 /\ d.rx + 1 \notin d.rob
         /\ \A i \in {1, 2} : i <= c.rx \/ i \in c.rob \/ i = u => i <= d.rx \/ i \in d.rob

(* And to handler c.                                                       *)
ToldServer(c, d, u, err) ==
    /\ d.early_ckm => c.early_ckm \/ env.early
    /\ ~err => d.alert = c.alert
    /\ \/ /\ ~err /\ d.rx = c.rx /\ d.out = c.out
          /\ d.tx_ckm = c.tx_ckm /\ d.params = c.params
       \/ /\ d.rx = u /\ u = c.rx + 1
          /\ \/ err
             \/ d.rx = 2 /\ d.out = c.out /\ d.tx_ckm = c.tx_ckm /\ d.params = c.params
             \/ d.rx = 1 /\ d.out = 2 /\ d.tx_ckm /\ d.params

\* A unit of stream 0.
LEMMA UnitTold ==
    ASSUME NEW c, Conn(c), NEW p, p.unit \in 1..2, c.server /\ p.unit = 2 => c.rx > 0,
           NEW r, r = recv_stream0(c, p)
    PROVE  /\ Still(c, r.conn)
           /\ c.completed => r.conn.completed
           /\ c.alert => r.conn.alert
           /\ IF c.server THEN ToldServer(c, r.conn, p.unit, r.err)
                          ELSE ToldClient(c, r.conn, p.unit, r.err)
<1> DEFINE rob == c.rob \cup {p.unit}
           rx == IF c.rx + 1 \notin rob THEN c.rx
                 ELSE IF c.rx + 2 \in rob THEN c.rx + 2 ELSE c.rx + 1
           left == {u \in rob : u > rx}
           a == [c EXCEPT !.rx = rx]
           b == [a EXCEPT !.rob = left]
           F == b.from \cup {p.cid}
           d == [b EXCEPT !.from = F]
<1>1. DOMAIN c = Fields /\ c.server \in BOOLEAN /\ c.rx \in 0..2 /\ c.rob \subseteq 1..2
  BY DEF Conn, Progress
<1>2. c.server => c.rob = {}
  BY DEF Conn, HandlerProgress
<1>3. [c EXCEPT !.rx = rx, !.rob = left, !.from = @ \cup {p.cid}] = d
  OBVIOUS
<1>4. \/ p.unit <= c.rx /\ r = Result(c, {}, FALSE)
      \/ ~(p.unit <= c.rx) /\ rx = c.rx /\ r = Result(d, {}, FALSE)
      \/ ~(p.unit <= c.rx) /\ rx # c.rx /\ r = Result(d, {}, TRUE)
      \/ ~(p.unit <= c.rx) /\ rx # c.rx /\ c.server /\ r = server_tls_handshake(d)
      \/ ~(p.unit <= c.rx) /\ rx # c.rx /\ ~c.server /\ r = client_tls_handshake(d)
  BY <1>3 DEF recv_stream0
<1>5. /\ rx \in 0..2 /\ c.rx <= rx
      /\ c.rx < 2 /\ c.rx + 1 \notin c.rob => rx + 1 \notin left
      /\ \A i \in {1, 2} : i <= c.rx \/ i \in c.rob \/ i = p.unit => i <= rx \/ i \in left
  BY <1>1
<1>6. c.server /\ ~(p.unit <= c.rx) /\ rx # c.rx => rx = p.unit /\ p.unit = c.rx + 1
  BY <1>1, <1>2
<1>7. c.server /\ ~(p.unit <= c.rx) => rx # c.rx
  <2> SUFFICES ASSUME c.server, ~(p.unit <= c.rx) PROVE rx # c.rx
    OBVIOUS
  <2>1. rob = {p.unit}
    BY <1>2
  <2>2. p.unit = c.rx + 1
    BY <1>1
  <2> QED
    BY <1>1, <2>1, <2>2
<1> HIDE DEF rx, left, rob
<1>8. /\ Still(c, a) /\ a.rx = rx /\ a.out = c.out /\ a.completed = c.completed
      /\ a.alert = c.alert /\ a.tx_ckm = c.tx_ckm /\ a.early_ckm = c.early_ckm
      /\ a.params = c.params /\ DOMAIN a = Fields
  BY <1>1 DEF Still, Fields
<1> HIDE DEF a
<1>9. /\ Still(c, b) /\ b.rx = rx /\ b.rob = left /\ b.out = c.out
      /\ b.completed = c.completed
      /\ b.alert = c.alert /\ b.tx_ckm = c.tx_ckm /\ b.early_ckm = c.early_ckm
      /\ b.params = c.params /\ DOMAIN b = Fields
  BY <1>8 DEF Still, Fields
<1> HIDE DEF b, F
<1>10. /\ Still(c, d) /\ d.rx = rx /\ d.rob = left /\ d.out = c.out
       /\ d.completed = c.completed
       /\ d.alert = c.alert /\ d.tx_ckm = c.tx_ckm /\ d.early_ckm = c.early_ckm
       /\ d.params = c.params /\ DOMAIN d = Fields
  BY <1>9 DEF Still, Fields
<1> HIDE DEF d
<1>11. CASE p.unit <= c.rx /\ r = Result(c, {}, FALSE)
  <2>1. r.conn = c /\ ~r.err
    BY <1>11 DEF Result
  <2>2. Still(c, c)
    BY <1>1 DEF Still
  <2>3. ToldServer(c, c, p.unit, r.err)
    BY <2>1 DEF ToldServer
  <2>4. ToldClient(c, c, p.unit, r.err)
    BY <1>1, <1>11, <2>1 DEF ToldClient
  <2> QED
    BY <2>1, <2>2, <2>3, <2>4
<1>12. CASE ~(p.unit <= c.rx) /\ rx = c.rx /\ r = Result(d, {}, FALSE)
  <2>1. r.conn = d /\ ~r.err
    BY <1>12 DEF Result
  <2>2. ~c.server
    BY <1>7, <1>12
  <2>3. ToldClient(c, d, p.unit, r.err)
    BY <1>5, <1>10, <1>12, <2>1 DEF ToldClient
  <2> QED
    BY <1>10, <2>1, <2>2, <2>3
<1>13. CASE ~(p.unit <= c.rx) /\ rx # c.rx /\ r = Result(d, {}, TRUE)
  <2>1. r.conn = d /\ r.err
    BY <1>13 DEF Result
  <2>2. c.server => ToldServer(c, d, p.unit, r.err)
    BY <1>6, <1>10, <1>13, <2>1 DEF ToldServer
  <2>3. ToldClient(c, d, p.unit, r.err)
    BY <1>10, <2>1 DEF ToldClient
  <2> QED
    BY <1>10, <2>1, <2>2, <2>3
<1>14. CASE ~(p.unit <= c.rx) /\ rx # c.rx /\ c.server /\ r = server_tls_handshake(d)
  <2> DEFINE e == r.conn
  <2>1. /\ Still(d, e) /\ e.rx = d.rx
        /\ e.early_ckm => d.early_ckm \/ env.early
        /\ \/ /\ d.rx = 2 /\ ~r.err /\ e.completed
              /\ e.out = d.out /\ e.alert = d.alert
              /\ e.tx_ckm = d.tx_ckm /\ e.params = d.params
           \/ /\ d.rx # 2 /\ ~r.err /\ e.completed = d.completed
              /\ e.out = 2 /\ e.alert = d.alert
              /\ e.tx_ckm /\ e.params
           \/ /\ d.rx # 2 /\ r.err /\ e.completed = d.completed
              /\ e.alert
    BY <1>10, <1>14, ServerTold
  <2> HIDE DEF e
  <2>2. Still(c, e)
    BY <1>10, <2>1 DEF Still
  <2>3. d.rx = p.unit /\ p.unit = c.rx + 1 /\ (d.rx # 2 => d.rx = 1)
    BY <1>5, <1>6, <1>10, <1>14
  <2>4. ToldServer(c, e, p.unit, r.err)
    BY <1>10, <2>1, <2>3 DEF ToldServer
  <2> QED
    BY <1>10, <1>14, <2>1, <2>2, <2>4 DEF e
<1>15. CASE ~(p.unit <= c.rx) /\ rx # c.rx /\ ~c.server /\ r = client_tls_handshake(d)
  <2> DEFINE e == r.conn
  <2>1. /\ Still(d, e) /\ e.rx = d.rx /\ e.rob = d.rob
        /\ e.tx_ckm = d.tx_ckm /\ e.early_ckm = d.early_ckm
        /\ \/ /\ d.rx = 1 /\ ~r.err /\ e.completed = d.completed
              /\ e.out = d.out /\ e.alert = d.alert
           \/ ~r.err /\ e.completed /\ e.out = 2 /\ e.alert = d.alert
           \/ r.err /\ e.completed = d.completed /\ e.out = 2 /\ e.alert
    BY <1>10, <1>15, ClientTold
  <2> HIDE DEF e
  <2>2. Still(c, e)
    BY <1>10, <2>1 DEF Still
  <2>3. ~r.err /\ ~e.completed => e.rx < 2
    BY <1>5, <1>10, <2>1
  <2>4. ToldClient(c, e, p.unit, r.err)
    BY <1>5, <1>10, <2>1, <2>3 DEF ToldClient
  <2> QED
    BY <1>10, <1>15, <2>1, <2>2, <2>4 DEF e
<1> QED
  BY <1>4, <1>11, <1>12, <1>13, <1>14, <1>15

\* The first packet of the handshake gives the client its id.
LEMMA Named ==
    ASSUME NEW c, Conn(c), NEW id, id \in 0..MaxConn,
           c.negotiated \/ c.server => id = c.conn_id,
           ~c.server => id # 0 /\ env.known /\ Answered(id),
           NEW a, a = [[c EXCEPT !.negotiated = TRUE] EXCEPT !.conn_id = id]
    PROVE  Conn(a)
<1> DEFINE n == [c EXCEPT !.negotiated = TRUE]
<1>1. DOMAIN c = Fields /\ c.server \in BOOLEAN
  BY DEF Conn, Progress
<1>2. /\ DOMAIN n = Fields /\ n.server = c.server /\ n.conn_id = c.conn_id
      /\ n.rx = c.rx /\ n.rob = c.rob /\ n.from = c.from
      /\ n.completed = c.completed /\ n.negotiated = TRUE
      /\ n.alert = c.alert /\ n.gone = c.gone /\ n.got = c.got
      /\ n.out = c.out /\ n.tx = c.tx /\ n.early_rtb = c.early_rtb
      /\ n.buffed_rx_ppkts = c.buffed_rx_ppkts
      /\ n.rtb = c.rtb /\ n.app = c.app /\ n.state = c.state
  BY <1>1 DEF Fields
<1>3. a = [n EXCEPT !.conn_id = id]
  OBVIOUS
<1> HIDE DEF n
<1>4. /\ DOMAIN a = Fields /\ a.server = c.server /\ a.conn_id = id
      /\ a.rx = c.rx /\ a.rob = c.rob /\ a.from = c.from
      /\ a.completed = c.completed /\ a.negotiated = TRUE
      /\ a.alert = c.alert /\ a.gone = c.gone /\ a.got = c.got
      /\ a.out = c.out /\ a.tx = c.tx /\ a.early_rtb = c.early_rtb
      /\ a.buffed_rx_ppkts = c.buffed_rx_ppkts
      /\ a.rtb = c.rtb /\ a.app = c.app /\ a.state = c.state
  BY <1>2, <1>3 DEF Fields
<1>5. Progress(a)
  <2>1. a.negotiated \in BOOLEAN
    BY <1>4
  <2>2. Progress(c)
    BY DEF Conn
  <2> QED
    BY <1>4, <2>1, <2>2 DEF Progress
<1>6. Holds(a)
  BY <1>4 DEF Conn, Holds, Failed
<1>7. ASSUME c.server PROVE HandlerProgress(a)
  BY <1>4, <1>7 DEF Conn, HandlerProgress
<1>8. ASSUME ~c.server PROVE ClientProgress(a)
  <2>1. ClientProgress(c)
    BY <1>8 DEF Conn
  <2>2. a.negotiated
    BY <1>4
  <2>3. CASE c.negotiated
    BY <1>4, <1>8, <2>1, <2>2, <2>3 DEF ClientProgress
  <2>4. CASE ~c.negotiated
    <3>1. /\ a.from = {} /\ a.rx = 0 /\ a.rob = {} /\ ~a.completed
          /\ a.out # 2 /\ ~a.alert
      BY <1>4, <2>1, <2>4 DEF ClientProgress
    <3> QED
      BY <1>4, <1>8, <2>2, <3>1 DEF ClientProgress
  <2> QED
    BY <2>3, <2>4
<1> QED
  BY <1>1, <1>4, <1>5, <1>6, <1>7, <1>8 DEF Conn

\* An ACK frame of the handshake.
LEMMA AckTakenTwo ==
    ASSUME NEW c, DOMAIN c = Fields, NEW p \in Packet
    PROVE  Took(c, recv_ack(c, p, TRUE))
<1>1. TRUE \in BOOLEAN
  OBVIOUS
<1> QED
  BY <1>1, AckTaken

(* Connection c may receive a packet of the handshake and waits for one.   *)
Expects(c) == c.state \in {"CLIENT_WAIT_HANDSHAKE", "SERVER_INITIAL", "SERVER_WAIT_HANDSHAKE"}

\* What recv_long changes.
LEMMA LongSteps ==
    ASSUME NEW c, Conn(c), NEW p, Comes(c, p), p.type \in {"INITIAL", "HANDSHAKE"},
           NEW r, r = recv_long(c, p)
    PROVE  \/ r.conn = c /\ ~r.err
           \/ /\ DOMAIN r.conn = Fields
              /\ r.conn.server = c.server /\ r.conn.tx = c.tx
              /\ r.conn.early_rtb = c.early_rtb /\ r.conn.app = c.app
              /\ r.conn.buffed_rx_ppkts = c.buffed_rx_ppkts
              /\ r.conn.recv_protected = c.recv_protected
              /\ r.conn.negotiated
              /\ ~c.server => p.cid # 0 /\ r.conn.conn_id = p.cid
              /\ c.negotiated \/ c.server => r.conn.conn_id = c.conn_id
              /\ r.conn.rtb \subseteq c.rtb /\ \A u \in c.rtb \ r.conn.rtb : u \in p.ack
              /\ \A u : u \in r.conn.got <=> u \in c.got \/ (p.unit # 0 /\ u = p.unit)
              /\ r.conn.state = c.state \/ (p.cc /\ r.conn.state = "DRAINING")
              /\ c.completed => r.conn.completed
              /\ c.alert => r.conn.alert
              /\ IF c.server THEN ToldServer(c, r.conn, p.unit, r.err)
                             ELSE ToldClient(c, r.conn, p.unit, r.err)
<1> DEFINE n == [c EXCEPT !.negotiated = TRUE]
           id == IF c.server THEN c.conn_id ELSE p.cid
           a == [n EXCEPT !.conn_id = id]
           b == recv_ack(a, p, TRUE)
           q == IF p.unit = 0 THEN Result(b, {}, FALSE) ELSE recv_stream0(b, p)
           d == IF p.cc THEN [q.conn EXCEPT !.state = "DRAINING"] ELSE q.conn
           e == sched_ack(d, p)
           stale == p.type = "HANDSHAKE" /\ (IF c.server THEN p.cid # c.conn_id
                                                          ELSE ~NewId(c, p))
           Own(x) == /\ DOMAIN x = Fields /\ x.server = c.server /\ x.tx = c.tx
                     /\ x.early_rtb = c.early_rtb /\ x.app = c.app
                     /\ x.buffed_rx_ppkts = c.buffed_rx_ppkts
                     /\ x.recv_protected = c.recv_protected
           Same(x) == /\ x.rx = c.rx /\ x.rob = c.rob /\ x.out = c.out /\ x.alert = c.alert
                      /\ x.tx_ckm = c.tx_ckm /\ x.params = c.params
                      /\ x.early_ckm = c.early_ckm /\ x.completed = c.completed
<1>1. DOMAIN c = Fields /\ c.server \in BOOLEAN /\ p \in Packet
  BY DEF Conn, Progress, Comes
<1>2. [c EXCEPT !.negotiated = TRUE, !.conn_id = IF c.server THEN @ ELSE p.cid] = a
  OBVIOUS
<1>3. r = IF stale THEN Result(c, {}, FALSE) ELSE Result(e, {}, q.err)
  BY <1>2 DEF recv_long
<1>4. CASE stale
  <2> HIDE DEF stale, e, q
  <2>1. r.conn = c /\ ~r.err
    BY <1>3, <1>4 DEF Result
  <2> QED
    BY <2>1
<1>5. CASE ~stale
  <2>1. ~c.server => /\ env.known /\ p.cid # 0 /\ Answered(p.cid) /\ p.unit # 3
                     /\ p.type = "HANDSHAKE"
                     /\ c.negotiated => p.cid = c.conn_id
    BY <1>5 DEF Comes, NewId
  <2>2. c.server => p.unit # 3 /\ (p.unit = 2 => p.type = "HANDSHAKE" /\ p.cid = c.conn_id)
    BY <1>5 DEF Comes
  <2>3. c.negotiated \/ c.server => id = c.conn_id
    BY <2>1
  <2>4. c.server /\ p.unit = 2 => c.rx > 0
    BY <2>2 DEF Comes
  <2>5. p.unit \in 0..2 /\ p.cc \in BOOLEAN
    BY <1>1, <2>1, <2>2 DEF Packet
  <2> HIDE DEF stale
  <2>6. Conn(b)
    <3>1. Conn(a)
      <4>1. id \in 0..MaxConn /\ (~c.server => id = p.cid)
        BY <1>1 DEF Conn, Progress, Packet
      <4>2. a = [[c EXCEPT !.negotiated = TRUE] EXCEPT !.conn_id = id]
        BY DEF n
      <4> HIDE DEF id, a
      <4> QED
        BY <2>1, <2>3, <4>1, <4>2, Named
    <3>2. DOMAIN a = Fields
      BY <3>1 DEF Conn, Progress
    <3> HIDE DEF a
    <3>3. Took(a, b)
      BY <1>1, <3>2, AckTakenTwo
    <3> HIDE DEF b
    <3> QED
      BY <3>1, <3>3, TookConn
  <2>7. Own(n) /\ Same(n) /\ n.negotiated /\ n.rtb = c.rtb /\ n.got = c.got /\ n.state = c.state
    BY <1>1 DEF Fields
  <2>8. ~c.server => id = p.cid
    OBVIOUS
  <2> HIDE DEF n, id
  <2>9. /\ Own(a) /\ Same(a) /\ a.negotiated /\ a.rtb = c.rtb /\ a.got = c.got
        /\ a.state = c.state /\ a.conn_id = id
    BY <2>7 DEF Fields
  <2> HIDE DEF a
  <2>10. /\ Own(b) /\ Same(b) /\ b.negotiated /\ b.got = c.got /\ b.state = c.state
         /\ b.conn_id = id
         /\ b.rtb \subseteq c.rtb /\ \A u \in c.rtb \ b.rtb : u \in p.ack
    <3> DEFINE R == a.rtb \ (p.ack \cap {1, 2})
    <3>1. b = [a EXCEPT !.rtb = R]
      BY DEF recv_ack
    <3>2. R \subseteq c.rtb /\ \A u \in c.rtb \ R : u \in p.ack
      BY <2>9
    <3> HIDE DEF R, b
    <3> QED
      BY <2>9, <3>1, <3>2 DEF Fields
  <2> HIDE DEF b
  <2>11. /\ Still(b, q.conn)
         /\ b.completed => q.conn.completed
         /\ b.alert => q.conn.alert
         /\ IF c.server THEN ToldServer(b, q.conn, p.unit, q.err)
                        ELSE ToldClient(b, q.conn, p.unit, q.err)
    <3>1. CASE p.unit = 0
      <4>1. q.conn = b /\ ~q.err
        BY <3>1 DEF Result
      <4>2. Still(b, b)
        BY <2>10 DEF Still
      <4>3. ToldServer(b, b, p.unit, q.err)
        BY <4>1 DEF ToldServer
      <4>4. ToldClient(b, b, p.unit, q.err)
        <5>1. \A i \in {1, 2} : i # p.unit
          BY <3>1
        <5> QED
          BY <4>1, <5>1 DEF ToldClient
      <4> HIDE DEF q
      <4> QED
        BY <4>1, <4>2, <4>3, <4>4
    <3>2. CASE p.unit # 0
      <4>1. q = recv_stream0(b, p) /\ p.unit \in 1..2
        BY <2>5, <3>2
      <4>2. b.server /\ p.unit = 2 => b.rx > 0
        BY <2>4, <2>10
      <4> HIDE DEF q
      <4> QED
        BY <2>6, <2>10, <4>1, <4>2, UnitTold
    <3> QED
      BY <3>1, <3>2
  <2> HIDE DEF q
  <2>12. /\ Own(q.conn) /\ q.conn.negotiated /\ q.conn.got = c.got /\ q.conn.state = c.state
         /\ q.conn.conn_id = id
         /\ q.conn.rtb \subseteq c.rtb /\ \A u \in c.rtb \ q.conn.rtb : u \in p.ack
         /\ c.completed => q.conn.completed
         /\ c.alert => q.conn.alert
    BY <2>10, <2>11 DEF Still
  <2>13. IF c.server THEN ToldServer(c, q.conn, p.unit, q.err)
                     ELSE ToldClient(c, q.conn, p.unit, q.err)
    BY <2>10, <2>11 DEF ToldServer, ToldClient
  <2> DEFINE Like(x, y) == /\ y.rx = x.rx /\ y.rob = x.rob /\ y.out = x.out /\ y.alert = x.alert
                           /\ y.tx_ckm = x.tx_ckm /\ y.params = x.params
                           /\ y.early_ckm = x.early_ckm /\ y.completed = x.completed
                           /\ y.conn_id = x.conn_id /\ y.negotiated = x.negotiated
                           /\ y.rtb = x.rtb
  <2>14. /\ Own(d) /\ Like(q.conn, d) /\ d.got = c.got
         /\ d.state = c.state \/ (p.cc /\ d.state = "DRAINING")
    BY <2>12 DEF Fields
  <2> HIDE DEF d
  <2>15. /\ Own(e) /\ Like(d, e) /\ e.state = d.state
         /\ \A u : u \in e.got <=> u \in c.got \/ (p.unit # 0 /\ u = p.unit)
    <3>1. CASE p.unit = 0
      BY <2>14, <3>1 DEF sched_ack
    <3>2. CASE p.unit # 0
      <4> DEFINE G == d.got \cup {p.unit}
                 g == [d EXCEPT !.got = G]
                 h == [g EXCEPT !.active_ack = TRUE]
      <4>1. e = h
        BY <3>2 DEF sched_ack
      <4>2. \A u : u \in G <=> u \in c.got \/ u = p.unit
        BY <2>14
      <4> HIDE DEF G, e
      <4>3. Own(g) /\ Like(d, g) /\ g.state = d.state /\ g.got = G
        BY <2>14 DEF Fields
      <4> HIDE DEF g
      <4>4. Own(h) /\ Like(g, h) /\ h.state = g.state /\ h.got = g.got
        BY <4>3 DEF Fields
      <4> HIDE DEF h
      <4> QED
        BY <3>2, <4>1, <4>2, <4>3, <4>4
    <3> HIDE DEF e
    <3> QED
      BY <3>1, <3>2
  <2> HIDE DEF e
  <2>16. r.conn = e /\ r.err = q.err
    BY <1>3, <1>5 DEF Result
  <2>17. Like(q.conn, e)
    BY <2>14, <2>15
  <2>18. IF c.server THEN ToldServer(c, e, p.unit, q.err)
                     ELSE ToldClient(c, e, p.unit, q.err)
    BY <2>13, <2>17 DEF ToldServer, ToldClient
  <2>19. e.state = c.state \/ (p.cc /\ e.state = "DRAINING")
    BY <2>14, <2>15
  <2>20. ~c.server => p.cid # 0 /\ e.conn_id = p.cid
    BY <2>1, <2>8, <2>12, <2>17
  <2>21. c.negotiated \/ c.server => e.conn_id = c.conn_id
    BY <2>3, <2>12, <2>17
  <2> QED
    BY <2>12, <2>15, <2>16, <2>17, <2>18, <2>19, <2>20, <2>21
<1> QED
  BY <1>4, <1>5

\* A packet of the handshake, before the handshake is over.
LEMMA LongKeeps ==
    ASSUME NEW c, Conn(c), Good(c), Expects(c) \/ Failed(c),
           NEW p, Comes(c, p), Shows(c, p), p.type \in {"INITIAL", "HANDSHAKE"},
           NEW r, r = recv_long(c, p)
    PROVE  /\ Secured(r.conn) /\ Gains(c, r.conn) /\ r.conn.tx = c.tx
           /\ r.conn.state = c.state \/ (p.cc /\ r.conn.state = "DRAINING")
           /\ ~r.err => Calm(r.conn) \/ r.conn.completed
           /\ Failed(c) => Calm(r.conn)
           /\ ~r.err /\ r.conn.state = c.state /\ Expects(c) /\ Insists(c) => Insists(r.conn)
           /\ ~r.err /\ r.conn.state = c.state /\ Runs(c) => Runs(r.conn)
<1> DEFINE d == r.conn
<1>1. Secured(c) /\ Calm(c) /\ Waits(c) /\ c.server \in BOOLEAN
  BY DEF Good, Secured, Conn, Progress
<1>2. CASE d = c /\ ~r.err
  <2>1. c.state = c.state /\ Gains(c, c)
    BY DEF Gains
  <2> QED
    BY <1>1, <1>2, <2>1
<1>3. CASE /\ DOMAIN d = Fields
           /\ d.server = c.server /\ d.tx = c.tx
           /\ d.early_rtb = c.early_rtb /\ d.app = c.app
           /\ d.buffed_rx_ppkts = c.buffed_rx_ppkts
           /\ d.recv_protected = c.recv_protected
           /\ d.negotiated
           /\ ~c.server => p.cid # 0 /\ d.conn_id = p.cid
           /\ c.negotiated \/ c.server => d.conn_id = c.conn_id
           /\ d.rtb \subseteq c.rtb /\ \A u \in c.rtb \ d.rtb : u \in p.ack
           /\ \A u : u \in d.got <=> u \in c.got \/ (p.unit # 0 /\ u = p.unit)
           /\ d.state = c.state \/ (p.cc /\ d.state = "DRAINING")
           /\ c.completed => d.completed
           /\ c.alert => d.alert
           /\ IF c.server THEN ToldServer(c, d, p.unit, r.err)
                          ELSE ToldClient(c, d, p.unit, r.err)
  <2> HIDE DEF d
  <2>1. /\ c.rx \in 0..2 /\ c.tx \in 0..2 /\ c.out \in 0..2
        /\ (c.server /\ c.rx = 0) => c.state \in {"SERVER_INITIAL", "DRAINING"}
        /\ c.server => c.state # "CLIENT_WAIT_HANDSHAKE"
        /\ ~c.server => c.state = "CLIENT_WAIT_HANDSHAKE" \/ Failed(c)
        /\ c.server => c.state \notin {"CLIENT_INITIAL", "CLIENT_WAIT_HANDSHAKE"}
    BY DEF Conn, Progress, Holds, ServerStates, ClientStates, Expects
  <2>2. p.unit # 3 /\ p.unit \in 0..3
    BY DEF Comes, Packet
  <2>3. Gains(c, d)
    <3>1. c.got \subseteq d.got
      BY <1>3
    <3> QED
      BY <1>3, <3>1 DEF Gains
  <2>4. Waits(d)
    <3>1. ASSUME NEW q, Shows(c, q) PROVE Shows(d, q)
      BY <1>3, <3>1 DEF Shows
    <3>2. d.state = "SERVER_INITIAL" => c.state = "SERVER_INITIAL"
      BY <1>3
    <3> QED
      BY <1>1, <1>3, <3>1, <3>2 DEF Waits
  <2>5. c.state \notin {"CLIENT_HANDSHAKE_ALMOST_FINISHED", "POST_HANDSHAKE", "CLOSING"}
    BY DEF Expects, Failed
  <2>6. d.state \notin {"CLIENT_HANDSHAKE_ALMOST_FINISHED", "POST_HANDSHAKE", "CLOSING"}
    BY <1>3, <2>5
  <2>7. Protects(d) => d.completed \/ Early(d)
    <3>1. 3 \in d.rtb => 3 \in c.rtb
      BY <1>3
    <3>2. ~c.server => d.tx_ckm = c.tx_ckm
      BY <1>3 DEF ToldClient
    <3>3. Protects(d) => Protects(c)
      BY <1>3, <2>6, <3>1, <3>2 DEF Protects
    <3> QED
      BY <1>1, <1>3, <3>3 DEF Secured, Early
  <2>8. ~d.server => Finishes(d)
    <3> SUFFICES ASSUME ~c.server PROVE Finishes(d)
      BY <1>3
    <3>1. Finishes(c)
      BY <1>1 DEF Secured
    <3>2. ToldClient(c, d, p.unit, r.err)
      BY <1>3
    <3>3. d.completed => d.out = 2
      BY <2>1, <3>1, <3>2 DEF Finishes, ToldClient
    <3>4. d.tx_ckm => d.completed
      BY <1>3, <3>1, <3>2 DEF Finishes, ToldClient
    <3>5. ~env.early /\ d.recv_protected => d.negotiated /\ Came(d.conn_id, 2)
      BY <1>3, <3>1 DEF Finishes
    <3>6. d.conn_id # 0
      BY <1>3
    <3> QED
      BY <1>3, <2>6, <3>1, <3>3, <3>4, <3>5, <3>6 DEF Finishes
  <2>9. d.early_ckm => env.early
    BY <1>1, <1>3 DEF Secured, ToldServer, ToldClient
  <2>10. ASSUME d.server, NEW u \in 1..2, u <= d.rx PROVE u \in d.got
    <3>1. ToldServer(c, d, p.unit, r.err) /\ c.server
      BY <1>3, <2>10
    <3>2. u <= c.rx \/ (u = p.unit /\ p.unit # 0)
      BY <2>1, <2>10, <3>1 DEF ToldServer
    <3>3. u <= c.rx => u \in c.got
      BY <1>1, <3>1 DEF Secured
    <3> QED
      BY <1>3, <3>2, <3>3
  <2>11. Secured(d)
    BY <2>4, <2>7, <2>8, <2>9, <2>10 DEF Secured
  <2>12. ~r.err => Calm(d) \/ d.completed
    <3> SUFFICES ASSUME ~r.err, ~d.completed, ~d.server PROVE Calm(d)
      BY DEF Calm
    <3>1. ToldClient(c, d, p.unit, r.err)
      BY <1>3
    <3>2. d.out = c.out
      BY <3>1 DEF ToldClient
    <3> QED
      BY <1>1, <1>3, <2>6, <3>2 DEF Calm, Over
  <2>13. Failed(c) => Calm(d)
    BY <1>3 DEF Failed, Calm, Over
  <2>14. ASSUME ~r.err, d.state = c.state, Expects(c), Insists(c) PROVE Insists(d)
    <3> SUFFICES ASSUME ~d.alert PROVE Insists(d)
      BY DEF Insists
    <3>1. ~c.alert /\ Plain(c) /\ c.app \in {"none", "queued", "sent"}
      BY <1>3, <2>14 DEF Insists
    <3>2. Plain(d) /\ d.app \in {"none", "queued", "sent"}
      BY <1>3, <3>1 DEF Plain
    <3>3. CASE c.server
      <4>1. Answers(c) /\ ToldServer(c, d, p.unit, r.err)
        BY <1>3, <2>14, <3>1, <3>3 DEF Insists
      <4>2. d.rx > 0 => d.out = 2 /\ d.tx_ckm /\ d.params
        <5>1. d.rx = 2 /\ d.rx = p.unit /\ p.unit = c.rx + 1 => c.rx > 0
          BY <2>1
        <5> QED
          BY <2>14, <4>1, <5>1 DEF Answers, ToldServer
      <4>3. \A u \in 1..2 : u <= d.tx /\ u \notin d.rtb =>
              Came(client, u) \/ ep[client].completed
        BY <1>3, <3>3, <4>1 DEF Answers, Shows
      <4>4. d.app = "sent" /\ 3 \notin d.rtb => Came(client, 3)
        BY <1>3, <3>3, <4>1 DEF Answers, Shows
      <4>5. 3 \in d.got => d.app # "none"
        BY <1>3, <2>2, <4>1 DEF Answers
      <4>6. d.state # "SERVER_INITIAL" => d.tx = d.out
        <5> SUFFICES ASSUME d.state # "SERVER_INITIAL" PROVE d.tx = d.out
          OBVIOUS
        <5>1. c.rx > 0
          BY <2>1, <2>14, <3>3 DEF Expects
        <5>2. c.tx = c.out /\ c.out = 2
          BY <2>14, <4>1, <5>1 DEF Answers
        <5>3. d.out = 2
          BY <2>14, <4>1, <5>2 DEF ToldServer
        <5> QED
          BY <1>3, <5>2, <5>3
      <4>7. Answers(d)
        BY <1>3, <4>1, <4>2, <4>3, <4>4, <4>5, <4>6 DEF Answers
      <4> QED
        BY <1>3, <3>2, <3>3, <4>7 DEF Insists
    <3>4. CASE ~c.server
      <4>1. Asks(c) /\ ToldClient(c, d, p.unit, r.err)
        BY <1>3, <2>14, <3>1, <3>4 DEF Insists
      <4>2. \A u \in p.ack : Came(d.conn_id, u)
        BY <1>3, <3>4 DEF Shows
      <4>3. d.tx >= 1 /\ 1 \notin d.rtb => d.completed \/ (d.negotiated /\ Came(d.conn_id, 1))
        BY <1>3, <4>1, <4>2 DEF Asks
      <4>4. d.app = "sent" /\ 3 \notin d.rtb \cup d.early_rtb =>
              d.negotiated /\ Came(d.conn_id, 3)
        BY <1>3, <4>1, <4>2 DEF Asks
      <4>5. ~d.completed => /\ d.rx < 2 /\ d.rx + 1 \notin d.rob
                            /\ \A u \in d.got \cap {1, 2} : u <= d.rx \/ u \in d.rob
        <5> SUFFICES ASSUME ~d.completed
                     PROVE  /\ d.rx < 2 /\ d.rx + 1 \notin d.rob
                            /\ \A u \in d.got \cap {1, 2} : u <= d.rx \/ u \in d.rob
          OBVIOUS
        <5>1. /\ c.rx < 2 /\ c.rx + 1 \notin c.rob
              /\ \A u \in c.got \cap {1, 2} : u <= c.rx \/ u \in c.rob
          BY <1>3, <4>1 DEF Asks
        <5>2. /\ d.rx < 2 /\ d.rx + 1 \notin d.rob
              /\ \A i \in {1, 2} : i <= c.rx \/ i \in c.rob \/ i = p.unit =>
                                     i <= d.rx \/ i \in d.rob
          BY <2>14, <4>1, <5>1 DEF ToldClient
        <5>3. \A u \in d.got \cap {1, 2} : u \in c.got \/ u = p.unit
          BY <1>3
        <5> QED
          BY <5>1, <5>2, <5>3
      <4>6. d.tx_ckm = c.tx_ckm
        BY <4>1 DEF ToldClient
      <4>7. Asks(d)
        BY <1>3, <2>14, <4>1, <4>3, <4>4, <4>5, <4>6 DEF Asks
      <4> QED
        BY <1>3, <3>2, <3>4, <4>7 DEF Insists
    <3> QED
      BY <1>1, <3>3, <3>4
  <2>15. ASSUME ~r.err, d.state = c.state, Runs(c) PROVE Runs(d)
    <3>1. d.alert = c.alert
      BY <1>3, <2>15 DEF ToldServer, ToldClient
    <3> QED
      BY <2>15, <3>1 DEF Runs, Failed
  <2> QED
    BY <1>3, <2>3, <2>11, <2>12, <2>13, <2>14, <2>15 DEF d
<1>4. \/ d = c /\ ~r.err
      \/ /\ DOMAIN d = Fields
         /\ d.server = c.server /\ d.tx = c.tx
         /\ d.early_rtb = c.early_rtb /\ d.app = c.app
         /\ d.buffed_rx_ppkts = c.buffed_rx_ppkts
         /\ d.recv_protected = c.recv_protected
         /\ d.negotiated
         /\ ~c.server => p.cid # 0 /\ d.conn_id = p.cid
         /\ c.negotiated \/ c.server => d.conn_id = c.conn_id
         /\ d.rtb \subseteq c.rtb /\ \A u \in c.rtb \ d.rtb : u \in p.ack
         /\ \A u : u \in d.got <=> u \in c.got \/ (p.unit # 0 /\ u = p.unit)
         /\ d.state = c.state \/ (p.cc /\ d.state = "DRAINING")
         /\ c.completed => d.completed
         /\ c.alert => d.alert
         /\ IF c.server THEN ToldServer(c, d, p.unit, r.err)
                        ELSE ToldClient(c, d, p.unit, r.err)
  BY LongSteps
<1> HIDE DEF d
<1> QED
  BY <1>2, <1>3, <1>4

---------------------------------------------------------------------------
(* Nor does ngtcp2_conn_recv.                                              *)

\* A protected packet that waits.
LEMMA BufferKeeps ==
    ASSUME NEW c, Conn(c), Secured(c), NEW p, p.type \in {"SHORT", "0RTT"}, Shows(c, p),
           c.state = "SERVER_INITIAL" => p.type = "0RTT",
           NEW d, d = buffer_protected_pkt(c, p)
    PROVE  /\ Secured(d) /\ (Calm(c) => Calm(d)) /\ Gains(c, d)
           /\ d.state = c.state /\ d.tx = c.tx
           /\ (~p.cc /\ Insists(c)) => Insists(d)
           /\ Runs(c) => Runs(d)
<1>1. DOMAIN c = Fields /\ c.buffed_rx_ppkts \in Seq(Waiting)
  BY DEF Conn, Progress, Holds
<1>2. CASE Len(c.buffed_rx_ppkts) = NGTCP2_MAX_NUM_BUFFED_RX_PPKTS
  <2>1. d = c
    BY <1>2 DEF buffer_protected_pkt
  <2>2. Gains(c, c)
    BY DEF Gains
  <2> QED
    BY <2>1, <2>2
<1>3. CASE Len(c.buffed_rx_ppkts) # NGTCP2_MAX_NUM_BUFFED_RX_PPKTS
  <2> DEFINE q == Append(c.buffed_rx_ppkts, p)
  <2>1. \A i \in DOMAIN q : q[i] = p \/ (i \in DOMAIN c.buffed_rx_ppkts
                                         /\ q[i] = c.buffed_rx_ppkts[i])
    BY <1>1
  <2>2. d = [c EXCEPT !.buffed_rx_ppkts = q]
    BY <1>3 DEF buffer_protected_pkt
  <2> HIDE DEF q
  <2>3. /\ DOMAIN d = Fields /\ d.buffed_rx_ppkts = q
        /\ d.server = c.server /\ d.state = c.state /\ d.conn_id = c.conn_id
        /\ d.completed = c.completed /\ d.negotiated = c.negotiated /\ d.params = c.params
        /\ d.recv_protected = c.recv_protected /\ d.rx = c.rx /\ d.rob = c.rob
        /\ d.out = c.out /\ d.alert = c.alert /\ d.tx = c.tx /\ d.tx_ckm = c.tx_ckm
        /\ d.early_ckm = c.early_ckm /\ d.early_rtb = c.early_rtb /\ d.got = c.got
        /\ d.app = c.app /\ d.rtb = c.rtb
    BY <1>1, <2>2 DEF Fields
  <2>4. ASSUME NEW x, Shows(c, x) PROVE Shows(d, x)
    BY <2>3, <2>4 DEF Shows
  <2>5. Waits(d)
    BY <2>1, <2>3, <2>4 DEF Waits, Secured
  <2>6. Secured(d)
    <3>1. Protects(d) => Protects(c)
      BY <2>3 DEF Protects
    <3>2. Finishes(c) => Finishes(d)
      BY <2>3 DEF Finishes
    <3> QED
      BY <2>3, <2>5, <3>1, <3>2 DEF Secured, Early
  <2>7. Calm(c) => Calm(d)
    BY <2>3 DEF Calm
  <2>8. Gains(c, d)
    BY <2>3 DEF Gains
  <2>9. ASSUME ~p.cc, Plain(c) PROVE Plain(d)
    BY <2>1, <2>3, <2>9 DEF Plain
  <2>10. Answers(c) => Answers(d)
    BY <2>3 DEF Answers
  <2>11. Asks(c) => Asks(d)
    BY <2>3 DEF Asks
  <2>12. (~p.cc /\ Insists(c)) => Insists(d)
    BY <2>3, <2>9, <2>10, <2>11 DEF Insists
  <2>13. Runs(c) => Runs(d)
    BY <2>3 DEF Runs, Failed
  <2> QED
    BY <2>3, <2>6, <2>7, <2>8, <2>12, <2>13
<1> QED
  BY <1>2, <1>3

(* r is what packet p makes of c, before what follows it.                  *)
Advances(c, p, r) ==
    /\ Secured(r.conn) /\ Gains(c, r.conn) /\ r.conn.tx = c.tx
    /\ r.conn.state = c.state \/ (p.cc /\ r.conn.state = "DRAINING")
    /\ ~r.err => Calm(r.conn) \/ r.conn.completed
    /\ Failed(c) => Calm(r.conn)
    /\ (~p.cc /\ ~r.err /\ Insists(c) /\ Runs(c)) => Insists(r.conn) /\ Runs(r.conn)

\* A packet during the handshake, or after it has failed.
LEMMA HandshakePktKeeps ==
    ASSUME NEW c, Conn(c), Good(c), Expects(c) \/ Failed(c),
           NEW p, Comes(c, p), Shows(c, p), p.type # "VN",
           NEW r, r = conn_recv_handshake_pkt(c, p)
    PROVE  Advances(c, p, r)
<1>1. p \in Packet /\ DOMAIN c = Fields /\ c.server \in BOOLEAN /\ Secured(c) /\ Calm(c)
  BY DEF Comes, Conn, Progress, Good
<1>2. Gains(c, c)
  BY DEF Gains
<1> DEFINE b == buffer_protected_pkt(c, p)
<1> HIDE DEF b
<1>3. CASE p.type = "SHORT" \/ (p.type = "0RTT" /\ ~c.early_ckm)
  <2>1. \/ r = Result(c, {}, FALSE)
        \/ r = Result(b, {}, FALSE) /\ (c.state = "SERVER_INITIAL" => p.type = "0RTT")
    BY <1>3 DEF conn_recv_handshake_pkt, b
  <2>2. CASE r = Result(c, {}, FALSE)
    <3>1. r.conn = c /\ r.err = FALSE
      BY <2>2 DEF Result
    <3> QED
      BY <1>1, <1>2, <3>1 DEF Advances
  <2>3. CASE r = Result(b, {}, FALSE) /\ (c.state = "SERVER_INITIAL" => p.type = "0RTT")
    <3>1. r.conn = b /\ r.err = FALSE
      BY <2>3 DEF Result
    <3>2. /\ Secured(b) /\ (Calm(c) => Calm(b)) /\ Gains(c, b)
          /\ b.state = c.state /\ b.tx = c.tx
          /\ (~p.cc /\ Insists(c)) => Insists(b)
          /\ Runs(c) => Runs(b)
      BY <1>1, <1>3, <2>3, BufferKeeps DEF b
    <3> QED
      BY <1>1, <3>1, <3>2 DEF Advances
  <2> QED
    BY <2>1, <2>2, <2>3
<1>4. CASE p.type = "0RTT" /\ c.early_ckm
  <2>1. r = conn_recv_pkt(c, p)
    BY <1>4 DEF conn_recv_handshake_pkt
  <2>2. Early(c) /\ c.server
    BY <1>1, <1>4 DEF Secured, Early, Shows
  <2>3. Heard(c, r.conn) /\ ~r.err /\ (~p.cc => r.conn.state = c.state)
    BY <1>1, <1>4, <2>1, <2>2, ProtectedHeard
  <2>4. /\ Secured(r.conn) /\ (Calm(c) => Calm(r.conn)) /\ Gains(c, r.conn)
        /\ r.conn.state = c.state /\ Insists(c) => Insists(r.conn)
        /\ r.conn.state = c.state /\ Runs(c) => Runs(r.conn)
    BY <1>1, <2>2, <2>3, HeardGood
  <2>5. r.conn.tx = c.tx /\ (r.conn.state = c.state \/ r.conn.state = "DRAINING")
    BY <2>3 DEF Heard, Rest
  <2> QED
    BY <1>1, <2>3, <2>4, <2>5 DEF Advances
<1>5. CASE p.type \in {"INITIAL", "HANDSHAKE"}
  <2>1. r = recv_long(c, p)
    BY <1>5 DEF conn_recv_handshake_pkt
  <2>2. /\ Secured(r.conn) /\ Gains(c, r.conn) /\ r.conn.tx = c.tx
        /\ r.conn.state = c.state \/ (p.cc /\ r.conn.state = "DRAINING")
        /\ ~r.err => Calm(r.conn) \/ r.conn.completed
        /\ Failed(c) => Calm(r.conn)
        /\ ~r.err /\ r.conn.state = c.state /\ Expects(c) /\ Insists(c) => Insists(r.conn)
        /\ ~r.err /\ r.conn.state = c.state /\ Runs(c) => Runs(r.conn)
    BY <1>5, <2>1, LongKeeps
  <2>3. Runs(c) => Expects(c)
    BY DEF Runs
  <2> QED
    BY <2>2, <2>3 DEF Advances
<1>6. p.type \in {"INITIAL", "0RTT", "HANDSHAKE", "SHORT"}
  BY <1>1 DEF Packet
<1> QED
  BY <1>3, <1>4, <1>5, <1>6

(* r is what has become of c in a call of ngtcp2_conn_recv.                *)
Proceeds(c, r) ==
    /\ Good(r.conn) /\ Gains(c, r.conn)
    /\ \A q \in r.out : Sound(r.conn, q) /\ Quiet(r.conn, q)

(* d is client c with its new state, its keys and its request.             *)
Finished(c, d) ==
    /\ DOMAIN d = Fields /\ d.buffed_rx_ppkts = c.buffed_rx_ppkts
    /\ d.server = c.server /\ d.state = "CLIENT_HANDSHAKE_ALMOST_FINISHED"
    /\ d.conn_id = c.conn_id
    /\ d.completed = c.completed /\ d.negotiated = c.negotiated /\ d.params = c.params
    /\ d.recv_protected = c.recv_protected /\ d.rx = c.rx /\ d.rob = c.rob
    /\ d.out = c.out /\ d.alert = c.alert /\ d.tx = c.tx /\ d.tx_ckm
    /\ d.early_ckm = c.early_ckm /\ d.early_rtb = c.early_rtb /\ d.got = c.got
    /\ d.rtb = c.rtb /\ d.app = IF c.app = "none" THEN "queued" ELSE c.app

\* The client's state, keys and request at the end of its handshake.
LEMMA ClientFinishes ==
    ASSUME NEW c, Secured(c), ~c.server, c.completed, c.tx < 2,
           c.state # "CLIENT_INITIAL", NEW d, Finished(c, d)
    PROVE  /\ Good(d) /\ Gains(c, d)
           /\ Insists(c) => Insists(d)
           /\ Runs(c) => Runs(d)
           /\ d.completed
<1>1. d.completed /\ d.tx < 2
  BY DEF Finished
<1>2. ASSUME NEW x, Shows(c, x) PROVE Shows(d, x)
  BY <1>2 DEF Shows, Finished
<1>3. Waits(d)
  BY <1>2 DEF Waits, Secured, Finished
<1>4. Finishes(d)
  <2>1. Finishes(c)
    BY DEF Secured
  <2> QED
    BY <1>1, <2>1 DEF Finishes, Finished
<1>5. Secured(d)
  BY <1>1, <1>3, <1>4 DEF Secured, Finished
<1>6. Calm(d)
  BY DEF Finished, Calm
<1>7. Gains(c, d)
  BY DEF Finished, Gains
<1>8. Insists(c) => Insists(d)
  <2> SUFFICES ASSUME Insists(c), ~d.alert PROVE Insists(d)
    BY DEF Insists
  <2>1. Asks(c) /\ Plain(c) /\ c.app \in {"none", "queued", "sent"}
    BY DEF Finished, Insists
  <2>2. /\ d.app \in {"none", "queued", "sent"} /\ d.app # "none"
        /\ d.app = "sent" => c.app = "sent"
    BY <2>1 DEF Finished
  <2>3. Plain(d)
    BY <2>1 DEF Plain, Finished
  <2>4. Asks(d)
    <3>1. d.tx >= 1
      BY <2>1 DEF Asks, Finished
    <3> QED
      BY <1>1, <2>1, <2>2, <3>1 DEF Asks, Finished
  <2> QED
    BY <2>2, <2>3, <2>4 DEF Insists, Finished
<1>9. Runs(c) => Runs(d)
  BY DEF Finished, Runs, Failed
<1> QED
  BY <1>1, <1>5, <1>6, <1>7, <1>8, <1>9 DEF Good

\* The end of the handshake.
LEMMA CompletedKeeps ==
    ASSUME NEW c, Conn(c), Secured(c), c.completed, c.state # "CLIENT_INITIAL",
           ~c.server => c.tx < 2, NEW ack, NEW s, s = handshake_completed(c, ack)
    PROVE  /\ Proceeds(c, s)
           /\ Insists(c) /\ Runs(c) => ~s.err /\ Insists(s.conn) /\ Runs(s.conn)
<1>1. Progress(c) /\ DOMAIN c = Fields /\ c.server \in BOOLEAN /\ c.rx \in 0..2
  BY DEF Conn, Progress
<1>2. CASE c.server
  <2> DEFINE o == on_write(c, {}, FALSE, ack)
             k == [o.conn EXCEPT !.state = "POST_HANDSHAKE"]
             t == process_buffered(k)
  <2>1. s = IF k.params THEN After(o, t) ELSE Result(k, o.out, TRUE)
    BY <1>2 DEF handshake_completed, server_completed
  <2> HIDE DEF o
  <2>2. Good(c)
    BY <1>2 DEF Good, Calm
  <2>3. Wrote(c, o) /\ Wrought(c, o) /\ (c.state = "SERVER_INITIAL" => o.conn.tx = c.out)
    <3>1. {} \subseteq c.rtb /\ FALSE \in BOOLEAN
      OBVIOUS
    <3>2. Wrote(c, o)
      BY <3>1, OnWrite DEF o
    <3>3. Written(c, o)
      BY <2>2, <3>1, OnWrites DEF o
    <3> QED
      BY <3>2, <3>3 DEF Written
  <2>4. Conn(o.conn) /\ Good(o.conn) /\ o.conn.server /\ o.conn.completed /\ o.conn.rx = 2
        /\ DOMAIN o.conn = Fields
    <3>1. Conn(o.conn) /\ Fixed(c, o.conn) /\ Good(o.conn)
      BY <2>3 DEF Wrote, Wrought, Writes
    <3>2. c.rx = 2
      BY <1>2 DEF Conn, HandlerProgress
    <3> QED
      BY <1>2, <3>1, <3>2 DEF Fixed
  <2>5. Conn(k)
    <3>1. "POST_HANDSHAKE" \in ServerStates
      BY DEF ServerStates
    <3> QED
      BY <2>4, <3>1, StateChanged
  <2>6. /\ DOMAIN k = Fields /\ k.buffed_rx_ppkts = o.conn.buffed_rx_ppkts
        /\ k.server = o.conn.server /\ k.state = "POST_HANDSHAKE"
        /\ k.conn_id = o.conn.conn_id
        /\ k.completed = o.conn.completed /\ k.negotiated = o.conn.negotiated
        /\ k.params = o.conn.params
        /\ k.recv_protected = o.conn.recv_protected /\ k.rx = o.conn.rx
        /\ k.out = o.conn.out /\ k.alert = o.conn.alert /\ k.tx = o.conn.tx
        /\ k.tx_ckm = o.conn.tx_ckm
        /\ k.early_ckm = o.conn.early_ckm /\ k.got = o.conn.got
        /\ k.app = o.conn.app /\ k.rtb = o.conn.rtb
    BY <2>4 DEF Fields
  <2> HIDE DEF k
  <2>7. ASSUME NEW x, Shows(o.conn, x) PROVE Shows(k, x)
    BY <2>6, <2>7 DEF Shows
  <2>8. Waits(k)
    BY <2>4, <2>6, <2>7 DEF Waits, Secured, Good
  <2>9. Good(k) /\ k.completed
    <3>1. k.completed /\ k.server
      BY <2>4, <2>6
    <3>2. \A u \in 1..2 : u <= k.rx => u \in k.got
      BY <2>4, <2>6 DEF Secured, Good
    <3>3. k.early_ckm => env.early
      BY <2>4, <2>6 DEF Secured, Good
    <3>4. Secured(k)
      BY <2>8, <3>1, <3>2, <3>3 DEF Secured
    <3>5. Calm(k)
      BY <3>1 DEF Calm
    <3> QED
      BY <3>1, <3>4, <3>5 DEF Good
  <2>10. Gains(c, k)
    BY <2>3, <2>6 DEF Wrought, Fixed, Gains
  <2>11. ASSUME Insists(c), Runs(c) PROVE Insists(k) /\ Runs(k) /\ k.params
    <3>1. Insists(o.conn) /\ Runs(o.conn) /\ o.conn.tx = o.conn.out
      <4>1. Insists(o.conn) /\ Runs(o.conn)
        BY <2>3, <2>11 DEF Wrought, Writes
      <4>2. Answers(c)
        BY <1>2, <2>11 DEF Insists, Runs
      <4>3. c.state # "SERVER_INITIAL" => o.conn.tx = c.out
        BY <1>2, <2>3, <4>2 DEF Answers, Wrought
      <4> QED
        BY <1>2, <2>3, <4>1, <4>3 DEF Wrought
    <3>2. ~o.conn.alert /\ Answers(o.conn) /\ Plain(o.conn)
          /\ o.conn.app \in {"none", "queued", "sent"}
      BY <2>4, <3>1 DEF Insists, Runs
    <3>3. Answers(k)
      BY <2>6, <3>1, <3>2 DEF Answers
    <3>4. Plain(k)
      BY <2>6, <3>2 DEF Plain
    <3>5. Runs(k)
      BY <2>6, <3>2 DEF Runs, Failed
    <3>6. k.params
      BY <2>4, <2>6, <3>3 DEF Answers
    <3> QED
      BY <2>4, <2>6, <3>2, <3>3, <3>4, <3>5, <3>6 DEF Insists
  <2>12. /\ Keeps(k, t.conn) /\ t.out = {} /\ t.err = FALSE
         /\ Plain(k) => t.conn.state = k.state
    BY <2>5, <2>9, BufferedKeeps DEF Good
  <2> HIDE DEF t
  <2>13. Good(t.conn) /\ Gains(k, t.conn)
    BY <2>9, <2>12 DEF Keeps, Good
  <2>14. Gains(c, t.conn)
    BY <2>10, <2>13 DEF Gains
  <2>15. \A q \in o.out : Sound(o.conn, q) /\ Quiet(o.conn, q)
    BY <2>3 DEF Wrought, Writes
  <2>16. Gains(o.conn, k)
    BY <2>6 DEF Gains
  <2>17. \A q \in o.out : Sound(k, q) /\ Quiet(k, q)
    BY <2>15, <2>16, StillSound DEF Gains
  <2>18. \A q \in o.out : Sound(t.conn, q) /\ Quiet(t.conn, q)
    BY <2>13, <2>17, StillSound DEF Gains
  <2>19. CASE k.params
    <3>1. s.conn = t.conn /\ s.out = o.out /\ s.err = FALSE
      BY <2>1, <2>12, <2>19 DEF After, Result
    <3>2. Insists(c) /\ Runs(c) => Insists(t.conn) /\ Runs(t.conn)
      <4> SUFFICES ASSUME Insists(c), Runs(c) PROVE Insists(t.conn) /\ Runs(t.conn)
        OBVIOUS
      <4>1. Insists(k) /\ Runs(k) /\ Plain(k)
        BY <2>11 DEF Insists, Runs
      <4> QED
        BY <2>12, <4>1 DEF Keeps
    <3> QED
      BY <2>13, <2>14, <2>18, <3>1, <3>2 DEF Proceeds
  <2>20. CASE ~k.params
    <3>1. s.conn = k /\ s.out = o.out
      BY <2>1, <2>20 DEF Result
    <3> QED
      BY <2>9, <2>10, <2>11, <2>17, <2>20, <3>1 DEF Proceeds
  <2> QED
    BY <2>19, <2>20
<1>3. CASE ~c.server
  <2> DEFINE st == "CLIENT_HANDSHAKE_ALMOST_FINISHED"
             k == [c EXCEPT !.state = st]
             f == [k EXCEPT !.tx_ckm = TRUE]
             v == IF f.app = "none" THEN "queued" ELSE f.app
             d == [f EXCEPT !.app = v]
  <2>1. [c EXCEPT !.state = st, !.tx_ckm = TRUE,
                  !.app = IF @ = "none" THEN "queued" ELSE @] = d
    <3>1. f.app = c.app
      BY <1>1 DEF Fields
    <3> QED
      BY <3>1
  <2>2. s = process_buffered(d)
    BY <1>3, <2>1 DEF handshake_completed
  <2>3. Conn(k) /\ k.state = st /\ DOMAIN k = Fields
    <3>1. st \in ClientStates /\ st # "CLIENT_INITIAL"
          /\ st \notin {"CLIENT_TLS_HANDSHAKE_FAILED", "SERVER_TLS_HANDSHAKE_FAILED"}
      BY DEF ClientStates
    <3>2. Conn(k) /\ k.state = st
      BY <1>3, <3>1, StateChanged
    <3> QED
      BY <1>1, <3>2 DEF Fields
  <2>4. Finished(c, d)
    <3>1. k = [c EXCEPT !.state = st]
      OBVIOUS
    <3> HIDE DEF k
    <3>2. f = [k EXCEPT !.tx_ckm = TRUE]
      OBVIOUS
    <3> HIDE DEF f
    <3>3. v = IF f.app = "none" THEN "queued" ELSE f.app
      OBVIOUS
    <3> HIDE DEF v
    <3>4. d = [f EXCEPT !.app = v]
      OBVIOUS
    <3> HIDE DEF d
    <3>5. /\ DOMAIN k = Fields /\ k.buffed_rx_ppkts = c.buffed_rx_ppkts
          /\ k.server = c.server /\ k.state = st /\ k.conn_id = c.conn_id
          /\ k.completed = c.completed /\ k.negotiated = c.negotiated /\ k.params = c.params
          /\ k.recv_protected = c.recv_protected /\ k.rx = c.rx /\ k.rob = c.rob
          /\ k.out = c.out /\ k.alert = c.alert /\ k.tx = c.tx
          /\ k.early_ckm = c.early_ckm /\ k.early_rtb = c.early_rtb /\ k.got = c.got
          /\ k.app = c.app /\ k.rtb = c.rtb
      BY ONLY <1>1, <3>1 DEF Fields
    <3>6. /\ DOMAIN f = Fields /\ f.buffed_rx_ppkts = k.buffed_rx_ppkts
          /\ f.server = k.server /\ f.state = k.state /\ f.conn_id = k.conn_id
          /\ f.completed = k.completed /\ f.negotiated = k.negotiated /\ f.params = k.params
          /\ f.recv_protected = k.recv_protected /\ f.rx = k.rx /\ f.rob = k.rob
          /\ f.out = k.out /\ f.alert = k.alert /\ f.tx = k.tx /\ f.tx_ckm = TRUE
          /\ f.early_ckm = k.early_ckm /\ f.early_rtb = k.early_rtb /\ f.got = k.got
          /\ f.app = k.app /\ f.rtb = k.rtb
      BY ONLY <3>2, <3>5 DEF Fields
    <3>7. /\ DOMAIN d = Fields /\ d.buffed_rx_ppkts = f.buffed_rx_ppkts
          /\ d.server = f.server /\ d.state = f.state /\ d.conn_id = f.conn_id
          /\ d.completed = f.completed /\ d.negotiated = f.negotiated /\ d.params = f.params
          /\ d.recv_protected = f.recv_protected /\ d.rx = f.rx /\ d.rob = f.rob
          /\ d.out = f.out /\ d.alert = f.alert /\ d.tx = f.tx /\ d.tx_ckm = f.tx_ckm
          /\ d.early_ckm = f.early_ckm /\ d.early_rtb = f.early_rtb /\ d.got = f.got
          /\ d.app = v /\ d.rtb = f.rtb
      BY ONLY <3>4, <3>6 DEF Fields
    <3> QED
      BY ONLY <3>3, <3>5, <3>6, <3>7, st = "CLIENT_HANDSHAKE_ALMOST_FINISHED" DEF Finished
  <2>5. /\ Good(d) /\ Gains(c, d) /\ d.completed
        /\ Insists(c) => Insists(d)
        /\ Runs(c) => Runs(d)
    <3> HIDE DEF d
    <3> QED
      BY <1>3, <2>4, ClientFinishes
  <2> HIDE DEF k
  <2>6. Took(k, f) /\ DOMAIN f = Fields
    BY <2>3 DEF Took, Fields
  <2>7. f.app = "none" \/ v = f.app
    OBVIOUS
  <2> HIDE DEF f, v
  <2>8. Took(f, d)
    BY <2>6, <2>7 DEF Took, Fields
  <2> HIDE DEF d
  <2>9. Conn(d)
    BY <2>3, <2>6, <2>8, TookAgain, TookConn
  <2>10. /\ Keeps(d, s.conn) /\ s.out = {} /\ s.err = FALSE
         /\ Plain(d) => s.conn.state = d.state
    <3>1. s = process_buffered(d) /\ Conn(d) /\ Secured(d) /\ (d.completed \/ Early(d))
      BY <2>2, <2>5, <2>9 DEF Good
    <3> QED
      BY ONLY <3>1, BufferedKeeps
  <2>11. Good(s.conn) /\ Gains(c, s.conn)
    BY ONLY <2>5, <2>10 DEF Keeps, Good, Gains
  <2>12. Insists(c) /\ Runs(c) => Insists(s.conn) /\ Runs(s.conn)
    <3> SUFFICES ASSUME Insists(c), Runs(c) PROVE Insists(s.conn) /\ Runs(s.conn)
      OBVIOUS
    <3>1. Insists(d) /\ Runs(d) /\ Plain(d)
      BY <2>5 DEF Insists, Runs
    <3> QED
      BY ONLY <2>10, <3>1 DEF Keeps
  <2> QED
    BY ONLY <2>10, <2>11, <2>12 DEF Proceeds
<1> QED
  BY <1>1, <1>2, <1>3

\* A failure of TLS.
LEMMA FailureKeeps ==
    ASSUME NEW c, DOMAIN c = Fields, Secured(c),
           NEW st, st \in {"SERVER_TLS_HANDSHAKE_FAILED", "CLIENT_TLS_HANDSHAKE_FAILED"},
           NEW d, d = [c EXCEPT !.state = st]
    PROVE  Good(d) /\ Gains(c, d)
<1>1. /\ DOMAIN d = Fields /\ d.buffed_rx_ppkts = c.buffed_rx_ppkts
      /\ d.server = c.server /\ d.state = st /\ d.conn_id = c.conn_id
      /\ d.completed = c.completed /\ d.negotiated = c.negotiated
      /\ d.recv_protected = c.recv_protected /\ d.rx = c.rx
      /\ d.out = c.out /\ d.alert = c.alert /\ d.tx = c.tx /\ d.tx_ckm = c.tx_ckm
      /\ d.early_ckm = c.early_ckm /\ d.got = c.got
      /\ d.app = c.app /\ d.rtb = c.rtb
  BY DEF Fields
<1>2. d.state \notin {"SERVER_INITIAL", "CLIENT_INITIAL", "CLIENT_WAIT_HANDSHAKE",
                      "CLIENT_HANDSHAKE_ALMOST_FINISHED", "POST_HANDSHAKE", "CLOSING"}
  BY <1>1
<1>3. ASSUME NEW x, Shows(c, x) PROVE Shows(d, x)
  BY <1>1, <1>3 DEF Shows
<1>4. Waits(d)
  BY <1>1, <1>2, <1>3 DEF Waits, Secured
<1>5. Finishes(c) => Finishes(d)
  BY <1>1, <1>2 DEF Finishes
<1>6. Protects(d) => Protects(c)
  BY <1>1, <1>2 DEF Protects
<1>7. Secured(d)
  BY <1>1, <1>4, <1>5, <1>6 DEF Secured, Early
<1>8. Calm(d)
  BY <1>2 DEF Calm, Over
<1> QED
  BY <1>1, <1>7, <1>8 DEF Good, Gains

\* What follows a packet of the handshake.
LEMMA ReceivedKeeps ==
    ASSUME NEW c, Conn(c), Good(c), Expects(c), NEW p,
           NEW r, Conn(r.conn), Advances(c, p, r), r.out = {}, r.err \in BOOLEAN,
           NEW ack, NEW s, s = handshake_received(r, ack)
    PROVE  /\ Proceeds(c, s)
           /\ (~p.cc /\ Insists(c) /\ Runs(c)) =>
                ~s.err /\ (Failed(s.conn) \/ (Insists(s.conn) /\ Runs(s.conn)))
<1>1. /\ Secured(r.conn) /\ Gains(c, r.conn) /\ r.conn.tx = c.tx
      /\ r.conn.state = c.state \/ r.conn.state = "DRAINING"
      /\ ~r.err => Calm(r.conn) \/ r.conn.completed
      /\ (~p.cc /\ ~r.err /\ Insists(c) /\ Runs(c)) => Insists(r.conn) /\ Runs(r.conn)
  BY DEF Advances
<1>2. DOMAIN r.conn = Fields /\ r.conn.server \in BOOLEAN /\ r.conn.state # "CLIENT_INITIAL"
  BY <1>1 DEF Conn, Progress, Expects
<1>3. CASE r.err
  <2> DEFINE st == IF r.conn.server THEN "SERVER_TLS_HANDSHAKE_FAILED"
                   ELSE "CLIENT_TLS_HANDSHAKE_FAILED"
             d == [r.conn EXCEPT !.state = st]
  <2>1. s = Result(d, {}, FALSE)
    BY <1>3 DEF handshake_received
  <2>2. st \in {"SERVER_TLS_HANDSHAKE_FAILED", "CLIENT_TLS_HANDSHAKE_FAILED"}
    OBVIOUS
  <2> HIDE DEF st
  <2>3. Good(d) /\ Gains(r.conn, d)
    BY <1>1, <1>2, <2>2, FailureKeeps
  <2>4. Failed(d)
    BY <1>2, <2>2 DEF Failed, Fields
  <2> HIDE DEF d
  <2>5. s.conn = d /\ s.out = {} /\ s.err = FALSE
    BY <2>1 DEF Result
  <2>6. Gains(c, d)
    BY <1>1, <2>3 DEF Gains
  <2> QED
    BY <2>3, <2>4, <2>5, <2>6 DEF Proceeds
<1>4. CASE ~r.err /\ r.conn.state = "SERVER_INITIAL" /\ r.conn.negotiated
  <2>1. s = process_buffered(r.conn)
    BY <1>4 DEF handshake_received
  <2>2. r.conn.server
    BY <1>2, <1>4 DEF Conn, Holds, ClientStates
  <2>3. r.conn.buffed_rx_ppkts # << >> => r.conn.completed \/ Early(r.conn)
    <3> SUFFICES ASSUME r.conn.buffed_rx_ppkts # << >> PROVE Early(r.conn)
      OBVIOUS
    <3>1. r.conn.buffed_rx_ppkts \in Seq(Waiting)
      BY DEF Conn, Holds
    <3>2. 1 \in DOMAIN r.conn.buffed_rx_ppkts
      BY <3>1
    <3>3. Waits(r.conn)
      BY <1>1 DEF Secured
    <3>4. env.early
      BY <1>4, <3>2, <3>3 DEF Waits, Shows
    <3> QED
      BY <2>2, <3>4 DEF Early
  <2>4. /\ Keeps(r.conn, s.conn) /\ s.out = {} /\ s.err = FALSE
        /\ Plain(r.conn) => s.conn.state = r.conn.state
    <3>1. Secured(r.conn)
      BY <1>1
    <3> QED
      BY ONLY Conn(r.conn), <2>1, <2>3, <3>1, BufferedKeeps
  <2>5. Calm(r.conn)
    BY <2>2 DEF Calm
  <2>6. Good(s.conn) /\ Gains(c, s.conn)
    BY <1>1, <2>4, <2>5 DEF Keeps, Good, Gains
  <2>7. (~p.cc /\ Insists(c) /\ Runs(c)) => Insists(s.conn) /\ Runs(s.conn)
    <3> SUFFICES ASSUME ~p.cc, Insists(c), Runs(c) PROVE Insists(s.conn) /\ Runs(s.conn)
      OBVIOUS
    <3>1. Insists(r.conn) /\ Runs(r.conn) /\ Plain(r.conn)
      BY <1>1, <1>4 DEF Insists, Runs
    <3> QED
      BY <2>4, <3>1 DEF Keeps
  <2> QED
    BY <2>4, <2>6, <2>7 DEF Proceeds
<1>5. CASE ~r.err /\ ~(r.conn.state = "SERVER_INITIAL" /\ r.conn.negotiated)
           /\ r.conn.completed
  <2>1. s = handshake_completed(r.conn, ack)
    BY <1>5 DEF handshake_received
  <2>2. ~r.conn.server => r.conn.tx < 2
    <3> SUFFICES ASSUME ~r.conn.server PROVE c.tx < 2
      BY <1>1
    <3>1. ~c.server
      BY <1>1 DEF Gains
    <3>2. c.state = "CLIENT_WAIT_HANDSHAKE"
      BY <3>1 DEF Conn, Holds, ClientStates, Expects
    <3> QED
      BY <3>1, <3>2 DEF Good, Secured, Finishes
  <2>3. /\ Proceeds(r.conn, s)
        /\ Insists(r.conn) /\ Runs(r.conn) => ~s.err /\ Insists(s.conn) /\ Runs(s.conn)
    BY <1>1, <1>2, <1>5, <2>1, <2>2, CompletedKeeps
  <2>4. Proceeds(c, s)
    BY <1>1, <2>3 DEF Proceeds, Gains
  <2> QED
    BY <1>1, <1>5, <2>3, <2>4
<1>6. CASE ~r.err /\ ~(r.conn.state = "SERVER_INITIAL" /\ r.conn.negotiated)
           /\ ~r.conn.completed
  <2>1. s = r
    BY <1>6 DEF handshake_received
  <2>2. Good(r.conn)
    BY <1>1, <1>6 DEF Good
  <2> QED
    BY <1>1, <1>6, <2>1, <2>2 DEF Proceeds
<1> QED
  BY <1>3, <1>4, <1>5, <1>6

\* ngtcp2_conn_recv, for whatever comes.
LEMMA RecvKeeps ==
    ASSUME NEW c, Conn(c), Good(c), NEW p, Comes(c, p), Shows(c, p), NEW ack,
           NEW s, s = conn_recv(c, p, ack)
    PROVE  /\ Proceeds(c, s)
           /\ (~p.cc /\ Insists(c) /\ Runs(c)) =>
                \/ s.err /\ ~c.server
                \/ ~s.err /\ (Failed(s.conn) \/ (Insists(s.conn) /\ Runs(s.conn)))
<1>1. /\ DOMAIN c = Fields /\ p \in Packet /\ c.server \in BOOLEAN
      /\ Secured(c) /\ Calm(c) /\ Gains(c, c)
  BY DEF Conn, Progress, Comes, Good, Gains
<1>2. CASE Expects(c) /\ p.type = "VN"
  <2>1. s = Result(c, {}, TRUE)
    BY <1>2 DEF conn_recv, Expects, Failed
  <2>2. s.conn = c /\ s.out = {} /\ s.err = TRUE
    BY <2>1 DEF Result
  <2>3. ~c.server
    BY <1>2 DEF Comes
  <2> QED
    BY <1>1, <2>2, <2>3 DEF Proceeds
<1>3. CASE Expects(c) /\ p.type # "VN"
  <2> DEFINE r == conn_recv_handshake_pkt(c, p)
  <2>1. s = handshake_received(r, ack)
    BY <1>3 DEF conn_recv, Expects, Failed
  <2> HIDE DEF r
  <2>2. c.state # "CLIENT_INITIAL"
    BY <1>3 DEF Expects
  <2>3. Conn(r.conn) /\ r.out = {} /\ r.err \in BOOLEAN
    BY <1>3, <2>2, HandshakePktTaken DEF r
  <2>4. Advances(c, p, r)
    BY <1>3, HandshakePktKeeps DEF r
  <2> QED
    BY <1>3, <2>1, <2>3, <2>4, ReceivedKeeps
<1>4. CASE Failed(c)
  <2>1. s = conn_recv_handshake_pkt(c, p)
    BY <1>4 DEF conn_recv, Failed
  <2>2. c.state # "CLIENT_INITIAL" /\ c.rx > 0
    BY <1>1, <1>4 DEF Failed, Conn, Holds
  <2>3. p.type # "VN"
    BY <1>1, <2>2 DEF Comes, Conn, ClientProgress
  <2>4. s.out = {}
    BY <2>1, <2>2, <2>3, HandshakePktTaken
  <2>5. Advances(c, p, s)
    BY <1>4, <2>1, <2>3, HandshakePktKeeps
  <2>6. ~Runs(c)
    BY <1>4 DEF Runs
  <2> QED
    BY <1>4, <2>4, <2>5, <2>6 DEF Advances, Proceeds, Good
<1>5. CASE c.state \in Over
  <2>1. s = conn_recv_pkt(c, p)
    BY <1>5 DEF conn_recv, Over, Failed
  <2>2. c.completed \/ Early(c)
    BY <1>1, <1>5 DEF Secured, Protects, Over
  <2>3. ~c.server => c.completed /\ c.negotiated /\ env.known
    BY <1>1, <2>2 DEF Early, Secured, Finishes, Conn, ClientProgress
  <2>4. p.type # "VN"
    BY <1>1, <2>3 DEF Comes
  <2>5. /\ Heard(c, s.conn) /\ s.out = {}
        /\ ~p.cc => ~s.err /\ s.conn.state = c.state
    <3>1. CASE p.type \in {"SHORT", "0RTT"}
      BY <1>1, <2>1, <2>3, <3>1, ProtectedHeard
    <3>2. CASE p.type \in {"INITIAL", "HANDSHAKE"}
      <4>1. s = recv_delayed_handshake(c, p)
        BY <2>1, <3>2 DEF conn_recv_pkt
      <4>2. p.unit # 3 /\ (c.server \/ p.type = "HANDSHAKE")
        BY <1>1, <3>2, <2>4 DEF Comes
      <4> QED
        BY <1>1, <2>3, <3>2, <4>1, <4>2, DelayedHeard
    <3>3. p.type \in {"INITIAL", "0RTT", "HANDSHAKE", "SHORT"}
      BY <1>1, <2>4 DEF Packet
    <3> QED
      BY <3>1, <3>2, <3>3
  <2>6. /\ Secured(s.conn) /\ (Calm(c) => Calm(s.conn)) /\ Gains(c, s.conn)
        /\ s.conn.state = c.state /\ Insists(c) => Insists(s.conn)
        /\ s.conn.state = c.state /\ Runs(c) => Runs(s.conn)
    BY <1>1, <2>2, <2>5, HeardGood
  <2> QED
    BY <1>1, <2>5, <2>6 DEF Proceeds, Good
<1>6. CASE ~Expects(c) /\ ~Failed(c) /\ c.state \notin Over
  <2>1. s = Result(c, {}, FALSE)
    BY <1>6 DEF conn_recv, Over, Expects
  <2>2. s.conn = c /\ s.out = {} /\ s.err = FALSE
    BY <2>1 DEF Result
  <2> QED
    BY <1>1, <2>2 DEF Proceeds
<1> QED
  BY <1>2, <1>3, <1>4, <1>5, <1>6

---------------------------------------------------------------------------
(* Nor do the turns of the server and of the client.                       *)

\* The same connection, for what Good and Insists are about.
LEMMA AlikeGood ==
    ASSUME NEW c, Good(c), NEW d, Alike(c, d), d.rtb = c.rtb
    PROVE  /\ Good(d) /\ (Insists(c) => Insists(d)) /\ Gains(c, d)
           /\ (Runs(c) => Runs(d)) /\ (Failed(c) => Failed(d))
<1>1. Good(d) /\ (Insists(c) => Insists(d))
  BY LetGo
<1>2. Gains(c, d)
  BY DEF Alike, Gains
<1>3. (Runs(c) => Runs(d)) /\ (Failed(c) => Failed(d))
  BY DEF Alike, Runs, Failed
<1> QED
  BY <1>1, <1>2, <1>3

\* A field that neither is about.
LEMMA OtherField ==
    ASSUME NEW c, DOMAIN c = Fields, NEW f, f \in {"timer", "migrated", "draining"}, NEW v
    PROVE  Alike(c, [c EXCEPT ![f] = v]) /\ [c EXCEPT ![f] = v].rtb = c.rtb
BY DEF Alike, Fields

(* r is the result of a turn of handler c.                                 *)
Serves(c, r) ==
    /\ Good(r.conn) /\ Gains(c, r.conn)
    /\ \A q \in r.out : Sound(r.conn, q)

(* A turn that ends nothing, or is the end.                                *)
Untroubled(r) ==
    \/ r.err
    \/ Insists(r.conn) /\ Settled(r.conn) /\ \A q \in r.out : ~q.alert /\ ~q.cc

\* on_write of either side, when no deadline has passed.
LEMMA WriteServes ==
    ASSUME NEW c, Conn(c), Good(c), NEW due, due \subseteq c.rtb, NEW dead, ~dead,
           NEW ack, NEW o, o = on_write(c, due, dead, ack)
    PROVE  /\ Serves(c, o) /\ Conn(o.conn)
           /\ Failed(c) \/ (Insists(c) /\ Runs(c)) => Untroubled(o)
<1>1. Written(c, o)
  BY OnWrites
<1>2. Wrote(c, o)
  <2>1. dead \in BOOLEAN \/ dead \notin BOOLEAN
    OBVIOUS
  <2>2. PICK b \in BOOLEAN : b = FALSE
    OBVIOUS
  <2>3. on_write(c, due, dead, ack) = on_write(c, due, b, ack)
    BY <2>2 DEF on_write
  <2> QED
    BY <2>3, OnWrite
<1>3. Good(o.conn) /\ Gains(c, o.conn) /\ Conn(o.conn) /\ o.conn.server = c.server
  BY <1>1, <1>2 DEF Written, Wrought, Writes, Fixed, Gains, Wrote
<1>4. \A q \in o.out : Sound(o.conn, q) /\ Quiet(o.conn, q)
  BY <1>1 DEF Written, Wrought, Writes
<1>5. ASSUME Failed(c) \/ (Insists(c) /\ Runs(c)), ~o.err
      PROVE  Insists(o.conn) /\ Settled(o.conn) /\ \A q \in o.out : ~q.alert /\ ~q.cc
  <2>1. Insists(c) /\ Runs(c)
    BY <1>1, <1>5 DEF Written
  <2>2. Insists(o.conn) /\ Runs(o.conn)
    BY <1>1, <2>1 DEF Written, Wrought, Writes
  <2>3. ~o.conn.gone
    BY <1>3 DEF Conn, Progress
  <2>4. o.conn.tx_ckm => o.conn.app # "queued"
    BY <1>1, <1>5, <2>1 DEF Written, Runs
  <2>5. o.conn.state # "SERVER_INITIAL"
    BY <1>1, <1>5 DEF Written, Wrought
  <2>6. ~o.conn.alert
    BY <2>2 DEF Runs
  <2> QED
    BY <1>4, <2>2, <2>3, <2>4, <2>5, <2>6 DEF Settled, Quiet
<1> QED
  BY <1>3, <1>4, <1>5 DEF Serves, Untroubled

\* Handler::on_write, and CONNECTION_CLOSE if it fails.
LEMMA HandlerWrites ==
    ASSUME NEW c, Conn(c), Good(c), c.server, NEW due, due \subseteq c.rtb,
           NEW dead \in BOOLEAN, NEW ack, NEW r, r = handler_write(c, due, dead, ack)
    PROVE  /\ Serves(c, r)
           /\ (~dead /\ (Failed(c) \/ (Insists(c) /\ Runs(c)))) => Untroubled(r)
           /\ (~dead /\ c.state = "SERVER_INITIAL" /\ c.rx = 0 /\ due = {}) =>
                r.err /\ r.out = {}
<1> DEFINE o == on_write(c, due, dead, ack)
           e == handle_error(o.conn)
<1>1. r = IF o.err THEN After(o, e) ELSE o
  BY DEF handler_write, Closed
<1>2. CASE ~dead
  <2> HIDE DEF o
  <2>1. /\ Serves(c, o) /\ Conn(o.conn)
        /\ Failed(c) \/ (Insists(c) /\ Runs(c)) => Untroubled(o)
    BY <1>2, WriteServes DEF o
  <2>2. Written(c, o)
        /\ (c.state = "SERVER_INITIAL" /\ o.err /\ due = {} => o.out = {})
    BY <1>2, OnWrites DEF o
  <2>3. CASE o.err
    <3>1. o.conn.state \notin {"POST_HANDSHAKE", "CLOSING"}
      BY <2>2, <2>3 DEF Written
    <3>2. e = Result(o.conn, {}, TRUE)
      BY <3>1 DEF handle_error
    <3>3. r = After(o, e)
      BY <1>1, <2>3
    <3> HIDE DEF e
    <3>4. r.conn = o.conn /\ r.out = o.out /\ r.err
      BY <3>2, <3>3 DEF After, Result
    <3> QED
      BY <2>1, <2>2, <2>3, <3>4 DEF Serves, Untroubled
  <2>4. CASE ~o.err
    <3>1. r = o
      BY <1>1, <2>4
    <3>2. ~(c.state = "SERVER_INITIAL" /\ c.rx = 0)
      <4>1. c.state = "SERVER_INITIAL" => o.conn.state = "SERVER_WAIT_HANDSHAKE"
        BY <2>2, <2>4 DEF Written
      <4>2. o.conn.rx = c.rx /\ o.conn.server
        BY <2>2 DEF Written, Wrought, Fixed
      <4> QED
        BY <2>1, <4>1, <4>2 DEF Conn, Holds
    <3> QED
      BY <2>1, <3>1, <3>2
  <2> QED
    BY <2>3, <2>4
<1>3. CASE dead /\ c.state = "CLOSING"
  <2>1. o = Result(c, {}, FALSE)
    BY <1>3 DEF on_write
  <2> HIDE DEF o
  <2>2. o.conn = c /\ o.out = {} /\ ~o.err
    BY <2>1 DEF Result
  <2>3. r = o
    BY <1>1, <2>2
  <2>4. Gains(c, c)
    BY DEF Gains
  <2> QED
    BY <1>3, <2>2, <2>3, <2>4 DEF Serves
<1>4. CASE dead /\ c.state # "CLOSING"
  <2> DEFINE R == c.rtb \ due
             x == [c EXCEPT !.rtb = R]
  <2>1. o = Result(x, {}, TRUE)
    BY <1>4 DEF on_write
  <2> HIDE DEF o, R
  <2>2. DOMAIN c = Fields /\ R \subseteq c.rtb
    BY DEF Conn, Progress, R
  <2>3. Alike(c, x) /\ x.rtb = R
    BY <2>2 DEF Alike, Fields
  <2> HIDE DEF x
  <2>4. o.conn = x /\ o.out = {} /\ o.err
    BY <2>1 DEF Result
  <2>5. Good(e.conn) /\ Gains(c, e.conn) /\ \A q \in e.out : Sound(e.conn, q)
    BY <2>2, <2>3, <2>4, ErrorCloses
  <2>6. r = After(o, e)
    BY <1>1, <2>4
  <2> HIDE DEF e
  <2>7. r.conn = e.conn /\ r.out = e.out
    BY <2>4, <2>6 DEF After, Result
  <2> QED
    BY <1>4, <2>5, <2>7 DEF Serves
<1> QED
  BY <1>2, <1>3, <1>4

\* What was sent before goes with it.
LEMMA ServesAfter ==
    ASSUME NEW c, NEW s, Proceeds(c, s), NEW t, Serves(s.conn, t), NEW r, r = After(s, t)
    PROVE  Serves(c, r)
<1>1. r.conn = t.conn /\ r.out = s.out \cup t.out
  BY DEF After, Result
<1>2. Gains(c, t.conn)
  BY DEF Proceeds, Serves, Gains
<1>3. \A q \in s.out : Sound(t.conn, q)
  BY StillSound DEF Proceeds, Serves, Gains
<1> QED
  BY <1>1, <1>2, <1>3 DEF Serves

\* An untroubled turn after packets that are no alert.
LEMMA UntroubledAfter ==
    ASSUME NEW s, \A q \in s.out : Quiet(s.conn, q), NEW t, Untroubled(t),
           Gains(s.conn, t.conn), NEW r, r = After(s, t)
    PROVE  Untroubled(r)
<1>1. r.conn = t.conn /\ r.out = s.out \cup t.out /\ r.err = t.err
  BY DEF After, Result
<1>2. ASSUME ~t.err PROVE \A q \in s.out : ~q.alert /\ ~q.cc
  BY <1>2 DEF Untroubled, Settled, Runs, Gains, Quiet
<1> QED
  BY <1>1, <1>2 DEF Untroubled

\* Handler::on_read.
LEMMA HandlerReads ==
    ASSUME NEW c, Conn(c), Tidy(c), Good(c), c.server, NEW p, Comes(c, p), Shows(c, p),
           NEW ack, NEW r, r = handler_read(c, p, ack)
    PROVE  /\ Serves(c, r)
           /\ (~p.cc /\ Insists(c) /\ Runs(c)) => Untroubled(r)
<1> DEFINE s == conn_recv(c, p, ack)
           e == handle_error(s.conn)
           w == handler_write(s.conn, {}, FALSE, ack)
           d == [s.conn EXCEPT !.draining = TRUE]
<1>1. r = IF s.err THEN After(s, e)
          ELSE IF s.conn.state = "DRAINING" THEN [s EXCEPT !.conn.draining = TRUE]
          ELSE After(s, w)
  BY DEF handler_read, write_after_feed, Closed
<1> HIDE DEF s
<1>2. Read(c, s)
  BY Received DEF s
<1>3. /\ Proceeds(c, s)
      /\ (~p.cc /\ Insists(c) /\ Runs(c)) =>
           ~s.err /\ (Failed(s.conn) \/ (Insists(s.conn) /\ Runs(s.conn)))
  BY RecvKeeps DEF s
<1>4. /\ Conn(s.conn) /\ DOMAIN s.conn = Fields /\ DOMAIN s = Shape
      /\ Good(s.conn) /\ s.conn.server
  BY <1>2, <1>3 DEF Read, Conn, Progress, Proceeds, Gains
<1>5. CASE s.err
  <2>1. Alike(s.conn, s.conn)
    BY <1>4 DEF Alike
  <2>2. Good(e.conn) /\ Gains(s.conn, e.conn) /\ \A q \in e.out : Sound(e.conn, q)
    BY <1>4, <2>1, ErrorCloses
  <2> HIDE DEF e
  <2>3. Serves(s.conn, e)
    BY <2>2 DEF Serves
  <2>4. r = After(s, e)
    BY <1>1, <1>5
  <2>5. Serves(c, r)
    BY <1>3, <2>3, <2>4, ServesAfter
  <2> QED
    BY <1>3, <1>5, <2>5
<1>6. CASE ~s.err /\ s.conn.state = "DRAINING"
  <2>1. Alike(s.conn, d) /\ d.rtb = s.conn.rtb
    BY <1>4, OtherField
  <2>2. r = [s EXCEPT !.conn = d]
    BY <1>1, <1>6
  <2> HIDE DEF d
  <2>3. r.conn = d /\ r.out = s.out
    BY <1>4, <2>2 DEF Shape
  <2>4. Good(d) /\ Gains(s.conn, d)
    BY <1>4, <2>1, AlikeGood
  <2>5. \A q \in s.out : Sound(d, q)
    BY <1>3, <2>4, StillSound DEF Proceeds, Gains
  <2>6. Gains(c, d)
    BY <1>3, <2>4 DEF Proceeds, Gains
  <2>7. ~Failed(s.conn) /\ ~Runs(s.conn)
    BY <1>6 DEF Failed, Runs
  <2> QED
    BY <1>3, <2>3, <2>4, <2>5, <2>6, <2>7 DEF Serves
<1>7. CASE ~s.err /\ s.conn.state # "DRAINING"
  <2>1. {} \subseteq s.conn.rtb
    OBVIOUS
  <2> PICK dead \in BOOLEAN : dead = FALSE
    OBVIOUS
  <2>2. w = handler_write(s.conn, {}, dead, ack)
    OBVIOUS
  <2> HIDE DEF w
  <2>3. /\ Serves(s.conn, w)
        /\ (~dead /\ (Failed(s.conn) \/ (Insists(s.conn) /\ Runs(s.conn)))) => Untroubled(w)
    BY <1>4, <2>1, <2>2, HandlerWrites
  <2>4. r = After(s, w)
    BY <1>1, <1>7
  <2>5. Serves(c, r)
    BY <1>3, <2>3, <2>4, ServesAfter
  <2>6. ASSUME Untroubled(w) PROVE Untroubled(r)
    <3>1. \A q \in s.out : Quiet(s.conn, q)
      BY <1>3 DEF Proceeds
    <3>2. Gains(s.conn, w.conn)
      BY <2>3 DEF Serves
    <3> QED
      BY <2>4, <2>6, <3>1, <3>2, UntroubledAfter
  <2> QED
    BY <1>3, <2>3, <2>5, <2>6
<1> QED
  BY <1>5, <1>6, <1>7

\* A handler that a 0-RTT packet would begin has nothing to answer.
LEMMA FirstEarly ==
    ASSUME NEW h \in Handlers, env.known, NEW c, c = conn_new(h), Good(c),
           NEW p, Comes(c, p), Shows(c, p), p.type = "0RTT",
           NEW ack, NEW r, r = handler_read(c, p, ack)
    PROVE  r.err /\ r.out = {}
<1> DEFINE b == buffer_protected_pkt(c, p)
           s == conn_recv(c, p, ack)
           w == handler_write(s.conn, {}, FALSE, ack)
<1>1. /\ Conn(c) /\ Tidy(c) /\ c.server /\ c.rx = 0 /\ DOMAIN c = Fields
  BY NewConn DEF Conn, Progress
<1>2. c.state = "SERVER_INITIAL" /\ ~c.early_ckm /\ ~c.negotiated /\ ~c.completed
  BY DEF conn_new, client, Handlers
<1>3. p \in Waiting
  BY DEF Comes, Waiting
<1>4. Conn(b) /\ b.state = "SERVER_INITIAL"
  BY <1>1, <1>2, <1>3, Buffered
<1>5. Secured(b) /\ (Calm(c) => Calm(b)) /\ Gains(c, b)
  BY <1>1, BufferKeeps DEF Good
<1>6. ~b.negotiated /\ ~b.completed /\ b.rx = 0
  BY <1>1, <1>2 DEF buffer_protected_pkt, Fields
<1> HIDE DEF b
<1>7. s = Result(b, {}, FALSE)
  <2>1. conn_recv_handshake_pkt(c, p) = Result(b, {}, FALSE)
    BY <1>2 DEF conn_recv_handshake_pkt, b
  <2>2. s = handshake_received(Result(b, {}, FALSE), ack)
    BY <1>2, <2>1 DEF conn_recv, Failed
  <2> HIDE DEF s
  <2>3. Result(b, {}, FALSE).conn = b /\ Result(b, {}, FALSE).err = FALSE
    BY DEF Result
  <2> QED
    BY <1>6, <2>2, <2>3 DEF handshake_received
<1>8. r = IF s.err THEN Closed(s)
          ELSE IF s.conn.state = "DRAINING" THEN [s EXCEPT !.conn.draining = TRUE]
          ELSE After(s, w)
  BY DEF handler_read, write_after_feed
<1> HIDE DEF s
<1>9. s.conn = b /\ s.out = {} /\ s.err = FALSE
  BY <1>7 DEF Result
<1>10. r = After(s, w)
  BY <1>4, <1>8, <1>9
<1> PICK dead \in BOOLEAN : dead = FALSE
  OBVIOUS
<1>11. w = handler_write(b, {}, dead, ack)
  BY <1>9
<1> HIDE DEF w
<1>12. Good(b) /\ b.server /\ {} \subseteq b.rtb
  BY <1>1, <1>5 DEF Good, Gains
<1>13. w.err /\ w.out = {}
  BY <1>4, <1>6, <1>11, <1>12, HandlerWrites
<1> QED
  BY <1>9, <1>10, <1>13 DEF After, Result

(* What the other end may take from packet q of d, and of one that is no   *)
(* more.                                                                   *)
Sends(d, q) ==
    /\ q.type = "SHORT" => d.completed \/ Early(d)
    /\ q.type = "0RTT" => env.early
    /\ d.gone \/ q.ack \subseteq d.got

(* r is the result of a turn of the client's connection c.                 *)
Turns(c, r) ==
    /\ r.conn.server = c.server
    /\ r.conn.gone \/ (Good(r.conn) /\ c.got \subseteq r.conn.got)
    /\ c.completed => r.conn.completed
    /\ r.conn.gone => r.conn.state # "POST_HANDSHAKE"
    /\ \A q \in r.out : Sends(r.conn, q)

\* What was sent before goes with it.
LEMMA TurnsAfter ==
    ASSUME NEW c, NEW s, ~c.server, Gains(c, s.conn), \A q \in s.out : Sound(s.conn, q),
           NEW t, Turns(s.conn, t), NEW r, r = After(s, t)
    PROVE  Turns(c, r)
<1>1. r.conn = t.conn /\ r.out = s.out \cup t.out
  BY DEF After, Result
<1>2. ~s.conn.server /\ ~t.conn.server
  BY DEF Turns, Gains
<1>3. \A q \in s.out : Sends(t.conn, q)
  BY <1>2 DEF Turns, Sound, Sends, Early
<1> QED
  BY <1>1, <1>2, <1>3 DEF Turns, Gains

\* A turn that has not disconnected.
LEMMA TurnsOn ==
    ASSUME NEW c, NEW r, Good(r.conn), Gains(c, r.conn), ~r.conn.gone,
           \A q \in r.out : Sound(r.conn, q)
    PROVE  Turns(c, r)
BY DEF Turns, Gains, Sound, Sends

\* Client::disconnect; x is c, or c without what it has given up.
LEMMA ClientCloses ==
    ASSUME NEW c, Conn(c), Good(c), ~c.server, NEW x, Alike(c, x), x.rtb \subseteq c.rtb,
           NEW r, r = disconnect(x)
    PROVE  Turns(c, r) /\ r.err
<1> DEFINE e == handle_error(x)
<1>1. /\ Good(e.conn) /\ Gains(c, e.conn) /\ \A q \in e.out : Sound(e.conn, q)
      /\ e.conn.state # "POST_HANDSHAKE"
  BY ErrorCloses
<1>2. /\ DOMAIN x = Fields /\ ~x.server /\ x.completed = c.completed
  BY DEF Alike
<1>3. DOMAIN e.conn = Fields /\ e.conn.server = x.server /\ e.conn.completed = x.completed
  <2>1. e.conn = x \/ e.conn = [x EXCEPT !.state = "CLOSING"]
    BY DEF handle_error, Result
  <2> QED
    BY <1>2, <2>1 DEF Fields
<1>4. r = Result(IF x.migrated THEN [e.conn EXCEPT !.timer = FALSE]
                 ELSE [conn_new(client) EXCEPT
                         !.timer = FALSE, !.gone = TRUE, !.state = e.conn.state,
                         !.completed = x.completed, !.conn_id = x.conn_id,
                         !.from = x.from],
                 e.out, TRUE)
  BY DEF disconnect
<1> HIDE DEF e
<1>5. r.out = e.out /\ r.err
  BY <1>4 DEF Result
<1>6. CASE x.migrated
  <2> DEFINE d == [e.conn EXCEPT !.timer = FALSE]
  <2>1. r.conn = d
    BY <1>4, <1>6 DEF Result
  <2>2. Alike(e.conn, d) /\ d.rtb = e.conn.rtb
    BY <1>3 DEF Alike, Fields
  <2> HIDE DEF d
  <2>3. Good(d) /\ Gains(e.conn, d) /\ d.state = e.conn.state
    BY <1>1, <2>2, AlikeGood DEF Alike
  <2>4. Gains(c, d)
    BY <1>1, <2>3 DEF Gains
  <2>5. \A q \in e.out : Sound(d, q)
    BY <1>1, <2>3, StillSound DEF Gains
  <2> QED
    BY <1>1, <1>5, <2>1, <2>3, <2>4, <2>5 DEF Turns, Gains, Sound, Sends
<1>7. CASE ~x.migrated
  <2> DEFINE n == conn_new(client)
             f == [n EXCEPT !.timer = FALSE]
             g == [f EXCEPT !.gone = TRUE]
             h == [g EXCEPT !.state = e.conn.state]
             i == [h EXCEPT !.completed = x.completed]
             j == [i EXCEPT !.conn_id = x.conn_id]
             d == [j EXCEPT !.from = x.from]
  <2>1. r.conn = d
    BY <1>4, <1>7 DEF Result
  <2>2. DOMAIN n = Fields /\ n.server = FALSE
    BY DEF conn_new, Fields, client
  <2> HIDE DEF n
  <2>3. DOMAIN f = Fields /\ f.server = FALSE
    BY <2>2 DEF Fields
  <2> HIDE DEF f
  <2>4. DOMAIN g = Fields /\ g.server = FALSE /\ g.gone
    BY <2>3 DEF Fields
  <2> HIDE DEF g
  <2>5. DOMAIN h = Fields /\ h.server = FALSE /\ h.gone /\ h.state = e.conn.state
    BY <2>4 DEF Fields
  <2> HIDE DEF h
  <2>6. DOMAIN i = Fields /\ i.server = FALSE /\ i.gone /\ i.state = e.conn.state
        /\ i.completed = x.completed
    BY <2>5 DEF Fields
  <2> HIDE DEF i
  <2>7. DOMAIN j = Fields /\ j.server = FALSE /\ j.gone /\ j.state = e.conn.state
        /\ j.completed = x.completed
    BY <2>6 DEF Fields
  <2> HIDE DEF j
  <2>8. d.server = FALSE /\ d.gone /\ d.state = e.conn.state /\ d.completed = x.completed
    BY <2>7 DEF Fields
  <2> HIDE DEF d
  <2>9. d.server = c.server
    <3>1. c.server \in BOOLEAN
      BY DEF Conn, Progress
    <3> QED
      BY <2>8, <3>1
  <2>10. \A q \in e.out : Sends(d, q)
    BY <1>1, <1>2, <1>3, <2>8 DEF Sends, Sound, Early
  <2> QED
    BY <1>1, <1>2, <1>5, <2>1, <2>8, <2>9, <2>10 DEF Turns
<1> QED
  BY <1>6, <1>7

\* Client::on_write, and disconnect if it fails.
LEMMA ClientWrites ==
    ASSUME NEW c, Conn(c), Good(c), ~c.server, NEW due, due \subseteq c.rtb,
           NEW dead \in BOOLEAN, NEW ack, NEW r, r = client_write(c, due, dead, ack)
    PROVE  /\ Turns(c, r)
           /\ (~dead /\ (Failed(c) \/ (Insists(c) /\ Runs(c)))) => Untroubled(r)
           /\ (~dead /\ Failed(c)) => r.err
<1> DEFINE o == on_write(c, due, dead, ack)
           e == disconnect(o.conn)
<1>1. r = IF o.err THEN After(o, e) ELSE o
  BY DEF client_write, disconnect_failed
<1>2. CASE ~dead
  <2> HIDE DEF o
  <2>1. /\ Serves(c, o) /\ Conn(o.conn)
        /\ Failed(c) \/ (Insists(c) /\ Runs(c)) => Untroubled(o)
    BY <1>2, WriteServes DEF o
  <2>5. Failed(c) => o.err
    BY <1>2, OnWrites DEF o, Written
  <2>2. Good(o.conn) /\ Gains(c, o.conn) /\ ~o.conn.server /\ ~o.conn.gone
        /\ DOMAIN o.conn = Fields /\ \A q \in o.out : Sound(o.conn, q)
    BY <2>1 DEF Serves, Gains, Conn, Progress
  <2>3. CASE o.err
    <3>1. Alike(o.conn, o.conn)
      BY <2>2 DEF Alike
    <3>2. Turns(o.conn, e) /\ e.err
      BY <2>1, <2>2, <3>1, ClientCloses
    <3>3. r = After(o, e)
      BY <1>1, <2>3
    <3> HIDE DEF e
    <3>4. Turns(c, r)
      BY <2>2, <3>2, <3>3, TurnsAfter
    <3>5. r.err
      BY <3>2, <3>3 DEF After, Result
    <3> QED
      BY <3>4, <3>5 DEF Untroubled
  <2>4. CASE ~o.err
    <3>1. r = o
      BY <1>1, <2>4
    <3>2. Turns(c, r)
      BY <2>2, <3>1, TurnsOn
    <3> QED
      BY <2>1, <2>4, <2>5, <3>1, <3>2
  <2> QED
    BY <2>3, <2>4
<1>3. CASE dead
  <2> DEFINE R == c.rtb \ due
             x == [c EXCEPT !.rtb = R]
  <2>1. o = Result(x, {}, TRUE)
    BY <1>3 DEF on_write
  <2> HIDE DEF o, R
  <2>2. DOMAIN c = Fields /\ R \subseteq c.rtb
    BY DEF Conn, Progress, R
  <2>3. Alike(c, x) /\ x.rtb = R
    BY <2>2 DEF Alike, Fields
  <2> HIDE DEF x
  <2>4. o.conn = x /\ o.out = {} /\ o.err
    BY <2>1 DEF Result
  <2>5. Turns(c, e)
    BY <2>2, <2>3, <2>4, ClientCloses
  <2>6. r = After(o, e)
    BY <1>1, <2>4
  <2> HIDE DEF e
  <2>7. r.conn = e.conn /\ r.out = e.out
    BY <2>4, <2>6 DEF After, Result
  <2> QED
    BY <1>3, <2>5, <2>7 DEF Turns
<1> QED
  BY <1>2, <1>3

\* Client::on_read.
LEMMA ClientReads ==
    ASSUME NEW c, Conn(c), Tidy(c), Good(c), ~c.server, NEW p, Comes(c, p), Shows(c, p),
           NEW ack, NEW r, r = client_read(c, p, ack)
    PROVE  /\ Turns(c, r)
           /\ (~p.cc /\ Insists(c) /\ Runs(c)) => Untroubled(r)
<1> DEFINE s == conn_recv(c, p, ack)
           e == disconnect(s.conn)
           k == [s.conn EXCEPT !.timer = TRUE]
           w == client_write(k, {}, FALSE, ack)
<1>1. r = IF s.err \/ s.conn.state = "DRAINING" THEN After(s, e) ELSE After(s, w)
  BY DEF client_read, write_after_read
<1> HIDE DEF s
<1>2. Read(c, s)
  BY Received DEF s
<1>3. /\ Proceeds(c, s)
      /\ (~p.cc /\ Insists(c) /\ Runs(c)) =>
           s.err \/ Failed(s.conn) \/ (Insists(s.conn) /\ Runs(s.conn))
  BY RecvKeeps DEF s
<1>4. /\ Conn(s.conn) /\ DOMAIN s.conn = Fields /\ Good(s.conn) /\ Gains(c, s.conn)
      /\ ~s.conn.server /\ \A q \in s.out : Sound(s.conn, q)
  BY <1>2, <1>3 DEF Read, Conn, Progress, Proceeds, Gains
<1>5. CASE s.err \/ s.conn.state = "DRAINING"
  <2>1. Alike(s.conn, s.conn)
    BY <1>4 DEF Alike
  <2>2. Turns(s.conn, e) /\ e.err
    BY <1>4, <2>1, ClientCloses
  <2>3. r = After(s, e)
    BY <1>1, <1>5
  <2> HIDE DEF e
  <2>4. Turns(c, r)
    BY <1>4, <2>2, <2>3, TurnsAfter
  <2>5. r.err
    BY <2>2, <2>3 DEF After, Result
  <2> QED
    BY <2>4, <2>5 DEF Untroubled
<1>6. CASE ~(s.err \/ s.conn.state = "DRAINING")
  <2>1. Took(s.conn, k)
    BY <1>4 DEF Took, Fields
  <2>2. Conn(k)
    BY <1>4, <2>1, TookConn
  <2>3. Alike(s.conn, k) /\ k.rtb = s.conn.rtb
    BY <1>4 DEF Alike, Fields
  <2> HIDE DEF k
  <2>4. /\ Good(k) /\ (Insists(s.conn) => Insists(k)) /\ Gains(s.conn, k)
        /\ (Runs(s.conn) => Runs(k)) /\ (Failed(s.conn) => Failed(k))
    BY <1>4, <2>3, AlikeGood
  <2>5. ~k.server /\ {} \subseteq k.rtb
    BY <1>4, <2>4 DEF Gains
  <2> PICK dead \in BOOLEAN : dead = FALSE
    OBVIOUS
  <2>6. w = client_write(k, {}, dead, ack)
    OBVIOUS
  <2> HIDE DEF w
  <2>7. /\ Turns(k, w)
        /\ (~dead /\ (Failed(k) \/ (Insists(k) /\ Runs(k)))) => Untroubled(w)
        /\ (~dead /\ Failed(k)) => w.err
    BY <2>2, <2>4, <2>5, <2>6, ClientWrites
  <2>8. Turns(s.conn, w)
    BY <2>4, <2>7 DEF Turns, Gains
  <2>9. r = After(s, w)
    BY <1>1, <1>6
  <2>10. Turns(c, r)
    BY <1>4, <2>8, <2>9, TurnsAfter
  <2>11. ASSUME Failed(s.conn) \/ (Insists(s.conn) /\ Runs(s.conn))
         PROVE  Untroubled(r)
    <3>1. r.conn = w.conn /\ r.out = s.out \cup w.out /\ r.err = w.err
      BY <2>9 DEF After, Result
    <3>2. CASE Failed(s.conn)
      BY <2>4, <2>7, <3>1, <3>2 DEF Untroubled
    <3>3. CASE Insists(s.conn) /\ Runs(s.conn)
      <4>1. Untroubled(w)
        BY <2>4, <2>7, <3>3
      <4>2. \A q \in s.out : ~q.alert /\ ~q.cc
        BY <1>3, <3>3 DEF Proceeds, Quiet, Runs
      <4> QED
        BY <3>1, <4>1, <4>2 DEF Untroubled
    <3> QED
      BY <2>11, <3>2, <3>3
  <2> QED
    BY <1>3, <1>6, <2>10, <2>11
<1> QED
  BY <1>5, <1>6

---------------------------------------------------------------------------
(* Nor do the steps.                                                       *)

(* What has come to either end is not taken back.                          *)
Onward ==
    /\ env' = env
    /\ ep[client].completed => ep'[client].completed
    /\ \A e \in 0..MaxConn : \A u : Came(e, u) => Came(e, u)'

\* What a packet shows stays shown.
LEMMA ShowsCarried ==
    ASSUME Onward, NEW c, c.conn_id \in 0..MaxConn, NEW p \in Packet, Shows(c, p)
    PROVE  Shows(c, p)'
<1>1. client \in 0..MaxConn /\ p.cid \in 0..MaxConn
  BY HandshakeAssumption DEF client, Packet
<1>2. \A u : /\ Came(client, u) => Came(client, u)'
             /\ Came(p.cid, u) => Came(p.cid, u)'
             /\ Came(c.conn_id, u) => Came(c.conn_id, u)'
  BY <1>1 DEF Onward
<1>3. env' = env /\ (ep[client].completed => ep'[client].completed)
  BY DEF Onward
<1> QED
  BY <1>2, <1>3 DEF Shows

\* Nor does a connection that does not move become worse.
LEMMA GoodCarried ==
    ASSUME Onward, NEW c, Conn(c), Good(c)
    PROVE  Good(c)' /\ (Insists(c) => Insists(c)')
<1>1. c.conn_id \in 0..MaxConn /\ client \in 0..MaxConn
  BY HandshakeAssumption DEF Conn, Progress, client
<1>2. env' = env /\ (ep[client].completed => ep'[client].completed)
  BY DEF Onward
<1>3. \A u : /\ Came(client, u) => Came(client, u)'
             /\ Came(c.conn_id, u) => Came(c.conn_id, u)'
  BY <1>1 DEF Onward
<1>4. Waits(c)'
  <2>1. c.buffed_rx_ppkts \in Seq(Waiting) /\ Waits(c)
    BY DEF Conn, Holds, Good, Secured
  <2>2. ASSUME NEW i \in DOMAIN c.buffed_rx_ppkts
        PROVE  /\ Shows(c, c.buffed_rx_ppkts[i])'
               /\ c.state = "SERVER_INITIAL" => c.buffed_rx_ppkts[i].type = "0RTT"
    <3>1. c.buffed_rx_ppkts[i] \in Packet
      BY <2>1, ElementOfSeq DEF Waiting
    <3>2. PICK p : p = c.buffed_rx_ppkts[i]
      OBVIOUS
    <3>3. Shows(c, p)'
      BY <1>1, <2>1, <3>1, <3>2, ShowsCarried DEF Waits
    <3> QED
      BY <2>1, <3>2, <3>3 DEF Waits
  <2> QED
    BY <2>2 DEF Waits
<1>5. Finishes(c) => Finishes(c)'
  BY <1>2, <1>3 DEF Finishes
<1>6. Good(c)'
  BY <1>2, <1>4, <1>5 DEF Good, Secured, Calm, Protects, Early
<1>7. Answers(c) => Answers(c)'
  BY <1>2, <1>3 DEF Answers
<1>8. Asks(c) => Asks(c)'
  BY <1>3 DEF Asks
<1> QED
  BY <1>6, <1>7, <1>8 DEF Insists, Plain

\* Packets in the net go on to show what they showed.
LEMMA NetCarried ==
    ASSUME Onward, Inv, NetShows, NEW p \in net,
           ep[client].completed => ep'[client].conn_id = ep[client].conn_id
    PROVE  /\ p.type = "0RTT" => env'.early
           /\ p.to = "server" => /\ p.type = "SHORT" => ep'[client].completed
                                 /\ \A u \in p.ack : Came(client, u)'
           /\ p.to = "client" => /\ p.type = "SHORT" /\ ~env'.early =>
                                      /\ ep'[client].completed
                                      /\ ep'[client].conn_id = p.cid /\ Came(p.cid, 2)'
                                 /\ \A u \in p.ack : Came(p.cid, u)'
<1>1. client \in 0..MaxConn /\ p.cid \in 0..MaxConn
  BY HandshakeAssumption DEF client, Packet, Inv, NetOk
<1>2. \A u : /\ Came(client, u) => Came(client, u)'
             /\ Came(p.cid, u) => Came(p.cid, u)'
  BY <1>1 DEF Onward
<1>3. env' = env /\ (ep[client].completed => ep'[client].completed)
  BY DEF Onward
<1> QED
  BY <1>2, <1>3 DEF NetShows

\* What comes to a handler shows what its client has got.
LEMMA ShownToHandler ==
    ASSUME NetShows, NEW p \in net, p.to = "server", NEW c, c.server
    PROVE  Shows(c, p)
BY DEF NetShows, Shows

\* And to the client.
LEMMA ShownToClient ==
    ASSUME Inv, NetShows, NEW p \in net, p.to = "client", NEW c, c = ep[client],
           Conn(c), ~c.server
    PROVE  Shows(c, p)
<1>1. p.type # "0RTT"
  BY DEF Inv, NetOk, FromHandler
<1>2. c.completed => c.negotiated
  BY DEF Conn, ClientProgress
<1> QED
  BY <1>1, <1>2 DEF NetShows, Shows

\* A connection that no packet has reached.
LEMMA NewGood ==
    ASSUME NEW e, NEW c, c = conn_new(e)
    PROVE  Good(c) /\ Insists(c) /\ Runs(c)
<1>1. /\ c.server = (e # client) /\ c.completed = FALSE /\ c.negotiated = FALSE
      /\ c.params = FALSE /\ c.recv_protected = FALSE
      /\ c.rx = 0 /\ c.rob = {} /\ c.out = 0 /\ c.alert = FALSE /\ c.tx = 0
      /\ c.tx_ckm = FALSE /\ c.early_ckm = FALSE /\ c.rtb = {} /\ c.early_rtb = {}
      /\ c.got = {} /\ c.buffed_rx_ppkts = <<>> /\ c.app = "none"
      /\ c.state = IF e = client THEN "CLIENT_INITIAL" ELSE "SERVER_INITIAL"
  BY DEF conn_new
<1>2. Waits(c) /\ Plain(c)
  BY <1>1 DEF Waits, Plain
<1>3. Secured(c)
  BY <1>1, <1>2 DEF Secured, Protects, Finishes
<1>4. Calm(c)
  BY <1>1 DEF Calm, Over
<1>5. Insists(c)
  <2>1. c.server => Answers(c)
    BY <1>1 DEF Answers
  <2>2. ~c.server => Asks(c)
    <3>1. \A u \in c.got \cap {1, 2} : u <= c.rx \/ u \in c.rob
      BY <1>1
    <3>2. c.rx < 2 /\ c.rx + 1 \notin c.rob /\ ~(c.tx >= 1)
      BY <1>1
    <3>3. e = client => c.state = "CLIENT_INITIAL"
      BY <1>1
    <3> QED
      BY <1>1, <3>1, <3>2, <3>3 DEF Asks
  <2>3. c.app \in {"none", "queued", "sent"}
    BY <1>1
  <2> QED
    BY <1>2, <2>1, <2>2, <2>3 DEF Insists
<1>6. Runs(c)
  BY <1>1 DEF Runs, Failed
<1> QED
  BY <1>3, <1>4, <1>5, <1>6 DEF Good

\* Who does not move stays as good as he was.
LEMMA Stays ==
    ASSUME Inv, Evidence, Onward, NEW e \in handlers \cup {client}, ep'[e] = ep[e]
    PROVE  /\ (ep[e].gone \/ Good(ep[e]))'
           /\ Insists(ep[e]) /\ Settled(ep[e]) => (Insists(ep[e]) /\ Settled(ep[e]))'
<1> PICK c : c = ep[e]
  OBVIOUS
<1>1. CASE c.gone
  <2>1. ~Settled(ep[e])
    BY <1>1 DEF Settled
  <2>2. ep'[e].gone
    BY <1>1
  <2> QED
    BY <2>1, <2>2
<1>2. CASE ~c.gone
  <2>1. Conn(c)
    BY <1>2 DEF Inv, Remembers
  <2>2. Good(c)
    BY <1>2 DEF Evidence, Good
  <2>3. Good(c)' /\ (Insists(c) => Insists(c)')
    BY <2>1, <2>2, GoodCarried
  <2>4. Good(ep[e])' /\ (Insists(c) => Insists(ep[e])')
    BY <2>3
  <2>5. Settled(c) => Settled(ep'[e])
    OBVIOUS
  <2> QED
    BY <2>4, <2>5
<1> QED
  BY <1>1, <1>2

\* The client's step.
LEMMA ClientKeeps ==
    ASSUME Inv, Evidence, Conn(ep[client]), ~ep[client].server,
           NEW r, Turned(ep[client], r), Turns(ep[client], r),
           NEW bad, ClientTurn(r, bad),
           (Persists /\ ~trouble /\ ~bad) => Untroubled(r)
    PROVE  Evidence' /\ (Persists => Persists')
<1> PICK d : d = r.conn
  OBVIOUS
<1> PICK c : c = ep[client]
  OBVIOUS
<1>1. /\ ep' = [ep EXCEPT ![0] = d] /\ net' = net \cup r.out
      /\ handlers' = handlers /\ env' = env
      /\ ~trouble' => ~trouble /\ ~bad /\ ~r.err
  BY DEF ClientTurn, client
<1>2. DOMAIN ep = 0..MaxConn /\ MaxConn \in Nat /\ 0 \in 0..MaxConn
      /\ Handlers \subseteq 0..MaxConn /\ 0 \notin Handlers /\ handlers \subseteq Handlers
  BY HandshakeAssumption DEF Inv, Handlers
<1>3. ep'[client] = d /\ \A e \in 0..MaxConn : e # client => ep'[e] = ep[e]
  BY <1>1, <1>2 DEF client
<1>4. /\ d.gone \/ (Good(d) /\ c.got \subseteq d.got)
      /\ d.gone => d.state # "POST_HANDSHAKE"
      /\ c.completed => d.completed
      /\ ~d.server
      /\ \A q \in r.out : Sends(d, q)
  BY DEF Turns
<1>5. Conn(c) /\ ~c.gone /\ (c.completed => c.negotiated)
  BY DEF Conn, Progress, ClientProgress
<1>6. /\ Conn(d) \/ d.gone
      /\ c.completed => d.conn_id = c.conn_id
      /\ \A q \in r.out : q.to = "server"
  BY <1>5 DEF Turned, Remembers
<1>7. Onward
  <2>1. ASSUME NEW e \in 0..MaxConn, NEW u, Came(e, u) PROVE Came(e, u)'
    <3>1. CASE e = client
      BY <1>3, <1>4, <1>5, <2>1, <3>1 DEF Came
    <3>2. CASE e # client
      BY <1>3, <2>1, <3>2 DEF Came
    <3> QED
      BY <3>1, <3>2
  <2> QED
    BY <1>1, <1>3, <1>4, <2>1 DEF Onward
<1>8. NetShows'
  <2>1. ASSUME NEW p \in net
        PROVE  /\ p.type = "0RTT" => env'.early
               /\ p.to = "server" => /\ p.type = "SHORT" => ep'[client].completed
                                     /\ \A u \in p.ack : Came(client, u)'
               /\ p.to = "client" => /\ p.type = "SHORT" /\ ~env'.early =>
                                          /\ ep'[client].completed
                                          /\ ep'[client].conn_id = p.cid /\ Came(p.cid, 2)'
                                     /\ \A u \in p.ack : Came(p.cid, u)'
    BY <1>3, <1>6, <1>7, NetCarried DEF Evidence
  <2>2. ASSUME NEW q \in r.out
        PROVE  /\ q.type = "0RTT" => env'.early
               /\ q.type = "SHORT" => ep'[client].completed
               /\ \A u \in q.ack : Came(client, u)'
               /\ q.to = "server"
    <3>1. Sends(d, q) /\ q.to = "server"
      BY <1>4, <1>6
    <3> QED
      BY <1>1, <1>3, <1>4, <3>1 DEF Sends, Early, Came
  <2>3. \A q \in net' : q \in net \/ q \in r.out
    BY <1>1
  <2> QED
    BY <2>1, <2>2, <2>3 DEF NetShows
<1>9. d.gone \/ (Good(d) /\ Good(d)' /\ (Insists(d) => Insists(d)'))
  BY <1>4, <1>6, <1>7, GoodCarried
<1>10. Evidence'
  <2>1. (ep[client].gone \/ Good(ep[client]))'
    BY <1>3, <1>9
  <2>2. ASSUME NEW e \in handlers PROVE (ep[e].gone \/ Good(ep[e]))'
    BY <1>2, <1>3, <1>7, Stays DEF client
  <2>3. (ep[client].gone => ep[client].state # "POST_HANDSHAKE")'
    BY <1>3, <1>4
  <2> QED
    BY <1>1, <1>8, <2>1, <2>2, <2>3 DEF Evidence, Good
<1>11. ASSUME Persists, ~trouble' PROVE Persists'
  <2>1. ~trouble /\ ~bad /\ ~r.err
    BY <1>1, <1>11
  <2>2. Insists(d) /\ Settled(d) /\ \A q \in r.out : ~q.alert /\ ~q.cc
    BY <1>11, <2>1 DEF Untroubled
  <2>3. ~d.gone
    BY <2>2 DEF Settled
  <2>4. (Insists(ep[client]) /\ Settled(ep[client]))'
    BY <1>3, <1>9, <2>2, <2>3
  <2>5. ASSUME NEW e \in handlers PROVE (Insists(ep[e]) /\ Settled(ep[e]))'
    BY <1>2, <1>3, <1>7, <1>11, <2>1, Stays DEF client, Persists
  <2>6. (\A h \in Handlers : ~ep[h].gone)'
    BY <1>2, <1>3, <1>11, <2>1 DEF Persists, client
  <2>7. \A q \in net' : ~q.alert /\ ~q.cc
    BY <1>1, <1>11, <2>1, <2>2 DEF Persists
  <2> QED
    BY <1>1, <2>4, <2>5, <2>6, <2>7 DEF Persists
<1>12. trouble' => Persists'
  BY DEF Persists
<1> QED
  BY <1>10, <1>11, <1>12

\* What the packets of handler d show, when the client does not move.
LEMMA HandlerShows ==
    ASSUME NEW d, Conn(d), d.server, Good(d), NEW q, Emitted(d, q), Sound(d, q),
           env' = env, ep'[client] = ep[client],
           \A u \in d.got : Came(d.conn_id, u)'
    PROVE  /\ q.type = "0RTT" => env'.early
           /\ q.to = "server" => /\ q.type = "SHORT" => ep'[client].completed
                                 /\ \A u \in q.ack : Came(client, u)'
           /\ q.to = "client" => /\ q.type = "SHORT" /\ ~env'.early =>
                                      /\ ep'[client].completed
                                      /\ ep'[client].conn_id = q.cid /\ Came(q.cid, 2)'
                                 /\ \A u \in q.ack : Came(q.cid, u)'
<1>1. q.to = "client" /\ q.cid = d.conn_id
  BY DEF Emitted
<1>2. d.completed => d.rx = 2 /\ ep[client].completed /\ ep[client].conn_id = d.conn_id
  BY DEF Conn, HandlerProgress
<1>3. d.completed => 2 \in d.got
  BY <1>2 DEF Good, Secured
<1> QED
  BY <1>1, <1>2, <1>3 DEF Sound, Early

\* The step of handler h.
LEMMA HandlerKeeps ==
    ASSUME Inv, Evidence, NEW h \in handlers, NEW r, Served(ep[h], r), Serves(ep[h], r),
           NEW bad, HandlerTurn(h, r, bad),
           (Persists /\ ~trouble /\ ~bad) => Untroubled(r)
    PROVE  Evidence' /\ (Persists => Persists')
<1> PICK d : d = r.conn
  OBVIOUS
<1> PICK c : c = ep[h]
  OBVIOUS
<1> PICK g : g = [conn_new(h) EXCEPT !.gone = TRUE]
  OBVIOUS
<1>1. /\ ep' = [ep EXCEPT ![h] = IF r.err THEN g ELSE d] /\ net' = net \cup r.out
      /\ handlers' = IF r.err THEN handlers \ {h} ELSE handlers
      /\ env' = env
      /\ ~trouble' => ~trouble /\ ~bad /\ ~r.err
  BY DEF HandlerTurn, remove
<1>2. DOMAIN ep = 0..MaxConn /\ MaxConn \in Nat /\ 0 \in 0..MaxConn
      /\ Handlers \subseteq 0..MaxConn /\ 0 \notin Handlers /\ handlers \subseteq Handlers
  BY HandshakeAssumption DEF Inv, Handlers
<1>3. /\ ep'[h] = IF r.err THEN g ELSE d
      /\ \A e \in 0..MaxConn : e # h => ep'[e] = ep[e]
      /\ ep'[client] = ep[client] /\ h # client
  BY <1>1, <1>2 DEF client
<1>4. g.gone = TRUE
  BY DEF conn_new
<1>5. Conn(d) /\ Good(d) /\ c.got \subseteq d.got /\ d.server /\ d.conn_id = h
      /\ \A q \in r.out : Emitted(d, q) /\ Sound(d, q)
  BY DEF Inv, Served, Serves, Later, Gains, Emits
<1>6. Conn(c) /\ ~c.gone
  BY DEF Inv, Conn, Progress
<1>7. Onward
  <2>1. ASSUME NEW e \in 0..MaxConn, NEW u, Came(e, u) PROVE Came(e, u)'
    <3>1. CASE e = h
      BY <1>3, <1>4, <1>5, <1>6, <2>1, <3>1 DEF Came
    <3>2. CASE e # h
      BY <1>3, <2>1, <3>2 DEF Came
    <3> QED
      BY <3>1, <3>2
  <2> QED
    BY <1>1, <1>3, <2>1 DEF Onward
<1>8. NetShows'
  <2>1. ASSUME NEW p \in net
        PROVE  /\ p.type = "0RTT" => env'.early
               /\ p.to = "server" => /\ p.type = "SHORT" => ep'[client].completed
                                     /\ \A u \in p.ack : Came(client, u)'
               /\ p.to = "client" => /\ p.type = "SHORT" /\ ~env'.early =>
                                          /\ ep'[client].completed
                                          /\ ep'[client].conn_id = p.cid /\ Came(p.cid, 2)'
                                     /\ \A u \in p.ack : Came(p.cid, u)'
    BY <1>3, <1>7, NetCarried DEF Evidence
  <2>2. \A u \in d.got : Came(d.conn_id, u)'
    BY <1>3, <1>4, <1>5 DEF Came
  <2>3. ASSUME NEW q \in r.out
        PROVE  /\ q.type = "0RTT" => env'.early
               /\ q.to = "server" => /\ q.type = "SHORT" => ep'[client].completed
                                     /\ \A u \in q.ack : Came(client, u)'
               /\ q.to = "client" => /\ q.type = "SHORT" /\ ~env'.early =>
                                          /\ ep'[client].completed
                                          /\ ep'[client].conn_id = q.cid /\ Came(q.cid, 2)'
                                     /\ \A u \in q.ack : Came(q.cid, u)'
    BY <1>1, <1>3, <1>5, <2>2, HandlerShows
  <2>4. \A q \in net' : q \in net \/ q \in r.out
    BY <1>1
  <2> QED
    BY <2>1, <2>3, <2>4 DEF NetShows
<1>9. Good(d)' /\ (Insists(d) => Insists(d)')
  BY <1>5, <1>7, GoodCarried
<1>10. ASSUME NEW e \in handlers \cup {client}, e # h
       PROVE  /\ (ep[e].gone \/ Good(ep[e]))'
              /\ Insists(ep[e]) /\ Settled(ep[e]) => (Insists(ep[e]) /\ Settled(ep[e]))'
  <2>1. ep'[e] = ep[e]
    BY <1>2, <1>3, <1>10 DEF client
  <2> QED
    BY <1>7, <2>1, Stays
<1>11. Evidence'
  <2>1. (ep[h].gone \/ Good(ep[h]))'
    BY <1>3, <1>4, <1>9
  <2>2. (ep[client].gone => ep[client].state # "POST_HANDSHAKE")'
    BY <1>3 DEF Evidence
  <2>3. \A e \in handlers' \cup {client} : e \in handlers \cup {client}
    BY <1>1
  <2>4. \A e \in handlers' \cup {client} : (ep[e].gone \/ Good(ep[e]))'
    BY <1>10, <2>1, <2>3
  <2> QED
    BY <1>8, <2>2, <2>4 DEF Evidence, Good
<1>12. ASSUME Persists, ~trouble' PROVE Persists'
  <2>1. ~trouble /\ ~bad /\ ~r.err
    BY <1>1, <1>12
  <2>2. Insists(d) /\ Settled(d) /\ \A q \in r.out : ~q.alert /\ ~q.cc
    BY <1>12, <2>1 DEF Untroubled
  <2>3. ~d.gone /\ ep'[h] = d /\ handlers' = handlers
    BY <1>1, <1>3, <2>1, <2>2 DEF Settled
  <2>4. (Insists(ep[h]) /\ Settled(ep[h]))'
    BY <1>9, <2>2, <2>3
  <2>5. ASSUME NEW e \in handlers \cup {client} PROVE (Insists(ep[e]) /\ Settled(ep[e]))'
    BY <1>10, <1>12, <2>1, <2>4 DEF Persists
  <2>6. (\A k \in Handlers : ~ep[k].gone)'
    BY <1>2, <1>3, <1>12, <2>1, <2>3 DEF Persists
  <2>7. \A q \in net' : ~q.alert /\ ~q.cc
    BY <1>1, <1>12, <2>1, <2>2 DEF Persists
  <2> QED
    BY <2>3, <2>5, <2>6, <2>7 DEF Persists
<1>13. trouble' => Persists'
  BY DEF Persists
<1> QED
  BY <1>11, <1>12, <1>13

\* The step in which the server makes a handler, or does not.
LEMMA NewKeeps ==
    ASSUME Inv, Evidence, NEW h \in Handlers, h \notin handlers, ep[h] = conn_new(h),
           NEW r, Served(ep[h], r), Serves(ep[h], r), NEW initial,
           KeepHandler(h, r, initial),
           (Persists /\ ~trouble /\ initial) => Untroubled(r),
           ~initial => r.err /\ r.out = {}
    PROVE  Evidence' /\ (Persists => Persists')
<1> DEFINE kept == ~r.err /\ r.conn.state \notin {"CLOSING", "DRAINING"}
<1> PICK d : d = r.conn
  OBVIOUS
<1> PICK c : c = ep[h]
  OBVIOUS
<1> PICK g : g = [c EXCEPT !.gone = TRUE]
  OBVIOUS
<1>1. /\ ep' = [ep EXCEPT ![h] = IF kept THEN d ELSE IF r.out = {} THEN c ELSE g]
      /\ net' = net \cup r.out
      /\ handlers' = IF kept THEN handlers \cup {h} ELSE handlers
      /\ env' = env
      /\ ~trouble' => ~trouble /\ (initial => kept)
  BY DEF KeepHandler
<1>2. DOMAIN ep = 0..MaxConn /\ MaxConn \in Nat /\ 0 \in 0..MaxConn
      /\ Handlers \subseteq 0..MaxConn /\ 0 \notin Handlers /\ handlers \subseteq Handlers
  BY HandshakeAssumption DEF Inv, Handlers
<1>3. /\ ep'[h] = IF kept THEN d ELSE IF r.out = {} THEN c ELSE g
      /\ \A e \in 0..MaxConn : e # h => ep'[e] = ep[e]
      /\ ep'[client] = ep[client] /\ h # client
  BY <1>1, <1>2 DEF client
<1>4. g.gone = TRUE /\ c.gone = FALSE /\ c.got = {}
  BY DEF conn_new
<1>5. Conn(d) /\ Good(d) /\ d.server /\ d.conn_id = h
      /\ \A q \in r.out : Emitted(d, q) /\ Sound(d, q)
  <2>1. c.server = (h # client) /\ c.conn_id = h
    BY DEF conn_new
  <2> QED
    BY <1>3, <2>1 DEF Served, Serves, Later, Emits
<1> PICK k \in BOOLEAN : k = kept
  OBVIOUS
<1> HIDE DEF kept
<1>6. Onward
  <2>1. ASSUME NEW e \in 0..MaxConn, NEW u, Came(e, u) PROVE Came(e, u)'
    <3>1. CASE e = h
      BY <1>4, <2>1, <3>1 DEF Came
    <3>2. CASE e # h
      BY <1>3, <2>1, <3>2 DEF Came
    <3> QED
      BY <3>1, <3>2
  <2> QED
    BY <1>1, <1>3, <2>1 DEF Onward
<1>7. NetShows'
  <2>1. ASSUME NEW p \in net
        PROVE  /\ p.type = "0RTT" => env'.early
               /\ p.to = "server" => /\ p.type = "SHORT" => ep'[client].completed
                                     /\ \A u \in p.ack : Came(client, u)'
               /\ p.to = "client" => /\ p.type = "SHORT" /\ ~env'.early =>
                                          /\ ep'[client].completed
                                          /\ ep'[client].conn_id = p.cid /\ Came(p.cid, 2)'
                                     /\ \A u \in p.ack : Came(p.cid, u)'
    BY <1>3, <1>6, NetCarried DEF Evidence
  <2>2. ASSUME NEW q \in r.out
        PROVE  /\ q.type = "0RTT" => env'.early
               /\ q.to = "server" => /\ q.type = "SHORT" => ep'[client].completed
                                     /\ \A u \in q.ack : Came(client, u)'
               /\ q.to = "client" => /\ q.type = "SHORT" /\ ~env'.early =>
                                          /\ ep'[client].completed
                                          /\ ep'[client].conn_id = q.cid /\ Came(q.cid, 2)'
                                     /\ \A u \in q.ack : Came(q.cid, u)'
    <3>1. \A u \in d.got : Came(d.conn_id, u)'
      BY <1>3, <1>4, <1>5, <2>2 DEF Came
    <3> QED
      BY <1>1, <1>3, <1>5, <3>1, HandlerShows
  <2>3. \A q \in net' : q \in net \/ q \in r.out
    BY <1>1
  <2> QED
    BY <2>1, <2>2, <2>3 DEF NetShows
<1>8. Good(d)' /\ (Insists(d) => Insists(d)')
  BY <1>5, <1>6, GoodCarried
<1>9. ASSUME NEW e \in handlers \cup {client}
      PROVE  /\ (ep[e].gone \/ Good(ep[e]))'
             /\ Insists(ep[e]) /\ Settled(ep[e]) => (Insists(ep[e]) /\ Settled(ep[e]))'
  <2>1. ep'[e] = ep[e]
    BY <1>2, <1>3 DEF client
  <2> QED
    BY <1>6, <2>1, Stays
<1>10. Evidence'
  <2>1. kept => (ep[h].gone \/ Good(ep[h]))'
    BY <1>3, <1>8
  <2>2. (ep[client].gone => ep[client].state # "POST_HANDSHAKE")'
    BY <1>3 DEF Evidence
  <2>3. \A e \in handlers' \cup {client} :
          e \in handlers \cup {client} \/ (kept /\ e = h)
    BY <1>1
  <2>4. \A e \in handlers' \cup {client} : (ep[e].gone \/ Good(ep[e]))'
    BY <1>9, <2>1, <2>3
  <2> QED
    BY <1>7, <2>2, <2>4 DEF Evidence, Good
<1>11. ASSUME Persists, ~trouble', initial PROVE Persists'
  <2>1. ~trouble /\ kept /\ ~r.err
    BY <1>1, <1>11 DEF kept
  <2>2. Insists(d) /\ Settled(d) /\ \A q \in r.out : ~q.alert /\ ~q.cc
    BY <1>11, <2>1 DEF Untroubled
  <2>3. ~d.gone /\ ep'[h] = d /\ handlers' = handlers \cup {h}
    BY <1>1, <1>3, <2>1, <2>2 DEF Settled
  <2>4. (Insists(ep[h]) /\ Settled(ep[h]))'
    BY <1>8, <2>2, <2>3
  <2>5. ASSUME NEW e \in handlers' \cup {client} PROVE (Insists(ep[e]) /\ Settled(ep[e]))'
    BY <1>9, <1>11, <2>1, <2>3, <2>4 DEF Persists
  <2>6. (\A e \in Handlers : ~ep[e].gone)'
    BY <1>2, <1>3, <1>11, <2>1, <2>3 DEF Persists
  <2>7. \A q \in net' : ~q.alert /\ ~q.cc
    BY <1>1, <1>11, <2>1, <2>2 DEF Persists
  <2> QED
    BY <2>5, <2>6, <2>7 DEF Persists
<1>12. ASSUME Persists, ~trouble', ~initial PROVE Persists'
  <2>1. ~trouble /\ ~kept /\ r.out = {}
    BY <1>1, <1>12 DEF kept
  <2>2. handlers' = handlers /\ net' = net /\ ep'[h] = ep[h]
    BY <1>1, <1>3, <2>1
  <2>3. (\A e \in Handlers : ~ep[e].gone)'
    BY <1>2, <1>3, <1>12, <2>1, <2>2 DEF Persists
  <2> QED
    BY <1>9, <1>12, <2>1, <2>2, <2>3 DEF Persists
<1>13. trouble' => Persists'
  BY DEF Persists
<1> QED
  BY <1>10, <1>11, <1>12, <1>13

\* The version of the client is unknown.
LEMMA VersionKeeps ==
    ASSUME Inv, Evidence, NEW p \in net, send_version_negotiation(p)
    PROVE  Evidence' /\ (Persists => Persists')
<1> DEFINE v == [to |-> "client", type |-> "VN", cid |-> client, unit |-> 0,
                 alert |-> FALSE, ack |-> {}, cc |-> FALSE]
<1>1. /\ net' = net \cup {v} /\ ep' = ep /\ handlers' = handlers /\ env' = env
      /\ trouble'
  BY DEF send_version_negotiation
<1>2. v.to = "client" /\ v.type = "VN" /\ v.ack = {}
  OBVIOUS
<1> HIDE DEF v
<1>3. Onward
  BY <1>1 DEF Onward, Came
<1>4. NetShows'
  BY <1>1, <1>2 DEF Evidence, NetShows, Came
<1>5. \A e \in handlers \cup {client} : (ep[e].gone \/ Good(ep[e]))'
  BY <1>1, <1>3, Stays
<1> QED
  BY <1>1, <1>4, <1>5 DEF Evidence, Good, Persists

\* The server is interrupted.
LEMMA EndKeeps ==
    ASSUME Inv, Evidence, server_disconnect
    PROVE  Evidence' /\ (Persists => Persists')
<1> DEFINE out == UNION {handle_error(ep[h]).out : h \in handlers}
<1>1. /\ net' = net \cup out /\ handlers' = {} /\ env' = env /\ trouble'
      /\ ep' = [h \in 0..MaxConn |-> IF h \notin handlers THEN ep[h]
                                     ELSE [conn_new(h) EXCEPT !.gone = TRUE]]
  BY DEF server_disconnect
<1>2. MaxConn \in Nat /\ Handlers \subseteq 0..MaxConn /\ handlers \subseteq Handlers
      /\ 0 \notin Handlers /\ 0 \in 0..MaxConn
  BY HandshakeAssumption DEF Inv, Handlers
<1>3. /\ ep'[client] = ep[client]
      /\ \A e \in 0..MaxConn : e \notin handlers => ep'[e] = ep[e]
      /\ \A e \in handlers : ep'[e] = [conn_new(e) EXCEPT !.gone = TRUE]
  BY <1>1, <1>2 DEF client
<1>4. ASSUME NEW e \in handlers PROVE ep'[e].gone
  <2>1. [conn_new(e) EXCEPT !.gone = TRUE].gone = TRUE
    BY DEF conn_new
  <2> QED
    BY <1>3, <2>1
<1>5. Onward
  <2>1. ASSUME NEW e \in 0..MaxConn, NEW u, Came(e, u) PROVE Came(e, u)'
    <3>1. CASE e \in handlers
      BY <1>4, <3>1 DEF Came
    <3>2. CASE e \notin handlers
      BY <1>3, <2>1, <3>2 DEF Came
    <3> QED
      BY <3>1, <3>2
  <2> QED
    BY <1>1, <1>3, <2>1 DEF Onward
<1>6. NetShows'
  <2>1. ASSUME NEW p \in net
        PROVE  /\ p.type = "0RTT" => env'.early
               /\ p.to = "server" => /\ p.type = "SHORT" => ep'[client].completed
                                     /\ \A u \in p.ack : Came(client, u)'
               /\ p.to = "client" => /\ p.type = "SHORT" /\ ~env'.early =>
                                          /\ ep'[client].completed
                                          /\ ep'[client].conn_id = p.cid /\ Came(p.cid, 2)'
                                     /\ \A u \in p.ack : Came(p.cid, u)'
    BY <1>3, <1>5, NetCarried DEF Evidence
  <2>2. ASSUME NEW q \in out
        PROVE  /\ q.type = "0RTT" => env'.early
               /\ q.to = "server" => /\ q.type = "SHORT" => ep'[client].completed
                                     /\ \A u \in q.ack : Came(client, u)'
               /\ q.to = "client" => /\ q.type = "SHORT" /\ ~env'.early =>
                                          /\ ep'[client].completed
                                          /\ ep'[client].conn_id = q.cid /\ Came(q.cid, 2)'
                                     /\ \A u \in q.ack : Came(q.cid, u)'
    <3>1. PICK h \in handlers : q \in handle_error(ep[h]).out
      BY <2>2
    <3> PICK c : c = ep[h]
      OBVIOUS
    <3> PICK r : r = handle_error(c)
      OBVIOUS
    <3>2. Conn(c) /\ c.server /\ c.conn_id = h /\ ~c.gone /\ DOMAIN c = Fields
      BY DEF Inv, Conn, Progress
    <3>3. Good(c) /\ Alike(c, c) /\ c.rtb \subseteq c.rtb
      BY <3>2 DEF Evidence, Good, Alike
    <3>4. Good(r.conn) /\ Sound(r.conn, q)
      BY <3>1, <3>2, <3>3, ErrorCloses
    <3>5. Wrote(c, r)
      BY <3>2, ErrorHandled
    <3>6. Conn(r.conn) /\ Emitted(r.conn, q) /\ r.conn.server /\ r.conn.conn_id = h
      BY <3>1, <3>2, <3>5 DEF Wrote, Emits, Kept
    <3>7. \A u \in r.conn.got : Came(r.conn.conn_id, u)'
      BY <1>4, <3>6 DEF Came
    <3> QED
      BY <1>1, <1>3, <3>4, <3>6, <3>7, HandlerShows
  <2> HIDE DEF out
  <2>3. \A q \in net' : q \in net \/ q \in out
    BY <1>1
  <2> QED
    BY <2>1, <2>2, <2>3 DEF NetShows
<1>7. (ep[client].gone \/ Good(ep[client]))'
  BY <1>3, <1>5, Stays
<1>8. (ep[client].gone => ep[client].state # "POST_HANDSHAKE")'
  BY <1>3 DEF Evidence
<1>9. \A e \in handlers' \cup {client} : e = client
  BY <1>1
<1> QED
  BY <1>1, <1>6, <1>7, <1>8, <1>9 DEF Evidence, Good, Persists

\* The client's steps keep what both invariants say.
LEMMA ClientActs ==
    ASSUME Inv, Evidence,
           \/ run
           \/ \E p \in net, ack \in Acks : readcb(p, ack)
           \/ \E due \in SUBSET (1..3), dead \in BOOLEAN, ack \in Acks :
                 client_retransmitcb(due, dead, ack)
           \/ client_timeoutcb
    PROVE  Evidence' /\ (Persists => Persists')
<1> PICK c : c = ep[client]
  OBVIOUS
<1>1. Conn(c) /\ Tidy(c) /\ ~c.server /\ ~c.gone /\ DOMAIN c = Fields
  BY ClientMoves DEF run, readcb, client_retransmitcb, client_timeoutcb, Conn, Progress
<1>2. Good(c)
  BY <1>1 DEF Evidence, Good
<1>3. Persists /\ ~trouble => Insists(c) /\ Runs(c)
  BY DEF Persists, Settled
<1>4. CASE run
  <2> PICK dead \in BOOLEAN : dead = FALSE
    OBVIOUS
  <2> PICK r : r = client_write(c, {}, dead, FALSE)
    OBVIOUS
  <2>1. {} \subseteq c.rtb /\ (dead => c.state # "CLIENT_INITIAL")
    OBVIOUS
  <2>2. Turned(c, r)
    BY <1>1, <2>1, ClientWrote
  <2>3. /\ Turns(c, r)
        /\ (~dead /\ (Failed(c) \/ (Insists(c) /\ Runs(c)))) => Untroubled(r)
    BY <1>1, <1>2, <2>1, ClientWrites
  <2>4. ClientTurn(r, dead)
    BY <1>4 DEF run
  <2> QED
    BY <1>1, <1>3, <2>2, <2>3, <2>4, ClientKeeps
<1>5. ASSUME NEW p \in net, NEW ack \in Acks, readcb(p, ack)
      PROVE  Evidence' /\ (Persists => Persists')
  <2> PICK r : r = client_read(c, p, ack)
    OBVIOUS
  <2>1. p.to = "client" /\ ClientTurn(r, FALSE)
    BY <1>5 DEF readcb
  <2>2. Comes(c, p)
    BY <1>1, <2>1, ToClient
  <2>3. Shows(c, p)
    BY <1>1, <2>1, ShownToClient DEF Evidence
  <2>4. Turned(c, r)
    BY <1>1, <2>2, ClientRead
  <2>5. Turns(c, r) /\ ((~p.cc /\ Insists(c) /\ Runs(c)) => Untroubled(r))
    BY <1>1, <1>2, <2>2, <2>3, ClientReads
  <2>6. Persists /\ ~trouble => Untroubled(r)
    BY <1>3, <2>5 DEF Persists
  <2> QED
    BY <1>1, <2>1, <2>4, <2>5, <2>6, ClientKeeps
<1>6. ASSUME NEW due \in SUBSET (1..3), NEW dead \in BOOLEAN, NEW ack \in Acks,
             client_retransmitcb(due, dead, ack)
      PROVE  Evidence' /\ (Persists => Persists')
  <2> PICK r : r = client_write(c, due, dead, ack)
    OBVIOUS
  <2>1. due \subseteq c.rtb /\ (dead => Cardinality(due) = 1) /\ ClientTurn(r, dead)
    BY <1>6 DEF client_retransmitcb
  <2>2. dead => c.state # "CLIENT_INITIAL"
    <3> SUFFICES ASSUME dead, c.state = "CLIENT_INITIAL" PROVE FALSE
      OBVIOUS
    <3>1. due = {}
      BY <1>1, <2>1 DEF Conn, Holds
    <3> QED
      BY <2>1, <3>1, FS_EmptySet
  <2>3. Turned(c, r)
    BY <1>1, <2>1, <2>2, ClientWrote
  <2>4. /\ Turns(c, r)
        /\ (~dead /\ (Failed(c) \/ (Insists(c) /\ Runs(c)))) => Untroubled(r)
    BY <1>1, <1>2, <2>1, ClientWrites
  <2> QED
    BY <1>1, <1>3, <2>1, <2>3, <2>4, ClientKeeps
<1>7. CASE client_timeoutcb
  <2> PICK d : d = [c EXCEPT !.migrated = FALSE]
    OBVIOUS
  <2> PICK r : r = disconnect(d)
    OBVIOUS
  <2>1. ClientTurn(r, TRUE) /\ c.state # "CLIENT_INITIAL"
    BY <1>7 DEF client_timeoutcb
  <2>2. Took(c, d)
    BY <1>1 DEF Took, Fields
  <2>3. Conn(d) /\ Later(c, d)
    BY <1>1, <2>2, TookConn
  <2>4. ~d.server /\ d.state = c.state /\ Tidy(d)
    BY <1>1 DEF Fields, Tidy
  <2>5. Turned(d, r)
    BY <2>1, <2>3, <2>4, Disconnected
  <2>6. Turned(c, r)
    BY <2>3, <2>5 DEF Turned, Later
  <2>7. Alike(c, d) /\ d.rtb \subseteq c.rtb
    BY <1>1, OtherField
  <2>8. Turns(c, r) /\ r.err
    BY <1>1, <1>2, <2>7, ClientCloses
  <2> QED
    BY <1>1, <2>1, <2>6, <2>8, ClientKeeps DEF Untroubled
<1> QED
  BY <1>4, <1>5, <1>6, <1>7

\* So do the steps of a handler.
LEMMA HandlerActs ==
    ASSUME Inv, Evidence, NEW h \in Handlers,
           \/ \E p \in net, ack \in Acks : on_read(p, h, ack)
           \/ \E due \in SUBSET (1..3), dead \in BOOLEAN, ack \in Acks :
                 retransmitcb(h, due, dead, ack)
           \/ timeoutcb(h)
    PROVE  Evidence' /\ (Persists => Persists')
<1>1. h \in handlers
  BY DEF on_read, retransmitcb, timeoutcb
<1> PICK c : c = ep[h]
  OBVIOUS
<1>2. c.server /\ c.conn_id = h /\ Conn(c) /\ Tidy(c) /\ DOMAIN c = Fields /\ ~c.gone
  BY <1>1 DEF Inv, Conn, Progress
<1>3. Good(c) /\ Alike(c, c)
  BY <1>1, <1>2 DEF Evidence, Good, Alike
<1>4. Persists /\ ~trouble => Insists(c) /\ Runs(c)
  BY <1>1 DEF Persists, Settled
<1>5. ASSUME NEW r, NEW bad, Served(c, r), Serves(c, r), HandlerTurn(h, r, bad),
             (Persists /\ ~trouble /\ ~bad) => Untroubled(r)
      PROVE  Evidence' /\ (Persists => Persists')
  BY <1>1, <1>5, HandlerKeeps
<1>6. ASSUME NEW p \in net, NEW ack \in Acks, on_read(p, h, ack)
      PROVE  Evidence' /\ (Persists => Persists')
  <2>1. p.to = "server"
    BY <1>6 DEF on_read
  <2>2. CASE c.state = "CLOSING"
    <3> PICK r : r = handle_error(c)
      OBVIOUS
    <3>1. Wrote(c, r) /\ r.err \in BOOLEAN
      BY <1>2, ErrorHandled
    <3>2. Conn(r.conn) /\ Later(c, r.conn) /\ Emits(r.conn, r.out)
      BY <1>2, <3>1, WroteLater
    <3>3. Tidy(r.conn)
      BY <1>2, TidyError
    <3>4. HandlerTurn(h, r, FALSE)
      BY <1>6, <2>2 DEF on_read
    <3>5. Serves(c, r)
      BY <1>2, <1>3, ErrorCloses DEF Serves
    <3>6. ~(Persists /\ ~trouble)
      BY <1>4, <2>2 DEF Runs
    <3> QED
      BY <1>5, <3>1, <3>2, <3>3, <3>4, <3>5, <3>6 DEF Served
  <2>3. CASE c.state # "CLOSING"
    <3> PICK r : r = handler_read(c, p, ack)
      OBVIOUS
    <3>1. Comes(c, p)
      BY <1>2, <2>1, ToHandler
    <3>2. Shows(c, p)
      BY <1>2, <2>1, ShownToHandler DEF Evidence
    <3>3. Served(c, r)
      BY <1>2, <3>1, HandlerRead
    <3>4. Serves(c, r) /\ ((~p.cc /\ Insists(c) /\ Runs(c)) => Untroubled(r))
      BY <1>2, <1>3, <3>1, <3>2, HandlerReads
    <3>5. HandlerTurn(h, r, FALSE)
      BY <1>6, <2>3 DEF on_read
    <3>6. Persists /\ ~trouble => Untroubled(r)
      BY <1>4, <3>4 DEF Persists
    <3> QED
      BY <1>5, <3>3, <3>4, <3>5, <3>6
  <2> QED
    BY <2>2, <2>3
<1>7. ASSUME NEW due \in SUBSET (1..3), NEW dead \in BOOLEAN, NEW ack \in Acks,
             retransmitcb(h, due, dead, ack)
      PROVE  Evidence' /\ (Persists => Persists')
  <2> PICK r : r = handler_write(c, due, dead, ack)
    OBVIOUS
  <2>1. due \subseteq c.rtb /\ HandlerTurn(h, r, dead)
    BY <1>7 DEF retransmitcb
  <2>2. Served(c, r)
    BY <1>2, <2>1, HandlerWrote
  <2>3. /\ Serves(c, r)
        /\ (~dead /\ (Failed(c) \/ (Insists(c) /\ Runs(c)))) => Untroubled(r)
    BY <1>2, <1>3, <2>1, HandlerWrites
  <2> QED
    BY <1>4, <1>5, <2>1, <2>2, <2>3
<1>8. CASE timeoutcb(h)
  <2> PICK d : d = [c EXCEPT !.draining = TRUE]
    OBVIOUS
  <2> PICK r : r = Result(d, {}, c.state = "CLOSING" \/ c.draining)
    OBVIOUS
  <2>1. HandlerTurn(h, r, TRUE)
    BY <1>8 DEF timeoutcb
  <2>2. Took(c, d)
    BY <1>2 DEF Took, Fields
  <2>3. Conn(d) /\ Later(c, d)
    BY <1>2, <2>2, TookConn
  <2>4. Tidy(d)
    BY <1>2 DEF Fields, Tidy
  <2>5. r.conn = d /\ r.out = {} /\ r.err = (c.state = "CLOSING" \/ c.draining)
    BY DEF Result
  <2>6. Served(c, r)
    BY <2>3, <2>4, <2>5 DEF Served, Emits
  <2>7. Alike(c, d) /\ d.rtb = c.rtb
    BY <1>2, OtherField
  <2>8. Good(d) /\ Gains(c, d)
    BY <1>3, <2>7, AlikeGood
  <2>9. Serves(c, r)
    BY <2>5, <2>8 DEF Serves
  <2> QED
    BY <1>5, <2>1, <2>6, <2>9
<1> QED
  BY <1>6, <1>7, <1>8

\* And the step in which the server makes one.
LEMMA FirstActs ==
    ASSUME Inv, Evidence, NEW p \in net, NEW h \in Handlers, NEW ack, on_read_new(p, h, ack)
    PROVE  Evidence' /\ (Persists => Persists')
<1>1. ctos = 0 /\ ~ep[h].gone /\ accept(p) = 0 /\ p.cid = 0 /\ p.to = "server"
  BY DEF on_read_new, client
<1>2. h \notin handlers /\ h # 0
  BY <1>1 DEF Inv, RoutesAgree, Handlers
<1>3. ep[h] = conn_new(h)
  <2>1. [conn_new(h) EXCEPT !.gone = TRUE].gone = TRUE
    BY DEF conn_new
  <2> QED
    BY <1>1, <1>2, <2>1 DEF Inv, Fresh
<1>4. env.known /\ p.type \in {"INITIAL", "0RTT"}
  BY <1>1 DEF accept
<1> PICK c : c = ep[h]
  OBVIOUS
<1>5. Conn(c) /\ Tidy(c) /\ c.server /\ c.conn_id = h
  BY <1>3, <1>4, NewConn
<1>6. Good(c) /\ Insists(c) /\ Runs(c)
  BY <1>3, NewGood
<1>7. Comes(c, p)
  BY <1>1, <1>5, ToHandler
<1>8. Shows(c, p)
  BY <1>1, <1>5, ShownToHandler DEF Evidence
<1> PICK r : r = handler_read(c, p, ack)
  OBVIOUS
<1>9. Served(c, r)
  BY <1>5, <1>7, HandlerRead
<1>10. Serves(c, r) /\ ((~p.cc /\ Insists(c) /\ Runs(c)) => Untroubled(r))
  BY <1>5, <1>6, <1>7, <1>8, HandlerReads
<1>11. Persists /\ ~trouble => Untroubled(r)
  BY <1>6, <1>10 DEF Persists
<1>12. p.type # "INITIAL" => r.err /\ r.out = {}
  BY <1>3, <1>4, <1>6, <1>7, <1>8, FirstEarly
<1>13. KeepHandler(h, r, p.type = "INITIAL")
  BY DEF on_read_new
<1> QED
  BY <1>2, <1>3, <1>9, <1>10, <1>11, <1>12, <1>13, NewKeeps

\* Both go on to hold.
LEMMA BothStep ==
    ASSUME Inv, Evidence, [Next]_vars PROVE Evidence' /\ (Persists => Persists')
<1>1. CASE \/ run
           \/ \E p \in net, ack \in Acks : readcb(p, ack)
           \/ \E due \in SUBSET (1..3), dead \in BOOLEAN, ack \in Acks :
                 client_retransmitcb(due, dead, ack)
           \/ client_timeoutcb
  BY <1>1, ClientActs
<1>2. ASSUME NEW h \in Handlers,
             \/ \E p \in net, ack \in Acks : on_read(p, h, ack)
             \/ \E due \in SUBSET (1..3), dead \in BOOLEAN, ack \in Acks :
                   retransmitcb(h, due, dead, ack)
             \/ timeoutcb(h)
      PROVE  Evidence' /\ (Persists => Persists')
  BY <1>2, HandlerActs
<1>3. ASSUME NEW p \in net, NEW h \in Handlers, NEW ack \in Acks, on_read_new(p, h, ack)
      PROVE  Evidence' /\ (Persists => Persists')
  BY <1>3, FirstActs
<1>4. ASSUME NEW p \in net, send_version_negotiation(p)
      PROVE  Evidence' /\ (Persists => Persists')
  BY <1>4, VersionKeeps
<1>5. CASE server_disconnect
  BY <1>5, EndKeeps
<1>6. CASE UNCHANGED vars
  <2>1. /\ ep' = ep /\ handlers' = handlers /\ net' = net /\ env' = env
        /\ trouble' = trouble
    BY <1>6 DEF vars
  <2>2. Onward
    BY <2>1 DEF Onward, Came
  <2>3. NetShows'
    BY <2>1 DEF Evidence, NetShows, Came
  <2>4. \A e \in handlers \cup {client} :
          /\ (ep[e].gone \/ Good(ep[e]))'
          /\ Insists(ep[e]) /\ Settled(ep[e]) => (Insists(ep[e]) /\ Settled(ep[e]))'
    BY <2>1, <2>2, Stays
  <2>5. Evidence'
    BY <2>1, <2>3, <2>4 DEF Evidence, Good
  <2>6. Persists => Persists'
    BY <2>1, <2>4 DEF Persists
  <2> QED
    BY <2>5, <2>6
<1> QED
  BY <1>1, <1>2, <1>3, <1>4, <1>5, <1>6 DEF Next

\* They hold before anything has been sent.
LEMMA BothInit ==
    ASSUME Init PROVE Evidence /\ Persists
<1>1. /\ ep = [e \in 0..MaxConn |-> conn_new(e)] /\ handlers = {} /\ net = {}
  BY DEF Init
<1>2. MaxConn \in Nat /\ 0 \in 0..MaxConn /\ Handlers \subseteq 0..MaxConn
  BY HandshakeAssumption DEF Handlers
<1> PICK c : c = conn_new(0)
  OBVIOUS
<1>3. ep[client] = c /\ \A h \in Handlers : ep[h] = conn_new(h)
  BY <1>1, <1>2 DEF client
<1>4. Good(c) /\ Insists(c) /\ Runs(c)
  BY NewGood
<1>5. /\ c.gone = FALSE /\ c.tx_ckm = FALSE /\ c.server = FALSE
  BY DEF conn_new, client
<1>6. \A h \in Handlers : conn_new(h).gone = FALSE
  BY DEF conn_new
<1>7. Settled(c)
  BY <1>4, <1>5 DEF Settled
<1> QED
  BY <1>1, <1>3, <1>4, <1>5, <1>6, <1>7 DEF Evidence, Persists, Good, NetShows

\* Without 0-RTT a client lets go of its Finished only when the handler has
\* it, whatever the net loses, repeats and reorders.
THEOREM FinishedArrives == Spec => []FinishedNotAbandoned
<1>1. Inv /\ Evidence => FinishedNotAbandoned
  <2> SUFFICES ASSUME Inv, Evidence, ~env.early, ep[client].state = "POST_HANDSHAKE",
                      2 \notin ep[client].rtb, ep[client].conn_id \in handlers
               PROVE  2 \in ep[ep[client].conn_id].got
    BY DEF FinishedNotAbandoned
  <2> PICK c : c = ep[client]
    OBVIOUS
  <2>1. ~c.gone /\ Secured(c)
    BY DEF Evidence, Good
  <2>2. ~c.server
    BY DEF Inv, Remembers
  <2>3. Came(c.conn_id, 2)
    BY <2>1, <2>2 DEF Secured, Finishes
  <2>4. ~ep[c.conn_id].gone
    BY DEF Inv, Conn, Progress
  <2> QED
    BY <2>3, <2>4 DEF Came
<1>2. Init => Inv /\ Evidence
  BY InvInit, BothInit
<1>3. Inv /\ Evidence /\ [Next]_vars => Inv' /\ Evidence'
  BY InvStep, BothStep
<1> QED
  BY <1>1, <1>2, <1>3, PTL DEF Spec

\* An exchange that nothing has disturbed never falls silent: until the
\* client has its response, client or handler holds a packet that it will
\* send again.
THEOREM HandshakeNotSilent == Spec => []NotSilent
<1>1. Inv /\ Evidence /\ Persists => NotSilent
  <2> SUFFICES ASSUME Inv, Evidence, Persists, ~trouble, ep[client].state # "CLIENT_INITIAL",
                      3 \notin ep[client].got,
                      \A e \in handlers \cup {client} :
                        ep[e].rtb = {} /\ ep[e].early_rtb = {}
               PROVE  FALSE
    BY DEF NotSilent
  <2> PICK c : c = ep[client]
    OBVIOUS
  <2>1. Insists(c) /\ Settled(c) /\ c.rtb = {} /\ c.early_rtb = {}
    BY DEF Persists
  <2>2. ~c.gone /\ ~c.alert /\ Runs(c)
    BY <2>1 DEF Settled, Runs
  <2>3. Conn(c) /\ ~c.server /\ Good(c)
    BY <2>2 DEF Inv, Evidence, Good, Remembers
  <2>4. Asks(c)
    BY <2>1, <2>2, <2>3 DEF Insists
  <2>5. Finishes(c) /\ Calm(c)
    BY <2>3 DEF Good, Secured
  \* A handler that has got a unit exists, and has written what TLS has made.
  <2>6. ASSUME NEW u, Came(c.conn_id, u), c.negotiated
        PROVE  /\ c.conn_id \in handlers /\ u \in ep[c.conn_id].got
               /\ Answers(ep[c.conn_id]) /\ Settled(ep[c.conn_id])
               /\ ep[c.conn_id].rx > 0
    <3> PICK h : h = c.conn_id
      OBVIOUS
    <3>1. h \in Handlers
      BY <2>3, <2>5, <2>6, HandshakeAssumption DEF Finishes, Handlers, Conn, Progress
    <3>2. ~ep[h].gone
      BY <3>1 DEF Persists
    <3>3. u \in ep[h].got
      BY <2>6, <3>2 DEF Came
    <3>4. h \in handlers
      <4>1. conn_new(h).got = {} /\ [conn_new(h) EXCEPT !.gone = TRUE].got = {}
        BY DEF conn_new
      <4> QED
        BY <3>1, <3>3, <4>1 DEF Inv, Fresh
    <3> PICK d : d = ep[h]
      OBVIOUS
    <3>5. Insists(d) /\ Settled(d)
      BY <3>4 DEF Persists
    <3>6. Conn(d) /\ d.server
      BY <3>4 DEF Inv
    <3>7. Answers(d)
      BY <3>5, <3>6 DEF Insists, Settled, Runs
    <3>8. d.rx > 0
      BY <3>5, <3>6 DEF Settled, Runs, Conn, Holds, Progress
    <3> QED
      BY <3>3, <3>4, <3>5, <3>7, <3>8
  <2> PICK d : d = ep[c.conn_id]
    OBVIOUS
  <2>7. CASE c.completed
    <3>1. c.state \in Over
      BY <2>2, <2>3, <2>5, <2>7 DEF Calm, Runs, Failed, Conn, Holds, ClientStates, Over
    <3>2. c.tx_ckm
      BY <2>3, <2>5, <3>1 DEF Calm
    <3>3. c.app = "sent"
      BY <2>1, <2>2, <2>4, <3>2 DEF Settled, Asks, Insists
    <3>4. c.negotiated /\ Came(c.conn_id, 3)
      BY <2>1, <2>4, <3>3 DEF Asks
    <3>5. /\ c.conn_id \in handlers /\ 3 \in d.got /\ Answers(d) /\ Settled(d) /\ d.rx > 0
      BY <2>6, <3>4
    <3>6. d.app # "none" /\ d.tx_ckm
      BY <3>5 DEF Answers
    <3>7. d.app = "sent" /\ d.rtb = {}
      <4>1. Insists(d) /\ ~d.alert
        BY <3>5 DEF Persists, Settled, Runs
      <4> QED
        BY <3>5, <3>6, <4>1 DEF Settled, Insists
    <3>8. Came(client, 3)
      BY <3>5, <3>7 DEF Answers
    <3> QED
      BY <2>2, <3>8 DEF Came
  <2>8. CASE ~c.completed
    <3>1. c.negotiated /\ Came(c.conn_id, 1)
      BY <2>1, <2>4, <2>8 DEF Asks
    <3>2. /\ c.conn_id \in handlers /\ Answers(d) /\ Settled(d) /\ d.rx > 0
      BY <2>6, <3>1
    <3>3. d.server /\ d.rtb = {}
      BY <3>2 DEF Inv
    <3>4. d.tx = 2
      BY <3>2, <3>3 DEF Answers, Settled
    <3>5. \A u \in 1..2 : u \in c.got
      BY <2>2, <2>8, <3>2, <3>3, <3>4 DEF Answers, Came
    <3>6. c.rx \in 0..2 /\ c.rx < 2 /\ c.rx + 1 \notin c.rob
          /\ \A u \in c.got \cap {1, 2} : u <= c.rx \/ u \in c.rob
      BY <2>3, <2>4, <2>8 DEF Asks, Conn, Progress
    <3>7. c.rx + 1 \in c.got \cap {1, 2}
      BY <3>5, <3>6
    <3> QED
      BY <3>6, <3>7
  <2> QED
    BY <2>7, <2>8
<1>2. Init => Inv /\ Evidence /\ Persists
  BY InvInit, BothInit
<1>3. Inv /\ Evidence /\ Persists /\ [Next]_vars => Inv' /\ Evidence' /\ Persists'
  BY InvStep, BothStep
<1> QED
  BY <1>1, <1>2, <1>3, PTL DEF Spec

=============================================================================
