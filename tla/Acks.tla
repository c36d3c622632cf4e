--------------------------------- MODULE Acks ---------------------------------
(***************************************************************************)
(* Acknowledgement: the tracker of received packets, lib/ngtcp2_acktr.c,   *)
(* the ring of sent ACK frames, lib/ngtcp2_ringbuf.c, the ACK frames and   *)
(* the timer of lib/ngtcp2_conn.c, and the shortened packet numbers that   *)
(* rest on what has been acknowledged.                                     *)
(*                                                                         *)
(* Two endpoints send packets through a network that loses and reorders    *)
(* them.  A packet is "hs" (Initial or Handshake, unprotected in the       *)
(* code's words), "0rtt" or "short"; of its other frames the model keeps   *)
(* whether they ask for an acknowledgement.  The tracker's list, sorted by *)
(* packet number without repetition, is a set.  An armed timer may have    *)
(* expired whenever the connection is asked to write.                      *)
(***************************************************************************)
EXTENDS Integers, Sequences, FiniteSets, FiniteSetsExt

CONSTANTS
    Client, Server,
    Budgets,                \* bounds: packets each endpoint may send
    NGTCP2_ACKTR_MAX_ENT,   \* 1024; less reaches the limit sooner
    NGTCP2_MAX_ACK_BLKS,    \* 255
    RingLen,                \* 128
    Bits                    \* <<8, 16, 32>>; fewer reach the end of a window

ASSUME AcksAssumption ==
    /\ Client # Server
    /\ Budgets \subseteq [{Client, Server} -> Nat]
    /\ NGTCP2_ACKTR_MAX_ENT \in Nat \ {0} /\ RingLen \in Nat \ {0}
    /\ NGTCP2_MAX_ACK_BLKS \in Nat
    /\ Bits \in Seq(Nat) /\ Len(Bits) = 3
    /\ Bits[1] < Bits[2] /\ Bits[2] < Bits[3]
    /\ \A i \in 1..3 : 2 ^ Bits[i] > 0   \* arithmetic; the provers have no theory of ^

Endpoint == {Client, Server}
Peer(e)  == IF e = Client THEN Server ELSE Client

VARIABLES
    conn,   \* the part of each ngtcp2_conn that acknowledgement touches
    net,    \* packets sent and not yet delivered
    told    \* what each endpoint has got, been told of, listed and dropped

vars == <<conn, net, told>>

---------------------------------------------------------------------------
(* Packet numbers.                                                         *)

(* A plausible slip: the length is chosen from the packets sent.           *)
select_from_last_tx(c, pn) ==
    LET n == (pn - c.last_tx) * 2 + 1
    IN  IF n > 2 ^ Bits[2] - 1 THEN Bits[3]
        ELSE IF n > 2 ^ Bits[1] - 1 THEN Bits[2] ELSE Bits[1]

conn_select_pkt_type(c, pn) ==
    LET n == (pn - c.largest_acked) * 2 + 1
    IN  IF n > 2 ^ Bits[2] - 1 THEN Bits[3]
        ELSE IF n > 2 ^ Bits[1] - 1 THEN Bits[2] ELSE Bits[1]

adjust_pkt_num(max_pkt_num, p, n) ==
    LET k == max_pkt_num + 1
        u == k - (k % 2 ^ n)
        a == u + p
        b == u + 2 ^ n + p
        Dist(x) == IF k < x THEN x - k ELSE k - x
    IN  IF Dist(a) < Dist(b) THEN a ELSE b

---------------------------------------------------------------------------
(* ACK frames.                                                             *)

(* The least number of each block, block 0 being the first.                *)
BlockLow(fr) ==
    LET lo[i \in 0..Len(fr.blks)] ==
            IF i = 0 THEN fr.largest_ack - fr.first_ack_blklen
            ELSE lo[i - 1] - fr.blks[i].gap - 2 - fr.blks[i].blklen
    IN  lo

Numbers(fr) ==
    LET lo == BlockLow(fr)
    IN  (lo[0] .. fr.largest_ack)
          \cup UNION {lo[i] .. (lo[i] + fr.blks[i].blklen) :
                        i \in 1..Len(fr.blks)}

validate_ack(fr) == \A i \in DOMAIN BlockLow(fr) : BlockLow(fr)[i] >= 0

(* decode_ack_frame keeps no more than NGTCP2_MAX_ACK_BLKS blocks.         *)
Decoded(fr) ==
    LET n == Min({Len(fr.blks), NGTCP2_MAX_ACK_BLKS})
    IN  [fr EXCEPT !.blks = SubSeq(@, 1, n)]

(* The runs of consecutive numbers in S, the highest first: [hi, lo].      *)
Runs(S) ==
    LET Ends == {n \in S : n + 1 \notin S}
        Run(h) == [hi |-> h, lo |-> Min({l \in S : (l..h) \subseteq S})]
        Nth(i) == CHOOSE h \in Ends : Cardinality({g \in Ends : g >= h}) = i
    IN  [i \in 1..Cardinality(Ends) |-> Run(Nth(i))]

(* A plausible slip: the gap is not counted from the block above.          *)
AckFrameGap(rs) ==
    [largest_ack |-> rs[1].hi, first_ack_blklen |-> rs[1].hi - rs[1].lo,
     blks |-> [i \in 1..(Len(rs) - 1) |->
                 [gap    |-> rs[1].lo - rs[i + 1].hi - 2,
                  blklen |-> rs[i + 1].hi - rs[i + 1].lo]]]

(* The frame with one block for each run of rs, the first one apart.       *)
AckFrame(rs) ==
    [largest_ack |-> rs[1].hi, first_ack_blklen |-> rs[1].hi - rs[1].lo,
     blks |-> [i \in 1..(Len(rs) - 1) |->
                 [gap    |-> rs[i].lo - rs[i + 1].hi - 2,
                  blklen |-> rs[i + 1].hi - rs[i + 1].lo]]]

---------------------------------------------------------------------------
(* The timer.                                                              *)

conn_invalidate_next_ack_expiry(c) ==
    [c EXCEPT !.next_ack_expiry = FALSE, !.immediate_ack = FALSE]

conn_set_next_ack_expiry(c) ==
    [c EXCEPT !.next_ack_expiry = TRUE, !.immediate_ack = FALSE]

conn_immediate_ack(c) == [c EXCEPT !.immediate_ack = TRUE]

(* Whether conn_next_ack_expired may return each of its answers.           *)
MayExpire(c, expired) ==
    IF expired THEN c.immediate_ack \/ c.next_ack_expiry ELSE ~c.immediate_ack

---------------------------------------------------------------------------
(* Creating and sending an ACK frame.                                      *)

(* The frame, if there is one to send, and the connection after it: when   *)
(* the runs outnumber the blocks the loop is left at the first entry of    *)
(* the run that does not fit, which becomes a block of its own, and that   *)
(* entry and all below it are forgotten.                                   *)
conn_create_ack_frame(c, unprotected) ==
    LET S    == {x.pn : x \in {y \in c.ent : unprotected => y.un}}
        rs   == Runs(S)
        n    == NGTCP2_MAX_ACK_BLKS + 1
        last == rs[n + 1].hi
    IN  IF ~c.active_ack \/ S = {}
        THEN [conn |-> conn_invalidate_next_ack_expiry(c), fr |-> {}]
        ELSE IF Len(rs) <= n
        THEN [conn |-> c, fr |-> {AckFrame(rs)}]
        ELSE [conn |-> [c EXCEPT !.ent = {x \in @ : x.pn > last}],
              fr   |-> {AckFrame(Append(SubSeq(rs, 1, n),
                                        [hi |-> last, lo |-> last]))}]

conn_commit_tx_ack(c) ==
    [conn_invalidate_next_ack_expiry(c) EXCEPT !.active_ack = FALSE]

(* The front of the ring is the newest frame; a full ring loses its oldest.*)
acktr_add_ack(c, pn, fr, un) ==
    LET acks == <<[pn |-> pn, fr |-> fr, un |-> un]>> \o c.acks
    IN  [c EXCEPT !.acks = SubSeq(acks, 1, Min({Len(acks), RingLen}))]

(* e sends a packet, with the ACK frame fr if there is one.                *)
Send(e, c, kind, elicits, fr) ==
    LET pn == c.last_tx + 1
        c1 == IF fr = {} THEN c
              ELSE acktr_add_ack(conn_commit_tx_ack(c), pn,
                                 CHOOSE f \in fr : TRUE, kind = "hs")
        b  == IF kind = "short" THEN conn_select_pkt_type(c, pn) ELSE Bits[3]
    IN  /\ pn <= c.budget
        /\ conn' = [conn EXCEPT ![e] =
                      [c1 EXCEPT !.last_tx = pn,
                                 !.rtb = IF elicits
                                         THEN @ \cup {[pn |-> pn, un |-> kind = "hs"]}
                                         ELSE @]]
        /\ net' = net \cup {[to |-> Peer(e), pn |-> pn, bits |-> b,
                             kind |-> kind, elicits |-> elicits, ack |-> fr]}
        /\ told' = [told EXCEPT ![e].listed = @ \cup UNION {Numbers(f) : f \in fr},
                                ![e].dropped = @ \cup {x.pn : x \in
                                                   conn[e].ent \ c.ent}]

(* The connection changes and nothing is sent.                             *)
Keep(e, c) ==
    /\ conn' = [conn EXCEPT ![e] = c]
    /\ UNCHANGED <<net, told>>

---------------------------------------------------------------------------
(* Writing.                                                                *)

(* A packet of the handshake: STREAM data, and an ACK when it is due.      *)
conn_write_handshake_pkt(e, expired) ==
    LET r == conn_create_ack_frame(conn[e], TRUE)
    IN  /\ ~conn[e].post
        /\ MayExpire(conn[e], expired)
        /\ Send(e, IF expired THEN r.conn ELSE conn[e], "hs", TRUE,
                IF expired THEN r.fr ELSE {})

conn_write_handshake_ack_pkt(e) ==
    LET r == conn_create_ack_frame(conn[e], TRUE)
    IN  /\ ~conn[e].post
        /\ MayExpire(conn[e], TRUE)
        /\ IF r.fr = {} THEN Keep(e, r.conn)
                        ELSE Send(e, r.conn, "hs", FALSE, r.fr)

(* conn_retransmit_unprotected repeats STREAM data without an ACK.         *)
conn_retransmit_unprotected(e) ==
    /\ \E x \in conn[e].rtb : x.un
    /\ Send(e, conn[e], "hs", TRUE, {})

(* A protected packet with the frames queued, or, elicits being FALSE, an  *)
(* ACK alone; conn_write_protected_ack_pkt comes to the latter.            *)
conn_write_pkt(e, elicits, expired) ==
    LET r  == conn_create_ack_frame(conn[e], FALSE)
        c  == IF expired THEN r.conn ELSE conn[e]
        fr == IF expired THEN r.fr ELSE {}
    IN  /\ conn[e].post
        /\ MayExpire(conn[e], expired)
        /\ elicits \/ expired
        /\ IF elicits \/ fr # {} THEN Send(e, c, "short", elicits, fr)
                                 ELSE Keep(e, c)

(* conn_retransmit_protected puts the ACK last and goes without it when it *)
(* does not fit; what was forgotten to make it is gone all the same.       *)
conn_retransmit_protected(e, fits) ==
    LET r == conn_create_ack_frame(conn[e], FALSE)
    IN  /\ conn[e].post
        /\ MayExpire(conn[e], TRUE)
        /\ \E x \in conn[e].rtb : ~x.un
        /\ Send(e, r.conn, "short", TRUE, IF fits THEN r.fr ELSE {})

(* ngtcp2_conn_write_stream never adds an ACK.  Before the handshake is    *)
(* over it makes 0-RTT packets, which only a client has.                   *)
conn_write_stream(e) ==
    /\ conn[e].post \/ e = Client
    /\ Send(e, conn[e], IF conn[e].post THEN "short" ELSE "0rtt", TRUE, {})

---------------------------------------------------------------------------
(* Receiving.                                                              *)

(* A plausible slip: an ACK for one frame clears what a newer one lists.   *)
acktr_recv_ack_newest(c, fr, unprotected) ==
    LET Hit == {j \in DOMAIN c.acks : c.acks[j].pn \in Numbers(fr)}
    IN  IF Hit = {} THEN c
        ELSE [c EXCEPT !.ent = {x \in @ : x.pn \notin Numbers(c.acks[1].fr)},
                       !.acks = <<>>]

(* Entries leave once a packet with a frame that listed them is known to   *)
(* have arrived; so does every older frame.                                *)
acktr_recv_ack(c, fr, unprotected) ==
    LET Hit == {j \in DOMAIN c.acks : /\ c.acks[j].pn \in Numbers(fr)
                                      /\ unprotected => c.acks[j].un}
        j   == Min(Hit)
    IN  IF Hit = {} THEN c
        ELSE [c EXCEPT !.ent = {x \in @ : x.pn \notin Numbers(c.acks[j].fr)},
                       !.acks = SubSeq(@, 1, j - 1)]

rtb_recv_ack(c, fr, unprotected) ==
    LET gone == {x \in c.rtb : x.pn \in Numbers(fr) /\ (unprotected => x.un)}
    IN  [c EXCEPT !.rtb = @ \ gone,
                  !.largest_acked = Max({@} \cup {x.pn : x \in gone})]

conn_recv_ack(c, fr, unprotected) ==
    IF ~validate_ack(fr) THEN [c EXCEPT !.err = TRUE]
    ELSE rtb_recv_ack(acktr_recv_ack(c, fr, unprotected), fr, unprotected)

(* The oldest entry makes room when the tracker is full.                   *)
acktr_add(c, pn, un, active_ack) ==
    LET ent == c.ent \cup {[pn |-> pn, un |-> un]}
        low == Min({x.pn : x \in ent})
    IN  IF \E x \in c.ent : x.pn = pn THEN [c EXCEPT !.err = TRUE]
        ELSE [c EXCEPT !.ent = IF Cardinality(ent) > NGTCP2_ACKTR_MAX_ENT
                               THEN {x \in ent : x.pn # low} ELSE ent,
                       !.active_ack = @ \/ active_ack]

(* A plausible slip: the timer is armed for the first packet only.         *)
conn_sched_ack_once(c, pn, active_ack, un) ==
    LET c1 == acktr_add(c, pn, un, active_ack)
    IN  IF c.ent = {} /\ c1.active_ack THEN conn_set_next_ack_expiry(c1) ELSE c1

conn_sched_ack(c, pn, active_ack, un) ==
    LET c1 == acktr_add(c, pn, un, active_ack)
    IN  IF ~c1.err /\ ~c1.immediate_ack /\ ~c1.next_ack_expiry /\ c1.active_ack
        THEN conn_set_next_ack_expiry(c1) ELSE c1

(* A short packet waits until the keys are there, a 0-RTT packet needs the *)
(* server's early key; a packet whose number comes out wrong does not      *)
(* decrypt and is gone.                                                    *)
conn_recv_pkt(e, p) ==
    LET pn == adjust_pkt_num(conn[e].max_rx, p.pn % 2 ^ p.bits, p.bits)
        un == p.kind = "hs"
        c1 == IF p.ack = {} THEN conn[e]
              ELSE conn_recv_ack(conn[e], Decoded(CHOOSE f \in p.ack : TRUE), un)
        c2 == IF c1.err THEN c1
              ELSE conn_sched_ack([c1 EXCEPT !.max_rx = Max({@, pn})], pn,
                                  p.elicits, un)
        heard == UNION {Numbers(Decoded(f)) : f \in p.ack}
    IN  /\ p.to = e
        /\ p.kind = "short" => conn[e].post
        /\ ~conn[e].err
        /\ net' = net \ {p}
        /\ IF pn # p.pn THEN UNCHANGED <<conn, told>>
           ELSE /\ conn' = [conn EXCEPT ![e] = c2]
                /\ told' = [told EXCEPT
                     ![e].got = @ \cup {[pn |-> pn, kind |-> p.kind,
                                         elicits |-> p.elicits]},
                     ![e].heard = @ \cup heard,
                     ![e].dropped = @ \cup ({x.pn : x \in c1.ent} \ {x.pn : x \in c2.ent})
                                      \cup ({pn} \ {x.pn : x \in c2.ent})]

(* ngtcp2_conn_close_stream asks for an ACK at once.                       *)
close_stream(e) ==
    /\ conn[e].post /\ ~conn[e].immediate_ack
    /\ Keep(e, conn_immediate_ack(conn[e]))

(* The handshake ends for e.                                               *)
handshake_completed(e) ==
    /\ ~conn[e].post /\ \E x \in told[e].got : x.kind = "hs"
    /\ Keep(e, [conn[e] EXCEPT !.post = TRUE])

---------------------------------------------------------------------------
Fresh == [ent |-> {}, acks |-> <<>>, active_ack |-> FALSE,
          next_ack_expiry |-> FALSE, immediate_ack |-> FALSE, last_tx |-> 0,
          largest_acked |-> 0, max_rx |-> 0, rtb |-> {}, post |-> FALSE,
          err |-> FALSE, budget |-> 0]

(* A connection is followed from its start, or from the end of its         *)
(* handshake.                                                              *)
Init == /\ \E post \in BOOLEAN, b \in Budgets :
             conn = [e \in Endpoint |-> [Fresh EXCEPT !.post = post,
                                                     !.budget = b[e]]]
        /\ net = {}
        /\ told = [e \in Endpoint |->
                     [got |-> {}, heard |-> {}, listed |-> {}, dropped |-> {}]]

WriteAck(e) == \/ conn_write_handshake_ack_pkt(e)
               \/ conn_write_pkt(e, FALSE, TRUE)

Write(e) == \/ \E expired \in BOOLEAN : \/ conn_write_handshake_pkt(e, expired)
                                        \/ conn_write_pkt(e, TRUE, expired)
            \/ conn_retransmit_unprotected(e)
            \/ \E fits \in BOOLEAN : conn_retransmit_protected(e, fits)
            \/ conn_write_stream(e)

Next == \E e \in Endpoint :
          /\ ~conn[e].err
          /\ \/ Write(e) \/ WriteAck(e) \/ close_stream(e) \/ handshake_completed(e)
             \/ \E p \in net : conn_recv_pkt(e, p)

Spec == Init /\ [][Next]_vars

---------------------------------------------------------------------------
(* Properties.                                                             *)

Got(e)  == {x.pn : x \in told[e].got}
Kept(e) == {x.pn : x \in conn[e].ent}

(* No endpoint acknowledges a packet it has not received, and an ACK in an *)
(* unprotected packet lists unprotected packets only, whatever gaps and    *)
(* limits conn_create_ack_frame met: every frame on its way or kept in the *)
(* ring is one that pkt_validate_ack accepts and lists numbers received.   *)
ListedWereGot ==
    /\ \A e \in Endpoint : ~conn[e].err
    /\ \A p \in net : \A f \in p.ack :
         /\ validate_ack(f)
         /\ Numbers(f) \subseteq {x.pn : x \in
              {y \in told[Peer(p.to)].got : p.kind = "hs" => y.kind = "hs"}}

(* ngtcp2_acktr forgets a packet only when the peer is known to have been  *)
(* told of it: a received number is in the tracker, or was dropped at a    *)
(* limit, or the peer has processed an ACK frame that lists it.  The       *)
(* tracker itself never exceeds its limit.                                 *)
KeptUntilHeard ==
    \A e \in Endpoint :
      /\ Got(e) \subseteq Kept(e) \cup told[e].dropped \cup told[Peer(e)].heard
      /\ Cardinality(conn[e].ent) <= NGTCP2_ACKTR_MAX_ENT

(* conn_select_pkt_type sends enough bits: a packet newer than all that    *)
(* the receiver has seen is given its own number by adjust_pkt_num,        *)
(* whatever was lost before it.  (One that was overtaken may not be: the   *)
(* window below is never a candidate.)                                     *)
NewestRecovered ==
    \A p \in net :
      p.pn > conn[p.to].max_rx =>
        adjust_pkt_num(conn[p.to].max_rx, p.pn % 2 ^ p.bits, p.bits) = p.pn

(* The delayed-ACK timer never loses a packet: as long as a received       *)
(* packet that asks for it has been listed in no ACK frame, active_ack is  *)
(* set and the timer runs or has an ACK written at once, so that the next  *)
(* expiry lists it.  0-RTT packets are left out: an ACK written during the *)
(* handshake clears active_ack, or the timer, without listing them, and    *)
(* the client repeats them.                                                *)
OwedIsTimed ==
    \A e \in Endpoint :
      \A x \in told[e].got :
        (/\ x.elicits /\ x.kind # "0rtt"
         /\ x.pn \notin told[e].listed \cup told[e].dropped)
          => /\ conn[e].active_ack /\ x.pn \in Kept(e)
             /\ conn[e].next_ack_expiry \/ conn[e].immediate_ack

=============================================================================
