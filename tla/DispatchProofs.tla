---------------------------- MODULE DispatchProofs ----------------------------
(***************************************************************************)
(* Theorems about Dispatch.tla, for any data centers, connections,         *)
(* measurements and losses.                                                *)
(***************************************************************************)
EXTENDS Dispatch, FiniteSetTheorems, TLAPS

(* How many datagrams forwarding a packet creates.                         *)

\* The places of a destination list that go to the datagram g.
Places(d, dests, g) ==
    { i \in DOMAIN dests :
        /\ dests[i] = g.dc
        /\ IF g.dc = d THEN g.at = "server"
           ELSE g.at = "dispatcher" /\ g.dc \in Tunnels[d] }

\* What a forwarding loop puts on the wire is a finite number of datagrams.
LEMMA PlacesFinite ==
    ASSUME NEW d, NEW dests \in Seq(DC), NEW g
    PROVE  /\ IsFiniteSet(Places(d, dests, g))
           /\ Cardinality(Places(d, dests, g)) \in Nat
           /\ Cardinality(Places(d, dests, g)) <= Len(dests)
           /\ Cardinality(Places(d, dests, g)) > 0 => Places(d, dests, g) # {}
<1> DEFINE S == Places(d, dests, g)
<1>1. /\ Len(dests) \in Nat
      /\ DOMAIN dests = 1 .. Len(dests)
  OBVIOUS
<1>2. /\ IsFiniteSet(1 .. Len(dests))
      /\ Cardinality(1 .. Len(dests)) = Len(dests)
  BY <1>1, FS_Interval, SMT
<1>3. S \subseteq 1 .. Len(dests)
  BY <1>1 DEF Places
<1>4. /\ IsFiniteSet(S)
      /\ Cardinality(S) <= Cardinality(1 .. Len(dests))
  BY <1>2, <1>3, FS_Subset
<1>5. Cardinality(S) \in Nat
  BY <1>4, FS_CardinalityType
<1>6. Cardinality(S) > 0 => S # {}
  BY FS_EmptySet, SMT
<1> QED
  BY <1>2, <1>4, <1>5, <1>6

\* Copies counts them for the packet forwarded, and is zero for any other.
LEMMA CopiesType ==
    ASSUME NEW d, NEW c, NEW pn, NEW dests \in Seq(DC), NEW g
    PROVE  Copies(d, c, pn, dests, g) \in Nat
<1>1. Copies(d, c, pn, dests, g) =
        IF g.conn # c \/ g.pn # pn THEN 0
        ELSE Cardinality(Places(d, dests, g))
  BY DEF Copies, Places
<1> QED
  BY <1>1, PlacesFinite

-----------------------------------------------------------------------------
(* Type correctness.                                                       *)

\* Every reachable state is well typed; in particular the datagrams in
\* flight are never a negative number.
THEOREM TypeCorrect == Spec => []TypeOK
<1>1. Init => TypeOK
  BY DispatchAssumption DEF Init, TypeOK, Handler
<1>2. TypeOK /\ [Next]_vars => TypeOK'
  <2> SUFFICES ASSUME TypeOK, [Next]_vars PROVE TypeOK'
    OBVIOUS
  <2> USE DispatchAssumption
  <2>1. ASSUME NEW g \in Datagram, Lose(g) PROVE TypeOK'
    BY <2>1 DEF TypeOK, Lose, server
  <2>2. ASSUME NEW d \in DC, NEW c \in Conns, ClientSend(c, d) PROVE TypeOK'
    <3> DEFINE g == [at |-> "dispatcher", dc |-> d, conn |-> c,
                     pn |-> tx[c] + 1]
    <3>1. /\ net' = [net EXCEPT ![g] = @ + 1]
          /\ tx' = [tx EXCEPT ![c] = @ + 1]
          /\ UNCHANGED << handlers, ctos, server, replies, peer, lost >>
      BY <2>2 DEF ClientSend
    <3>2. g \in Datagram
      BY <2>2 DEF ClientSend, Datagram, PN, TypeOK
    <3>3. tx' \in [Conns -> 0 .. MaxTx]
      BY <2>2 DEF ClientSend, TypeOK
    <3> HIDE DEF g
    <3> QED
      BY <3>1, <3>2, <3>3 DEF TypeOK, server
  <2>3. ASSUME NEW d \in DC, NEW c \in Conns, ClientRecv(c, d) PROVE TypeOK'
    BY <2>3 DEF TypeOK, ClientRecv, server
  <2>4. ASSUME NEW d \in DC, NEW c \in Conns, ServerReply(d, c) PROVE TypeOK'
    BY <2>4 DEF TypeOK, ServerReply, server
  <2>5. ASSUME NEW d \in DC, NEW c \in Conns,
               \/ LoseReply(d, c)
               \/ ServerGiveUp(d, c)
               \/ ServerTimeout(d, c)
        PROVE  TypeOK'
    <3>1. /\ UNCHANGED << net, handlers, ctos, tx, peer, taken >>
          /\ replies' \subseteq replies
          /\ lost' \in Nat
      BY <2>5 DEF LoseReply, ServerGiveUp, ServerTimeout, server, TypeOK
    <3>2. /\ srv' = srv \/ srv' = [srv EXCEPT ![d][c] = {}]
          /\ ending' \subseteq ending \cup {<< d, c >>}
      BY <2>5 DEF LoseReply, ServerGiveUp, ServerTimeout, ServerError,
                  ServerRemove, server
    <3>3. /\ srv' \in [DC -> [Conns -> SUBSET PN]]
          /\ ending' \in SUBSET (DC \X Conns)
          /\ replies' \in SUBSET (DC \X Conns)
      <4>1. srv' \in [DC -> [Conns -> SUBSET PN]]
        <5>1. CASE srv' = srv
          BY <5>1 DEF TypeOK
        <5>2. CASE srv' = [srv EXCEPT ![d][c] = {}]
          BY <5>2 DEF TypeOK
        <5> QED
          BY <3>2, <5>1, <5>2
      <4>2. ending' \in SUBSET (DC \X Conns)
        BY <3>2 DEF TypeOK
      <4>3. replies' \in SUBSET (DC \X Conns)
        BY <3>1 DEF TypeOK
      <4> QED
        BY <4>1, <4>2, <4>3
    <3> QED
      BY <3>1, <3>3 DEF TypeOK
  <2>6. ASSUME NEW d \in DC, NEW c \in Conns, NEW pn \in PN,
               NEW s \in ServerIds, DispatcherNew(d, c, pn, s)
        PROVE  TypeOK'
    <3> DEFINE g == [at |-> "dispatcher", dc |-> d, conn |-> c, pn |-> pn]
    <3>1. PICK dests \in Routes(d, c) :
            net' = [h \in Datagram |-> net[h] - (IF h = g THEN 1 ELSE 0)
                                             + Copies(d, c, pn, dests, h)]
      BY <2>6 DEF DispatcherNew
    <3>2. dests \in Seq(DC)
      BY <3>1
    <3>3. \A h \in Datagram : Copies(d, c, pn, dests, h) \in Nat
      BY <3>2, CopiesType
    <3>4. net[g] > 0 /\ net \in [Datagram -> Nat]
      BY <2>6 DEF DispatcherNew, TypeOK
    <3>5. net' \in [Datagram -> Nat]
      <4> HIDE DEF g
      <4> QED BY <3>1, <3>3, <3>4
    <3>6. /\ handlers' \in [DC -> [ServerIds -> Handler \cup {None}]]
          /\ ctos' \in [DC -> [Conns -> ServerIds \cup {None}]]
          /\ UNCHANGED << server, replies, tx, peer, lost >>
      BY <2>6 DEF DispatcherNew, TypeOK, Handler
    <3> QED
      BY <3>5, <3>6 DEF TypeOK, server
  <2>7. ASSUME NEW d \in DC, NEW c \in Conns, NEW pn \in PN,
               DispatcherKnown(d, c, pn)
        PROVE  TypeOK'
    <3> DEFINE g == [at |-> "dispatcher", dc |-> d, conn |-> c, pn |-> pn]
    <3>1. /\ net[g] > 0
          /\ net' = [net EXCEPT ![g] = @ - 1]
          /\ UNCHANGED << server, replies, tx, peer, lost >>
      BY <2>7 DEF DispatcherKnown
    <3>2. g \in Datagram
      BY DEF Datagram
    <3>3. \/ UNCHANGED << handlers, ctos >>
          \/ remove(d, ctos[d][c])
          \/ RemoveAll(d)
      BY <2>7 DEF DispatcherKnown
    <3>4. /\ handlers' \in [DC -> [ServerIds -> Handler \cup {None}]]
          /\ ctos' \in [DC -> [Conns -> ServerIds \cup {None}]]
      <4>1. CASE UNCHANGED << handlers, ctos >>
        BY <4>1 DEF TypeOK
      <4>2. CASE remove(d, ctos[d][c])
        BY <4>2 DEF remove, TypeOK
      <4>3. CASE RemoveAll(d)
        BY <4>3 DEF RemoveAll, TypeOK
      <4> QED
        BY <3>3, <4>1, <4>2, <4>3
    <3> HIDE DEF g
    <3> QED
      BY <3>1, <3>2, <3>4 DEF TypeOK, server
  <2>8. ASSUME NEW d \in DC, NEW c \in Conns, NEW pn \in PN,
               ServerRecv(d, c, pn)
        PROVE  TypeOK'
    <3> DEFINE g == [at |-> "server", dc |-> d, conn |-> c, pn |-> pn]
    <3>1. /\ net[g] > 0
          /\ net' = [net EXCEPT ![g] = @ - 1]
          /\ UNCHANGED << handlers, ctos, tx, peer, lost >>
      BY <2>8 DEF ServerRecv
    <3>2. g \in Datagram
      BY DEF Datagram
    <3>3. /\ \/ srv' = [srv EXCEPT ![d][c] = @ \cup {pn}]
             \/ srv' = [srv EXCEPT ![d][c] = {}]
             \/ UNCHANGED srv
          /\ ending' \subseteq ending \cup {<< d, c >>}
          /\ replies' \subseteq replies \cup {<< d, c >>}
          /\ UNCHANGED taken \/ taken' = [taken EXCEPT ![c][pn] = @ + 1]
      BY <2>8 DEF ServerRecv, ServerError, ServerRemove, server
    <3>4. srv' \in [DC -> [Conns -> SUBSET PN]]
      <4>1. srv[d][c] \cup {pn} \in SUBSET PN
        BY DEF TypeOK
      <4>2. CASE srv' = [srv EXCEPT ![d][c] = @ \cup {pn}]
        BY <4>1, <4>2 DEF TypeOK
      <4>3. CASE srv' = [srv EXCEPT ![d][c] = {}]
        BY <4>3 DEF TypeOK
      <4>4. CASE UNCHANGED srv
        BY <4>4 DEF TypeOK
      <4> QED
        BY <3>3, <4>2, <4>3, <4>4
    <3>5. taken' \in [Conns -> [PN -> Nat]]
      <4>1. CASE UNCHANGED taken
        BY <4>1 DEF TypeOK
      <4>2. CASE taken' = [taken EXCEPT ![c][pn] = @ + 1]
        <5>1. taken[c][pn] + 1 \in Nat
          BY DEF TypeOK
        <5> QED
          BY <4>2, <5>1 DEF TypeOK
      <4> QED
        BY <3>3, <4>1, <4>2
    <3>6. ending' \in SUBSET (DC \X Conns) /\ replies' \in SUBSET (DC \X Conns)
      BY <3>3 DEF TypeOK
    <3> HIDE DEF g
    <3> QED
      BY <3>1, <3>2, <3>4, <3>5, <3>6 DEF TypeOK
  <2>9. ASSUME NEW d \in DC, NEW s \in ServerIds, retransmitcb(d, s)
        PROVE  TypeOK'
    BY <2>9 DEF TypeOK, retransmitcb, remove, Handler, server
  <2>10. ASSUME NEW d \in DC, NEW s \in ServerIds, timeoutcb(d, s)
         PROVE  TypeOK'
    <3>1. UNCHANGED << net, server, replies, tx, peer, lost >>
      BY <2>10 DEF timeoutcb
    <3>2. CASE remove(d, s)
      BY <3>1, <3>2 DEF TypeOK, remove, server
    <3>3. CASE /\ handlers' = [handlers EXCEPT ![d][s].draining = TRUE]
               /\ UNCHANGED ctos
      <4>1. handlers[d][s] \in Handler
        BY <2>10 DEF timeoutcb, TypeOK
      <4>2. [handlers[d][s] EXCEPT !.draining = TRUE] \in Handler
        BY <4>1 DEF Handler
      <4>3. handlers' = [handlers EXCEPT ![d][s] =
                           [handlers[d][s] EXCEPT !.draining = TRUE]]
        BY <3>3 DEF TypeOK
      <4> QED
        BY <3>1, <3>3, <4>2, <4>3 DEF TypeOK, server
    <3> QED
      BY <2>10, <3>2, <3>3 DEF timeoutcb
  <2>11. ASSUME NEW d \in DC, DispatcherRestart(d) PROVE TypeOK'
    BY <2>11 DEF TypeOK, DispatcherRestart, RemoveAll, server
  <2>12. ASSUME NEW d \in DC, ServerRestart(d) PROVE TypeOK'
    <3>1. srv' \in [DC -> [Conns -> SUBSET PN]]
      BY <2>12 DEF TypeOK, ServerRestart
    <3>2. ending' \in SUBSET (DC \X Conns)
      BY <2>12 DEF TypeOK, ServerRestart
    <3> QED
      BY <2>12, <3>1, <3>2 DEF TypeOK, ServerRestart
  <2>13. CASE UNCHANGED vars
    BY <2>13 DEF TypeOK, vars, server
  <2> QED
    BY <2>1, <2>2, <2>3, <2>4, <2>5, <2>6, <2>7, <2>8, <2>9, <2>10, <2>11,
       <2>12, <2>13 DEF Next
<1> QED
  BY <1>1, <1>2, PTL DEF Spec

-----------------------------------------------------------------------------
(* The tables of a dispatcher.                                             *)

\* Erasing one Handler with Server::remove keeps the tables in step: only
\* the entry of its own client goes with it.
LEMMA RemoveConsistent ==
    ASSUME TypeOK, TableConsistent,
           NEW d \in DC, NEW s \in ServerIds,
           handlers[d][s] # None, remove(d, s)
    PROVE  TableConsistent'
<1>1. /\ handlers[d][s].client \in Conns
      /\ ctos[d][handlers[d][s].client] = s
  BY DEF TypeOK, TableConsistent, Handler
<1>2. \A e \in DC, t \in ServerIds :
        handlers'[e][t] = IF e = d /\ t = s THEN None ELSE handlers[e][t]
  BY DEF remove, TypeOK
<1>3. \A e \in DC, c \in Conns :
        ctos'[e][c] = IF e = d /\ c = handlers[d][s].client THEN None
                      ELSE ctos[e][c]
  BY <1>1 DEF remove, TypeOK
<1>4. \A e \in DC, t \in ServerIds :
        handlers[e][t] # None => handlers[e][t].client \in Conns
  BY DEF TypeOK, Handler
<1>5. \A e \in DC, c \in Conns : ctos[e][c] # None => ctos[e][c] \in ServerIds
  BY DEF TypeOK
<1> QED
  BY <1>1, <1>2, <1>3, <1>4, <1>5 DEF TableConsistent

\* Server::disconnect and the end of every connection empty both tables.
LEMMA RemoveAllConsistent ==
    ASSUME TypeOK, TableConsistent, NEW d \in DC, RemoveAll(d)
    PROVE  TableConsistent'
<1>1. \A e \in DC, t \in ServerIds :
        handlers'[e][t] = IF e = d THEN None ELSE handlers[e][t]
  BY DEF RemoveAll, TypeOK
<1>2. \A e \in DC, c \in Conns :
        ctos'[e][c] = IF e = d THEN None ELSE ctos[e][c]
  BY DEF RemoveAll, TypeOK
<1>3. \A e \in DC, t \in ServerIds :
        handlers[e][t] # None => handlers[e][t].client \in Conns
  BY DEF TypeOK, Handler
<1>4. \A e \in DC, c \in Conns : ctos[e][c] # None => ctos[e][c] \in ServerIds
  BY DEF TypeOK
<1> QED
  BY <1>1, <1>2, <1>3, <1>4 DEF TableConsistent

\* The assertion in Server::on_read never fails: in every dispatcher the
\* Handler that ctos_ names for a connection exists and is that
\* connection's, whatever timers, restarts, losses and the ends of other
\* connections do in between.
THEOREM TablesAgree == Spec => []TableConsistent
<1>1. Init => TableConsistent
  BY DEF Init, TableConsistent
<1>2. TypeOK /\ TableConsistent /\ [Next]_vars => TableConsistent'
  <2> SUFFICES ASSUME TypeOK, TableConsistent, [Next]_vars
               PROVE  TableConsistent'
    OBVIOUS
  <2> USE DispatchAssumption
  <2>1. CASE UNCHANGED << handlers, ctos >>
    BY <2>1 DEF TableConsistent
  <2>2. ASSUME NEW d \in DC, NEW c \in Conns, NEW pn \in PN,
               NEW s \in ServerIds, DispatcherNew(d, c, pn, s)
        PROVE  TableConsistent'
    <3> DEFINE new == [client |-> c, seen |-> {pn}, draining |-> FALSE]
    <3>1. /\ ctos[d][c] = None
          /\ handlers[d][s] = None
          /\ handlers' = [handlers EXCEPT ![d][s] = new]
          /\ ctos' = [ctos EXCEPT ![d][c] = s]
      BY <2>2 DEF DispatcherNew
    <3>2. /\ new.client = c
          /\ new # None
      <4>1. new \in Handler
        BY DEF Handler
      <4> QED
        BY <4>1
    <3> HIDE DEF new
    <3>3. \A e \in DC, t \in ServerIds :
            handlers'[e][t] = IF e = d /\ t = s THEN new ELSE handlers[e][t]
      BY <3>1 DEF TypeOK
    <3>4. \A e \in DC, b \in Conns :
            ctos'[e][b] = IF e = d /\ b = c THEN s ELSE ctos[e][b]
      BY <3>1 DEF TypeOK
    <3>5. \A e \in DC, t \in ServerIds :
            handlers[e][t] # None => handlers[e][t].client \in Conns
      BY DEF TypeOK, Handler
    <3>6. \A e \in DC, b \in Conns :
            ctos[e][b] # None => ctos[e][b] \in ServerIds
      BY DEF TypeOK
    <3> QED
      BY <3>1, <3>2, <3>3, <3>4, <3>5, <3>6 DEF TableConsistent
  <2>3. ASSUME NEW d \in DC, NEW c \in Conns, NEW pn \in PN,
               DispatcherKnown(d, c, pn)
        PROVE  TableConsistent'
    <3>1. /\ ctos[d][c] \in ServerIds
          /\ handlers[d][ctos[d][c]] # None
      BY <2>3 DEF DispatcherKnown, TypeOK, TableConsistent
    <3>2. \/ UNCHANGED << handlers, ctos >>
          \/ remove(d, ctos[d][c])
          \/ RemoveAll(d)
      BY <2>3 DEF DispatcherKnown
    <3> QED
      BY <2>1, <3>1, <3>2, RemoveConsistent, RemoveAllConsistent
  <2>4. ASSUME NEW d \in DC, NEW s \in ServerIds, retransmitcb(d, s)
        PROVE  TableConsistent'
    BY <2>4, RemoveConsistent DEF retransmitcb
  <2>5. ASSUME NEW d \in DC, NEW s \in ServerIds, timeoutcb(d, s)
        PROVE  TableConsistent'
    <3>1. CASE remove(d, s)
      BY <2>5, <3>1, RemoveConsistent DEF timeoutcb
    <3>2. CASE /\ handlers' = [handlers EXCEPT ![d][s].draining = TRUE]
               /\ UNCHANGED ctos
      <4>1. handlers[d][s] \in Handler
        BY <2>5 DEF timeoutcb, TypeOK
      <4> DEFINE new == [handlers[d][s] EXCEPT !.draining = TRUE]
      <4>2. /\ new.client = handlers[d][s].client
            /\ new # None
        BY <4>1 DEF Handler
      <4>3. handlers' = [handlers EXCEPT ![d][s] = new]
        BY <3>2 DEF TypeOK
      <4> HIDE DEF new
      <4>4. \A e \in DC, t \in ServerIds :
              handlers'[e][t] = IF e = d /\ t = s THEN new ELSE handlers[e][t]
        BY <4>3 DEF TypeOK
      <4>5. handlers[d][s] # None
        BY <2>5 DEF timeoutcb
      <4>6. \A e \in DC, t \in ServerIds :
              /\ handlers'[e][t] # None <=> handlers[e][t] # None
              /\ handlers'[e][t].client = handlers[e][t].client
        BY <4>2, <4>4, <4>5
      <4>7. \A e \in DC, b \in Conns :
              ctos[e][b] # None => ctos[e][b] \in ServerIds
        BY DEF TypeOK
      <4> QED
        BY <3>2, <4>6, <4>7 DEF TableConsistent
    <3> QED
      BY <2>5, <3>1, <3>2 DEF timeoutcb
  <2>6. ASSUME NEW d \in DC, DispatcherRestart(d) PROVE TableConsistent'
    BY <2>6, RemoveAllConsistent DEF DispatcherRestart
  <2>7. ASSUME \/ UNCHANGED vars
               \/ \E g \in Datagram : Lose(g)
               \/ \E d \in DC, c \in Conns :
                    \/ ClientSend(c, d) \/ ClientRecv(c, d)
                    \/ LoseReply(d, c) \/ ServerReply(d, c)
                    \/ ServerGiveUp(d, c) \/ ServerTimeout(d, c)
                    \/ \E pn \in PN : ServerRecv(d, c, pn)
               \/ \E d \in DC : ServerRestart(d)
        PROVE  UNCHANGED << handlers, ctos >>
    <3>1. CASE UNCHANGED vars
      BY <3>1 DEF vars
    <3>2. ASSUME NEW g \in Datagram, Lose(g)
          PROVE  UNCHANGED << handlers, ctos >>
      BY <3>2 DEF Lose
    <3>3. ASSUME NEW d \in DC, NEW c \in Conns,
                 \/ ClientSend(c, d) \/ ClientRecv(c, d)
                 \/ LoseReply(d, c) \/ ServerReply(d, c)
                 \/ ServerGiveUp(d, c) \/ ServerTimeout(d, c)
          PROVE  UNCHANGED << handlers, ctos >>
      BY <3>3 DEF ClientSend, ClientRecv, LoseReply, ServerReply,
                  ServerGiveUp, ServerTimeout
    <3>4. ASSUME NEW d \in DC, NEW c \in Conns, NEW pn \in PN,
                 ServerRecv(d, c, pn)
          PROVE  UNCHANGED << handlers, ctos >>
      BY <3>4 DEF ServerRecv
    <3>5. ASSUME NEW d \in DC, ServerRestart(d)
          PROVE  UNCHANGED << handlers, ctos >>
      BY <3>5 DEF ServerRestart
    <3> QED
      BY <2>7, <3>1, <3>2, <3>3, <3>4, <3>5
  <2> QED
    BY <2>1, <2>2, <2>3, <2>4, <2>5, <2>6, <2>7 DEF Next
<1> QED
  BY <1>1, <1>2, TypeCorrect, PTL DEF Spec

-----------------------------------------------------------------------------
(* Forwarding without redundancy.                                          *)

\* A loop that stops after one destination emits one datagram at most.
LEMMA CopiesSingle ==
    ASSUME NEW d, NEW c, NEW pn,
           NEW dests \in Seq(DC), Len(dests) <= 1,
           NEW g \in Datagram, NEW h \in Datagram
    PROVE  /\ Copies(d, c, pn, dests, g) \in {0, 1}
           /\ Copies(d, c, pn, dests, g) > 0 => Same(g, c, pn)
           /\ (/\ Copies(d, c, pn, dests, g) > 0
               /\ Copies(d, c, pn, dests, h) > 0) => g = h
<1>1. \A f : Copies(d, c, pn, dests, f) =
                IF f.conn # c \/ f.pn # pn THEN 0
                ELSE Cardinality(Places(d, dests, f))
  BY DEF Copies, Places
<1>2. \A f : /\ Cardinality(Places(d, dests, f)) \in {0, 1}
             /\ Cardinality(Places(d, dests, f)) > 0 =>
                  Places(d, dests, f) # {}
  BY PlacesFinite
<1>3. ASSUME NEW f, Places(d, dests, f) # {}
      PROVE  /\ dests[1] = f.dc
             /\ f.at = IF f.dc = d THEN "server" ELSE "dispatcher"
  BY <1>3 DEF Places
<1>4. ASSUME Copies(d, c, pn, dests, g) > 0, Copies(d, c, pn, dests, h) > 0
      PROVE  g = h
  <2>1. /\ g.conn = c /\ g.pn = pn /\ h.conn = c /\ h.pn = pn
        /\ Places(d, dests, g) # {}
        /\ Places(d, dests, h) # {}
    BY <1>1, <1>2, <1>4
  <2>2. g.dc = h.dc /\ g.at = h.at
    BY <1>3, <2>1
  <2> QED
    BY <2>1, <2>2 DEF Datagram
<1> QED
  BY <1>1, <1>2, <1>4 DEF Same

\* There is one datagram at most of every transmission in flight.
Alone ==
    \A g \in Datagram : net[g] > 0 =>
      /\ net[g] = 1
      /\ \A h \in Datagram :
           (net[h] > 0 /\ Same(h, g.conn, g.pn)) => h = g

\* No server has read a transmission that is in flight.
Unread == \A g \in Datagram : net[g] > 0 => taken[g.conn][g.pn] = 0

\* What a server tracks it has read.
KnownRead ==
    \A d \in DC, c \in Conns : \A pn \in srv[d][c] : taken[c][pn] # 0

\* A packet number in flight or read by a server has been transmitted.
Transmitted ==
    /\ \A g \in Datagram : net[g] > 0 => g.pn <= tx[g.conn]
    /\ \A c \in Conns, pn \in PN : taken[c][pn] # 0 => pn <= tx[c]

CopyInv == Alone /\ Unread /\ KnownRead /\ Transmitted /\ TakenOnce

\* The packet number and connection of a datagram have their types.
LEMMA DatagramFields ==
    \A g \in Datagram : g.conn \in Conns /\ g.pn \in PN /\ g.pn \in Nat
BY DEF Datagram, PN

\* The invariant says that there is a single copy: what is in flight is not
\* tracked by any server, since none has read it.
LEMMA CopySingle == ASSUME TypeOK, CopyInv PROVE SingleCopy
<1>1. \A g \in Datagram : net[g] > 0 =>
        \A d \in DC : g.pn \notin srv[d][g.conn]
  BY DatagramFields DEF CopyInv, Unread, KnownRead
<1> QED
  BY <1>1 DEF CopyInv, Alone, SingleCopy

\* Losing datagrams, and servers forgetting what they tracked, keep CopyInv.
LEMMA FewerCopies ==
    ASSUME TypeOK, CopyInv,
           \A g \in Datagram : net'[g] > 0 => net'[g] = net[g],
           \A d \in DC, c \in Conns : srv'[d][c] \subseteq srv[d][c],
           UNCHANGED << tx, taken >>
    PROVE  CopyInv'
<1>1. \A g \in Datagram : net'[g] > 0 => net[g] > 0 /\ net'[g] = net[g]
  OBVIOUS
<1>2. Alone'
  BY <1>1 DEF CopyInv, Alone
<1>3. Unread'
  BY <1>1 DEF CopyInv, Unread
<1>4. KnownRead'
  BY DEF CopyInv, KnownRead
<1>5. Transmitted'
  BY <1>1 DEF CopyInv, Transmitted
<1>6. TakenOnce'
  BY DEF CopyInv, TakenOnce
<1> QED
  BY <1>2, <1>3, <1>4, <1>5, <1>6 DEF CopyInv

\* A datagram that is taken out of the network was the only one.
LEMMA ConsumeCopy ==
    ASSUME TypeOK, CopyInv,
           NEW g \in Datagram, net[g] > 0,
           net' = [net EXCEPT ![g] = @ - 1]
    PROVE  \A h \in Datagram : net'[h] > 0 =>
             /\ net[h] > 0
             /\ net'[h] = net[h]
             /\ ~ Same(h, g.conn, g.pn)
<1>1. \A h \in Datagram : net'[h] = IF h = g THEN net[h] - 1 ELSE net[h]
  BY DEF TypeOK
<1>2. net[g] = 1
  BY DEF CopyInv, Alone
<1>3. \A h \in Datagram : (net[h] > 0 /\ Same(h, g.conn, g.pn)) => h = g
  BY DEF CopyInv, Alone
<1> QED
  BY <1>1, <1>2, <1>3

\* Reading a datagram of (c, pn) and emitting one datagram of it at most
\* keeps CopyInv.
LEMMA ForwardCopy ==
    ASSUME TypeOK, CopyInv, Redundancy = 0,
           NEW d \in DC, NEW c \in Conns, NEW pn \in PN, NEW s \in ServerIds,
           DispatcherNew(d, c, pn, s)
    PROVE  CopyInv'
<1> DEFINE g == [at |-> "dispatcher", dc |-> d, conn |-> c, pn |-> pn]
<1>1. /\ g \in Datagram
      /\ g.conn = c
      /\ g.pn = pn
  BY DEF Datagram
<1>2. PICK dests \in Routes(d, c) :
        net' = [h \in Datagram |-> net[h] - (IF h = g THEN 1 ELSE 0)
                                         + Copies(d, c, pn, dests, h)]
  BY DEF DispatcherNew
<1>3. dests \in Seq(DC) /\ Len(dests) <= 1
  BY DispatchAssumption
<1>4. net[g] > 0 /\ UNCHANGED << srv, taken, tx >>
  BY DEF DispatcherNew, server
<1> DEFINE new(h) == Copies(d, c, pn, dests, h)
<1>5. \A h, f \in Datagram : /\ new(h) \in {0, 1}
                             /\ new(h) > 0 => Same(h, c, pn)
                             /\ (new(h) > 0 /\ new(f) > 0) => h = f
  BY <1>3, CopiesSingle
<1>6. \A h \in Datagram :
        net'[h] = net[h] - (IF h = g THEN 1 ELSE 0) + new(h)
  BY <1>2
<1> HIDE DEF g, new
<1>7. \A h \in Datagram : Same(h, c, pn) => net'[h] = new(h)
  <2>1. net[g] = 1
    BY <1>1, <1>4 DEF CopyInv, Alone
  <2>2. ASSUME NEW h \in Datagram, Same(h, c, pn), h # g
        PROVE  net[h] = 0
    <3>1. ~ (net[h] > 0)
      BY <2>2, <1>1, <1>4 DEF CopyInv, Alone
    <3> QED
      BY <3>1 DEF TypeOK
  <2>3. \A h \in Datagram : new(h) \in Nat
    BY <1>5
  <2> QED
    BY <1>1, <1>6, <2>1, <2>2, <2>3
<1>8. \A h \in Datagram : ~ Same(h, c, pn) => net'[h] = net[h]
  BY <1>1, <1>5, <1>6 DEF Same, TypeOK
<1>9. Alone'
  <2> SUFFICES ASSUME NEW h \in Datagram, net'[h] > 0
               PROVE  /\ net'[h] = 1
                      /\ \A f \in Datagram :
                           (net'[f] > 0 /\ Same(f, h.conn, h.pn)) => f = h
    BY DEF Alone
  <2>1. CASE Same(h, c, pn)
    BY <2>1, <1>5, <1>7 DEF Same
  <2>2. CASE ~ Same(h, c, pn)
    BY <2>2, <1>8 DEF Same, CopyInv, Alone
  <2> QED
    BY <2>1, <2>2
<1>10. Unread'
  <2>1. taken[c][pn] = 0
    BY <1>1, <1>4 DEF CopyInv, Unread
  <2> QED
    BY <2>1, <1>4, <1>8 DEF CopyInv, Unread, Same
<1>11. Transmitted'
  <2>1. pn <= tx[c]
    BY <1>1, <1>4 DEF CopyInv, Transmitted
  <2> QED
    BY <2>1, <1>4, <1>8 DEF CopyInv, Transmitted, Same
<1>12. KnownRead' /\ TakenOnce'
  BY <1>4 DEF CopyInv, KnownRead, TakenOnce
<1> QED
  BY <1>9, <1>10, <1>11, <1>12 DEF CopyInv

\* A transmission with a new packet number has no copy anywhere.
LEMMA SendCopy ==
    ASSUME TypeOK, CopyInv, NEW c \in Conns, NEW d \in DC, ClientSend(c, d)
    PROVE  CopyInv'
<1> DEFINE pn == tx[c] + 1
           g  == [at |-> "dispatcher", dc |-> d, conn |-> c, pn |-> pn]
<1>1. /\ net' = [net EXCEPT ![g] = @ + 1]
      /\ tx' = [tx EXCEPT ![c] = @ + 1]
      /\ UNCHANGED << srv, taken >>
  BY DEF ClientSend, server
<1>2. g \in Datagram /\ g.conn = c /\ g.pn = pn /\ pn \in Nat /\ pn \in PN
  <2>1. tx[c] \in 0 .. MaxTx /\ Tries[c] \in 0 .. MaxTx /\ tx[c] < Tries[c]
    BY DispatchAssumption DEF ClientSend, TypeOK
  <2>2. pn \in PN /\ pn \in Nat
    BY <2>1, DispatchAssumption DEF PN
  <2> QED
    BY <2>2 DEF Datagram
<1>3. \A b \in Conns : tx'[b] = IF b = c THEN pn ELSE tx[b]
  BY <1>1 DEF TypeOK
<1>4. pn > tx[c] /\ tx \in [Conns -> Nat]
  BY DispatchAssumption DEF TypeOK
<1> HIDE DEF g, pn
<1>5. \A h \in Datagram : Same(h, c, pn) => net[h] = 0
  <2> SUFFICES ASSUME NEW h \in Datagram, Same(h, c, pn), net[h] # 0
               PROVE  FALSE
    OBVIOUS
  <2>1. h.pn <= tx[h.conn]
    BY DEF CopyInv, Transmitted, TypeOK
  <2> QED
    BY <2>1, <1>2, <1>4 DEF Same
<1>6. taken[c][pn] = 0
  <2>1. ASSUME taken[c][pn] # 0 PROVE FALSE
    <3>1. pn <= tx[c]
      BY <2>1, <1>2 DEF CopyInv, Transmitted
    <3> QED
      BY <3>1, <1>2, <1>4
  <2> QED
    BY <2>1
<1>7. \A h \in Datagram : net'[h] = IF h = g THEN 1 ELSE net[h]
  BY <1>1, <1>2, <1>5 DEF Same, TypeOK
<1>8. \A h \in Datagram : (net'[h] > 0 /\ h # g) =>
        net[h] > 0 /\ net[h] = net'[h] /\ ~ Same(h, c, pn)
  BY <1>5, <1>7 DEF TypeOK
<1>9. Alone'
  <2> SUFFICES ASSUME NEW h \in Datagram, net'[h] > 0
               PROVE  /\ net'[h] = 1
                      /\ \A f \in Datagram :
                           (net'[f] > 0 /\ Same(f, h.conn, h.pn)) => f = h
    BY DEF Alone
  <2>1. CASE h = g
    BY <2>1, <1>2, <1>7, <1>8
  <2>2. CASE h # g
    BY <2>2, <1>2, <1>8 DEF CopyInv, Alone, Same
  <2> QED
    BY <2>1, <2>2
<1>10. Unread'
  BY <1>1, <1>2, <1>6, <1>8 DEF CopyInv, Unread
<1>11. Transmitted'
  <2>1. \A b \in Conns, n \in Nat : n <= tx[b] => n <= tx'[b]
    BY <1>2, <1>3, <1>4
  <2>2. \A h \in Datagram : net'[h] > 0 => h.pn <= tx'[h.conn]
    <3>1. ASSUME NEW h \in Datagram, net'[h] > 0 PROVE h.pn <= tx'[h.conn]
      <4>1. CASE h = g
        BY <4>1, <1>2, <1>3
      <4>2. CASE h # g
        BY <4>2, <3>1, <2>1, <1>8, DatagramFields DEF CopyInv, Transmitted
      <4> QED
        BY <4>1, <4>2
    <3> QED
      BY <3>1
  <2>3. \A b \in Conns, n \in PN : taken'[b][n] # 0 => n <= tx'[b]
    BY <2>1, <1>1 DEF CopyInv, Transmitted, PN
  <2> QED
    BY <2>2, <2>3 DEF Transmitted
<1>12. KnownRead' /\ TakenOnce'
  BY <1>1 DEF CopyInv, KnownRead, TakenOnce
<1> QED
  BY <1>9, <1>10, <1>11, <1>12 DEF CopyInv

\* A server's connection that reads a datagram is the first to read its
\* transmission, so the packet number is new to it.
LEMMA ReadCopy ==
    ASSUME TypeOK, CopyInv,
           NEW d \in DC, NEW c \in Conns, NEW pn \in PN, ServerRecv(d, c, pn)
    PROVE  /\ CopyInv'
           /\ \A e \in DC, b \in Conns : srv[e][b] \subseteq srv'[e][b]
           /\ ending' = ending
<1> DEFINE g == [at |-> "server", dc |-> d, conn |-> c, pn |-> pn]
<1>1. /\ net[g] > 0
      /\ net' = [net EXCEPT ![g] = @ - 1]
      /\ UNCHANGED tx
  BY DEF ServerRecv
<1>2. g \in Datagram /\ g.conn = c /\ g.pn = pn
  BY DEF Datagram
<1>3. taken[c][pn] = 0 /\ pn \notin srv[d][c]
  BY <1>1, <1>2 DEF CopyInv, Unread, KnownRead
<1>4. \/ UNCHANGED << srv, ending, taken >>
      \/ /\ srv' = [srv EXCEPT ![d][c] = @ \cup {pn}]
         /\ taken' = [taken EXCEPT ![c][pn] = @ + 1]
         /\ UNCHANGED ending
  BY <1>3 DEF ServerRecv, server
<1> HIDE DEF g
<1>5. \A h \in Datagram : net'[h] > 0 =>
        net[h] > 0 /\ net'[h] = net[h] /\ ~ Same(h, c, pn)
  BY <1>1, <1>2, ConsumeCopy
<1>6. CASE UNCHANGED << srv, ending, taken >>
  BY <1>1, <1>5, <1>6, FewerCopies
<1>7. CASE /\ srv' = [srv EXCEPT ![d][c] = @ \cup {pn}]
           /\ taken' = [taken EXCEPT ![c][pn] = @ + 1]
           /\ UNCHANGED ending
  <2>1. \A e \in DC, b \in Conns :
          srv'[e][b] = IF e = d /\ b = c THEN srv[e][b] \cup {pn}
                       ELSE srv[e][b]
    BY <1>7 DEF TypeOK
  <2>2. \A b \in Conns, n \in PN :
          taken'[b][n] = IF b = c /\ n = pn THEN 1 ELSE taken[b][n]
    BY <1>3, <1>7 DEF TypeOK
  <2>3. Alone'
    BY <1>5 DEF CopyInv, Alone
  <2>4. Unread'
    <3>1. ASSUME NEW h \in Datagram, net'[h] > 0
          PROVE  taken'[h.conn][h.pn] = 0
      <4>1. taken[h.conn][h.pn] = 0 /\ ~ (h.conn = c /\ h.pn = pn)
        BY <3>1, <1>5 DEF CopyInv, Unread, Same
      <4> QED
        BY <4>1, <2>2, DatagramFields
    <3> QED
      BY <3>1 DEF Unread
  <2>5. KnownRead'
    <3>1. ASSUME NEW e \in DC, NEW b \in Conns, NEW n \in srv'[e][b]
          PROVE  taken'[b][n] # 0
      <4>1. n \in srv[e][b] \/ (b = c /\ n = pn)
        BY <3>1, <2>1
      <4>2. srv[e][b] \subseteq PN
        BY DEF TypeOK
      <4>3. CASE n \in srv[e][b]
        BY <4>2, <4>3, <2>2 DEF CopyInv, KnownRead
      <4>4. CASE b = c /\ n = pn
        BY <4>4, <2>2
      <4> QED
        BY <4>1, <4>3, <4>4
    <3> QED
      BY <3>1 DEF KnownRead
  <2>6. Transmitted'
    <3>1. pn <= tx[c]
      BY <1>1, <1>2 DEF CopyInv, Transmitted
    <3>2. \A b \in Conns, n \in PN : taken'[b][n] # 0 => n <= tx'[b]
      BY <3>1, <2>2, <1>1 DEF CopyInv, Transmitted
    <3>3. \A h \in Datagram : net'[h] > 0 => h.pn <= tx'[h.conn]
      BY <1>1, <1>5 DEF CopyInv, Transmitted
    <3> QED
      BY <3>2, <3>3 DEF Transmitted
  <2>7. TakenOnce'
    BY <2>2 DEF CopyInv, TakenOnce
  <2> QED
    BY <2>1, <2>3, <2>4, <2>5, <2>6, <2>7, <1>7 DEF CopyInv
<1> QED
  BY <1>4, <1>6, <1>7

\* The steps that neither put a datagram into the network nor let a server
\* read one.
LEMMA QuietSteps ==
    ASSUME TypeOK, CopyInv,
           \/ UNCHANGED vars
           \/ \E g \in Datagram : Lose(g)
           \/ \E d \in DC, c \in Conns :
                \/ ClientRecv(c, d)
                \/ LoseReply(d, c)
                \/ ServerReply(d, c)
                \/ ServerGiveUp(d, c)
                \/ ServerTimeout(d, c)
                \/ \E pn \in PN : DispatcherKnown(d, c, pn)
           \/ \E d \in DC :
                \/ \E s \in ServerIds : retransmitcb(d, s) \/ timeoutcb(d, s)
                \/ DispatcherRestart(d)
                \/ ServerRestart(d)
    PROVE  /\ CopyInv'
           /\ \/ UNCHANGED net
              \/ UNCHANGED << srv, ending >>
<1>1. CASE UNCHANGED << net, tx, taken, srv >>
  <2>1. \A g \in Datagram : net'[g] > 0 => net'[g] = net[g]
    BY <1>1
  <2>2. \A d \in DC, c \in Conns : srv'[d][c] \subseteq srv[d][c]
    BY <1>1
  <2> QED
    BY <1>1, <2>1, <2>2, FewerCopies
<1>2. ASSUME UNCHANGED vars PROVE UNCHANGED << net, tx, taken, srv >>
  BY <1>2 DEF vars, server
<1>3. ASSUME NEW g \in Datagram, net[g] > 0,
             net' = [net EXCEPT ![g] = @ - 1],
             UNCHANGED << server, tx >>
      PROVE  CopyInv' /\ UNCHANGED << srv, ending >>
  <2>1. UNCHANGED << srv, ending, taken, tx >>
    BY <1>3 DEF server
  <2>2. \A h \in Datagram : net'[h] > 0 => net'[h] = net[h]
    BY <1>3, ConsumeCopy
  <2> QED
    BY <2>1, <2>2, FewerCopies
<1>4. ASSUME NEW g \in Datagram, Lose(g)
      PROVE  CopyInv' /\ UNCHANGED << srv, ending >>
  BY <1>3, <1>4 DEF Lose
<1>5. ASSUME NEW d \in DC, NEW c \in Conns,
             ClientRecv(c, d) \/ LoseReply(d, c) \/ ServerReply(d, c)
      PROVE  UNCHANGED << net, tx, taken, srv >>
  BY <1>5 DEF ClientRecv, LoseReply, ServerReply, server
<1>6. ASSUME NEW d \in DC, NEW c \in Conns,
             ServerGiveUp(d, c) \/ ServerTimeout(d, c)
      PROVE  CopyInv' /\ UNCHANGED net
  <2>1. /\ UNCHANGED << net, tx, taken >>
        /\ UNCHANGED srv \/ srv' = [srv EXCEPT ![d][c] = {}]
    BY <1>6 DEF ServerGiveUp, ServerTimeout, ServerError, ServerRemove
  <2>2. \A e \in DC, b \in Conns : srv'[e][b] \subseteq srv[e][b]
    <3>1. CASE UNCHANGED srv
      BY <3>1
    <3>2. CASE srv' = [srv EXCEPT ![d][c] = {}]
      BY <3>2 DEF TypeOK
    <3> QED
      BY <2>1, <3>1, <3>2
  <2>3. \A h \in Datagram : net'[h] > 0 => net'[h] = net[h]
    BY <2>1
  <2> QED
    BY <2>1, <2>2, <2>3, FewerCopies
<1>7. ASSUME NEW d \in DC, NEW c \in Conns, NEW pn \in PN,
             DispatcherKnown(d, c, pn)
      PROVE  CopyInv' /\ UNCHANGED << srv, ending >>
  <2> DEFINE g == [at |-> "dispatcher", dc |-> d, conn |-> c, pn |-> pn]
  <2>1. /\ net[g] > 0
        /\ net' = [net EXCEPT ![g] = @ - 1]
        /\ UNCHANGED << server, tx >>
    BY <1>7 DEF DispatcherKnown
  <2>2. g \in Datagram
    BY DEF Datagram
  <2> HIDE DEF g
  <2> QED
    BY <1>3, <2>1, <2>2
<1>8. ASSUME NEW d \in DC,
             \/ \E s \in ServerIds : retransmitcb(d, s) \/ timeoutcb(d, s)
             \/ DispatcherRestart(d)
      PROVE  UNCHANGED << net, tx, taken, srv >>
  BY <1>8 DEF retransmitcb, timeoutcb, DispatcherRestart, server
<1>9. ASSUME NEW d \in DC, ServerRestart(d)
      PROVE  CopyInv' /\ UNCHANGED net
  <2>1. UNCHANGED << net, tx, taken >>
    BY <1>9 DEF ServerRestart
  <2>2. \A e \in DC, b \in Conns : srv'[e][b] \subseteq srv[e][b]
    BY <1>9 DEF ServerRestart, TypeOK
  <2>3. \A h \in Datagram : net'[h] > 0 => net'[h] = net[h]
    BY <2>1
  <2> QED
    BY <2>1, <2>2, <2>3, FewerCopies
<1> QED
  BY <1>1, <1>2, <1>4, <1>5, <1>6, <1>7, <1>8, <1>9

\* Every step keeps CopyInv, and a step that changes the network takes
\* nothing from a server.
LEMMA CopyStep ==
    ASSUME Redundancy = 0, TypeOK, CopyInv, [Next]_vars
    PROVE  /\ CopyInv'
           /\ \/ UNCHANGED net
              \/ /\ \A d \in DC, c \in Conns : srv[d][c] \subseteq srv'[d][c]
                 /\ UNCHANGED ending
<1>1. ASSUME NEW d \in DC, NEW c \in Conns, ClientSend(c, d)
      PROVE  CopyInv' /\ UNCHANGED << srv, ending >>
  BY <1>1, SendCopy DEF ClientSend, server
<1>2. ASSUME NEW d \in DC, NEW c \in Conns, NEW pn \in PN,
             NEW s \in ServerIds, DispatcherNew(d, c, pn, s)
      PROVE  CopyInv' /\ UNCHANGED << srv, ending >>
  BY <1>2, ForwardCopy DEF DispatcherNew, server
<1>3. ASSUME NEW d \in DC, NEW c \in Conns, NEW pn \in PN,
             ServerRecv(d, c, pn)
      PROVE  /\ CopyInv'
             /\ \A e \in DC, b \in Conns : srv[e][b] \subseteq srv'[e][b]
             /\ UNCHANGED ending
  BY <1>3, ReadCopy
<1>4. CASE UNCHANGED << srv, ending >>
  BY <1>1, <1>2, <1>3, <1>4, QuietSteps DEF Next
<1>5. CASE ~ UNCHANGED << srv, ending >>
  BY <1>1, <1>2, <1>3, <1>5, QuietSteps DEF Next
<1> QED
  BY <1>4, <1>5

\* CopyInv is an invariant of the forwarding plane without redundancy.
LEMMA CopyInvariant ==
    ASSUME Redundancy = 0 PROVE Spec => []CopyInv
<1>1. Init => CopyInv
  BY DispatchAssumption
  DEF Init, CopyInv, Alone, Unread, KnownRead, Transmitted, TakenOnce
<1>2. TypeOK /\ CopyInv /\ [Next]_vars => CopyInv'
  BY CopyStep
<1> QED
  BY <1>1, <1>2, TypeCorrect, PTL DEF Spec

\* With --redundancy 0 a transmission of an Initial is one datagram or is
\* known to a server, never both, whatever the dispatchers' measurements say
\* and however often dispatchers and servers disagree, forget or restart.
THEOREM OneCopy ==
    ASSUME Redundancy = 0
    PROVE  Spec => []SingleCopy
<1>1. TypeOK /\ CopyInv => SingleCopy
  BY CopySingle
<1> QED
  BY <1>1, CopyInvariant, TypeCorrect, PTL

\* With --redundancy 0 the Server::on_read calls of all servers together
\* accept a transmission once, also when servers have removed the
\* connection in the meantime and could take an old copy for a new one.
THEOREM ReadOnce ==
    ASSUME Redundancy = 0
    PROVE  Spec => []TakenOnce
<1>1. CopyInv => TakenOnce
  BY DEF CopyInv
<1> QED
  BY <1>1, CopyInvariant, PTL

\* With --redundancy 0 no packet makes a server drop a connection or close
\* it: the error path of Server::on_read is never taken for an Initial, and
\* a connection ends by the server's timers, its restart, or what its own
\* client sends it.
THEOREM PacketsEndNothing ==
    ASSUME Redundancy = 0
    PROVE  Spec => [][\A d \in DC, c \in Conns :
                        (\/ srv[d][c] # {} /\ srv'[d][c] = {}
                         \/ << d, c >> \in ending' \ ending)
                        => UNCHANGED net]_vars
<1> DEFINE Kept == \A d \in DC, c \in Conns :
                     (\/ srv[d][c] # {} /\ srv'[d][c] = {}
                      \/ << d, c >> \in ending' \ ending)
                     => UNCHANGED net
<1>1. TypeOK /\ CopyInv /\ [Next]_vars => Kept
  BY CopyStep
<1> HIDE DEF Kept
<1>2. Spec => [][Kept]_vars
  BY <1>1, CopyInvariant, TypeCorrect, PTL DEF Spec
<1> QED
  BY <1>2 DEF Kept
=============================================================================
