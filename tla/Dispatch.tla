------------------------------- MODULE Dispatch -------------------------------
(***************************************************************************)
(* The forwarding plane of Polygon: clients send the Initial packet of a   *)
(* QUIC connection to an anycast address; the dispatcher of some data      *)
(* center (examples/balancer.cc) receives it, picks data centers from its  *)
(* measurements and forwards the packet to the dispatchers there, or to    *)
(* its own server (examples/server.cc); a server that receives it answers  *)
(* the client from its unicast address and the client migrates to it.      *)
(*                                                                         *)
(* A dispatcher keeps a Handler per connection it has seen (handlers_,     *)
(* keyed by the connection ID it drew) and the map ctos_ from the client's *)
(* connection ID to it.  Packets of a known connection are fed to its      *)
(* Handler and are not forwarded.                                          *)
(***************************************************************************)
EXTENDS Selection, FiniteSets

CONSTANTS
    DC,           \* data centers; each has one dispatcher and one server
    Conns,        \* client connections, named by the client's conn_id
    ServerIds,    \* connection IDs the Handler constructor draws
    None,         \* an absent entry of a table
    Tries,        \* Tries[c]: transmissions of c's Initial until the client
                  \* gives up, three before PKT_TIMEOUT
    MaxTx,        \* the largest of them
    Redundancy,   \* --redundancy
    Deployed,     \* data centers of table "deployment" for the domain
    Tunnels,      \* Tunnels[d]: dispatchers d has an interface to
    DemandOf,     \* DemandOf[c]: the demand in c's ClientHello
    MetricsOf,    \* MetricsOf[d]: the sorted lists d may find, by demand
    MaxLoss,      \* datagrams the network may drop
    LossyHops,    \* the ways they may be lost on: to a "dispatcher", to a
                  \* "server", or back to a "client"
    TimersRace    \* TRUE if timers may fire, and processes be restarted,
                  \* while datagrams are in flight

PN == 1 .. MaxTx

Handler == [client : Conns, seen : SUBSET PN, draining : BOOLEAN]

\* What the selection in d's dispatcher may return for c.
Routes(d, c) == { Destinations(d, DemandOf[c], m, Deployed, Redundancy) :
                     m \in MetricsOf[d] }

\* What the proofs use of the constants.
ASSUME DispatchAssumption ==
    /\ Tries \in [Conns -> 0 .. MaxTx]
    /\ MaxTx \in Nat /\ Redundancy \in Nat /\ MaxLoss \in Nat
    /\ None \notin ServerIds /\ None \notin DC
    /\ TimersRace \in BOOLEAN
    /\ None \notin Handler
    /\ LossyHops \subseteq {"dispatcher", "server", "client"}
    /\ \A d \in DC, c \in Conns : \A dests \in Routes(d, c) :
         dests \in Seq(DC) /\ Len(dests) <= Redundancy + 1

VARIABLES
    net,       \* net[g]: copies of the Initial packet g in flight
    handlers,  \* handlers[d][s]: handlers_ of d's dispatcher
    ctos,      \* ctos[d][c]: ctos_ of d's dispatcher
    srv,       \* srv[d][c]: packet numbers d's server tracks for c, {} if
               \* it has no handler for c
    ending,    \* handlers of servers in their closing or draining period
    replies,   \* handshake packets on their way from a server to a client
    tx,        \* tx[c]: Initial packets sent by c
    peer,      \* peer[c]: the data center whose server c is bound to
    lost,      \* datagrams dropped so far
    taken      \* history: taken[c][pn] is how often a connection of some
               \* server has read c's transmission pn

server == << srv, ending, taken >>

vars == << net, handlers, ctos, server, replies, tx, peer, lost >>

Datagram == [at : {"dispatcher", "server"}, dc : DC, conn : Conns, pn : PN]

\* The type of every variable.
TypeOK ==
    /\ net \in [Datagram -> Nat]
    /\ handlers \in [DC -> [ServerIds -> Handler \cup {None}]]
    /\ ctos \in [DC -> [Conns -> ServerIds \cup {None}]]
    /\ srv \in [DC -> [Conns -> SUBSET PN]]
    /\ ending \in SUBSET (DC \X Conns)
    /\ replies \in SUBSET (DC \X Conns)
    /\ tx \in [Conns -> 0 .. MaxTx]
    /\ peer \in [Conns -> DC \cup {None}]
    /\ lost \in Nat
    /\ taken \in [Conns -> [PN -> Nat]]

Init ==
    /\ net = [g \in Datagram |-> 0]
    /\ handlers = [d \in DC |-> [s \in ServerIds |-> None]]
    /\ ctos = [d \in DC |-> [c \in Conns |-> None]]
    /\ srv = [d \in DC |-> [c \in Conns |-> {}]]
    /\ ending = {}
    /\ replies = {}
    /\ tx = [c \in Conns |-> 0]
    /\ peer = [c \in Conns |-> None]
    /\ lost = 0
    /\ taken = [c \in Conns |-> [pn \in PN |-> 0]]

-----------------------------------------------------------------------------
(* The network.                                                            *)

Quiet == \A g \in Datagram : net[g] = 0

Calm == Quiet /\ replies = {}

\* Unless TimersRace, the timers of c's handlers, in dispatchers and
\* servers, keep to the times of the code: a second or more is longer than a datagram is in flight, and a
\* handler's deadline (NGTCP2_PKT_DEADLINE_PERIOD, 30 s when idle) ends
\* after the last transmission the client makes before its own.
TimerDue(c) ==
    \/ TimersRace
    \/ Calm /\ (peer[c] # None \/ tx[c] = Tries[c])

\* Mutant: a copy for the local server also goes out to the dispatchers.
CopiesToBoth(d, c, pn, dests, g) ==
    IF g.conn # c \/ g.pn # pn THEN 0
    ELSE Cardinality({ i \in DOMAIN dests : dests[i] = g.dc })

\* The datagrams a dispatcher emits for the packet (c, pn): the socket is
\* server_fd_map_["server"] for its own data center, the tunnel of
\* balancer_fd_map_ otherwise; without a tunnel sendto fails.
Copies(d, c, pn, dests, g) ==
    IF g.conn # c \/ g.pn # pn THEN 0
    ELSE Cardinality({ i \in DOMAIN dests :
            /\ dests[i] = g.dc
            /\ IF g.dc = d THEN g.at = "server"
               ELSE g.at = "dispatcher" /\ g.dc \in Tunnels[d] })

Lose(g) ==
    /\ net[g] > 0
    /\ g.at \in LossyHops
    /\ lost < MaxLoss
    /\ net' = [net EXCEPT ![g] = @ - 1]
    /\ lost' = lost + 1
    /\ UNCHANGED << handlers, ctos, server, replies, tx, peer >>

\* A server's answer gets lost.
LoseReply(d, c) ==
    /\ << d, c >> \in replies
    /\ "client" \in LossyHops
    /\ lost < MaxLoss
    /\ replies' = replies \ {<< d, c >>}
    /\ lost' = lost + 1
    /\ UNCHANGED << net, handlers, ctos, server, tx, peer >>

-----------------------------------------------------------------------------
(* Clients.                                                                *)

\* Mutant: the client tries once more than its deadline allows.
ClientSendLate(c, d) ==
    /\ peer[c] = None
    /\ tx[c] <= Tries[c]
    /\ tx' = [tx EXCEPT ![c] = @ + 1]
    /\ UNCHANGED << net, handlers, ctos, server, replies, peer, lost >>

\* Mutant: a retransmission keeps the packet number of the first one.
ClientSendAgain(c, d) ==
    /\ peer[c] = None
    /\ tx[c] < Tries[c]
    /\ tx' = [tx EXCEPT ![c] = @ + 1]
    /\ LET g == [at |-> "dispatcher", dc |-> d, conn |-> c, pn |-> 1]
       IN  net' = [net EXCEPT ![g] = @ + 1]
    /\ UNCHANGED << handlers, ctos, server, replies, peer, lost >>

\* The client sends its Initial, or the retransmission timer sends it again
\* with the next packet number; anycast routing picks the dispatcher.
ClientSend(c, d) ==
    /\ peer[c] = None
    /\ tx[c] < Tries[c]
    /\ tx' = [tx EXCEPT ![c] = @ + 1]
    /\ LET g == [at |-> "dispatcher", dc |-> d, conn |-> c, pn |-> tx[c] + 1]
       IN  net' = [net EXCEPT ![g] = @ + 1]
    /\ UNCHANGED << handlers, ctos, server, replies, peer, lost >>

\* The first Handshake packet binds the connection ID, and with it the
\* server; the packets of any other server are discarded.
ClientRecv(c, d) ==
    /\ << d, c >> \in replies
    /\ replies' = replies \ {<< d, c >>}
    /\ peer' = [peer EXCEPT ![c] = IF @ = None THEN d ELSE @]
    /\ UNCHANGED << net, handlers, ctos, server, tx, lost >>

-----------------------------------------------------------------------------
(* The dispatcher, Server::on_read and the callbacks of balancer.cc.       *)

\* Mutant: the Handler is forgotten once the packet has been forwarded.
DispatcherNewForgets(d, c, pn, s) ==
    LET g == [at |-> "dispatcher", dc |-> d, conn |-> c, pn |-> pn]
    IN  /\ net[g] > 0
        /\ ctos[d][c] = None
        /\ \E dests \in Routes(d, c) :
             net' = [h \in Datagram |->
                       net[h] - (IF h = g THEN 1 ELSE 0)
                              + Copies(d, c, pn, dests, h)]
        /\ UNCHANGED << handlers, ctos, server, replies, tx, peer, lost >>

\* A packet of an unknown connection: the Handler reads the ClientHello,
\* the packet is forwarded, and the Handler is registered.
DispatcherNew(d, c, pn, s) ==
    LET g == [at |-> "dispatcher", dc |-> d, conn |-> c, pn |-> pn]
    IN  /\ net[g] > 0
        /\ ctos[d][c] = None
        /\ handlers[d][s] = None
        /\ \E dests \in Routes(d, c) :
             net' = [h \in Datagram |->
                       net[h] - (IF h = g THEN 1 ELSE 0)
                              + Copies(d, c, pn, dests, h)]
        /\ handlers' = [handlers EXCEPT ![d][s] =
                          [client |-> c, seen |-> {pn}, draining |-> FALSE]]
        /\ ctos' = [ctos EXCEPT ![d][c] = s]
        /\ UNCHANGED << server, replies, tx, peer, lost >>

\* Mutant: ctos_ keeps the entry of the Handler that goes.
removeOnlyHandler(d, s) ==
    /\ handlers' = [handlers EXCEPT ![d][s] = None]
    /\ UNCHANGED ctos

\* Server::remove.
remove(d, s) ==
    /\ handlers' = [handlers EXCEPT ![d][s] = None]
    /\ ctos' = [ctos EXCEPT ![d][handlers[d][s].client] = None]

\* "Terminate connection after forwarding": every Handler goes.
RemoveAll(d) ==
    /\ handlers' = [handlers EXCEPT ![d] = [s \in ServerIds |-> None]]
    /\ ctos' = [ctos EXCEPT ![d] = [c \in Conns |-> None]]

\* Mutant: a retransmission leaves the Handler in place.
DispatcherKnownKeeps(d, c, pn) ==
    LET g == [at |-> "dispatcher", dc |-> d, conn |-> c, pn |-> pn]
    IN  /\ net[g] > 0
        /\ ctos[d][c] # None
        /\ net' = [net EXCEPT ![g] = @ - 1]
        /\ UNCHANGED << handlers, ctos, server, replies, tx, peer, lost >>

\* A packet of a known connection.  A draining Handler ignores it.  A packet
\* number the Handler has already tracked makes ngtcp2_acktr_add fail, and
\* no CONNECTION_CLOSE can be written before the handshake is over, so the
\* Handler is removed.  Any other packet ends every connection.
DispatcherKnown(d, c, pn) ==
    LET g == [at |-> "dispatcher", dc |-> d, conn |-> c, pn |-> pn]
        s == ctos[d][c]
    IN  /\ net[g] > 0
        /\ s # None
        /\ net' = [net EXCEPT ![g] = @ - 1]
        /\ \/ /\ handlers[d][s].draining
              /\ UNCHANGED << handlers, ctos >>
           \/ /\ ~ handlers[d][s].draining
              /\ pn \in handlers[d][s].seen
              /\ remove(d, s)
           \/ /\ ~ handlers[d][s].draining
              /\ pn \notin handlers[d][s].seen
              /\ RemoveAll(d)
        /\ UNCHANGED << server, replies, tx, peer, lost >>

\* retransmitcb: the Handler's own handshake packets are never acknowledged
\* (send_packet puts nothing on the wire); once their deadline has passed
\* ngtcp2_conn_write_pkt returns PKT_TIMEOUT and the Handler is removed.
\* start_draining_period stops this timer.
retransmitcb(d, s) ==
    /\ handlers[d][s] # None
    /\ TimerDue(handlers[d][s].client)
    /\ ~ handlers[d][s].draining
    /\ remove(d, s)
    /\ UNCHANGED << net, server, replies, tx, peer, lost >>

\* timeoutcb: the idle timer starts the draining period, then ends it.
timeoutcb(d, s) ==
    /\ handlers[d][s] # None
    /\ TimerDue(handlers[d][s].client)
    /\ \/ /\ handlers[d][s].draining
          /\ remove(d, s)
       \/ /\ ~ handlers[d][s].draining
          /\ handlers' = [handlers EXCEPT ![d][s].draining = TRUE]
          /\ UNCHANGED ctos
    /\ UNCHANGED << net, server, replies, tx, peer, lost >>

\* SIGINT ends the loop, Server::disconnect drops every Handler, and the
\* dispatcher is started again.
DispatcherRestart(d) ==
    /\ TimersRace \/ Calm
    /\ RemoveAll(d)
    /\ UNCHANGED << net, server, replies, tx, peer, lost >>

-----------------------------------------------------------------------------
(* The server, server.cc, seen from the forwarding plane.  Its timers also  *)
(* stand for what it gets from clients over its unicast address.           *)

\* Server::remove.
ServerRemove(d, c) ==
    /\ srv' = [srv EXCEPT ![d][c] = {}]
    /\ ending' = ending \ {<< d, c >>}

\* Handler::handle_error: a CONNECTION_CLOSE can be written once the
\* handshake is over, which takes a client bound to this server; then the
\* closing period begins.  Otherwise the handler is removed.
ServerError(d, c) ==
    \/ ServerRemove(d, c)
    \/ /\ peer[c] = d
       /\ ending' = ending \cup {<< d, c >>}
       /\ UNCHANGED srv

\* A handler in its closing or draining period ignores the packet.  A new
\* connection is accepted and answered at once; a new packet number of a
\* known one is tracked, its acknowledgement waits for retransmitcb.  A
\* repeated one is a protocol error, unless the client has acknowledged its
\* acknowledgement and the entry is forgotten, which takes a client bound
\* to this server.
ServerRecv(d, c, pn) ==
    LET g == [at |-> "server", dc |-> d, conn |-> c, pn |-> pn]
    IN  /\ net[g] > 0
        /\ net' = [net EXCEPT ![g] = @ - 1]
        /\ \/ /\ << d, c >> \in ending
              /\ UNCHANGED << server, replies >>
           \/ /\ << d, c >> \notin ending
              /\ taken' = [taken EXCEPT ![c][pn] = @ + 1]
              /\ \/ /\ pn \notin srv[d][c]
                    /\ srv' = [srv EXCEPT ![d][c] = @ \cup {pn}]
                    /\ replies' = IF srv[d][c] = {}
                                  THEN replies \cup {<< d, c >>} ELSE replies
                    /\ UNCHANGED ending
                 \/ /\ pn \in srv[d][c]
                    /\ ServerError(d, c)
                    /\ UNCHANGED replies
                 \/ /\ pn \in srv[d][c]
                    /\ peer[c] = d
                    /\ UNCHANGED << srv, ending, replies >>
        /\ UNCHANGED << handlers, ctos, tx, peer, lost >>

\* retransmitcb before the deadline of the handshake packets, which a client
\* bound to this server acknowledges: on_write sends them again, or sends
\* an acknowledgement that was due.
ServerReply(d, c) ==
    /\ srv[d][c] # {}
    /\ << d, c >> \notin ending
    /\ << d, c >> \notin replies
    /\ peer[c] # d
    /\ replies' = replies \cup {<< d, c >>}
    /\ UNCHANGED << net, handlers, ctos, server, tx, peer, lost >>

\* retransmitcb once the deadline has passed, or when on_write fails for
\* another reason.  The closing and draining periods stop this timer.
ServerGiveUp(d, c) ==
    /\ TimerDue(c)
    /\ srv[d][c] # {}
    /\ << d, c >> \notin ending
    /\ ServerError(d, c)
    /\ UNCHANGED << net, handlers, ctos, replies, tx, peer, lost, taken >>

\* timeoutcb: the timer starts the draining period, and ends it or the
\* closing period, whatever the client is doing.
ServerTimeout(d, c) ==
    /\ TimerDue(c)
    /\ srv[d][c] # {}
    /\ \/ /\ << d, c >> \in ending
          /\ ServerRemove(d, c)
       \/ /\ << d, c >> \notin ending
          /\ ending' = ending \cup {<< d, c >>}
          /\ UNCHANGED srv
    /\ UNCHANGED << net, handlers, ctos, replies, tx, peer, lost, taken >>

\* SIGINT ends the loop, Server::disconnect removes every handler, and the
\* server is started again.
ServerRestart(d) ==
    /\ TimersRace \/ Calm
    /\ srv' = [srv EXCEPT ![d] = [c \in Conns |-> {}]]
    /\ ending' = ending \ ({d} \X Conns)
    /\ UNCHANGED << net, handlers, ctos, replies, tx, peer, lost, taken >>

-----------------------------------------------------------------------------

Next ==
    \/ \E g \in Datagram : Lose(g)
    \/ \E d \in DC, c \in Conns :
         \/ ClientSend(c, d)
         \/ ClientRecv(c, d)
         \/ LoseReply(d, c)
         \/ ServerReply(d, c)
         \/ ServerGiveUp(d, c)
         \/ ServerTimeout(d, c)
         \/ \E pn \in PN :
              \/ \E s \in ServerIds : DispatcherNew(d, c, pn, s)
              \/ DispatcherKnown(d, c, pn)
              \/ ServerRecv(d, c, pn)
    \/ \E d \in DC :
         \/ \E s \in ServerIds : retransmitcb(d, s) \/ timeoutcb(d, s)
         \/ DispatcherRestart(d)
         \/ ServerRestart(d)

Spec == Init /\ [][Next]_vars

\* Some datagram in flight is read.
Deliver ==
    \E d \in DC, c \in Conns, pn \in PN :
      \/ \E s \in ServerIds : DispatcherNew(d, c, pn, s)
      \/ DispatcherKnown(d, c, pn)
      \/ ServerRecv(d, c, pn)

\* The event loops of dispatchers, servers and clients keep running:
\* datagrams that have arrived are read, and a client's retransmission
\* timer fires.  Nothing is assumed of loss, of the dispatchers' and
\* servers' timers, or of restarts.
Fairness ==
    /\ WF_vars(Deliver)
    /\ \A c \in Conns :
         /\ WF_vars(\E d \in DC : ClientSend(c, d))
         /\ WF_vars(\E d \in DC : ClientRecv(c, d))

FairSpec == Spec /\ Fairness
-----------------------------------------------------------------------------
(* Properties.                                                             *)

\* The two tables of a dispatcher describe each other: Server::on_read
\* asserts that the Handler ctos_ names exists, and Server::remove erases
\* by the Handler's client, so an entry without a partner would end the
\* process or black-hole a connection for good.
TableConsistent ==
    \A d \in DC :
      /\ \A c \in Conns : ctos[d][c] # None =>
           /\ handlers[d][ctos[d][c]] # None
           /\ handlers[d][ctos[d][c]].client = c
      /\ \A s \in ServerIds : handlers[d][s] # None =>
           ctos[d][handlers[d][s].client] = s

Same(g, c, pn) == g.conn = c /\ g.pn = pn

\* Without redundancy the dispatchers move a packet, they never multiply
\* it: of each transmission there is one copy in flight, or one server that
\* has taken it.  So no server sees a packet number twice, which its
\* acktr would answer by dropping the connection.
SingleCopy ==
    \A g \in Datagram : net[g] > 0 =>
      /\ net[g] = 1
      /\ \A h \in Datagram :
           (net[h] > 0 /\ Same(h, g.conn, g.pn)) => h = g
      /\ \A d \in DC : g.pn \notin srv[d][g.conn]

\* Without redundancy a transmission is read by one connection of one
\* server, once, for all time.  So no two servers answer it, and a server
\* that has forgotten the client, by its timers or a restart, does not
\* accept an old copy as a new connection: on_read keeps no record of the
\* connection IDs it has removed, so only the dispatchers' keeping to one
\* copy prevents it.
TakenOnce == \A c \in Conns, pn \in PN : taken[c][pn] <= 1

\* Whatever the dispatchers believe about each other, a packet is not
\* passed around for ever: once the clients have stopped transmitting the
\* network falls silent.
Quiesces == <>[]Quiet

\* Clients for which all dispatchers choose the same data centers, always.
Agreed == { c \in Conns : \A d, e \in DC :
               Cardinality(Routes(d, c)) = 1 /\ Routes(d, c) = Routes(e, c) }

\* A client is eventually answered by a server, provided the dispatchers
\* agree where its server is; what they pass round for other clients meanwhile
\* does not keep it from that.
Served == \A c \in Agreed : <>(peer[c] # None)
=============================================================================
