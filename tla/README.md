# Polygon, specified

Polygon is a CDN request router on top of QUIC.  A client sends the Initial
packet of its connection to an anycast address.  The *dispatcher* of the data
center it reaches (`Polygon/examples/balancer.cc`) reads the demand the
ClientHello carries (latency, cpu or throughput), looks up measurements of all
data centers, and forwards the packet through tunnels to the dispatchers of the
best one or ones, or to its own server.  The *server* that gets it
(`examples/server.cc`) answers the client from a unicast address, and the
*client* (`examples/client.cc`) migrates to it.  All three link a fork of
ngtcp2 (`Polygon/lib`), an implementation of QUIC draft 8.

This directory holds TLA+ modules of that system, TLC configurations that check
them on small instances, and TLAPS proofs.  `PROJECT.json` maps every
definition to the lines it models.

## Inventory

| Part | State | Operations | Talks to |
|---|---|---|---|
| Server selection (balancer.cc) | none; the sorted measurement lists of one packet | the three forwarding loops, `check_redundant_suitable` | MySQL, Redis (inputs) |
| Dispatcher (balancer.cc) | `handlers_`, `ctos_`, each Handler's ngtcp2 connection and timers | `Server::on_read`, `remove`, `timeoutcb`, `retransmitcb`, `disconnect` | client (raw socket), other dispatchers and its server (tunnels) |
| Server (server.cc) | `handlers_`, `ctos_`, streams, response state | `on_read`, `on_write`, timers, stream callbacks | client, ngtcp2 |
| Client (client.cc) | two sockets, `late_bound_`, streams, one HTTP parser | `feed_data`, `on_write`, `OnMigration`, timers | dispatcher, server, ngtcp2 |
| Stream reception (conn.c, rob.c, range.c, strm.c) | gap list and chunks, offsets, flags, two windows | `conn_recv_stream`, `conn_recv_rst_stream`, extension and announcement of limits, shutdown, close | application callbacks, packet writer |
| Retransmission buffer (rtb.c, gaptr.c) | list and priority queue of sent packets, acknowledged ranges | add, recv_ack, pop, retransmit | packet writer, application callbacks |
| Ack tracker (acktr.c, ringbuf.c) | received packet numbers, ring of sent ACKs | add, forget, recv_ack | packet reader and writer |
| Stream IDs (idtr.c, conn.c) | opened IDs, windows | open, close, MAX_STREAM_ID | packet reader |
| Connection (conn.c) | handshake state, keys, buffered packets | recv, write_pkt, handshake, close, drain | everything above |
| Coding (pkt.c, conv.c, crypto.c, ppe.c) | none | encode, decode | connection |
| Containers (pq.c, map.c, gaptr.c, range.c) | a heap, a hash table, a list of gaps | push, pop, remove, insert, find | retransmission, streams |
| FastRoute baseline (dns.py, LoadMonitor.py) | sample window, current layer | sample, switch layer | DNS |

Each process is one thread around a libev loop, so a handler runs to its end
before the next one starts.  What is hard is therefore not inside a process but
between them and in time: packets of one connection reach several dispatchers
that disagree about the best data center; a retransmission reaches a dispatcher
that has forwarded the first packet, has dropped it, or was restarted; timers
of handlers that will never complete race the client's; a server punishes a
repeated packet number; stream frames overlap, repeat and overtake each other
and resets; limits are reached and raised while frames are in flight.  The list
`hazards` of `PROJECT.json` names the lines.

What makes the parts correct:

* selection: first the best data center that has the domain, copies only where
  the stated bounds allow, nobody who qualifies left out;
* dispatchers: tables that agree, packets that are not multiplied, do not
  circulate for ever and reach a server;
* stream reception: the byte stream that was written, all of it, no error for
  an honest peer, no lost or invented credit;
* retransmission: nothing the peer still needs is forgotten, only bytes it has
  are reported as acknowledged, an ACK frame removes what it lists, and nothing
  is retransmitted for ever;
* acknowledgement: an ACK frame lists what arrived, a packet is not forgotten
  before the peer has heard of it, whoever owes an ACK has a timer for it, and a
  shortened packet number is read as it was meant;
* connection: one client and one server complete with each other, neither side
  waits in silence, and every handler ends;
* streams: a request is answered once, a stream that closes has delivered its
  data, limits hold and credit is not lost;
* coding and containers: what is written is what is read, a packet cut short is
  refused, what was put in and not taken out is found.

## Modules

**Selection** has the pure part of `Server::on_read`: `Destinations` is the
sequence of data centers a packet is sent to, from sorted lists.  The three
loops of the source differ only in the list they walk and are one `ForwardLoop`.
`std::sort` may leave equal values in any order, so `Sortings` is a set.
Doubles become integers; the tests used (zero, ten percent, thirty
milliseconds) are exact on them.

**Dispatch** has every dispatcher's two tables, datagrams in flight as a
function to the number of copies, and as much of servers and clients as the
first exchange needs.  A Handler is its client, the packet numbers its acktr
has tracked, and whether it is draining.  `DispatcherNew` is the path of
`Server::on_read` for an unknown connection, `DispatcherKnown` the one for a
known connection, with its three outcomes; a packet with a new number ends in
"Terminate connection after forwarding", which drops every Handler.
`retransmitcb`, `timeoutcb` and `DispatcherRestart` are the callbacks.  A
dispatcher never sends its handshake packets (its `send_packet` has no
`sendto`), so its Handlers never leave the handshake.

A server is the packet numbers it tracks for each client (`srv`) and which of its
handlers are in their closing or draining period (`ending`); it accepts and
answers, or ignores what a handler that is ending gets (`ServerRecv`), answers
again (`ServerReply`), gives up or times out whatever its client is doing
(`ServerGiveUp`, `ServerTimeout`) and restarts with empty tables
(`ServerRestart`).  So a server may forget any client, bound to it or not, while
its answer is still on the way, and the answer then binds the client to a server
that does not know it; what the client does about that is part of Handshake.
`taken` is history: how often a server's connection has read a transmission.  An
answer is a set member, not a count: answers of one server are alike.  A server
that cannot send its first answer throws the handler away, which here is the
loss of the Initial.

Datagrams and answers are delivered in any order and may be lost; the network
does not copy them.  Initial packets are well-formed, and the demand is always the one of the
packet being read, since the parse callback overwrites the global setting.

**DispatchProofs**, **StreamRecvProofs**, **RtbProofs**, **AcksProofs**,
**HandshakeProofs**, **ExchangeProofs** and **SelectionProofs** have the proofs about
the modules they are named after, **ExchangeInv** has the invariants of
ExchangeProofs, and **Induction** has what they share.

**ByteStream** is the promise of a stream to its reader.  **StreamRecv** is the
receiving end: the gap list and chunks of `ngtcp2_rob`, offsets and flags of
`ngtcp2_strm`, the connection's window, and what the application was given.
Byte *i* has the value *i*+1, and memory nobody wrote reads as `Junk`, so that a
byte from the wrong place is seen.  The peer respects the limits it was told
and cuts its data as it likes: any frame within what it has written may arrive
at any time and any number of times.  The operators take and return a record of
everything a call changes, in the order of the source.  The application extends
both windows by what it gets (client.cc, server.cc and balancer.cc do) and may
refuse the stream from inside the callback.

**Gaps** is the gap list of `ngtcp2_gaptr.c`, with the ranges it is made of;
`ngtcp2_rob_push` makes the same walk over its own list, and StreamRecv uses the
operators for it.

**Rtb** is the retransmission buffer and the part of `ngtcp2_conn.c` around it,
after the handshake.  The entries are kept twice, as in the code: `rtb` is the
priority queue (a set, the order of expired entries is open) and `list` the
packet numbers in the order of the linked list, which is what an ACK frame
walks.  `conn_retransmit` has the four ways its loop ends: `GiveUp` (deadline
passed), `Unwritten` (no room, the entry goes back), `Complete` (renumbered) and
`Partial` (split in two).  Entries whose frames have all become pointless are
deleted on the way, any number of them, since their place in the queue is
open.  `recv_ack` is `ngtcp2_rtb_recv_ack` for any set of received packets: the
frame's blocks, where the walk leaves each of them, what it removes and what is
reported.  The receiver in Rtb is only the set of packets that arrived.

**Acks** is acknowledgement between two endpoints: the tracker of received
packets, the ring of ACK frames that were sent, the making of an ACK frame from
the tracker, what an ACK of an ACK removes, the timer of delayed ACKs, and the
choice of a length for packet numbers, which rests on what was acknowledged.
One action per function that writes a packet, `conn_recv_pkt` for reading one.
`told` is history: what each endpoint got, listed and dropped at the limit, and
what it has been told.  The network loses and reorders but does not copy: a
repeated packet number is an error to the tracker (Dispatch has its
consequence).  Left out: the ring wraps around only after `RingLen` frames that
were never acknowledged, more than the bounds allow, and packet numbers near
2^64.

**Handshake** is the state machine of `ngtcp2_conn` at both ends with what
`client.cc` and `server.cc` do around it: the handshake with 0-RTT taken or
refused, packets buffered because they came early, TLS failures with their
alert, version negotiation, the client's migration, the server's two tables,
the closing and draining periods, all timers, and the end of both programs.
Each operator takes a connection and gives the connection afterwards, the
packets and whether there was an error, so that a call chain of the code is a
chain of operators.  TLS is external: which units of stream 0 it makes and
whether it fails is part of the scenario.  `net` holds everything that was ever
sent: packets of the handshake are sent again unchanged, so losing one and
repeating it later is not to be told from a late arrival.  Sockets take every
packet, and the limit on bytes in flight is not reached.  A 0-RTT packet that
overtakes its Initial makes a handler that fails to write and is thrown away,
so the buffer for such packets in `conn_recv_handshake_pkt` is never used by
this server.  Every packet a handler gets can be decrypted: left out are packets
protected with keys of another handler of the same client, which
`Handler::feed_data` lets pass (`NGTCP2_ERR_TLS_DECRYPT`) after starting the idle
timer again.

**Exchange** begins where Handshake ends: the stream ID tracker, both ends'
limits and their extension, opening, resetting, stopping and closing of
streams, the page load of `client.cc` and the responder of `server.cc` with its
buffers and assertions.  One unit of data is one buffer, one frame and one
packet.  Again `net` keeps all frames.  The client's single HTTP parser, which
reads the data of all streams, is a state `idle`, `body` or `error`; what it
makes of interleaved responses is open.  `Retransmit` is about frames that are
cancelled only, since the others are in `net` already.

**Codec** and **TransportParams** write and read packets byte by byte: integers
of variable length, sixteen kinds of frame, both header forms, version
negotiation, stateless reset, the packet encoder with its room for the tag, and
the transport parameters with Polygon's additions.  A decoder is a cursor over
the payload that remembers whether it has looked beyond the end.  The bytes are
kept because the properties are about them: lengths, cuts and field order.
Numbers up to 2^30 stand for the four sizes of an integer; TLC has no larger
ones, so the eight-byte form appears with small values only.

**Containers** has the heap of `ngtcp2_pq.c`, with every item's index, and the
hash map of `ngtcp2_map.c`.

**MCLibrary** drives Codec, TransportParams, Gaps and Containers.  It is a
module of actions around pure operators: write a packet, cut it, read it; push,
pop and remove, beside the set the container stands for.

## Runs

| Run | Shows | Bounds |
|---|---|---|
| `selection` | `BestIsFirst`, `RedundantWithinBounds`, `NoneSkipped` | all lists over three data centers with a few values on both sides of every threshold, all deployments, redundancy 0 to 2 |
| `dispatch_safety` | `TypeOK`, `TableConsistent`, `SingleCopy`, `TakenOnce` | two dispatchers, two clients, one with two transmissions and lists that change at will, one with a single transmission that is served where it arrives; one loss anywhere, timers and restarts of dispatchers and servers at any time |
| `dispatch_live` | `Quiesces`, `Served` | two dispatchers that each take the other for nearest to one client and agree about another, up to three transmissions, one loss on the way to a dispatcher |
| `stream` | `IsByteStream`, `CreditConserved`, `IntactPrefix`, `Delivered` | five bytes, chunks of two, windows of three and four; with and without resets, refusals and shutdowns at any point |
| `stream_after_rst` | violates `ResetEndsReception` | the same with resets |
| `rtb` | `InFlightAccounted`, `AckedWasReceived`, `NothingForgotten`, `AckRemovesExactly`, `Drains` | one byte and the end, one window extension, four packets, packets that may be too small |
| `rtb_sorted` | violates `Sorted` | an empty frame with fin, RST_STREAM and one window extension, four packets that may be too small |
| `library` | `FramesRecovered`, `CutNoticed`, `MessagesRecovered`, `GapsAreTheRest`, `HeldIsFound` | two frames of every kind with values on both sides of each length, buffers too small and large enough, every cut; none, one, two or all optional parameters; all pushes over nine offsets; six items with three keys; five keys, a table of four that grows |
| `acks` | `ListedWereGot`, `KeptUntilHeard`, `NewestRecovered`, `OwedIsTimed` | three and two packets, or five and one; three entries, one additional block, numbers of one, two or three bits |
| `handshake` | `TypeOK`, `RoutesAgree`, `OneServer`, `FinishedNotAbandoned`, `NotSilent`, `BothEnd` | seven scenarios: full and resumed, 0-RTT refused, a failing side, an unknown version, a second handler; one buffered packet, one or two ACK packets |
| `exchange` | `AssertsHold`, `ConcurrencyBounded`, `ErrorsOnlyAfterReset`, `AnsweredOnce`, `CloseMeansDelivered`, `CreditNotLost`, `NotSilent` | three streams, two packets in flight, a page with two resources, requests of two units, limits of one and two |
| `stream_window` | violates `WindowFollowsGap` | three streams, two at a time |

Two dispatchers are enough for every interleaving of two table owners and for
two that send a packet to each other.  Two connections share a dispatcher's
tables and make "drop every Handler" visible.  Three transmissions are what a
client makes: they go out at 0, 1 and 3 seconds and the packet's deadline is
five (`NGTCP2_PKT_DEADLINE_PERIOD`, expiry doubled each time).  Five bytes over
chunks of two give frames that start, end and cross at every kind of boundary,
several gaps, and make both windows be met and raised.

In Rtb one stream frame, one MAX_DATA and one RST_STREAM give a packet with
several frames of different fates, which is what splitting needs; four numbers
allow a packet to be split and both parts to be sent again, and an ACK frame
with two blocks; the walk treats all blocks but the first alike.  The deadline
is two seconds, since it only matters that it can pass before and after a
retransmission.  `AckRemovesExactly` asks for all listed packets only while the
list is sorted: otherwise some are missed, as the second finding explains.

In Acks the limits are so small that they are reached: with three entries and
five packets the tracker drops one, three runs of packets are one more than a
frame may have, and numbers of one bit are ambiguous after two losses.
`OwedIsTimed` leaves 0-RTT packets out, for which the code does lose the timer.

In Handshake two units of stream 0 in each direction are what out-of-order
arrival needs, and one buffered packet reaches the limit.  The number of ACK
packets is a bound of the scenario; one or two, at any time, are enough for an
ACK that is stale when it arrives.  A second handler shows a client that meets
two.

In Exchange three streams are needed to see the limit grow twice, and two
packets in flight make the third buffer wait.  `CloseMeansDelivered` and
`NotSilent` leave out responses that are empty: their end is a frame with FIN
alone, whose acknowledgement nobody waits for, and which is not even sent when
the limit on bytes in flight has been reached.  They also leave out streams that
were reset: that is what a reset is for.

`Served` needs some care.  A dispatcher that has seen a connection swallows its
next packet and then forgets it.  If the packet was lost between the last
dispatcher and its server, the first and the second dispatcher alternate in
doing so, and the client's transmissions may run out.  So losses are confined to
the way to a dispatcher (`LossyHops`), three transmissions are allowed, and the
property is about clients on whose data center the dispatchers agree (`Agreed`).
`SingleCopy` and `TakenOnce` are about redundancy 0, the default: with
redundancy, copies that meet again at a server are a repeated packet number,
which ends the connection there.

### Fairness

Processes that have something to read read it, and a client's retransmission
timer fires (`Dispatch!Fairness`): these are what a libev loop does.  Loss, the
timers of dispatchers and servers, restarts and anycast routing are not assumed
to do anything.  In `dispatch_live` `TimersRace` is FALSE: handler timers take
seconds, so they do not fire while a datagram or an answer is in flight, nor
before the client is bound or has sent its last packet, and nobody restarts a
process then.  Answers are not lost in this run: a server may be restarted after
the client's last transmission, and if its only answer were lost nobody would
send another.

In StreamRecv a frame that still matters eventually arrives (retransmission),
limits that were announced arrive, and `conn_write_pkt` runs; it sends MAX_DATA
on its own account only when `conn_should_send_max_data` holds, and fairness
asks for no more.  The enabling condition of frame arrival is written out
(`FramePending`) because evaluating it as ENABLED is too slow.

In Rtb time passes, and once an entry has expired `ngtcp2_conn_write_pkt` is
called: the programs set their timer from `ngtcp2_conn_earliest_expiry`, and its
callback writes packets.  The condition is written out (`CallDue`).  Nothing is
assumed of the network, and a packet may be too small every time.

In Handshake the client starts, and the idle timers of the client and of every
handler expire in the end.  Each packet that is read starts a timer again, so
this says that a peer does not send for ever; nothing is assumed about the
network, and either timer may also fire at any moment.  `NotSilent`, in Handshake
and in Exchange, is liveness stated as an invariant: somebody holds what is
missing and will send it again.

## Findings

`stream_after_rst`: after RST_STREAM, `ngtcp2_strm.h` says, "further reception
of stream data is not allowed".  `conn_recv_stream` looks at the flag only to
compare final offsets, so late data is passed on; and since RST_STREAM leaves
`last_rx_offset` alone, the application is told `fin` when the bytes received
so far are complete, as if the peer had ended the stream there.

`rtb_sorted`: `ngtcp2_rtb.h` says of the list that it is "sorted by decreasing
order of packet number".  An entry that could not be written, or only in part,
keeps its number and is put back at the head, before larger ones.  The walk of
`ngtcp2_rtb_recv_ack` ends the first block at the first packet that is not in
it, so while the order is broken an ACK frame may fail to remove packets it
lists; they are retransmitted without need.  Nothing is lost by it: the proofs
of `NothingForgotten` and `AckedWasReceived` do not assume the order.

`stream_window`: `ngtcp2_conn.h` says of the start of the stream ID window that
it "is used to determine when we enlarge the right edge of stream ID window in
order to avoid excessive fragmentation in ngtcp2_idtr".
`handle_remote_stream_id_extension` gets a pointer to it and increments the
pointer, so the start stays where it was and the limit grows with every stream
that closes, although an earlier one has not even been opened.  The number of
streams open at a time is bounded all the same (`ConcurrencyBounded`).

Met while modelling, and kept in the models as the code has them:

* `decode_hd_long` (ngtcp2_pkt.c:56) looks at the type before the version; the
  server draws the type bits of a version negotiation packet at random
  (server.cc:1952), and most such packets are refused by the client.
* `conn_create_ack_frame` (ngtcp2_conn.c:554) tests `NGTCP2_MAX_ACK_BLKS` one
  block late; the decoder ignores the surplus block (`Decoded` in Acks).
* `call_acked_stream_offset` (ngtcp2_rtb.c:214) reports `datalen` 0 for a frame
  with fin and data that is acknowledged before an earlier one; `ngtcp2.h:839`
  promises that for empty frames only.
* when a stale STOP_SENDING is removed in `conn_retransmit_protected`
  (ngtcp2_conn.c:840) the code goes on with the next frame without a look
  whether there is one; Exchange reaches this (`crashed` becomes "null").
* with 0-RTT the client stops sending its Finished when the first protected
  packet arrives, which does not show that the server has it; so
  `FinishedNotAbandoned` is about connections without 0-RTT.
* `Client::disconnect` leaves the second socket's watcher running, so a client
  that has migrated does not end by itself (`BothEnd` exempts it).
* a request that meets the stream limit is dropped (`http_resq`), and a RST_STREAM
  queued for a stream that closes in the same step is never sent (`write_pkt`).

## Proofs

`DispatchProofs` proves, for every set of data centers, clients and connection
IDs, all measurements, and any timing:

* `TypeCorrect`: `Spec => []TypeOK`;
* `TablesAgree`: `Spec => []TableConsistent`, by induction with the types; the
  step that matters is that `remove` erases by the Handler's client, which the
  invariant itself says is the right entry;
* `OneCopy`: with `Redundancy = 0`, `Spec => []SingleCopy`;
* `ReadOnce`: with `Redundancy = 0`, `Spec => []TakenOnce`;
* `PacketsEndNothing`: with `Redundancy = 0`, a step in which a server drops a
  connection or begins to close it leaves the network as it is: no Initial is
  the cause.  (A server does drop connections, by its timers or a restart, and
  nothing is claimed about a client bound to one that has.)

The last three rest on `CopyInv`.  Neither `SingleCopy` nor `TakenOnce` is
inductive: what a server has forgotten must still be known to have been read, so
the invariant says of every datagram in flight that it is `Alone` and that no
server has ever read its transmission (`Unread`), that what a server tracks it
has read (`KnownRead`), and, so that a new transmission has no copy anywhere, that
every packet number in flight or read has been transmitted (`Transmitted`).  The
assumption on the constants, `DispatchAssumption`, says that they have their types,
that `None` is none of the other values, and that a selection never returns more
than `Redundancy + 1` data centers, which is what the loop's exit test ensures
(`selection` checks it and `AtMostRedundancy` below proves it).

`StreamRecvProofs` proves, for a stream of any size, chunks and windows of any
size, frames cut in any way and arriving in any order and any number of times:

* `PrefixDelivered`: `Spec => []IntactPrefix`;
* `CreditReturned`: `Spec => []CreditConserved`;
* `ReceptionIsByteStream`: `Spec => IsByteStream`, the refinement: every step is
  a step of ByteStream or none.

The invariant has three layers.  `GapList` and `Buffered` say what the data
structures mean: the gaps are nonempty, in order and apart, and a byte beyond the
first gap is in memory exactly when it is in no gap.  `PushTakesOut` and
`TrimmedGaps` show that a push and the removal of a prefix change that meaning as
they should; they are proved by induction along the list.  `Passed` says that what
was passed on is the stream up to `rx`, with its credit given back; `LoopSound`
shows that `conn_emit_pending_stream_data` ends exactly at the first gap, without
a failed assertion of `ngtcp2_rob_data_at`.  `Offsets` ties the stream's offsets
to what the peer has sent, so that a peer that keeps to its limits is never
accused.

`RtbProofs` proves, for any amount of data, credit, number of packets and
deadline, with or without splitting:

* `AckedReached`: `Spec => []AckedWasReceived`;
* `NoneForgotten`: `Spec => []NothingForgotten`;
* `InFlightIsSum`: `Spec => []InFlightAccounted`;
* `WalkIsExact`: `Spec => []AckRemovesExactly`.

None is inductive.  That an acknowledged packet's bytes are with the peer
needs that an entry's frames were sent in the packet whose number it has
(`EntriesSent`), which is what a partial retransmission must keep: the frames
left behind keep the old number.  That frames of a closed stream may be dropped
needs that it was reset or wholly acknowledged (`ClosedIsDone`), and
`AckedWasReceived` to turn the latter into "received".  The conjunction with the
types is `Inv`; the lemmas are one per action, and what all four ways of
retransmitting have in common is one predicate, `Replacement`.  The accounting
needs that list and queue hold the same packet numbers, each once (`Books`): a
number that was in the list twice would be subtracted twice.  Of the walk,
"removes nothing that the frame does not list" needs no order; "removes all of
it" is proved from `Sorted` alone, the property the code breaks (second
finding).

`AcksProofs` proves, for any limits on the tracker, the blocks of a frame and the
ring, any packet budget, any loss and any order:

* `NoFalseAck`: `Spec => []ListedWereGot`;
* `NoneForgottenUnheard`: `Spec => []KeptUntilHeard`;
* `NoAckOverlooked`: `Spec => []OwedIsTimed`;
* `NewestIsRecovered`: `FewPackets => (Spec => []NewestRecovered)`.

The first lemmas are about frames as such: a set of numbers falls into runs
(`RunsCover`), the frame made from runs lists them (`AckFrameNumbers`), and what
the decoder cuts off is all that is lost (`DecodedFrame`).  The invariant adds
that a packet number is used once, that the tracker holds packets that were got,
and `RingSent`: a frame in the ring is the one its packet carries, so that an ACK
of that packet means the peer has heard what the frame lists.  `FewPackets` says
that no more packets are sent than half the window of the longest packet number,
2^31 with the code's 32 bits: beyond it the numbers are ambiguous.

`HandshakeProofs` proves, for any scenario, any number of handlers and any size of
the buffer:

* `StatesKept`: `Spec => []TypeOK`;
* `TablesOfServerAgree`: `Spec => []RoutesAgree`;
* `HandshakeWithOneServer`: `Spec => []OneServer`;
* `FinishedArrives`: `Spec => []FinishedNotAbandoned`;
* `HandshakeNotSilent`: `Spec => []NotSilent`.

`OneServer` compares the two ends of a connection, which only packets connect.
So the invariant has `Progress`, what the handshake has come to on each side, and
`NetOk`, what each packet that was ever sent shows about its sender: a Finished
of the client's shows that its handshake is complete, and with which handler.
There is a lemma for every operator in a chain of calls; for writing they
have the form `Wrote`, for receiving `Read`, and both compose.

The last two are about what a connection lets go of, and need two invariants more.
`Evidence` says what a packet proves about the other end: a unit that an ACK lists
was got there, a client's protected packet shows that its handshake is complete, and
without 0-RTT a handler's shows that it has the Finished.  This must also hold of
packets that wait in the buffer (`Waits`), and of a handler that has been
removed it says nothing more (`Came`).  `Persists`, which holds until `trouble`,
says for either side (`Answers`, `Asks`) that each unit it has sent and does not hold any
more has come to the other end or is not needed there.  Then nobody can be left
with nothing to send: a client that has completed has made its request, the handler
that has it holds the response, and one that has not waits for a unit that its
handler still holds.  Within a turn the client may have its last unit without its
keys, so the lemmas for calls that receive are about `Secured`, and `Calm` comes
back with the end of `ngtcp2_conn_recv`.

`ExchangeProofs` proves, for any number of streams, any page, any stream limit
and any MAX_BYTES_IN_FLIGHT, whatever is lost, repeated or reordered:

* `CreditKept`: `Spec => []CreditNotLost`;
* `OneAnswer`: `Spec => []AnsweredOnce`;
* `StreamsBounded`: `Spec => []ConcurrencyBounded`;
* `NoAssertFails`: `Spec => []AssertsHold`;
* `NoErrorWithoutReset`: `Spec => []ErrorsOnlyAfterReset`;
* `ClosingLosesNothing`: `Spec => []CloseMeansDelivered`;
* `ExchangeNotSilent`: `Spec => []NotSilent`.

The first three share one invariant, `Inv`.  That a request is not answered a second time
rests on the stream ID tracker: an answered stream is still in the map, completed,
or its ID is no longer free (`Answers`), so that a late frame for it is ignored.
This needs what the tracker's gap list means (`Tracker`; `IdtrOpen` says what
`ngtcp2_idtr_open` does to it, and that it may leave an empty gap behind).
The number of open streams is bounded because the limit is raised once for each
stream that closes: `ServerInv` says there is a set of closed streams, disjoint
from the open ones, at least as large as what the limit has grown by, and that
the IDs of both are under the limit.  That credit is not lost needs that
a limit in a packet that arrived is known to the client, so that removing an
acknowledged MAX_STREAM_ID from the buffer loses nothing.  As in HandshakeProofs
there is a lemma per operator, and a few relations between the connection before
and after a call (`Kept`, `Grows`, `Wrote`) that compose along the chain of calls;
where the model folds over the requests or streams of one turn, the fold is first shown
to exist with the lemmas of Induction.

The other four need a second invariant, `Inv2`, which ties both ends of every
stream to the frames between them.  `Wire` says what the frames that were ever
sent for a stream in one direction have in common: a unit is in one frame, one
frame has the end, and nothing is beyond it.  `Sending` relates the sender's
buffers, offsets and acknowledged units to these frames: every unit up to `tx` was
framed, an unacknowledged frame is in the retransmission buffer or has arrived,
and an acknowledged one has arrived.  `Receiving` relates the receiver's offsets
and reordering buffer to the frames that have arrived.  A stream that is closed has
left nothing behind (`Gone`) and its response is through (`Done`); that is
`CloseMeansDelivered` seen from the server alone.  `Counted` says that the server's
application has read what was passed on, and has answered once that is the
request; `Rests`, that a stream with something left to write is held by
MAX_BYTES_IN_FLIGHT only.  From the first follows that `on_stream_close` and
`remove_tx_stream_data` find their stream and `streambuf_idx` stays in range;
from the last two that an exchange that is not over has something in flight.
In the middle of a turn part of `Inv2` does not hold yet, so the lemmas about calls are about `Mid`, one side and what it relies on of the
other (`Context`), and `Full`, which is `Mid` with what has arrived; the writing
at the end of a turn (`Writing`, `Rounded`) restores `Rests`.  The step of one side
keeps the invariant of the other because frames and answers are only ever
added (`Beyond`, `Comes`).

`SelectionProofs` proves, for any finite set of data centers, any integer
measurements, any deployment and redundancy, and any order of equal values:

* `FirstIsBest`: `Spec => []BestIsFirst`;
* `RedundantAreGood`: `Spec => []RedundantWithinBounds`;
* `AllWhoFit`: `Spec => []NoneSkipped`;
* `AtMostRedundancy`: `Destinations` gives at most redundancy + 1 data centers.

Here `Spec` is the one of MCSelection, whose measurements are constants.  The work
is in `LoopWalked`, which says what a forwarding loop has sent after its rounds, by
induction over them (`RoundWalked` is the step).  That one comparison
with the first nonzero latency suffices needs that the list is sorted and names a
data center once; a negative latency that comes first only makes the test stricter.

`Induction` is there because the library's induction theorems take an operator
as a parameter, which the provers cannot instantiate.  It states them for sets:
a set of numbers with 0 and the successor of every member is `Nat`.  From this
come the existence of recursive functions, of folds (the community modules define
theirs by CHOOSE, so a fold means nothing before a function with its equation is
shown to exist), sums over finite sets, and descending lists.

Only model-checked: the liveness properties (the prover has no ENABLED), and
Codec, TransportParams and Containers, which fold over lists.

## Not modelled

* stateless retry and stateless reset inside a connection, PING and PONG,
  APPLICATION_CLOSE, unidirectional streams: none of the programs uses them;
* sockets that cannot be written to (`NETWORK_ERR_SEND_NON_FATAL`): the packet
  in the buffer is sent later, which is a delay of the network;
* flow control of several streams at once: StreamRecv has one stream and the
  connection's window;
* the dispatcher's Handler (balancer.cc 569-1464), the same code as the
  server's, of which the dispatcher uses what Dispatch models;
* the client's terminal input, session and parameter files, log files, and
  command lines;
* cryptography and the TLS glue, the vendored HTTP and JSON parsers, debug
  output, the MySQL and Redis clients (their answers are inputs of Selection),
  FastRoute, which is a baseline and shares nothing with Polygon, and the
  deployment and evaluation scripts.
