------------------------------ MODULE Selection ------------------------------
(***************************************************************************)
(* Server selection in the dispatcher, examples/balancer.cc: which data    *)
(* centers the Initial packet of a new connection is forwarded to.         *)
(*                                                                         *)
(* A measurement list is a sequence of entries [dc, val]; the code sorts   *)
(* it before it is used (latencies ascending, cpus and throughputs         *)
(* descending; std::sort leaves the order of equal values open).           *)
(*                                                                         *)
(* Doubles are integers here: fabs(best) < 1e-7 is best = 0, and a         *)
(* relative difference above 0.1 is ten times the difference above best.   *)
(***************************************************************************)
EXTENDS Integers, Sequences, SequencesExt, FiniteSetsExt

Distance(a, b) == IF a < b THEN b - a ELSE a - b

\* The demands a ClientHello carries in its transport parameters; "none"
\* stands for one that sets no *_sensitive parameter to 1.
Demands == {"rtt", "cpu", "throughput", "none"}

\* LatencyDCCmp, CpuDCCmp and ThroughputDCCmp.
NotAfter(demand, a, b) ==
    IF demand = "rtt" THEN a.val <= b.val ELSE a.val >= b.val

\* Every result std::sort may leave for the list s.
Sortings(demand, s) ==
    LET Arrangements == { [i \in DOMAIN s |-> s[p[i]]] :
                            p \in { q \in [DOMAIN s -> DOMAIN s] :
                                      IsInjective(q) } }
        Ordered(t) == \A i, j \in DOMAIN t :
                         i < j => NotAfter(demand, t[i], t[j])
    IN  { t \in Arrangements : Ordered(t) }

\* Entries the forwarding loops skip: a latency that is not positive, a
\* cpu or throughput value that is negative, a data center the domain is
\* not deployed in.
Eligible(demand, e, deployed) ==
    /\ IF demand = "rtt" THEN e.val > 0 ELSE e.val >= 0
    /\ e.dc \in deployed

\* Mutant: the latency is not looked at.
SuitableAtAnyLatency(dc, best, now, latencies) ==
    /\ best # 0
    /\ 10 * Distance(best, now) <= best

\* check_redundant_suitable: least_latency is the first nonzero latency met
\* on the way to dc's own entry, zero if there is none.
check_redundant_suitable(dc, best, now, latencies) ==
    LET own   == SelectInSeq(latencies, LAMBDA e : e.dc = dc)
        first == SelectInSubSeq(latencies, 1, own, LAMBDA e : e.val # 0)
        least == IF first = 0 THEN 0 ELSE latencies[first].val
    IN  /\ best # 0
        /\ 10 * Distance(best, now) <= best
        /\ own # 0
        /\ Distance(least, latencies[own].val) <= 30

\* Mutant: the first entry is taken wherever the domain is deployed.
LoopStepAnywhere(demand, latencies, deployed, redundancy, acc, e) ==
    IF Len(acc.sent) > redundancy THEN acc
    ELSE [ sent |-> Append(acc.sent, e.dc), best |-> e.val ]

\* Mutant: one copy too few.
LoopStepShort(demand, latencies, deployed, redundancy, acc, e) ==
    IF \/ acc.sent # << >> /\ Len(acc.sent) >= redundancy
       \/ ~ Eligible(demand, e, deployed)
       \/ /\ acc.sent # << >>
          /\ ~ check_redundant_suitable(e.dc, acc.best, e.val, latencies)
    THEN acc
    ELSE [ sent |-> Append(acc.sent, e.dc),
           best |-> IF acc.sent = << >> THEN e.val ELSE acc.best ]

\* One round of a forwarding loop: sent is the sequence of data centers
\* the packet was sent towards so far, best the value of the first one.
LoopStep(demand, latencies, deployed, redundancy, acc, e) ==
    IF \/ Len(acc.sent) > redundancy
       \/ ~ Eligible(demand, e, deployed)
       \/ /\ acc.sent # << >>
          /\ ~ check_redundant_suitable(e.dc, acc.best, e.val, latencies)
    THEN acc
    ELSE [ sent |-> Append(acc.sent, e.dc),
           best |-> IF acc.sent = << >> THEN e.val ELSE acc.best ]

\* The three forwarding loops, which differ in the list they walk.
ForwardLoop(demand, list, latencies, deployed, redundancy) ==
    FoldLeft(LAMBDA acc, e :
                LoopStep(demand, latencies, deployed, redundancy, acc, e),
             [sent |-> << >>, best |-> 0], list).sent

\* Where the dispatcher of data center self sends the packet.  An empty
\* list is answered by the local server.  metrics holds the sorted lists.
Destinations(self, demand, metrics, deployed, redundancy) ==
    IF demand = "none" THEN << >>
    ELSE IF metrics[demand] = << >> THEN << self >>
    ELSE ForwardLoop(demand, metrics[demand], metrics["rtt"], deployed,
                     redundancy)
=============================================================================
