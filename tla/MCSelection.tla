----------------------------- MODULE MCSelection -----------------------------
(***************************************************************************)
(* Selection.tla checked on every measurement table over small sets.       *)
(*                                                                         *)
(* A behaviour picks what MySQL and Redis hold, lets the dispatcher sort   *)
(* the lists, and forwards one packet.  The values are chosen around the   *)
(* thresholds of check_redundant_suitable: 10% (20 and 22, 50 and 46) and  *)
(* 30 ms (20 and 50, 400 and 431), with unusable measurements (-1, 0) and  *)
(* data centers that have none.                                            *)
(***************************************************************************)
EXTENDS Selection, FiniteSets

CONSTANTS
    DC,             \* data centers that may be measured or deployed
    Self,           \* the one of the dispatcher
    MaxRedundancy,  \* largest --redundancy
    Latencies,      \* the latencies there are, for each demand
    Values          \* what else is measured, for each demand

Measurements == [{"rtt", "cpu", "throughput"} -> SUBSET Int]

ASSUME SelectionAssumption ==
    /\ Self \in DC /\ IsFiniteSet(DC) /\ MaxRedundancy \in Nat
    /\ Latencies \in Measurements /\ Values \in Measurements

Absent == -100                             \* no row for this data center

\* What is worth distinguishing for each demand.
MCLatencies ==
    [d \in {"rtt", "cpu", "throughput"} |->
       IF d = "rtt" THEN {Absent, -1, 20, 22, 400, 431} ELSE {Absent, -1, 20, 50, 60}]

MCValues ==
    [d \in {"rtt", "cpu", "throughput"} |->
       IF d = "rtt" THEN {Absent} ELSE {Absent, 0, 46, 50}]

VARIABLES demand, metrics, deployed, redundancy, sent, done

mcvars == << demand, metrics, deployed, redundancy, sent, done >>

Rows(table) == SetToSeq({ [dc |-> d, val |-> table[d]] :
                            d \in { e \in DC : table[e] # Absent } })

Init ==
    /\ demand \in Demands \ {"none"}
    /\ \E lat \in [DC -> Latencies[demand]], val \in [DC -> Values[demand]] :
         \E latencies \in Sortings("rtt", Rows(lat)),
            list \in Sortings(demand, Rows(val)) :
              metrics = [m \in {"rtt", "cpu", "throughput"} |->
                           IF m = "rtt" THEN latencies
                           ELSE IF m = demand THEN list ELSE << >>]
    /\ deployed \in SUBSET DC
    /\ redundancy \in 0 .. MaxRedundancy
    /\ sent = << >>
    /\ done = FALSE

\* The dispatcher forwards the packet.
Forward ==
    /\ ~ done
    /\ sent' = Destinations(Self, demand, metrics, deployed, redundancy)
    /\ done' = TRUE
    /\ UNCHANGED << demand, metrics, deployed, redundancy >>

Next == Forward

Spec == Init /\ [][Next]_mcvars

-----------------------------------------------------------------------------

list == metrics[demand]

Usable == { i \in DOMAIN list : Eligible(demand, list[i], deployed) }

\* The place of dc in the list walked.
IndexOf(dc) == CHOOSE i \in DOMAIN list : list[i].dc = dc

\* The latencies that are known.
Known == { e \in Range(metrics["rtt"]) : e.val > 0 }

\* The first destination is a best choice: it is deployed, and no deployed
\* data center with a usable measurement is closer, idler or faster.
BestIsFirst ==
    (done /\ list # << >> /\ sent # << >>) =>
        \E i \in Usable :
          /\ list[i].dc = Head(sent)
          /\ \A j \in Usable : NotAfter(demand, list[i], list[j])

\* Redundant copies obey the comment on check_redundant_suitable ("not with
\* a performance gap above 10% or a latency gap above 30 ms"): whoever gets
\* one measures within a tenth of the best and, when its latency is known,
\* at most 30 ms above the smallest known latency.
RedundantWithinBounds ==
    (done /\ list # << >>) =>
        \A k \in 2 .. Len(sent) :
          LET best == list[IndexOf(sent[1])].val
              own  == list[IndexOf(sent[k])].val
          IN  /\ 10 * own <= 11 * best
              /\ 10 * own >= 9 * best
              /\ \A e, f \in Known :
                   e.dc = sent[k] => e.val - f.val <= 30

\* The walk stops early only when redundancy + 1 copies are out: nobody who
\* qualifies is passed over, and a packet is dropped only when no deployed
\* data center has a usable measurement.
NoneSkipped ==
    (done /\ list # << >>) =>
        LET best == list[Min(Usable)].val
            fit  == { i \in Usable \ {Min(Usable)} :
                        check_redundant_suitable(list[i].dc, best,
                                                 list[i].val, metrics["rtt"]) }
        IN  IF Usable = {} THEN sent = << >>
            ELSE Len(sent) = Min({redundancy, Cardinality(fit)}) + 1
=============================================================================
