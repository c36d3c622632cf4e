------------------------------ MODULE MCDispatch ------------------------------
(***************************************************************************)
(* Instances of Dispatch.tla: measurement tables for the dispatchers of    *)
(* two or three data centers.                                              *)
(***************************************************************************)
EXTENDS Dispatch, TLC

CONSTANTS da, db, dc, c1, c2

\* Every list prefers its first data center; the others are too far from it
\* to get a redundant copy.
Lists(near, far) ==
    [ m \in {"rtt", "cpu", "throughput"} |->
        IF m = "rtt"
        THEN << [dc |-> near, val |-> 10], [dc |-> far, val |-> 90] >>
        ELSE << [dc |-> near, val |-> 90], [dc |-> far, val |-> 10] >> ]

Everybody == [d \in DC |-> DC \ {d}]

RttAndCpu == [c \in Conns |-> IF c = c1 THEN "rtt" ELSE "cpu"]

\* One of the clients gives up earlier.
Uneven == [c \in Conns |-> IF c = c1 THEN MaxTx ELSE MaxTx - 1]

Impatient == [c \in Conns |-> IF c = c1 THEN 1 ELSE MaxTx]

\* Two data centers whose latencies change between packets, or contradict
\* each other.  The other lists are missing: who asks for them is served by
\* the data center its packet comes to.
AnyMetrics2 == [d \in DC |->
    {[l EXCEPT !["cpu"] = << >>] : l \in {Lists(da, db), Lists(db, da)}}]

\* Data centers that agree which of them is the least loaded, but each think
\* that the other one is nearest.
OtherNearest == [d \in DC |->
    {[Lists(db, da) EXCEPT !["rtt"] =
        (IF d = da THEN Lists(db, da) ELSE Lists(da, db))["rtt"]]}]

\* Connection IDs are drawn at random, and with AnyMetrics2 the data centers
\* are alike.
Alike == Permutations(ServerIds) \cup Permutations(DC)
=============================================================================
