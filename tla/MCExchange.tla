------------------------------ MODULE MCExchange ------------------------------
(* A page with two resources, one more than the limit has room for; a file *)
(* of two units on two streams, one after the other; a file of one unit on *)
(* two streams at a time, and on three one after the other.  The window    *)
(* needs three streams, two at a time.                                     *)
EXTENDS Exchange

WindowPages == {[interactive |-> FALSE, n |-> 3, req |-> 1, limit |-> 2]}

MCPages == {[interactive |-> TRUE, n |-> 2, req |-> 1, limit |-> 2],
            [interactive |-> FALSE, n |-> 2, req |-> 2, limit |-> 1],
            [interactive |-> FALSE, n |-> 3, req |-> 1, limit |-> 1],
            [interactive |-> FALSE, n |-> 2, req |-> 1, limit |-> 2]}
=============================================================================
