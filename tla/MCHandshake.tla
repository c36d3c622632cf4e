------------------------------ MODULE MCHandshake ------------------------------
(***************************************************************************)
(* Resumed and full handshakes with one handler and two ACK packets; two   *)
(* handlers, so that a client's Initial meets a second one; a server that  *)
(* refuses 0-RTT; sides that fail; a version that is not known.            *)
(***************************************************************************)
EXTENDS Handshake

Scenario(early, take_early, known, connects, fails, conns, acks) ==
    [early |-> early, take_early |-> take_early, known |-> known,
     connects |-> connects, fails |-> fails, conns |-> conns, acks |-> acks]

MCScenarios ==
    {Scenario(FALSE, FALSE, TRUE, TRUE, {}, 1, 2),
     Scenario(FALSE, FALSE, TRUE, FALSE, {}, 2, 1),
     Scenario(TRUE, TRUE, TRUE, TRUE, {}, 1, 1),
     Scenario(TRUE, FALSE, TRUE, FALSE, {}, 1, 1),
     Scenario(FALSE, FALSE, TRUE, TRUE, {"client"}, 1, 1),
     Scenario(FALSE, FALSE, TRUE, TRUE, {"server"}, 2, 1),
     Scenario(FALSE, FALSE, FALSE, TRUE, {}, 1, 1)}
=============================================================================
