-------------------------------- MODULE MCAcks --------------------------------
(* Acknowledgement between two endpoints that send a few packets, for TLC. *)
EXTENDS Acks

(* A little in both directions, or one endpoint that sends a lot.          *)
Budget(c, s) == [e \in {Client, Server} |-> IF e = Client THEN c ELSE s]
MCBudgets    == {Budget(3, 2), Budget(5, 1)}
MCBits  == <<1, 2, 3>>
=============================================================================
