-------------------------------- MODULE MCRtb --------------------------------
(* The retransmission buffer with one small stream, for TLC.               *)
EXTENDS Rtb
=============================================================================
