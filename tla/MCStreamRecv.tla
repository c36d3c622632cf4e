---------------------------- MODULE MCStreamRecv ----------------------------
(* StreamRecv for TLC.                                                     *)
EXTENDS StreamRecv
=============================================================================
