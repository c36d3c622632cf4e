------------------------------ MODULE ByteStream ------------------------------
(***************************************************************************)
(* What a QUIC stream promises the application that reads it: the bytes    *)
(* written at the other end, each once and in order, and the end of the    *)
(* stream after the last one.  Bytes are numbered from one.                *)
(***************************************************************************)
EXTENDS Naturals, Sequences

VARIABLES
    written,   \* bytes the writer has handed over
    finished,  \* the writer has ended the stream
    read,      \* the bytes passed to the reader, in that order
    ended      \* the reader has been told that the stream is over

vars == << written, finished, read, ended >>

Init ==
    /\ written = 0
    /\ finished = FALSE
    /\ read = << >>
    /\ ended = FALSE

Write ==
    /\ ~ finished
    /\ written' >= written
    /\ finished' \in BOOLEAN
    /\ UNCHANGED << read, ended >>

\* The reader gets the next bytes and, with the last one, the end.
Read ==
    /\ ~ ended
    /\ Len(read') >= Len(read)
    /\ read' = [i \in 1 .. Len(read') |-> i]
    /\ Len(read') <= written
    /\ ended' => finished /\ Len(read') = written
    /\ UNCHANGED << written, finished >>

Next == Write \/ Read

Spec == Init /\ [][Next]_vars
=============================================================================
