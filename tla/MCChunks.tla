------------------------------ MODULE MCChunks ------------------------------
(* An instance of Chunks for TLC: two senders, one of a build with a higher *)
(* ceiling than the receiver's.                                             *)
EXTENDS Chunks

CONSTANTS p1, p2

Builds == [p \in Peers |-> IF p = p1 THEN 6 ELSE 8]
=============================================================================
