----------------------------- MODULE MCJourney ------------------------------
(* An instance of Journey for TLC: the room and one other record.          *)
EXTENDS Journey
=============================================================================
