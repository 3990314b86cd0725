-------------------------- MODULE MCOwnerSessions --------------------------
(* Instances of OwnerSessions for TLC.                                     *)
EXTENDS OwnerSessions

CONSTANTS s1, s2

=============================================================================
