----------------------------- MODULE MCRoomSync -----------------------------
(* Instances of RoomSync for TLC: one owner, a few guests.                 *)
EXTENDS RoomSync

CONSTANTS g1

=============================================================================
