--------------------------- MODULE MCRoomRecords ---------------------------
(* Instances of RoomRecords for TLC: the owner's sessions of an old and a  *)
(* new build, and a visitor.                                               *)
EXTENDS RoomRecords, TLC

CONSTANTS old, new, v,      \* clients
          a, b, p           \* content: a generator both builds read, one of a
                            \* newer kind, a part of a long set

MCName == (a :> "a") @@ (b :> "b") @@ (p :> "p")

MCReads == (old :> {a}) @@ (new :> {a, b, p}) @@ (v :> {a, b, p})
=============================================================================
