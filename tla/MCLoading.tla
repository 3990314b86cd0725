----------------------------- MODULE MCLoading ------------------------------
(***************************************************************************)
(* Two accounts: one whose records can be read, one whose room cannot be   *)
(* decoded and which never saved an inventory; and a world whose DID       *)
(* names no account.                                                       *)
(***************************************************************************)
EXTENDS Loading

MCKinds == {"room", "inventory"}

MCKept ==
    [d \in Dids |->
        CASE d = "nora"  -> [k \in MCKinds |-> "first"]
          [] d = "ola"   -> [k \in MCKinds |-> IF k = "room" THEN "unreadable" ELSE "missing"]
          [] OTHER       -> [k \in MCKinds |-> "no account"]]

MCAttempts == [k \in MCKinds |-> 1]
=============================================================================
