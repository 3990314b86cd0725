------------------------------- MODULE Channel -------------------------------
(***************************************************************************)
(* What a client may rely on when it sends reliable messages: of the       *)
(* messages a peer sends, numbered as it sends them, the receiver takes in *)
(* some, each at most once and in the order they were sent, and never      *)
(* anything else.  A message may be lost; a link that goes down loses      *)
(* everything that is on it.                                               *)
(***************************************************************************)
EXTENDS Naturals, Sequences

CONSTANTS Peers

VARIABLES
    sent,       \* sent[p]: how many messages p has sent
    transit,    \* transit[p]: those that may still arrive
    received    \* received[p]: those taken in, in their order

vars == <<sent, transit, received>>

Init ==
    /\ sent = [p \in Peers |-> 0]
    /\ transit = [p \in Peers |-> {}]
    /\ received = [p \in Peers |-> <<>>]

\* A message is sent; one the sender is refused never gets on its way.
Send(p) ==
    /\ sent' = [sent EXCEPT ![p] = @ + 1]
    /\ \/ transit' = [transit EXCEPT ![p] = @ \cup {sent[p] + 1}]
       \/ UNCHANGED transit
    /\ UNCHANGED received

\* Message n arrives or is lost, all before it having arrived or been lost.
Pass(p, n) ==
    /\ n \in transit[p]
    /\ transit' = [transit EXCEPT ![p] = {k \in @ : k > n}]
    /\ \/ received' = [received EXCEPT ![p] = Append(@, n)]
       \/ UNCHANGED received
    /\ UNCHANGED sent

Cut(p) ==
    /\ transit' = [transit EXCEPT ![p] = {}]
    /\ UNCHANGED <<sent, received>>

Next == \E p \in Peers : Send(p) \/ Cut(p) \/ \E n \in transit[p] : Pass(p, n)

Spec == Init /\ [][Next]_vars
=============================================================================
