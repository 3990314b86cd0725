--------------------------- MODULE MCGiftOffers ---------------------------
(* Two givers and one recipient, each on a client of their own.            *)
EXTENDS GiftOffers, TLC

CONSTANTS g, h, r,          \* clients
          gina, hugo, rosa  \* accounts

MCClients == {g, h, r}
MCAccounts == {gina, hugo, rosa}
MCSignsInAs == (g :> {gina}) @@ (h :> {hugo}) @@ (r :> {rosa})
MCMutes == {<<r, gina>>}
MCGivesTo == {<<g, rosa>>, <<h, rosa>>}
=============================================================================
