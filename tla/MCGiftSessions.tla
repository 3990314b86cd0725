-------------------------- MODULE MCGiftSessions --------------------------
(* One giver and one recipient whose people sign out and in again, on      *)
(* machines that sleep and a network that loses messages.                  *)
EXTENDS GiftOffers, TLC

CONSTANTS g, r,             \* clients
          gina, rosa, otto  \* accounts; rosa and otto share client r

MCClients == {g, r}
MCAccounts == {gina, rosa, otto}
MCSignsInAs == (g :> {gina}) @@ (r :> {rosa, otto})
MCMutes == {<<r, gina>>}
MCGivesTo == {<<g, rosa>>}
=============================================================================
