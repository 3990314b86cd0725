-------------------------- MODULE GiftOffers_proofs --------------------------
(* What TLAPS proves of GiftOffers, for every set of clients and accounts  *)
(* and every value of the clocks.                                          *)
EXTENDS GiftOffers, TLAPS

-----------------------------------------------------------------------------
(* The messages and offers the actions build are of their types.           *)

LEMMA PeerOfType ==
    ASSUME TypeOK, NEW c \in Clients
    PROVE  PeerOf(c) \in Peer
BY DEF TypeOK, PeerOf, Peer

LEMMA OthersType ==
    ASSUME TypeOK, NEW c \in Clients
    PROVE  Others(c) \subseteq Peer
BY PeerOfType DEF Others

LEMMA MessageType ==
    ASSUME TypeOK, NEW m \in net
    PROVE  /\ m.dst \in Peer
           /\ m.dst[1] \in Clients
           /\ m.did \in Accounts
           /\ m.target \in Accounts
           /\ m.kind = "offer" => m \in OfferMsg
           /\ m.kind = "answer" => m \in AnswerMsg
BY DEF TypeOK, OfferMsg, AnswerMsg, Peer

LEMMA IncomingType ==
    ASSUME TypeOK, NEW m \in net, m.kind = "offer"
    PROVE  Incoming(m) \in Offer
BY MessageType DEF TypeOK, Incoming, OfferMsg, Offer

LEMMA OnlineType ==
    ASSUME TypeOK, NEW c \in Clients, Online(c)
    PROVE  session[c] \in Accounts
BY DEF TypeOK, Online

LEMMA ResponseType ==
    ASSUME TypeOK, NEW c \in Clients, Online(c), NEW offer \in Offer,
           NEW accepted \in BOOLEAN, NEW reason \in Reasons,
           NEW to, to \subseteq Peer
    PROVE  Response(c, offer, accepted, reason, to) \subseteq AnswerMsg
<1>1. session[c] \in Accounts
  BY OnlineType
<1>2. offer.gift \in Gift /\ offer.gift.id \in Nat /\ offer.did \in Accounts /\ now \in Nat
  BY DEF TypeOK, Offer, Gift
<1> QED
  BY <1>1, <1>2 DEF Response, AnswerMsg

LEMMA TellType ==
    ASSUME TypeOK, NEW c \in Clients, Online(c), NEW offer \in Offer,
           NEW reason \in Reasons, NEW taken, Tell(c, offer, reason, taken)
    PROVE  /\ net' \subseteq OfferMsg \cup AnswerMsg
           /\ answered' \subseteq Clients \X Gift
<1>1. offer.gift \in Gift /\ {offer.gift.peer} \subseteq Peer
  BY DEF Offer, Gift
<1>2. Response(c, offer, FALSE, reason, {offer.gift.peer}) \subseteq AnswerMsg
  BY <1>1, ResponseType
<1>3. net' \subseteq OfferMsg \cup AnswerMsg
  BY <1>2 DEF TypeOK, Tell
<1>4. answered' \subseteq Clients \X Gift
  BY <1>1 DEF TypeOK, Tell
<1> QED
  BY <1>3, <1>4

LEMMA AnnounceType ==
    ASSUME TypeOK, NEW c \in Clients, Online(c), NEW offer \in Offer,
           NEW accepted \in BOOLEAN, NEW reason \in Reasons,
           Announce(c, offer, accepted, reason)
    PROVE  /\ net' \subseteq OfferMsg \cup AnswerMsg
           /\ answered' \subseteq Clients \X Gift
<1>1. offer.gift \in Gift
  BY DEF Offer
<1>2. Response(c, offer, accepted, reason, Others(c)) \subseteq AnswerMsg
  BY ResponseType, OthersType
<1>3. net' \subseteq OfferMsg \cup AnswerMsg
  BY <1>2 DEF TypeOK, Announce
<1>4. answered' \subseteq Clients \X Gift
  BY <1>1 DEF TypeOK, Announce
<1> QED
  BY <1>3, <1>4

LEMMA LandType ==
    ASSUME TypeOK, NEW c \in Clients, Online(c), NEW offer \in Offer, Land(c, offer)
    PROVE  /\ landed' \subseteq [gift : Gift, by : Accounts]
           /\ full' \in [Accounts -> BOOLEAN]
BY OnlineType DEF TypeOK, Land, Offer

-----------------------------------------------------------------------------
(* TypeOK is inductive.                                                    *)

LEMMA TypeInit == Init => TypeOK
BY GiftAssumption DEF Init, TypeOK

LEMMA TypeDeliver ==
    ASSUME TypeOK, NEW m \in net, Deliver(m)
    PROVE  TypeOK'
<1> m.dst[1] \in Clients
  BY MessageType
<1> DEFINE c == m.dst[1]
<1>1. CASE HandleItemOfferResponse(m)
  <2>1. PICK p \in pending[c] :
          /\ pending' = [pending EXCEPT ![c] = @ \ {p}]
          /\ told' = told \cup
              {[gift |-> [peer |-> PeerOf(c), id |-> p.id], target |-> p.target,
                outcome |-> Outcome(m), about |-> m.about]}
    BY <1>1 DEF HandleItemOfferResponse
  <2>2. p.id \in Nat /\ p.target \in Accounts
    BY DEF TypeOK
  <2>3. Outcome(m) \in Outcomes /\ m.about \in Gift
    BY <1>1, MessageType DEF HandleItemOfferResponse, AnswerMsg, Outcome, Outcomes
  <2>4. told' \subseteq [gift : Gift, target : Accounts, outcome : Outcomes, about : Gift]
    BY <2>1, <2>2, <2>3, PeerOfType DEF TypeOK, Gift
  <2> QED
    BY <1>1, <2>1, <2>4 DEF HandleItemOfferResponse, TypeOK, online, recipient, stash
<1>2. CASE IgnoreItemOfferResponse(m)
  BY <1>2 DEF IgnoreItemOfferResponse, TypeOK, online, giver, recipient, stash
<1>3. CASE DropOfferForAnother(m)
  BY <1>3 DEF DropOfferForAnother, TypeOK, online, giver, recipient, stash
<1>4. CASE DeclineFromMuted(m)
  <2>1. Online(c) /\ Incoming(m) \in Offer
    BY <1>4, IncomingType DEF DeclineFromMuted, ForMe, Arrives
  <2> QED
    BY <1>4, <2>1, TellType DEF DeclineFromMuted, TypeOK, online, giver,
                                recipient, stash, Reasons
<1>5. CASE DeclineBusy(m)
  <2>1. Online(c) /\ Incoming(m) \in Offer
    BY <1>5, IncomingType DEF DeclineBusy, Heard, ForMe, Arrives
  <2> QED
    BY <1>5, <2>1, TellType DEF DeclineBusy, TypeOK, online, giver,
                                recipient, stash, Reasons
<1>6. CASE RefuseUnreadable(m)
  <2>1. Online(c) /\ Incoming(m) \in Offer
    BY <1>6, IncomingType DEF RefuseUnreadable, Heard, ForMe, Arrives
  <2> QED
    BY <1>6, <2>1, TellType DEF RefuseUnreadable, TypeOK, online, giver,
                                recipient, stash, Reasons
<1>7. CASE RaiseDialog(m)
  <2>1. Incoming(m) \in Offer
    BY <1>7, IncomingType DEF RaiseDialog, Heard, ForMe
  <2> QED
    BY <1>7, <2>1 DEF RaiseDialog, TypeOK, online, giver, stash
<1>8. CASE Lose(m)
  BY <1>8 DEF Lose, TypeOK, online, giver, recipient, stash
<1> QED
  BY <1>1, <1>2, <1>3, <1>4, <1>5, <1>6, <1>7, <1>8 DEF Deliver

LEMMA TypeFrame ==
    ASSUME TypeOK, NEW c \in Clients, Frame(c)
    PROVE  TypeOK'
<1>1. CASE SweepStalePendingOffers(c)
  <2> DEFINE stale == {p \in pending[c] : PendingDue(p)}
  <2>1. \A p \in stale : p.id \in Nat /\ p.target \in Accounts
    BY DEF TypeOK
  <2>2. PeerOf(c) \in Peer
    BY PeerOfType
  <2>3. told' \subseteq [gift : Gift, target : Accounts, outcome : Outcomes, about : Gift]
    BY <1>1, <2>1, <2>2 DEF SweepStalePendingOffers, TypeOK, Gift, Outcomes
  <2> QED
    BY <1>1, <2>3 DEF SweepStalePendingOffers, TypeOK, online, recipient, stash
<1>2. CASE EvictStaleOfferDialog(c)
  <2>1. Online(c) /\ dialog[c] \in Offer
    BY <1>2 DEF EvictStaleOfferDialog, CanAnswer, TypeOK
  <2> QED
    BY <1>2, <2>1, TellType DEF EvictStaleOfferDialog, CloseDialog, TypeOK,
                                online, giver, stash, Reasons
<1>3. CASE ExpireHeldOffer(c)
  <2>1. Online(c) /\ held[c] \in Offer
    BY <1>3 DEF ExpireHeldOffer, TypeOK
  <2> QED
    BY <1>3, <2>1, TellType DEF ExpireHeldOffer, Letgo, TypeOK,
                                online, giver, stash, Reasons
<1>4. CASE RepresentHeldOffer(c)
  BY <1>4 DEF RepresentHeldOffer, Letgo, TypeOK, online, giver, stash
<1>5. CASE DismissOfferDialog(c)
  <2>1. Online(c) /\ dialog[c] \in Offer
    BY <1>5 DEF DismissOfferDialog, Dismissed, TypeOK
  <2> QED
    BY <1>5, <2>1, TellType DEF DismissOfferDialog, CloseDialog, TypeOK,
                                online, giver, stash, Reasons
<1>6. CASE ForgetFlips(c)
  BY <1>6 DEF ForgetFlips, TypeOK, online, giver, stash
<1> QED
  BY <1>1, <1>2, <1>3, <1>4, <1>5, <1>6 DEF Frame

LEMMA TypeFetch ==
    ASSUME TypeOK, NEW c \in Clients, Fetch(c)
    PROVE  TypeOK'
<1> PICK offer \in fetching[c] :
       \/ GiftWorldLands(c, offer)
       \/ GiftWorldFindsNoRoom(c, offer)
       \/ GiftWorldNotFetched(c, offer)
  BY DEF Fetch
<1>0. Online(c) /\ offer \in Offer
  BY DEF GiftWorldLands, GiftWorldFindsNoRoom, GiftWorldNotFetched, FetchEnds, TypeOK
<1>1. CASE GiftWorldLands(c, offer)
  BY <1>0, <1>1, AnnounceType, LandType
     DEF GiftWorldLands, FetchEnds, TypeOK, online, giver, Reasons
<1>2. CASE GiftWorldFindsNoRoom(c, offer)
  BY <1>0, <1>2, AnnounceType
     DEF GiftWorldFindsNoRoom, FetchEnds, TypeOK, online, giver, stash, Reasons
<1>3. CASE GiftWorldNotFetched(c, offer)
  BY <1>0, <1>3, AnnounceType
     DEF GiftWorldNotFetched, FetchEnds, TypeOK, online, giver, stash, Reasons
<1> QED
  BY <1>1, <1>2, <1>3

LEMMA FlipType ==
    ASSUME TypeOK, NEW c \in Clients, NEW a
    PROVE  Flip(c, a) \subseteq Peer
BY PeerOfType DEF Flip

LEMMA TypePerson ==
    ASSUME TypeOK, NEW c \in Clients, Person(c)
    PROVE  TypeOK'
<1>1. ASSUME NEW a \in Accounts, NEW item \in Items, GiveOffer(c, a, item)
      PROVE  TypeOK'
  <2> DEFINE gift == [peer |-> PeerOf(c), id |-> nextId[c]]
             sent == {[kind |-> "offer", dst |-> p, gift |-> gift,
                       did |-> session[c], target |-> a, item |-> item,
                       at |-> now] : p \in Others(c)}
  <2>1. gift \in Gift /\ session[c] \in Accounts /\ now \in Nat
    BY <1>1, PeerOfType, OnlineType DEF GiveOffer, Gift, TypeOK
  <2>2. item \in AllItems /\ Others(c) \subseteq Peer
    BY GiftAssumption, OthersType
  <2>3. sent \subseteq OfferMsg
    BY <2>1, <2>2 DEF OfferMsg
  <2>4. net' = net \cup sent
    BY <1>1 DEF GiveOffer
  <2>5. net' \subseteq OfferMsg \cup AnswerMsg
    BY <2>3, <2>4 DEF TypeOK
  <2>6. /\ pending' = [pending EXCEPT ![c] = @ \cup {[id |-> nextId[c], target |-> a, at |-> now]}]
        /\ nextId' = [nextId EXCEPT ![c] = @ + 1]
    BY <1>1 DEF GiveOffer
  <2>7. /\ pending' \in [Clients -> SUBSET [id : Nat, target : Accounts, at : Nat]]
        /\ nextId' \in [Clients -> Nat]
    BY <2>6 DEF TypeOK
  <2> QED
    BY <1>1, <2>5, <2>7 DEF GiveOffer, TypeOK
<1>2. CASE AcceptThing(c)
  <2>1. Online(c) /\ dialog[c] \in Offer
    BY <1>2 DEF AcceptThing, CanAnswer, TypeOK
  <2> QED
    BY <1>2, <2>1, AnnounceType, LandType
       DEF AcceptThing, CloseDialog, TypeOK, online, giver, Reasons
<1>3. CASE AcceptWorld(c)
  <2>1. dialog[c] \in Offer
    BY <1>3 DEF AcceptWorld, CanAnswer, TypeOK
  <2> QED
    BY <1>3, <2>1 DEF AcceptWorld, CloseDialog, TypeOK, online, giver, stash
<1>4. CASE Decline(c)
  <2>1. Online(c) /\ dialog[c] \in Offer
    BY <1>4 DEF Decline, CanAnswer, TypeOK
  <2> QED
    BY <1>4, <2>1, AnnounceType
       DEF Decline, CloseDialog, TypeOK, online, giver, stash, Reasons
<1>5. CASE MuteAndDecline(c)
  <2>1. Online(c) /\ dialog[c] \in Offer /\ dialog[c].did \in Accounts
    BY <1>5 DEF MuteAndDecline, CanAnswer, TypeOK, Offer
  <2>2. muted' \in [Accounts -> SUBSET Accounts]
    BY <1>5, <2>1 DEF MuteAndDecline, TypeOK
  <2>3. flipped' \in [Clients -> SUBSET Peer]
    BY <1>5, FlipType DEF MuteAndDecline, TypeOK
  <2> QED
    BY <1>5, <2>1, <2>2, <2>3, AnnounceType
       DEF MuteAndDecline, CloseDialog, TypeOK, online, giver, stash, Reasons
<1>6. CASE Hold(c)
  BY <1>6 DEF Hold, CanAnswer, CloseDialog, TypeOK, online, giver, stash
<1>7. ASSUME NEW a \in Accounts, SetPeerMute(c, a)
      PROVE  TypeOK'
  <2>1. muted' \in [Accounts -> SUBSET Accounts]
    BY <1>7 DEF SetPeerMute, TypeOK
  <2>2. flipped' \in [Clients -> SUBSET Peer]
    BY <1>7, FlipType DEF SetPeerMute, TypeOK
  <2> QED
    BY <1>7, <2>1, <2>2 DEF SetPeerMute, TypeOK, online, giver, stash
<1>8. CASE Logout(c)
  BY <1>8 DEF Logout, TypeOK, stash
<1>9. ASSUME NEW a \in Accounts, Login(c, a)
      PROVE  TypeOK'
  BY <1>9 DEF Login, TypeOK, giver, recipient, stash
<1> QED
  BY <1>1, <1>2, <1>3, <1>4, <1>5, <1>6, <1>7, <1>8, <1>9 DEF Person

\* Every variable keeps its type: no handler stores a message, an offer or an
\* answer of another shape than the ones above.
THEOREM TypeCorrect == Spec => []TypeOK
<1>1. TypeOK /\ [Next]_vars => TypeOK'
  <2> SUFFICES ASSUME TypeOK, [Next]_vars PROVE TypeOK'
    OBVIOUS
  <2>1. ASSUME NEW m \in net, Deliver(m) PROVE TypeOK'
    BY <2>1, TypeDeliver
  <2>2. ASSUME NEW c \in Clients, Frame(c) \/ Fetch(c) \/ Person(c) PROVE TypeOK'
    BY <2>2, TypeFrame, TypeFetch, TypePerson
  <2>3. ASSUME NEW a \in Accounts, EditStash(a) PROVE TypeOK'
    BY <2>3 DEF EditStash, TypeOK, online, giver, recipient
  <2>4. CASE Tick
    BY <2>4 DEF Tick, TypeOK, online, giver, recipient, stash
  <2>5. CASE UNCHANGED vars
    BY <2>5 DEF vars, TypeOK
  <2> QED
    BY <2>1, <2>2, <2>3, <2>4, <2>5 DEF Next
<1> QED
  BY <1>1, TypeInit, PTL DEF Spec

-----------------------------------------------------------------------------
(* One offer at a time.                                                    *)

\* No interleaving of arrivals, answers, "make room" and sweeps leaves a client
\* with one offer on screen and another set aside behind it.
THEOREM OneOfferCorrect == Spec => []OneOfferAtATime
<1>1. Init => OneOfferAtATime
  BY DEF Init, OneOfferAtATime
<1>2. TypeOK /\ OneOfferAtATime /\ [Next]_vars => OneOfferAtATime'
  <2> SUFFICES ASSUME TypeOK, OneOfferAtATime, [Next]_vars PROVE OneOfferAtATime'
    OBVIOUS
  <2>1. ASSUME NEW m \in net, Deliver(m) PROVE OneOfferAtATime'
    <3>1. CASE RaiseDialog(m)
      <4>1. held[m.dst[1]] = NoOffer
        BY <3>1 DEF RaiseDialog, DialogOpen
      <4> QED
        BY <3>1, <4>1 DEF RaiseDialog, OneOfferAtATime, TypeOK
    <3>2. CASE ~RaiseDialog(m)
      <4>1. UNCHANGED <<dialog, held>>
        BY <2>1, <3>2 DEF Deliver, HandleItemOfferResponse, IgnoreItemOfferResponse,
             DropOfferForAnother, DeclineFromMuted, DeclineBusy, RefuseUnreadable,
             Lose, recipient
      <4> QED
        BY <4>1 DEF OneOfferAtATime
    <3> QED
      BY <3>1, <3>2
  <2>2. ASSUME NEW c \in Clients, Frame(c) PROVE OneOfferAtATime'
    BY <2>2 DEF Frame, SweepStalePendingOffers, EvictStaleOfferDialog, ExpireHeldOffer,
         RepresentHeldOffer, DismissOfferDialog, ForgetFlips, CloseDialog, Letgo,
         recipient, OneOfferAtATime, TypeOK
  <2>3. ASSUME NEW c \in Clients, Fetch(c) PROVE OneOfferAtATime'
    BY <2>3 DEF Fetch, GiftWorldLands, GiftWorldFindsNoRoom, GiftWorldNotFetched,
         FetchEnds, OneOfferAtATime
  <2>4. ASSUME NEW c \in Clients, Person(c) PROVE OneOfferAtATime'
    BY <2>4 DEF Person, GiveOffer, AcceptThing, AcceptWorld, Decline, MuteAndDecline,
         Hold, SetPeerMute, Logout, Login, CloseDialog, recipient, OneOfferAtATime, TypeOK
  <2>5. CASE UNCHANGED <<dialog, held>>
    BY <2>5 DEF OneOfferAtATime
  <2> QED
    BY <2>1, <2>2, <2>3, <2>4, <2>5 DEF Next, EditStash, Tick, recipient, vars
<1> QED
  BY <1>1, <1>2, TypeCorrect, PTL DEF Spec

-----------------------------------------------------------------------------
(* "Accepted" is the truth.  AcceptedMeansLanded looks at what a giver was *)
(* told; the strengthening looks at the answers still under way, which are *)
(* all it will ever be told from.                                          *)

Accepts(m) == m.kind = "answer" /\ m.accepted

AnswersHonest ==
    \A m \in net : Accepts(m) => [gift |-> m.about, by |-> m.did] \in landed

LEMMA ResponseHonest ==
    ASSUME NEW c, NEW offer, NEW reason, NEW to,
           NEW m \in Response(c, offer, FALSE, reason, to)
    PROVE  ~Accepts(m)
BY DEF Response, Accepts

LEMMA LandedAnswer ==
    ASSUME TypeOK, NEW c \in Clients, NEW offer, NEW reason,
           Land(c, offer), Announce(c, offer, TRUE, reason),
           NEW m \in net' \ net
    PROVE  [gift |-> m.about, by |-> m.did] \in landed'
BY DEF Land, Announce, Response

\* What was put in an inventory stays in the record.
LEMMA LandedGrows ==
    ASSUME [Next]_vars
    PROVE  landed \subseteq landed'
<1>1. ASSUME NEW m \in net, Deliver(m) PROVE landed' = landed
  BY <1>1 DEF Deliver, HandleItemOfferResponse, IgnoreItemOfferResponse,
       DropOfferForAnother, DeclineFromMuted, DeclineBusy, RefuseUnreadable,
       RaiseDialog, Lose, stash
<1>2. ASSUME NEW c \in Clients, Frame(c) PROVE landed' = landed
  BY <1>2 DEF Frame, SweepStalePendingOffers, EvictStaleOfferDialog, ExpireHeldOffer,
       RepresentHeldOffer, DismissOfferDialog, ForgetFlips, stash
<1>3. ASSUME NEW c \in Clients, Fetch(c) PROVE landed \subseteq landed'
  BY <1>3 DEF Fetch, GiftWorldLands, GiftWorldFindsNoRoom, GiftWorldNotFetched,
       Land, stash
<1>4. ASSUME NEW c \in Clients, Person(c) PROVE landed \subseteq landed'
  BY <1>4 DEF Person, GiveOffer, AcceptThing, AcceptWorld, Decline, MuteAndDecline,
       Hold, SetPeerMute, Logout, Login, Land, stash
<1> QED
  BY <1>1, <1>2, <1>3, <1>4 DEF Next, EditStash, Tick, stash, vars

\* Only a client whose inventory has just taken the gift says "accepted".
LEMMA NewAnswersHonest ==
    ASSUME TypeOK, [Next]_vars, NEW n \in net' \ net, Accepts(n)
    PROVE  [gift |-> n.about, by |-> n.did] \in landed'
<1>1. ASSUME NEW m \in net, Deliver(m) PROVE FALSE
  <2>1. CASE net' \subseteq net
    BY <2>1
  <2>2. CASE DeclineFromMuted(m) \/ DeclineBusy(m) \/ RefuseUnreadable(m)
    <3>1. PICK reason : Tell(m.dst[1], Incoming(m), reason, {m})
      BY <2>2 DEF DeclineFromMuted, DeclineBusy, RefuseUnreadable
    <3>2. n \in Response(m.dst[1], Incoming(m), FALSE, reason, {Incoming(m).gift.peer})
      BY <3>1 DEF Tell
    <3> QED
      BY <3>2, ResponseHonest
  <2> QED
    BY <1>1, <2>1, <2>2 DEF Deliver, HandleItemOfferResponse, IgnoreItemOfferResponse,
         DropOfferForAnother, RaiseDialog, Lose
<1>2. ASSUME NEW c \in Clients, Frame(c) PROVE FALSE
  <2>1. PICK offer, reason : Tell(c, offer, reason, {})
    BY <1>2 DEF Frame, SweepStalePendingOffers, EvictStaleOfferDialog, ExpireHeldOffer,
         RepresentHeldOffer, DismissOfferDialog, ForgetFlips
  <2>2. n \in Response(c, offer, FALSE, reason, {offer.gift.peer})
    BY <2>1 DEF Tell
  <2> QED
    BY <2>2, ResponseHonest
<1>3. ASSUME NEW c \in Clients, Fetch(c) PROVE [gift |-> n.about, by |-> n.did] \in landed'
  <2> PICK offer \in fetching[c] :
         \/ GiftWorldLands(c, offer)
         \/ GiftWorldFindsNoRoom(c, offer)
         \/ GiftWorldNotFetched(c, offer)
    BY <1>3 DEF Fetch
  <2>1. CASE GiftWorldLands(c, offer)
    BY <2>1, LandedAnswer DEF GiftWorldLands
  <2>2. CASE GiftWorldFindsNoRoom(c, offer) \/ GiftWorldNotFetched(c, offer)
    <3>1. PICK reason : n \in Response(c, offer, FALSE, reason, Others(c))
      BY <2>2 DEF GiftWorldFindsNoRoom, GiftWorldNotFetched, Announce
    <3> QED
      BY <3>1, ResponseHonest
  <2> QED
    BY <2>1, <2>2
<1>4. ASSUME NEW c \in Clients, Person(c) PROVE [gift |-> n.about, by |-> n.did] \in landed'
  <2>1. ASSUME NEW a \in Accounts, NEW item \in Items, GiveOffer(c, a, item) PROVE FALSE
    BY <2>1 DEF GiveOffer, Accepts
  <2>2. CASE AcceptThing(c)
    BY <2>2, LandedAnswer DEF AcceptThing
  <2>3. CASE Decline(c) \/ MuteAndDecline(c)
    <3>1. n \in Response(c, dialog[c], FALSE, "Declined", Others(c))
      BY <2>3 DEF Decline, MuteAndDecline, Announce
    <3> QED
      BY <3>1, ResponseHonest
  <2> QED
    BY <1>4, <2>1, <2>2, <2>3 DEF Person, AcceptWorld, Hold, SetPeerMute, Logout, Login
<1> QED
  BY <1>1, <1>2, <1>3, <1>4 DEF Next, EditStash, Tick, vars

\* A giver is told "accepted" from an accepting answer of the addressee, and
\* from nothing else.
LEMMA ToldFromAnswer ==
    ASSUME TypeOK, [Next]_vars, NEW t \in told' \ told, t.outcome = "accepted"
    PROVE  \E m \in net : Accepts(m) /\ t.about = m.about /\ t.target = m.did
<1>1. ASSUME NEW m \in net, Deliver(m)
      PROVE  Accepts(m) /\ t.about = m.about /\ t.target = m.did
  <2>1. HandleItemOfferResponse(m)
    BY <1>1 DEF Deliver, IgnoreItemOfferResponse, DropOfferForAnother, DeclineFromMuted,
         DeclineBusy, RefuseUnreadable, RaiseDialog, Lose, giver
  <2>2. PICK p \in pending[m.dst[1]] :
          /\ Matches(m.dst[1], m, p)
          /\ t = [gift |-> [peer |-> PeerOf(m.dst[1]), id |-> p.id], target |-> p.target,
                  outcome |-> Outcome(m), about |-> m.about]
    BY <2>1 DEF HandleItemOfferResponse
  <2>3. m.kind = "answer" /\ m.reason # "accepted"
    BY <2>1, MessageType DEF HandleItemOfferResponse, AnswerMsg, Reasons
  <2> QED
    BY <2>2, <2>3 DEF Matches, Outcome, Accepts
<1>2. ASSUME NEW c \in Clients, Frame(c) PROVE FALSE
  BY <1>2 DEF Frame, SweepStalePendingOffers, EvictStaleOfferDialog, ExpireHeldOffer,
       RepresentHeldOffer, DismissOfferDialog, ForgetFlips, giver
<1>3. ASSUME NEW c \in Clients, Fetch(c) PROVE FALSE
  BY <1>3 DEF Fetch, GiftWorldLands, GiftWorldFindsNoRoom, GiftWorldNotFetched,
       FetchEnds, giver
<1>4. ASSUME NEW c \in Clients, Person(c) PROVE FALSE
  BY <1>4 DEF Person, GiveOffer, AcceptThing, AcceptWorld, Decline, MuteAndDecline,
       Hold, SetPeerMute, Logout, Login, giver
<1> QED
  BY <1>1, <1>2, <1>3, <1>4 DEF Next, EditStash, Tick, giver, vars

\* Whatever is lost, delayed, muted, full or signed out, a giver who reads
\* "accepted" gave a gift the addressed account has.
THEOREM AcceptedCorrect == Spec => []AcceptedMeansLanded
<1> DEFINE IInv == AnswersHonest /\ AcceptedMeansLanded
<1>1. Init => IInv
  BY DEF Init, AnswersHonest, AcceptedMeansLanded
<1>2. TypeOK /\ IInv /\ [Next]_vars => IInv'
  <2> SUFFICES ASSUME TypeOK, IInv, [Next]_vars PROVE IInv'
    OBVIOUS
  <2>1. AnswersHonest'
    <3> SUFFICES ASSUME NEW m \in net', Accepts(m)
                 PROVE  [gift |-> m.about, by |-> m.did] \in landed'
      BY DEF AnswersHonest, Accepts
    <3> QED
      BY NewAnswersHonest, LandedGrows DEF AnswersHonest
  <2>2. AcceptedMeansLanded'
    <3> SUFFICES ASSUME NEW t \in told', t.outcome = "accepted"
                 PROVE  [gift |-> t.about, by |-> t.target] \in landed'
      BY DEF AcceptedMeansLanded
    <3>1. CASE t \in told
      BY <3>1, LandedGrows DEF AcceptedMeansLanded
    <3>2. CASE t \notin told
      BY <3>2, ToldFromAnswer, LandedGrows DEF AnswersHonest
    <3> QED
      BY <3>1, <3>2
  <2> QED
    BY <2>1, <2>2
<1>3. IInv => AcceptedMeansLanded
  OBVIOUS
<1> QED
  BY <1>1, <1>2, <1>3, TypeCorrect, PTL DEF Spec

-----------------------------------------------------------------------------
(* A gift is in one place at a time.  Every step takes some places away,   *)
(* moves one gift from one place to another, or puts a gift nobody has met *)
(* on its way to clients: three shapes, each of which keeps OnePlace.      *)

Place(place, c, gift, what) ==
    [place |-> place, at |-> c, gift |-> gift, what |-> what]

LEMMA PlacesType ==
    ASSUME TypeOK, NEW x \in Places
    PROVE  x.gift \in Gift
<1>1. \A m \in net : m.kind = "offer" => m.gift \in Gift
  BY DEF TypeOK, OfferMsg, AnswerMsg
<1>2. \A c \in Clients : /\ dialog[c] # NoOffer => dialog[c].gift \in Gift
                         /\ held[c] # NoOffer => held[c].gift \in Gift
                         /\ \A o \in fetching[c] : o.gift \in Gift
  BY DEF TypeOK, Offer
<1>3. \A a \in answered : a[2] \in Gift
  BY DEF TypeOK
<1> QED
  BY <1>1, <1>2, <1>3 DEF Places, Coming, OnScreen, SetAside, Fetched, Answered

\* A gift once issued stays issued: a new session has a new connection.
LEMMA IssuedStable ==
    ASSUME TypeOK, [Next]_vars, NEW gift \in Gift, Issued(gift)
    PROVE  Issued(gift)'
<1> gift.peer \in Peer /\ gift.peer[1] \in Clients /\ gift.peer[2] \in Nat /\ gift.id \in Nat
  BY DEF Gift, Peer
<1>1. CASE UNCHANGED <<session, conn, nextId>>
  BY <1>1 DEF Issued, Online
<1>2. ASSUME NEW c \in Clients, NEW a \in Accounts, NEW item \in Items, GiveOffer(c, a, item)
      PROVE  Issued(gift)'
  <2>1. /\ UNCHANGED <<session, conn>>
        /\ nextId' = [nextId EXCEPT ![c] = @ + 1]
    BY <1>2 DEF GiveOffer
  <2> QED
    BY <2>1 DEF TypeOK, Issued, Online
<1>3. ASSUME NEW c \in Clients, Logout(c) PROVE Issued(gift)'
  BY <1>3 DEF Logout, TypeOK, Issued, Online
<1>4. ASSUME NEW c \in Clients, NEW a \in Accounts, Login(c, a) PROVE Issued(gift)'
  <2>1. conn' = [conn EXCEPT ![c] = @ + 1]
    BY <1>4 DEF Login
  <2>2. gift.peer[1] # c => UNCHANGED <<session[gift.peer[1]], conn[gift.peer[1]], nextId[gift.peer[1]]>>
    BY <1>4 DEF Login, TypeOK, giver
  <2>3. gift.peer[1] = c => gift.peer[2] < conn'[c]
    BY <2>1 DEF Issued, TypeOK
  <2>4. CASE gift.peer[1] = c
    BY <2>3, <2>4 DEF Issued
  <2>5. CASE gift.peer[1] # c
    BY <2>2, <2>5 DEF Issued, Online
  <2> QED
    BY <2>4, <2>5
<1>5. ASSUME NEW m \in net, Deliver(m) PROVE UNCHANGED <<session, conn, nextId>>
  BY <1>5 DEF Deliver, HandleItemOfferResponse, IgnoreItemOfferResponse,
       DropOfferForAnother, DeclineFromMuted, DeclineBusy, RefuseUnreadable,
       RaiseDialog, Lose, online, giver
<1>6. ASSUME NEW c \in Clients, Frame(c) PROVE UNCHANGED <<session, conn, nextId>>
  BY <1>6 DEF Frame, SweepStalePendingOffers, EvictStaleOfferDialog, ExpireHeldOffer,
       RepresentHeldOffer, DismissOfferDialog, ForgetFlips, online, giver
<1>7. ASSUME NEW c \in Clients, Fetch(c) PROVE UNCHANGED <<session, conn, nextId>>
  BY <1>7 DEF Fetch, GiftWorldLands, GiftWorldFindsNoRoom, GiftWorldNotFetched,
       FetchEnds, online, giver
<1>8. ASSUME NEW c \in Clients, Person(c) PROVE Issued(gift)'
  BY <1>1, <1>2, <1>3, <1>4, <1>8 DEF Person, AcceptThing, AcceptWorld, Decline,
       MuteAndDecline, Hold, SetPeerMute, online, giver
<1> QED
  BY <1>1, <1>5, <1>6, <1>7, <1>8 DEF Next, EditStash, Tick, online, giver, vars

LEMMA PlacesKept ==
    ASSUME TypeOK, [Next]_vars, OnePlace, Places' \subseteq Places
    PROVE  OnePlace'
BY IssuedStable, PlacesType DEF OnePlace

LEMMA PlaceMoved ==
    ASSUME TypeOK, [Next]_vars, OnePlace,
           NEW x \in Places, NEW y, y.at = x.at, y.gift = x.gift,
           Places' \subseteq (Places \ {x}) \cup {y}
    PROVE  OnePlace'
<1>1. ASSUME NEW z \in Places' PROVE Issued(z.gift)'
  BY IssuedStable, PlacesType DEF OnePlace
<1>2. ASSUME NEW v \in Places', NEW w \in Places', v.at = w.at, v.gift = w.gift
      PROVE  v = w
  BY <1>2 DEF OnePlace
<1> QED
  BY <1>1, <1>2 DEF OnePlace

LEMMA PlacesFresh ==
    ASSUME TypeOK, [Next]_vars, OnePlace,
           NEW gift, ~Issued(gift), Issued(gift)', NEW new,
           \A z \in new : z.gift = gift,
           \A v, w \in new : v.at = w.at => v = w,
           Places' \subseteq Places \cup new
    PROVE  OnePlace'
<1>1. ASSUME NEW z \in Places' PROVE Issued(z.gift)'
  BY IssuedStable, PlacesType DEF OnePlace
<1>2. ASSUME NEW v \in Places', NEW w \in Places', v.at = w.at, v.gift = w.gift
      PROVE  v = w
  BY <1>2 DEF OnePlace
<1> QED
  BY <1>1, <1>2 DEF OnePlace

-----------------------------------------------------------------------------
(* What the building blocks of the actions do to the places.               *)

LEMMA AnsweredPlaces ==
    ASSUME NEW c, NEW gift, answered' = answered \cup {<<c, gift>>}
    PROVE  Answered' \subseteq Answered \cup {Place("answered", c, gift, NoOffer)}
<1> SUFFICES ASSUME NEW x \in Answered', x \notin Answered
             PROVE  x = Place("answered", c, gift, NoOffer)
  OBVIOUS
<1>1. PICK a \in answered' :
        x = [place |-> "answered", at |-> a[1], gift |-> a[2], what |-> NoOffer]
  BY DEF Answered
<1>2. a = <<c, gift>>
  BY <1>1 DEF Answered
<1>3. a[1] = c /\ a[2] = gift
  BY <1>2
<1> QED
  BY <1>1, <1>3 DEF Place

LEMMA TellPlaces ==
    ASSUME NEW c, NEW offer, NEW reason, NEW taken, Tell(c, offer, reason, taken)
    PROVE  /\ Coming' \subseteq {x \in Coming : x.what \notin taken}
           /\ Answered' \subseteq Answered \cup {Place("answered", c, offer.gift, NoOffer)}
<1>1. \A n \in net' : n.kind = "offer" => n \in net \ taken
  BY DEF Tell, Response
<1>2. answered' = answered \cup {<<c, offer.gift>>}
  BY DEF Tell
<1>3. Coming' \subseteq {x \in Coming : x.what \notin taken}
  BY <1>1 DEF Coming
<1>4. Answered' \subseteq Answered \cup {Place("answered", c, offer.gift, NoOffer)}
  BY <1>2, AnsweredPlaces
<1> QED
  BY <1>3, <1>4

LEMMA AnnouncePlaces ==
    ASSUME NEW c, NEW offer, NEW accepted, NEW reason, Announce(c, offer, accepted, reason)
    PROVE  /\ Coming' \subseteq Coming
           /\ Answered' \subseteq Answered \cup {Place("answered", c, offer.gift, NoOffer)}
<1>1. \A n \in net' : n.kind = "offer" => n \in net
  BY DEF Announce, Response
<1>2. answered' = answered \cup {<<c, offer.gift>>}
  BY DEF Announce
<1>3. Coming' \subseteq Coming
  BY <1>1 DEF Coming
<1>4. Answered' \subseteq Answered \cup {Place("answered", c, offer.gift, NoOffer)}
  BY <1>2, AnsweredPlaces
<1> QED
  BY <1>3, <1>4

LEMMA ClosePlaces ==
    ASSUME TypeOK, NEW c \in Clients, CloseDialog(c)
    PROVE  OnScreen' \subseteq {x \in OnScreen : x.at # c}
BY DEF CloseDialog, TypeOK, OnScreen

LEMMA LetgoPlaces ==
    ASSUME TypeOK, NEW c \in Clients, Letgo(c)
    PROVE  SetAside' \subseteq {x \in SetAside : x.at # c}
BY DEF Letgo, TypeOK, SetAside

LEMMA FetchEndsPlaces ==
    ASSUME TypeOK, NEW c \in Clients, NEW offer, FetchEnds(c, offer)
    PROVE  /\ Place("fetched", c, offer.gift, offer) \in Fetched
           /\ Fetched' \subseteq Fetched \ {Place("fetched", c, offer.gift, offer)}
           /\ UNCHANGED <<OnScreen, SetAside>>
<1>1. /\ offer \in fetching[c]
      /\ fetching' = [fetching EXCEPT ![c] = @ \ {offer}]
      /\ UNCHANGED <<dialog, held>>
  BY DEF FetchEnds
<1>2. Place("fetched", c, offer.gift, offer) \in Fetched
  BY <1>1 DEF Fetched, Place
<1>3. Fetched' \subseteq Fetched \ {Place("fetched", c, offer.gift, offer)}
  BY <1>1 DEF Fetched, Place, TypeOK
<1> QED
  BY <1>1, <1>2, <1>3 DEF OnScreen, SetAside

LEMMA OnScreenPlace ==
    ASSUME NEW c \in Clients, dialog[c] # NoOffer
    PROVE  Place("screen", c, dialog[c].gift, dialog[c]) \in OnScreen
BY DEF OnScreen, Place

LEMMA SetAsidePlace ==
    ASSUME NEW c \in Clients, held[c] # NoOffer
    PROVE  Place("aside", c, held[c].gift, held[c]) \in SetAside
BY DEF SetAside, Place

LEMMA ComingPlace ==
    ASSUME NEW m \in net, m.kind = "offer"
    PROVE  Place("coming", m.dst[1], m.gift, m) \in Coming
BY DEF Coming, Place

LEMMA PlaceTags ==
    /\ \A x \in Coming : x.place = "coming"
    /\ \A x \in OnScreen : x.place = "screen"
    /\ \A x \in SetAside : x.place = "aside"
    /\ \A x \in Fetched : x.place = "fetched"
    /\ \A x \in Answered : x.place = "answered"
BY DEF Coming, OnScreen, SetAside, Fetched, Answered

\* A gift leaves its place for "answered".
LEMMA PlaceAnswered ==
    ASSUME TypeOK, [Next]_vars, OnePlace, NEW c, NEW gift,
           NEW x \in Places, x.at = c, x.gift = gift, x.place # "answered",
           Coming' \subseteq Coming \ {x}, OnScreen' \subseteq OnScreen \ {x},
           SetAside' \subseteq SetAside \ {x}, Fetched' \subseteq Fetched \ {x},
           Answered' \subseteq Answered \cup {Place("answered", c, gift, NoOffer)}
    PROVE  OnePlace'
<1> DEFINE y == Place("answered", c, gift, NoOffer)
<1>1. y.at = x.at /\ y.gift = x.gift
  BY DEF Place
<1>2. x \notin Answered
  BY PlaceTags
<1>3. Places' \subseteq (Places \ {x}) \cup {y}
  BY <1>2 DEF Places
<1> HIDE DEF y
<1> QED
  BY <1>1, <1>3, PlaceMoved

LEMMA OnePlaceDeliver ==
    ASSUME TypeOK, [Next]_vars, OnePlace, NEW m \in net, Deliver(m)
    PROVE  OnePlace'
<1> m.dst[1] \in Clients
  BY MessageType
<1> DEFINE c == m.dst[1]
<1>1. ASSUME net' \subseteq net, UNCHANGED <<dialog, held, fetching, answered>>
      PROVE  OnePlace'
  <2>1. Places' \subseteq Places
    BY <1>1 DEF Places, Coming, OnScreen, SetAside, Fetched, Answered
  <2> QED
    BY <2>1, PlacesKept
<1>2. ASSUME NEW reason, Tell(c, Incoming(m), reason, {m}), m.kind = "offer",
             UNCHANGED <<dialog, held, fetching>>
      PROVE  OnePlace'
  <2> DEFINE x == Place("coming", c, m.gift, m)
  <2>1. x \in Coming /\ x.at = c /\ x.gift = m.gift /\ x.place = "coming" /\ x.what = m
    BY <1>2, ComingPlace DEF Place
  <2>2. Incoming(m).gift = m.gift
    BY DEF Incoming
  <2>3. /\ Coming' \subseteq {z \in Coming : z.what \notin {m}}
        /\ Answered' \subseteq Answered \cup {Place("answered", c, m.gift, NoOffer)}
    BY <1>2, <2>2, TellPlaces
  <2>4. /\ OnScreen' = OnScreen /\ SetAside' = SetAside /\ Fetched' = Fetched
    BY <1>2 DEF OnScreen, SetAside, Fetched
  <2>5. x \in Places
    BY <2>1 DEF Places
  <2> HIDE DEF x
  <2>6. Coming' \subseteq Coming \ {x}
    BY <2>1, <2>3
  <2>7. OnScreen' \subseteq OnScreen \ {x} /\ SetAside' \subseteq SetAside \ {x} /\ Fetched' \subseteq Fetched \ {x}
    BY <2>1, <2>4, PlaceTags
  <2> QED
    BY <2>1, <2>3, <2>5, <2>6, <2>7, PlaceAnswered
<1>3. CASE RaiseDialog(m)
  <2> DEFINE x == Place("coming", c, m.gift, m)
             y == Place("screen", c, m.gift, Incoming(m))
  <2>1. x \in Coming /\ x.at = c /\ x.gift = m.gift /\ x.place = "coming" /\ x.what = m
    BY <1>3, ComingPlace DEF Place, RaiseDialog, Heard, ForMe
  <2>2. Incoming(m).gift = m.gift
    BY DEF Incoming
  <2>3. /\ dialog' = [dialog EXCEPT ![c] = Incoming(m)] /\ net' = net \ {m}
        /\ UNCHANGED <<held, fetching, answered>>
    BY <1>3 DEF RaiseDialog
  <2>4. OnScreen' \subseteq OnScreen \cup {y}
    BY <2>2, <2>3 DEF OnScreen, Place, TypeOK
  <2>5. Coming' \subseteq {z \in Coming : z.what # m}
    BY <2>3 DEF Coming
  <2>6. SetAside' = SetAside /\ Fetched' = Fetched /\ Answered' = Answered
    BY <2>3 DEF SetAside, Fetched, Answered
  <2>7. y.at = x.at /\ y.gift = x.gift
    BY DEF Place
  <2> HIDE DEF x, y
  <2>8. Places' \subseteq (Places \ {x}) \cup {y} /\ x \in Places
    BY <2>1, <2>4, <2>5, <2>6, PlaceTags DEF Places
  <2> QED
    BY <2>7, <2>8, PlaceMoved
<1> QED
  BY <1>1, <1>2, <1>3 DEF Deliver, HandleItemOfferResponse, IgnoreItemOfferResponse,
     DropOfferForAnother, DeclineFromMuted, DeclineBusy, RefuseUnreadable, Heard, ForMe,
     Lose, recipient

\* An offer on screen, or set aside, is answered and gone.
LEMMA ScreenAnswered ==
    ASSUME TypeOK, [Next]_vars, OnePlace, NEW c \in Clients, dialog[c] # NoOffer,
           CloseDialog(c), UNCHANGED <<held, fetching>>, Coming' \subseteq Coming,
           Answered' \subseteq Answered \cup {Place("answered", c, dialog[c].gift, NoOffer)}
    PROVE  OnePlace'
<1> DEFINE x == Place("screen", c, dialog[c].gift, dialog[c])
<1>1. x \in OnScreen /\ x.at = c /\ x.gift = dialog[c].gift /\ x.place = "screen"
  BY OnScreenPlace DEF Place
<1>2. OnScreen' \subseteq {z \in OnScreen : z.at # c}
  BY ClosePlaces
<1>3. SetAside' = SetAside /\ Fetched' = Fetched
  BY DEF SetAside, Fetched
<1> HIDE DEF x
<1>4. /\ OnScreen' \subseteq OnScreen \ {x} /\ Coming' \subseteq Coming \ {x}
      /\ SetAside' \subseteq SetAside \ {x} /\ Fetched' \subseteq Fetched \ {x}
  BY <1>1, <1>2, <1>3, PlaceTags
<1>5. x \in Places
  BY <1>1 DEF Places
<1> QED
  BY <1>1, <1>4, <1>5, PlaceAnswered

LEMMA OnePlaceFrame ==
    ASSUME TypeOK, [Next]_vars, OnePlace, NEW c \in Clients, Frame(c)
    PROVE  OnePlace'
<1>1. CASE UNCHANGED <<net, dialog, held, fetching, answered>>
  BY <1>1, PlacesKept DEF Places, Coming, OnScreen, SetAside, Fetched, Answered
<1>2. CASE EvictStaleOfferDialog(c) \/ DismissOfferDialog(c)
  <2>1. PICK reason : Tell(c, dialog[c], reason, {})
    BY <1>2 DEF EvictStaleOfferDialog, DismissOfferDialog
  <2>2. dialog[c] # NoOffer /\ CloseDialog(c) /\ UNCHANGED <<held, fetching>>
    BY <1>2 DEF EvictStaleOfferDialog, DismissOfferDialog, CanAnswer, Dismissed
  <2> QED
    BY <2>1, <2>2, TellPlaces, ScreenAnswered
<1>3. CASE ExpireHeldOffer(c)
  <2> DEFINE x == Place("aside", c, held[c].gift, held[c])
  <2>1. held[c] # NoOffer /\ Letgo(c) /\ UNCHANGED <<dialog, fetching>>
    BY <1>3 DEF ExpireHeldOffer
  <2>2. x \in SetAside /\ x.at = c /\ x.gift = held[c].gift /\ x.place = "aside"
    BY <2>1, SetAsidePlace DEF Place
  <2>3. /\ Coming' \subseteq Coming
        /\ Answered' \subseteq Answered \cup {Place("answered", c, held[c].gift, NoOffer)}
    BY <1>3, TellPlaces DEF ExpireHeldOffer
  <2>4. SetAside' \subseteq {z \in SetAside : z.at # c}
    BY <2>1, LetgoPlaces
  <2>5. OnScreen' = OnScreen /\ Fetched' = Fetched
    BY <2>1 DEF OnScreen, Fetched
  <2> HIDE DEF x
  <2>6. /\ OnScreen' \subseteq OnScreen \ {x} /\ Coming' \subseteq Coming \ {x}
        /\ SetAside' \subseteq SetAside \ {x} /\ Fetched' \subseteq Fetched \ {x}
    BY <2>2, <2>3, <2>4, <2>5, PlaceTags
  <2>7. x \in Places
    BY <2>2 DEF Places
  <2> QED
    BY <2>2, <2>3, <2>6, <2>7, PlaceAnswered
<1>4. CASE RepresentHeldOffer(c)
  <2> DEFINE x == Place("aside", c, held[c].gift, held[c])
             y == Place("screen", c, held[c].gift, held[c])
  <2>1. /\ held[c] # NoOffer /\ Letgo(c) /\ dialog' = [dialog EXCEPT ![c] = held[c]]
        /\ UNCHANGED <<net, fetching, answered>>
    BY <1>4 DEF RepresentHeldOffer
  <2>2. x \in SetAside /\ x.at = c /\ x.gift = held[c].gift /\ x.place = "aside"
    BY <2>1, SetAsidePlace DEF Place
  <2>3. SetAside' \subseteq {z \in SetAside : z.at # c}
    BY <2>1, LetgoPlaces
  <2>4. OnScreen' \subseteq OnScreen \cup {y}
    BY <2>1 DEF OnScreen, Place, TypeOK
  <2>5. Coming' = Coming /\ Fetched' = Fetched /\ Answered' = Answered
    BY <2>1 DEF Coming, Fetched, Answered
  <2>6. y.at = x.at /\ y.gift = x.gift
    BY DEF Place
  <2> HIDE DEF x, y
  <2>7. Places' \subseteq (Places \ {x}) \cup {y} /\ x \in Places
    BY <2>2, <2>3, <2>4, <2>5, PlaceTags DEF Places
  <2> QED
    BY <2>6, <2>7, PlaceMoved
<1> QED
  BY <1>1, <1>2, <1>3, <1>4 DEF Frame, SweepStalePendingOffers, ForgetFlips, recipient

LEMMA OnePlaceFetch ==
    ASSUME TypeOK, [Next]_vars, OnePlace, NEW c \in Clients, Fetch(c)
    PROVE  OnePlace'
<1>1. PICK offer \in fetching[c] :
       \/ GiftWorldLands(c, offer)
       \/ GiftWorldFindsNoRoom(c, offer)
       \/ GiftWorldNotFetched(c, offer)
  BY DEF Fetch
<1>2. FetchEnds(c, offer)
  BY <1>1 DEF GiftWorldLands, GiftWorldFindsNoRoom, GiftWorldNotFetched
<1>3. PICK accepted, reason : Announce(c, offer, accepted, reason)
  BY <1>1 DEF GiftWorldLands, GiftWorldFindsNoRoom, GiftWorldNotFetched
<1> DEFINE x == Place("fetched", c, offer.gift, offer)
<1>4. /\ x \in Fetched /\ Fetched' \subseteq Fetched \ {x}
      /\ OnScreen' = OnScreen /\ SetAside' = SetAside
      /\ x.at = c /\ x.gift = offer.gift /\ x.place = "fetched"
  BY <1>2, FetchEndsPlaces DEF Place
<1>5. /\ Coming' \subseteq Coming
      /\ Answered' \subseteq Answered \cup {Place("answered", c, offer.gift, NoOffer)}
  BY <1>3, AnnouncePlaces
<1> HIDE DEF x
<1>6. /\ OnScreen' \subseteq OnScreen \ {x} /\ Coming' \subseteq Coming \ {x}
      /\ SetAside' \subseteq SetAside \ {x}
  BY <1>4, <1>5, PlaceTags
<1>7. x \in Places
  BY <1>4 DEF Places
<1> QED
  BY <1>4, <1>5, <1>6, <1>7, PlaceAnswered

\* A gift just offered has an id its giver's counter had not reached, and is
\* on its way to each client once.
LEMMA OnePlaceGive ==
    ASSUME TypeOK, [Next]_vars, OnePlace, NEW c \in Clients, NEW a \in Accounts,
           NEW item \in Items, GiveOffer(c, a, item)
    PROVE  OnePlace'
<1>0. PICK gift : gift = [peer |-> PeerOf(c), id |-> nextId[c]]
  OBVIOUS
<1> DEFINE sent == {[kind |-> "offer", dst |-> p, gift |-> gift,
                     did |-> session[c], target |-> a, item |-> item,
                     at |-> now] : p \in Others(c)}
           new  == {Place("coming", n.dst[1], gift, n) : n \in sent}
<1>1. /\ net' = net \cup sent /\ Online(c)
      /\ nextId' = [nextId EXCEPT ![c] = @ + 1]
      /\ UNCHANGED <<session, conn, dialog, held, fetching, answered>>
  BY <1>0 DEF GiveOffer
<1>2. ~Issued(gift)
  BY <1>0, <1>1 DEF Issued, PeerOf, TypeOK
<1>3. Issued(gift)'
  BY <1>0, <1>1 DEF Issued, PeerOf, TypeOK
<1>4. \A z \in new : z.gift = gift
  BY DEF Place
<1>5. \A v, w \in new : v.at = w.at => v = w
  <2>1. \A n \in sent : n.dst = PeerOf(n.dst[1])
    BY DEF Others, PeerOf
  <2>2. \A n, k \in sent : n.dst = k.dst => n = k
    OBVIOUS
  <2>3. \A n, k \in sent : n.dst[1] = k.dst[1] => n = k
    BY <2>1, <2>2
  <2> QED
    BY <2>3 DEF Place
<1>6. Coming' \subseteq Coming \cup new
  <2> SUFFICES ASSUME NEW n \in net', n.kind = "offer"
               PROVE  Place("coming", n.dst[1], n.gift, n) \in Coming \cup new
    BY DEF Coming, Place
  <2>1. CASE n \in net
    BY <2>1 DEF Coming, Place
  <2>2. CASE n \in sent
    BY <2>2
  <2> QED
    BY <1>1, <2>1, <2>2
<1>7. /\ OnScreen' = OnScreen /\ SetAside' = SetAside
      /\ Fetched' = Fetched /\ Answered' = Answered
  BY <1>1 DEF OnScreen, SetAside, Fetched, Answered
<1> HIDE DEF new
<1>8. Places' \subseteq Places \cup new
  BY <1>6, <1>7 DEF Places
<1> QED
  BY <1>2, <1>3, <1>4, <1>5, <1>8, PlacesFresh

LEMMA OnePlacePerson ==
    ASSUME TypeOK, [Next]_vars, OnePlace, NEW c \in Clients, Person(c)
    PROVE  OnePlace'
<1>1. CASE UNCHANGED <<net, dialog, held, fetching, answered>>
  BY <1>1, PlacesKept DEF Places, Coming, OnScreen, SetAside, Fetched, Answered
<1>2. CASE AcceptThing(c) \/ Decline(c) \/ MuteAndDecline(c)
  <2>1. PICK accepted, reason : Announce(c, dialog[c], accepted, reason)
    BY <1>2 DEF AcceptThing, Decline, MuteAndDecline
  <2>2. dialog[c] # NoOffer /\ CloseDialog(c) /\ UNCHANGED <<held, fetching>>
    BY <1>2 DEF AcceptThing, Decline, MuteAndDecline, CanAnswer
  <2> QED
    BY <2>1, <2>2, AnnouncePlaces, ScreenAnswered
<1>3. ASSUME AcceptWorld(c) \/ Hold(c) PROVE OnePlace'
  <2> DEFINE x == Place("screen", c, dialog[c].gift, dialog[c])
             y == IF AcceptWorld(c) THEN Place("fetched", c, dialog[c].gift, dialog[c])
                                    ELSE Place("aside", c, dialog[c].gift, dialog[c])
  <2>1. /\ dialog[c] # NoOffer /\ CloseDialog(c)
        /\ UNCHANGED <<net, answered>>
    BY <1>3 DEF AcceptWorld, Hold, CanAnswer, stash
  <2>2. x \in OnScreen /\ x.at = c /\ x.gift = dialog[c].gift /\ x.place = "screen"
    BY <2>1, OnScreenPlace DEF Place
  <2>3. OnScreen' \subseteq {z \in OnScreen : z.at # c}
    BY <2>1, ClosePlaces
  <2>4. Coming' = Coming /\ Answered' = Answered
    BY <2>1 DEF Coming, Answered
  <2>5. SetAside' \cup Fetched' \subseteq SetAside \cup Fetched \cup {y}
    <3>1. CASE AcceptWorld(c)
      <4>1. /\ fetching' = [fetching EXCEPT ![c] = @ \cup {dialog[c]}]
            /\ UNCHANGED held
        BY <3>1 DEF AcceptWorld
      <4>2. Fetched' \subseteq Fetched \cup {Place("fetched", c, dialog[c].gift, dialog[c])}
        BY <4>1 DEF Fetched, Place, TypeOK
      <4>3. SetAside' = SetAside
        BY <4>1 DEF SetAside
      <4> QED
        BY <3>1, <4>2, <4>3
    <3>2. CASE ~AcceptWorld(c)
      <4>1. held' = [held EXCEPT ![c] = dialog[c]] /\ UNCHANGED fetching
        BY <1>3, <3>2 DEF Hold
      <4>2. SetAside' \subseteq SetAside \cup {Place("aside", c, dialog[c].gift, dialog[c])}
        BY <4>1 DEF SetAside, Place, TypeOK
      <4>3. Fetched' = Fetched
        BY <4>1 DEF Fetched
      <4> QED
        BY <3>2, <4>2, <4>3
    <3> QED
      BY <3>1, <3>2
  <2>6. y.at = x.at /\ y.gift = x.gift
    BY DEF Place
  <2> HIDE DEF x, y
  <2>7. Places' \subseteq (Places \ {x}) \cup {y} /\ x \in Places
    BY <2>2, <2>3, <2>4, <2>5, PlaceTags DEF Places
  <2> QED
    BY <2>6, <2>7, PlaceMoved
<1>4. CASE Logout(c)
  <2>1. /\ held' = [held EXCEPT ![c] = NoOffer] /\ fetching' = [fetching EXCEPT ![c] = {}]
        /\ UNCHANGED <<net, dialog, answered>>
    BY <1>4 DEF Logout
  <2>2. SetAside' \subseteq SetAside
    BY <2>1 DEF SetAside, TypeOK
  <2>3. Fetched' \subseteq Fetched
    BY <2>1 DEF Fetched, TypeOK
  <2>4. Coming' = Coming /\ OnScreen' = OnScreen /\ Answered' = Answered
    BY <2>1 DEF Coming, OnScreen, Answered
  <2> QED
    BY <2>2, <2>3, <2>4, PlacesKept DEF Places
<1> QED
  BY <1>1, <1>2, <1>3, <1>4, OnePlaceGive DEF Person, SetPeerMute, Login, recipient

LEMMA OnePlaceStep ==
    ASSUME TypeOK, [Next]_vars, OnePlace
    PROVE  OnePlace'
<1>1. CASE UNCHANGED <<net, dialog, held, fetching, answered>>
  BY <1>1, PlacesKept DEF Places, Coming, OnScreen, SetAside, Fetched, Answered
<1> QED
  BY <1>1, OnePlaceDeliver, OnePlaceFrame, OnePlaceFetch, OnePlacePerson
     DEF Next, EditStash, Tick, recipient, vars

\* Whatever arrives, times out, is set aside, muted or signed out of, a client
\* has each gift at one place, and never meets an id twice.
THEOREM OnePlaceCorrect == Spec => []OnePlace
<1>1. Init => OnePlace
  BY DEF Init, OnePlace, Places, Coming, OnScreen, SetAside, Fetched, Answered
<1>2. TypeOK /\ OnePlace /\ [Next]_vars => OnePlace'
  BY OnePlaceStep
<1> QED
  BY <1>1, <1>2, TypeCorrect, PTL DEF Spec

-----------------------------------------------------------------------------
(* Answered once.                                                          *)

\* A place other than "answered" rules "answered" out.
LEMMA NotYetAnswered ==
    ASSUME OnePlace, NEW x \in Places, x.place # "answered"
    PROVE  <<x.at, x.gift>> \notin answered
<1> SUFFICES ASSUME <<x.at, x.gift>> \in answered PROVE FALSE
  OBVIOUS
<1> DEFINE y == [place |-> "answered", at |-> x.at, gift |-> x.gift, what |-> NoOffer]
<1>1. y \in Answered
  BY DEF Answered
<1> QED
  BY <1>1 DEF OnePlace, Places

LEMMA ResponseAbout ==
    ASSUME NEW c, NEW offer, NEW accepted, NEW reason, NEW to,
           NEW n \in Response(c, offer, accepted, reason, to)
    PROVE  n.by = c /\ n.about = offer.gift
BY DEF Response

\* A new answer speaks for a gift the client still had somewhere.
LEMMA AnswersHaveAPlace ==
    ASSUME TypeOK, [Next]_vars, NEW n \in net' \ net, n.kind = "answer"
    PROVE  \E x \in Places : x.at = n.by /\ x.gift = n.about /\ x.place # "answered"
<1>1. ASSUME NEW m \in net, Deliver(m)
      PROVE  \E x \in Places : x.at = n.by /\ x.gift = n.about /\ x.place # "answered"
  <2>1. PICK reason : Tell(m.dst[1], Incoming(m), reason, {m}) /\ m.kind = "offer"
    BY <1>1 DEF Deliver, HandleItemOfferResponse, IgnoreItemOfferResponse,
         DropOfferForAnother, DeclineFromMuted, DeclineBusy, RefuseUnreadable,
         RaiseDialog, Lose, Heard, ForMe
  <2>2. n.by = m.dst[1] /\ n.about = m.gift
    <3>1. n \in Response(m.dst[1], Incoming(m), FALSE, reason, {Incoming(m).gift.peer})
      BY <2>1 DEF Tell
    <3> QED
      BY <3>1 DEF Response, Incoming
  <2> DEFINE x == Place("coming", m.dst[1], m.gift, m)
  <2>3. x \in Places /\ x.at = m.dst[1] /\ x.gift = m.gift /\ x.place = "coming"
    BY <2>1, ComingPlace DEF Places, Place
  <2> QED
    BY <2>2, <2>3
<1>2. ASSUME NEW c \in Clients, dialog[c] # NoOffer, n.by = c, n.about = dialog[c].gift
      PROVE  \E x \in Places : x.at = n.by /\ x.gift = n.about /\ x.place # "answered"
  <2> DEFINE x == Place("screen", c, dialog[c].gift, dialog[c])
  <2>1. x \in Places /\ x.at = c /\ x.gift = dialog[c].gift /\ x.place = "screen"
    BY <1>2, OnScreenPlace DEF Places, Place
  <2> QED
    BY <1>2, <2>1
<1>3. ASSUME NEW c \in Clients, Frame(c)
      PROVE  \E x \in Places : x.at = n.by /\ x.gift = n.about /\ x.place # "answered"
  <2>1. CASE EvictStaleOfferDialog(c) \/ DismissOfferDialog(c)
    <3>1. PICK reason : Tell(c, dialog[c], reason, {})
      BY <2>1 DEF EvictStaleOfferDialog, DismissOfferDialog
    <3>2. n \in Response(c, dialog[c], FALSE, reason, {dialog[c].gift.peer})
      BY <3>1 DEF Tell
    <3>3. n.by = c /\ n.about = dialog[c].gift
      BY <3>2 DEF Response
    <3> QED
      BY <2>1, <3>3, <1>2 DEF EvictStaleOfferDialog, DismissOfferDialog, CanAnswer, Dismissed
  <2>2. CASE ExpireHeldOffer(c)
    <3> DEFINE x == Place("aside", c, held[c].gift, held[c])
    <3>0. n \in Response(c, held[c], FALSE, "Unavailable", {held[c].gift.peer})
      BY <2>2 DEF ExpireHeldOffer, Tell
    <3>1. n.by = c /\ n.about = held[c].gift
      BY <3>0 DEF Response
    <3>2. x \in Places /\ x.at = c /\ x.gift = held[c].gift /\ x.place = "aside"
      BY <2>2, SetAsidePlace DEF Places, Place, ExpireHeldOffer
    <3> QED
      BY <3>1, <3>2
  <2> QED
    BY <1>3, <2>1, <2>2 DEF Frame, SweepStalePendingOffers, RepresentHeldOffer, ForgetFlips
<1>4. ASSUME NEW c \in Clients, Fetch(c)
      PROVE  \E x \in Places : x.at = n.by /\ x.gift = n.about /\ x.place # "answered"
  <2>1. PICK offer \in fetching[c] :
         \/ GiftWorldLands(c, offer)
         \/ GiftWorldFindsNoRoom(c, offer)
         \/ GiftWorldNotFetched(c, offer)
    BY <1>4 DEF Fetch
  <2>2. FetchEnds(c, offer)
    BY <2>1 DEF GiftWorldLands, GiftWorldFindsNoRoom, GiftWorldNotFetched
  <2>3. PICK accepted, reason : Announce(c, offer, accepted, reason)
    BY <2>1 DEF GiftWorldLands, GiftWorldFindsNoRoom, GiftWorldNotFetched
  <2>4. n.by = c /\ n.about = offer.gift
    BY <2>3, ResponseAbout DEF Announce
  <2> DEFINE x == Place("fetched", c, offer.gift, offer)
  <2>5. x \in Places /\ x.at = c /\ x.gift = offer.gift /\ x.place = "fetched"
    BY <2>2, FetchEndsPlaces DEF Places, Place
  <2> QED
    BY <2>4, <2>5
<1>5. ASSUME NEW c \in Clients, Person(c)
      PROVE  \E x \in Places : x.at = n.by /\ x.gift = n.about /\ x.place # "answered"
  <2>1. ASSUME NEW a \in Accounts, NEW item \in Items, GiveOffer(c, a, item) PROVE FALSE
    BY <2>1 DEF GiveOffer
  <2>2. CASE AcceptThing(c) \/ Decline(c) \/ MuteAndDecline(c)
    <3>1. PICK accepted, reason : Announce(c, dialog[c], accepted, reason)
      BY <2>2 DEF AcceptThing, Decline, MuteAndDecline
    <3>2. n.by = c /\ n.about = dialog[c].gift
      BY <3>1, ResponseAbout DEF Announce
    <3> QED
      BY <2>2, <3>2, <1>2 DEF AcceptThing, Decline, MuteAndDecline, CanAnswer
  <2> QED
    BY <1>5, <2>1, <2>2 DEF Person, AcceptWorld, Hold, SetPeerMute, Logout, Login
<1> QED
  BY <1>1, <1>3, <1>4, <1>5 DEF Next, EditStash, Tick, vars

\* No gift gets two answers from one client: the click, the timeouts, the mute,
\* the busy gate and the landing world never both speak.
THEOREM AnsweredOnceCorrect == Spec => AnsweredOnce
<1> DEFINE Once == \A m \in net' \ net :
                      m.kind = "answer" => <<m.by, m.about>> \notin answered
<1>1. TypeOK /\ OnePlace /\ [Next]_vars => [Once]_vars
  <2> SUFFICES ASSUME TypeOK, OnePlace, [Next]_vars,
                      NEW n \in net' \ net, n.kind = "answer"
               PROVE  <<n.by, n.about>> \notin answered
    OBVIOUS
  <2> QED
    BY AnswersHaveAPlace, NotYetAnswered
<1> QED
  BY <1>1, TypeCorrect, OnePlaceCorrect, PTL DEF Spec, AnsweredOnce

-----------------------------------------------------------------------------
(* The two ends agree, while everybody stays signed in, each account on a  *)
(* client of its own.                                                      *)

OneClientEach ==
    /\ LogsOut = {}
    /\ \A c, d \in Clients : SignsInAs[c] \cap SignsInAs[d] # {} => c = d

AllOnline == \A c \in Clients : Online(c) /\ session[c] \in SignsInAs[c]

Answers(m) == m.kind = "answer"
Offers(m)  == m.kind = "offer"

\* The offers a client has on screen, set aside, or is fetching the world of;
\* and with them those at its door.
Has(c) == ({dialog[c], held[c]} \ {NoOffer}) \cup fetching[c]
AtDoor(m, c) == Offers(m) /\ m.dst[1] = c /\ session[c] = m.target
Met(c) == Has(c) \cup {Incoming(m) : m \in {n \in net : AtDoor(n, c)}}

\* A gift is of the account, and of the connection, its address names.
OfGiver(gift, did) ==
    gift.peer = PeerOf(gift.peer[1]) /\ session[gift.peer[1]] = did

OriginInv ==
    /\ \A m \in net : Offers(m) => OfGiver(m.gift, m.did)
    /\ \A m \in net : Answers(m) => OfGiver(m.about, m.target) /\ m.id = m.about.id
    /\ \A c \in Clients : \A o \in Has(c) : OfGiver(o.gift, o.did)
    /\ \A a \in answered : a[2].peer = PeerOf(a[2].peer[1])

\* The kinds of step.  A shift moves offers about at their recipients, and
\* takes messages off the network that nobody was waiting for.
Shift ==
    /\ UNCHANGED <<now, session, conn, pending, nextId, landed, answered, told>>
    /\ net' \subseteq net
    /\ \A m \in net \ net' : Answers(m) =>
         \/ Lossy \/ ~Arrives(m)
         \/ ~ \E p \in pending[m.dst[1]] : Matches(m.dst[1], m, p)
    /\ \A c \in Clients : Has(c)' \subseteq Met(c)

\* What client c says when it answers offer o; what an answer leaves alone; an
\* answer that refuses, and one that accepts, with what it puts in the record.
Says(m, c, o) ==
    /\ Answers(m) /\ m.by = c /\ m.about = o.gift /\ m.did = session[c]
    /\ m.id = o.gift.id /\ m.target = o.did /\ m.at = now

Answer(c, o) ==
    /\ UNCHANGED <<now, session, conn, pending, nextId, told>>
    /\ answered' = answered \cup {<<c, o.gift>>}
    /\ \A m \in net \ net' : Offers(m)
    /\ \A m \in net' \ net : Says(m, c, o)
    /\ \A d \in Clients : Has(d)' \subseteq Has(d)

Refusal(c, o) ==
    /\ Answer(c, o)
    /\ UNCHANGED landed

Landing(c, o) ==
    /\ Answer(c, o)
    /\ landed' = landed \cup {[gift |-> o.gift, by |-> session[c]]}
    /\ \A m \in net' \ net : m.accepted
    /\ \A d \in Clients \ {c} : Online(d) =>
         \E m \in net' : Says(m, c, o) /\ m.accepted /\ m.dst = PeerOf(d)

Kind ==
    \/ Tick \/ Shift
    \/ \E m \in net : HandleItemOfferResponse(m)
    \/ \E c \in Clients : SweepStalePendingOffers(c)
    \/ \E c \in Clients, a \in Accounts, item \in Items : GiveOffer(c, a, item)
    \/ \E c \in Clients : \E o \in Met(c) : Refusal(c, o) \/ Landing(c, o)

LEMMA HasType ==
    ASSUME TypeOK, NEW c \in Clients
    PROVE  Has(c) \subseteq Offer
BY DEF TypeOK, Has

LEMMA MetType ==
    ASSUME TypeOK, NEW c \in Clients
    PROVE  Met(c) \subseteq Offer
BY HasType, IncomingType DEF Met, AtDoor, Offers

\* What a client has met it has not answered.
LEMMA MetNotAnswered ==
    ASSUME TypeOK, OnePlace, NEW c \in Clients, NEW o \in Met(c)
    PROVE  <<c, o.gift>> \notin answered
<1>1. CASE dialog[c] # NoOffer /\ o = dialog[c]
  <2> DEFINE x == Place("screen", c, o.gift, o)
  <2>1. x \in Places /\ x.at = c /\ x.gift = o.gift /\ x.place = "screen"
    BY <1>1, OnScreenPlace DEF Places, Place
  <2> QED
    BY <2>1, NotYetAnswered
<1>2. CASE held[c] # NoOffer /\ o = held[c]
  <2> DEFINE x == Place("aside", c, o.gift, o)
  <2>1. x \in Places /\ x.at = c /\ x.gift = o.gift /\ x.place = "aside"
    BY <1>2, SetAsidePlace DEF Places, Place
  <2> QED
    BY <2>1, NotYetAnswered
<1>3. CASE o \in fetching[c]
  <2> DEFINE x == Place("fetched", c, o.gift, o)
  <2>1. x \in Places /\ x.at = c /\ x.gift = o.gift /\ x.place = "fetched"
    BY <1>3 DEF Fetched, Places, Place
  <2> QED
    BY <2>1, NotYetAnswered
<1>4. ASSUME NEW m \in net, AtDoor(m, c), o = Incoming(m)
      PROVE  <<c, o.gift>> \notin answered
  <2> DEFINE x == Place("coming", m.dst[1], m.gift, m)
  <2>1. x \in Places /\ x.at = c /\ x.gift = o.gift /\ x.place = "coming"
    BY <1>4, ComingPlace DEF Places, Place, AtDoor, Offers, Incoming
  <2> QED
    BY <2>1, NotYetAnswered
<1> QED
  BY <1>1, <1>2, <1>3, <1>4 DEF Met, Has

LEMMA DoorMet ==
    ASSUME NEW m \in net, ForMe(m)
    PROVE  Incoming(m) \in Met(m.dst[1]) /\ Offers(m)
BY DEF ForMe, Met, AtDoor, Offers

-----------------------------------------------------------------------------
(* Every step is of one of the kinds.                                      *)

LEMMA ResponseSays ==
    ASSUME NEW c, NEW o, NEW accepted, NEW reason, NEW to,
           NEW m \in Response(c, o, accepted, reason, to)
    PROVE  Says(m, c, o) /\ m.accepted = accepted
BY DEF Response, Says, Answers

LEMMA TellRefuses ==
    ASSUME NEW c, NEW o, NEW reason, NEW taken,
           Tell(c, o, reason, taken), \A m \in taken : Offers(m),
           UNCHANGED <<now, session, conn, pending, nextId, told, landed>>,
           \A d \in Clients : Has(d)' \subseteq Has(d)
    PROVE  Refusal(c, o)
<1>1. \A m \in net' \ net : Says(m, c, o)
  BY ResponseSays DEF Tell
<1>2. \A m \in net \ net' : Offers(m)
  BY DEF Tell
<1> QED
  BY <1>1, <1>2 DEF Refusal, Answer, Tell

LEMMA TellAlone ==
    ASSUME NEW c, NEW o, NEW reason, Tell(c, o, reason, {}),
           UNCHANGED <<now, session, conn, pending, nextId, told, landed>>,
           \A d \in Clients : Has(d)' \subseteq Has(d)
    PROVE  Refusal(c, o)
<1>1. \A m \in net' \ net : Says(m, c, o)
  BY ResponseSays DEF Tell
<1>2. \A m \in net \ net' : Offers(m)
  BY DEF Tell
<1> QED
  BY <1>1, <1>2 DEF Refusal, Answer, Tell

LEMMA AnnounceRefuses ==
    ASSUME NEW c, NEW o, NEW reason, Announce(c, o, FALSE, reason),
           UNCHANGED <<now, session, conn, pending, nextId, told, landed>>,
           \A d \in Clients : Has(d)' \subseteq Has(d)
    PROVE  Refusal(c, o)
<1>1. \A m \in net' \ net : Says(m, c, o)
  BY ResponseSays DEF Announce
<1>2. \A m \in net \ net' : Offers(m)
  BY DEF Announce
<1> QED
  BY <1>1, <1>2 DEF Refusal, Answer, Announce

LEMMA AnnounceLands ==
    ASSUME NEW c, NEW o, NEW reason, Announce(c, o, TRUE, reason), Land(c, o),
           UNCHANGED <<now, session, conn, pending, nextId, told>>,
           \A d \in Clients : Has(d)' \subseteq Has(d)
    PROVE  Landing(c, o)
<1>1. \A m \in net' \ net : Says(m, c, o) /\ m.accepted
  BY ResponseSays DEF Announce
<1>2. \A m \in net \ net' : Offers(m)
  BY DEF Announce
<1>3. ASSUME NEW d \in Clients \ {c}, Online(d)
      PROVE  \E m \in net' : Says(m, c, o) /\ m.accepted /\ m.dst = PeerOf(d)
  <2>1. PeerOf(d) \in Others(c)
    BY <1>3 DEF Others
  <2>2. PICK m : m = [kind |-> "answer", dst |-> PeerOf(d), did |-> session[c],
                      id |-> o.gift.id, target |-> o.did, accepted |-> TRUE,
                      reason |-> reason, by |-> c, about |-> o.gift, at |-> now]
    OBVIOUS
  <2>3. m \in Response(c, o, TRUE, reason, Others(c)) /\ m.dst = PeerOf(d)
    BY <2>1, <2>2 DEF Response
  <2>4. m \in net'
    BY <2>3 DEF Announce
  <2> QED
    BY <2>3, <2>4, ResponseSays
<1> QED
  BY <1>1, <1>2, <1>3 DEF Landing, Answer, Announce, Land

LEMMA ScreenIsMet ==
    ASSUME NEW c \in Clients, dialog[c] # NoOffer
    PROVE  dialog[c] \in Met(c)
BY DEF Met, Has

LEMMA CloseHasLess ==
    ASSUME TypeOK, NEW c \in Clients, CloseDialog(c), UNCHANGED <<held, fetching>>
    PROVE  \A d \in Clients : Has(d)' \subseteq Has(d)
BY DEF TypeOK, CloseDialog, Has

LEMMA HasSame ==
    ASSUME UNCHANGED <<dialog, held, fetching>>
    PROVE  \A d \in Clients : Has(d)' = Has(d)
BY DEF Has

\* Nothing moves but, perhaps, offers a client has already met.
LEMMA Rearranged ==
    ASSUME UNCHANGED <<now, session, conn, pending, nextId, landed, answered, told, net>>,
           \A c \in Clients : Has(c)' \subseteq Met(c)
    PROVE  Shift
BY DEF Shift

LEMMA KindDeliver ==
    ASSUME TypeOK, NEW m \in net, Deliver(m)
    PROVE  Kind
<1> m.dst[1] \in Clients
  BY MessageType
<1> DEFINE c == m.dst[1]
<1>1. CASE HandleItemOfferResponse(m)
  BY <1>1 DEF Kind
<1>2. CASE IgnoreItemOfferResponse(m) \/ DropOfferForAnother(m) \/ Lose(m)
  <2>1. /\ UNCHANGED <<now, session, conn, pending, nextId, landed, answered, told>>
        /\ UNCHANGED <<dialog, held, fetching>> /\ net' = net \ {m}
    BY <1>2 DEF IgnoreItemOfferResponse, DropOfferForAnother, Lose, online, giver, recipient, stash
  <2>2. Answers(m) => \/ Lossy \/ ~Arrives(m)
                      \/ ~ \E p \in pending[m.dst[1]] : Matches(m.dst[1], m, p)
    BY <1>2 DEF IgnoreItemOfferResponse, DropOfferForAnother, Lose, Answers
  <2> QED
    BY <2>1, <2>2, HasSame DEF Kind, Shift, Met
<1>3. CASE DeclineFromMuted(m) \/ DeclineBusy(m) \/ RefuseUnreadable(m)
  <2>1. PICK reason : Tell(c, Incoming(m), reason, {m})
    BY <1>3 DEF DeclineFromMuted, DeclineBusy, RefuseUnreadable
  <2>2. Incoming(m) \in Met(c) /\ Offers(m)
    BY <1>3, DoorMet DEF DeclineFromMuted, DeclineBusy, RefuseUnreadable, Heard
  <2>3. /\ UNCHANGED <<now, session, conn, pending, nextId, told, landed>>
        /\ UNCHANGED <<dialog, held, fetching>>
    BY <1>3 DEF DeclineFromMuted, DeclineBusy, RefuseUnreadable, online, giver, recipient, stash
  <2>4. Refusal(c, Incoming(m))
    BY <2>1, <2>2, <2>3, HasSame, TellRefuses
  <2> QED
    BY <2>2, <2>4 DEF Kind
<1>4. CASE RaiseDialog(m)
  <2>1. Incoming(m) \in Met(c) /\ Offers(m)
    BY <1>4, DoorMet DEF RaiseDialog, Heard
  <2>2. /\ UNCHANGED <<now, session, conn, pending, nextId, landed, answered, told>>
        /\ UNCHANGED <<held, fetching>> /\ net' = net \ {m}
        /\ dialog' = [dialog EXCEPT ![c] = Incoming(m)]
    BY <1>4 DEF RaiseDialog, online, giver, stash
  <2>3. \A d \in Clients : Has(d)' \subseteq Met(d)
    BY <2>1, <2>2 DEF Has, Met, TypeOK
  <2>4. ~Answers(m)
    BY <2>1 DEF Answers, Offers
  <2> QED
    BY <2>2, <2>3, <2>4 DEF Kind, Shift
<1> QED
  BY <1>1, <1>2, <1>3, <1>4 DEF Deliver

LEMMA KindFrame ==
    ASSUME TypeOK, NEW c \in Clients, Frame(c)
    PROVE  Kind
<1>1. CASE SweepStalePendingOffers(c)
  BY <1>1 DEF Kind
<1>2. CASE EvictStaleOfferDialog(c) \/ DismissOfferDialog(c)
  <2>1. PICK reason : Tell(c, dialog[c], reason, {})
    BY <1>2 DEF EvictStaleOfferDialog, DismissOfferDialog
  <2>2. dialog[c] # NoOffer /\ CloseDialog(c) /\ UNCHANGED <<held, fetching>>
    BY <1>2 DEF EvictStaleOfferDialog, DismissOfferDialog, CanAnswer, Dismissed
  <2>3. UNCHANGED <<now, session, conn, pending, nextId, told, landed>>
    BY <1>2 DEF EvictStaleOfferDialog, DismissOfferDialog, online, giver, stash
  <2>4. Refusal(c, dialog[c])
    BY <2>1, <2>2, <2>3, CloseHasLess, TellAlone
  <2> QED
    BY <2>2, <2>4, ScreenIsMet DEF Kind
<1>3. CASE ExpireHeldOffer(c)
  <2>1. Tell(c, held[c], "Unavailable", {})
    BY <1>3 DEF ExpireHeldOffer
  <2>2. held[c] # NoOffer /\ Letgo(c) /\ UNCHANGED <<dialog, fetching>>
    BY <1>3 DEF ExpireHeldOffer
  <2>3. UNCHANGED <<now, session, conn, pending, nextId, told, landed>>
    BY <1>3 DEF ExpireHeldOffer, online, giver, stash
  <2>4. held[c] \in Met(c)
    BY <2>2 DEF Met, Has
  <2>5. \A d \in Clients : Has(d)' \subseteq Has(d)
    BY <2>2 DEF TypeOK, Letgo, Has
  <2>6. Refusal(c, held[c])
    BY <2>1, <2>3, <2>5, TellAlone
  <2> QED
    BY <2>4, <2>6 DEF Kind
<1>4. CASE RepresentHeldOffer(c) \/ ForgetFlips(c)
  <2>1. UNCHANGED <<now, session, conn, pending, nextId, landed, answered, told, net>>
    BY <1>4 DEF RepresentHeldOffer, ForgetFlips, online, giver, stash
  <2>2. \A d \in Clients : Has(d)' \subseteq Has(d)
    BY <1>4 DEF RepresentHeldOffer, ForgetFlips, Letgo, Has, TypeOK
  <2> QED
    BY <2>1, <2>2, Rearranged DEF Kind, Met
<1> QED
  BY <1>1, <1>2, <1>3, <1>4 DEF Frame

LEMMA KindFetch ==
    ASSUME TypeOK, NEW c \in Clients, Fetch(c)
    PROVE  Kind
<1>1. PICK offer \in fetching[c] :
       \/ GiftWorldLands(c, offer)
       \/ GiftWorldFindsNoRoom(c, offer)
       \/ GiftWorldNotFetched(c, offer)
  BY DEF Fetch
<1>2. FetchEnds(c, offer)
  BY <1>1 DEF GiftWorldLands, GiftWorldFindsNoRoom, GiftWorldNotFetched
<1>3. offer \in Met(c)
  BY DEF Met, Has
<1>4. UNCHANGED <<now, session, conn, pending, nextId, told>>
  BY <1>2 DEF FetchEnds, online, giver
<1>5. \A d \in Clients : Has(d)' \subseteq Has(d)
  BY <1>2 DEF FetchEnds, Has, TypeOK
<1>6. CASE GiftWorldLands(c, offer)
  <2>1. Landing(c, offer)
    BY <1>4, <1>5, <1>6, AnnounceLands DEF GiftWorldLands
  <2> QED
    BY <1>3, <2>1 DEF Kind
<1>7. CASE GiftWorldFindsNoRoom(c, offer) \/ GiftWorldNotFetched(c, offer)
  <2>1. UNCHANGED landed
    BY <1>7 DEF GiftWorldFindsNoRoom, GiftWorldNotFetched, stash
  <2>2. Refusal(c, offer)
    BY <1>4, <1>5, <1>7, <2>1, AnnounceRefuses DEF GiftWorldFindsNoRoom, GiftWorldNotFetched
  <2> QED
    BY <1>3, <2>2 DEF Kind
<1> QED
  BY <1>1, <1>6, <1>7

LEMMA KindPerson ==
    ASSUME TypeOK, AllOnline, OneClientEach, NEW c \in Clients, Person(c)
    PROVE  Kind
<1>1. ASSUME NEW a \in Accounts, NEW item \in Items, GiveOffer(c, a, item)
      PROVE  Kind
  BY <1>1 DEF Kind
<1>2. CASE AcceptThing(c) \/ Decline(c) \/ MuteAndDecline(c)
  <2>1. dialog[c] # NoOffer /\ CloseDialog(c) /\ UNCHANGED <<held, fetching>>
    BY <1>2 DEF AcceptThing, Decline, MuteAndDecline, CanAnswer
  <2>2. UNCHANGED <<now, session, conn, pending, nextId, told>>
    BY <1>2 DEF AcceptThing, Decline, MuteAndDecline, online, giver
  <2>3. \A d \in Clients : Has(d)' \subseteq Has(d)
    BY <2>1, CloseHasLess
  <2>4. Landing(c, dialog[c]) \/ Refusal(c, dialog[c])
    <3>1. CASE AcceptThing(c)
      BY <2>2, <2>3, <3>1, AnnounceLands DEF AcceptThing
    <3>2. CASE Decline(c) \/ MuteAndDecline(c)
      <4>1. UNCHANGED landed /\ Announce(c, dialog[c], FALSE, "Declined")
        BY <3>2 DEF Decline, MuteAndDecline, stash
      <4> QED
        BY <2>2, <2>3, <4>1, AnnounceRefuses
    <3> QED
      BY <1>2, <3>1, <3>2
  <2> QED
    BY <2>1, <2>4, ScreenIsMet DEF Kind
<1>3. CASE AcceptWorld(c) \/ Hold(c)
  <2>1. UNCHANGED <<now, session, conn, pending, nextId, landed, answered, told, net>>
    BY <1>3 DEF AcceptWorld, Hold, online, giver, stash
  <2>2. \A d \in Clients : Has(d)' \subseteq Has(d)
    BY <1>3 DEF AcceptWorld, Hold, CanAnswer, CloseDialog, Has, TypeOK
  <2> QED
    BY <2>1, <2>2, Rearranged DEF Kind, Met
<1>4. ASSUME NEW a \in Accounts, SetPeerMute(c, a) PROVE Kind
  BY <1>4, HasSame, Rearranged DEF SetPeerMute, online, giver, stash, Kind, Met
<1>5. ~Logout(c) /\ \A a \in Accounts : ~Login(c, a)
  BY DEF AllOnline, OneClientEach, Logout, Login
<1> QED
  BY <1>1, <1>2, <1>3, <1>4, <1>5 DEF Person

LEMMA StepKinds ==
    ASSUME TypeOK, AllOnline, OneClientEach, [Next]_vars
    PROVE  Kind
<1>1. ASSUME NEW a \in Accounts, EditStash(a) PROVE Kind
  BY <1>1, HasSame, Rearranged DEF EditStash, online, giver, recipient, Kind, Met
<1>2. CASE UNCHANGED vars
  BY <1>2, HasSame, Rearranged DEF vars, Kind, Met
<1> QED
  BY <1>1, <1>2, KindDeliver, KindFrame, KindFetch, KindPerson DEF Next, Kind

-----------------------------------------------------------------------------
(* What a giver is told is about the offer it is told of.                  *)

LEMMA KindStays ==
    ASSUME Kind
    PROVE  UNCHANGED <<session, conn>>
BY DEF Kind, Tick, Shift, HandleItemOfferResponse, SweepStalePendingOffers,
       GiveOffer, Refusal, Landing, Answer, online

LEMMA OnlineStays ==
    ASSUME AllOnline, Kind
    PROVE  AllOnline'
BY KindStays DEF AllOnline, Online

LEMMA MetOfGiver ==
    ASSUME OriginInv, NEW c \in Clients, NEW o \in Met(c)
    PROVE  OfGiver(o.gift, o.did)
BY DEF OriginInv, Met, AtDoor, Incoming

LEMMA OriginKept ==
    ASSUME OriginInv, UNCHANGED <<session, conn>>,
           \A m \in net' \ net : Offers(m) => OfGiver(m.gift, m.did),
           \A m \in net' \ net :
             Answers(m) => OfGiver(m.about, m.target) /\ m.id = m.about.id,
           \A c \in Clients : \A o \in Has(c)' : OfGiver(o.gift, o.did),
           \A a \in answered' \ answered : a[2].peer = PeerOf(a[2].peer[1])
    PROVE  OriginInv'
<1>1. \A gift, did : OfGiver(gift, did)' <=> OfGiver(gift, did)
  BY DEF OfGiver, PeerOf
<1>2. \A a \in answered' : a[2].peer = PeerOf(a[2].peer[1])'
  BY DEF OriginInv, PeerOf
<1>3. \A m \in net' : Offers(m) => OfGiver(m.gift, m.did)
  BY DEF OriginInv
<1>4. \A m \in net' : Answers(m) => OfGiver(m.about, m.target) /\ m.id = m.about.id
  BY DEF OriginInv
<1> QED
  BY <1>1, <1>2, <1>3, <1>4 DEF OriginInv, Offers, Answers

LEMMA OriginStep ==
    ASSUME TypeOK, AllOnline, OriginInv, Kind
    PROVE  OriginInv'
<1>0. UNCHANGED <<session, conn>>
  BY KindStays
<1>1. ASSUME net' \subseteq net, answered' \subseteq answered,
             \A c \in Clients : Has(c)' \subseteq Met(c)
      PROVE  OriginInv'
  BY <1>0, <1>1, MetOfGiver, OriginKept
<1>2. CASE Tick
  BY <1>1, <1>2, HasSame DEF Tick, recipient, Met
<1>3. CASE Shift
  BY <1>1, <1>3 DEF Shift
<1>4. ASSUME NEW m \in net, HandleItemOfferResponse(m) PROVE OriginInv'
  BY <1>1, <1>4, HasSame DEF HandleItemOfferResponse, recipient, Met
<1>5. ASSUME NEW c \in Clients, SweepStalePendingOffers(c) PROVE OriginInv'
  BY <1>1, <1>5, HasSame DEF SweepStalePendingOffers, recipient, Met
<1>6. ASSUME NEW c \in Clients, NEW a \in Accounts, NEW item \in Items, GiveOffer(c, a, item)
      PROVE  OriginInv'
  <2>1. UNCHANGED answered /\ \A d \in Clients : Has(d)' \subseteq Met(d)
    BY <1>6, HasSame DEF GiveOffer, Met
  <2>2. \A m \in net' \ net : /\ m.kind = "offer" /\ m.did = session[c]
                              /\ m.gift = [peer |-> PeerOf(c), id |-> nextId[c]]
    BY <1>6 DEF GiveOffer
  <2>3. \A m \in net' \ net : ~Answers(m) /\ OfGiver(m.gift, m.did)
    BY <2>2 DEF Answers, OfGiver, PeerOf
  <2> QED
    BY <1>0, <2>1, <2>3, MetOfGiver, OriginKept
<1>7. ASSUME NEW c \in Clients, NEW o \in Met(c), Answer(c, o) PROVE OriginInv'
  <2>1. OfGiver(o.gift, o.did)
    BY MetOfGiver
  <2>2. \A d \in Clients : Has(d)' \subseteq Met(d)
    BY <1>7 DEF Answer, Met
  <2>3. \A m \in net' \ net : /\ ~Offers(m) /\ OfGiver(m.about, m.target)
                              /\ m.id = m.about.id
    BY <1>7, <2>1 DEF Answer, Says, Answers, Offers
  <2>4. \A a \in answered' \ answered : a[2].peer = PeerOf(a[2].peer[1])
    BY <1>7, <2>1 DEF Answer, OfGiver
  <2> QED
    BY <1>0, <2>2, <2>3, <2>4, MetOfGiver, OriginKept
<1> QED
  BY <1>2, <1>3, <1>4, <1>5, <1>6, <1>7 DEF Kind, Refusal, Landing

\* The pending offer of a gift.
PendingAs(gift) == {p \in pending[gift.peer[1]] : p.id = gift.id}

\* Each account being on one client, an answer reaches the giver it is for, on
\* the connection the gift was given from.
LEMMA HandleSettles ==
    ASSUME TypeOK, AllOnline, OneClientEach, OriginInv,
           NEW m \in net, HandleItemOfferResponse(m)
    PROVE  \E p \in PendingAs(m.about) :
             /\ Answers(m) /\ m.dst[1] = m.about.peer[1] /\ p.target = m.did
             /\ pending' = [pending EXCEPT ![m.about.peer[1]] = @ \ {p}]
             /\ told' = told \cup {[gift |-> m.about, target |-> p.target,
                                    outcome |-> Outcome(m), about |-> m.about]}
<1> DEFINE c == m.dst[1]
<1>1. PICK p \in pending[c] :
        /\ Matches(c, m, p)
        /\ pending' = [pending EXCEPT ![c] = @ \ {p}]
        /\ told' = told \cup
             {[gift |-> [peer |-> PeerOf(c), id |-> p.id], target |-> p.target,
               outcome |-> Outcome(m), about |-> m.about]}
  BY DEF HandleItemOfferResponse
<1>2. Answers(m) /\ c \in Clients /\ m.about \in Gift /\ m.about.peer[1] \in Clients
  BY MessageType DEF HandleItemOfferResponse, Answers, AnswerMsg, Gift, Peer
<1>3. OfGiver(m.about, m.target) /\ m.id = m.about.id
  BY <1>2 DEF OriginInv
<1>4. session[m.about.peer[1]] = session[c]
  BY <1>1, <1>3 DEF Matches, OfGiver
<1>5. m.about.peer[1] = c
  BY <1>2, <1>4 DEF AllOnline, OneClientEach
<1>6. m.about.peer = PeerOf(c) /\ m.about.id = p.id
  BY <1>1, <1>3, <1>5 DEF Matches, OfGiver
<1>7. m.about = [peer |-> PeerOf(c), id |-> p.id]
  BY <1>2, <1>6 DEF Gift
<1>8. p \in PendingAs(m.about)
  BY <1>5, <1>6 DEF PendingAs
<1> QED
  BY <1>1, <1>2, <1>5, <1>7, <1>8 DEF Matches

LEMMA ToldStep ==
    ASSUME TypeOK, AllOnline, OneClientEach, OriginInv, AnswerIsForThisOffer, Kind
    PROVE  AnswerIsForThisOffer'
<1>1. CASE UNCHANGED told
  BY <1>1 DEF AnswerIsForThisOffer
<1>2. ASSUME NEW m \in net, HandleItemOfferResponse(m) PROVE AnswerIsForThisOffer'
  BY <1>2, HandleSettles DEF AnswerIsForThisOffer
<1>3. ASSUME NEW c \in Clients, SweepStalePendingOffers(c) PROVE AnswerIsForThisOffer'
  BY <1>3 DEF AnswerIsForThisOffer, SweepStalePendingOffers
<1> QED
  BY <1>1, <1>2, <1>3 DEF Kind, Tick, Shift, GiveOffer, Refusal, Landing, Answer, giver

LEMMA OriginInit == Init => AllOnline /\ OriginInv /\ AnswerIsForThisOffer
<1> SUFFICES ASSUME Init PROVE AllOnline /\ OriginInv /\ AnswerIsForThisOffer
  OBVIOUS
<1>1. AllOnline
  BY GiftAssumption DEF Init, AllOnline, Online
<1>2. \A c \in Clients : Has(c) = {}
  BY DEF Init, Has
<1> QED
  BY <1>1, <1>2 DEF Init, OriginInv, AnswerIsForThisOffer

\* While people stay signed in, each on a client of their own, the answer that
\* settles a pending offer is an answer to that very offer, on a network that
\* delays, reorders and loses messages and among machines that sleep.
THEOREM AnswerForOfferCorrect ==
    ASSUME OneClientEach
    PROVE  Spec => []AnswerIsForThisOffer
<1> DEFINE IInv == AllOnline /\ OriginInv /\ AnswerIsForThisOffer
<1>1. TypeOK /\ IInv /\ [Next]_vars => IInv'
  BY StepKinds, OnlineStays, OriginStep, ToldStep
<1>2. IInv => AnswerIsForThisOffer
  OBVIOUS
<1> QED
  BY <1>1, <1>2, OriginInit, TypeCorrect, PTL DEF Spec

-----------------------------------------------------------------------------
(* The two ends agree.                                                     *)

\* Nobody sleeps, nothing is lost, and a message takes less time than the
\* deadlines of the two ends leave for it.
Prompt ==
    /\ ~Sleepy /\ ~Lossy
    /\ DialogTTL + 2 * MaxDelay < PendingTTL
    /\ 2 * MaxDelay < AnswerMargin

\* How long a client may have an offer.
Span == IF DialogTTL > PendingTTL - AnswerMargin THEN DialogTTL ELSE PendingTTL - AnswerMargin

TimeInv ==
    /\ \A m \in net : m.at <= now /\ now <= m.at + MaxDelay
    /\ \A c \in Clients : \A o \in Has(c) : o.at <= now /\ now <= o.at + Span

\* A giver's pending offers have ids of their own, and are to others.
PendInv == \A c \in Clients : \A p \in pending[c] :
    /\ p.id < nextId[c] /\ p.target # session[c]
    /\ \A q \in pending[c] : q.id = p.id => q = p

\* What its addressee has not answered, its giver still waits for.
LiveInv ==
    /\ \A m \in net : Offers(m) /\ session[m.dst[1]] = m.target =>
         \E p \in PendingAs(m.gift) : p.target = m.target /\ m.at <= p.at
    /\ \A c \in Clients : \A o \in Has(c) :
         \E p \in PendingAs(o.gift) : p.target = session[c] /\ o.at <= p.at + MaxDelay

\* Whoever has answered a gift its giver waits for is its addressee.
AnsweredInv == \A a \in answered : \A p \in PendingAs(a[2]) : p.target = session[a[1]]

\* A refusal is of a gift that has not landed.
NetInv == \A m \in net : Answers(m) =>
    /\ <<m.by, m.about>> \in answered /\ m.did = session[m.by]
    /\ ~m.accepted => \A l \in landed : l.gift # m.about

\* The giver of a gift that has landed is told so before it stops waiting.
Informed(gift, p) == \E m \in net :
    /\ Accepts(m) /\ m.about = gift /\ m.dst = gift.peer
    /\ m.did = p.target /\ m.at <= p.at + MaxDelay + Span

LandedInv == \A l \in landed :
    /\ \E a \in answered : a[2] = l.gift
    /\ \A p \in PendingAs(l.gift) : Informed(l.gift, p)

ToldInv == \A t \in told :
    /\ t.gift.peer[1] \in Clients /\ t.gift.id < nextId[t.gift.peer[1]]
    /\ PendingAs(t.gift) = {}

BothInv == /\ TimeInv /\ PendInv /\ LiveInv /\ AnsweredInv /\ NetInv
           /\ LandedInv /\ ToldInv /\ OutcomesAgree

LEMMA SpanType ==
    ASSUME Prompt
    PROVE  Span \in Nat /\ DialogTTL <= Span /\ PendingTTL - AnswerMargin <= Span
           /\ Span + 2 * MaxDelay < PendingTTL /\ MaxDelay \in Nat
BY GiftAssumption DEF Span, Prompt

LEMMA MetFacts ==
    ASSUME TypeOK, AllOnline, TimeInv, LiveInv, Prompt, NEW c \in Clients, NEW o \in Met(c)
    PROVE  /\ o.at <= now /\ now <= o.at + Span
           /\ \E p \in PendingAs(o.gift) : p.target = session[c] /\ o.at <= p.at + MaxDelay
<1>1. CASE o \in Has(c)
  BY <1>1 DEF TimeInv, LiveInv
<1>2. ASSUME NEW m \in net, AtDoor(m, c), o = Incoming(m)
      PROVE  /\ o.at <= now /\ now <= o.at + Span
             /\ \E p \in PendingAs(o.gift) : p.target = session[c] /\ o.at <= p.at + MaxDelay
  <2>1. o.at = now /\ o.gift = m.gift
    BY <1>2 DEF Incoming
  <2>2. PICK p \in PendingAs(m.gift) : p.target = m.target /\ m.at <= p.at
    BY <1>2 DEF LiveInv, AtDoor
  <2>3. m \in OfferMsg /\ m.at \in Nat /\ m.gift.peer[1] \in Clients
    BY <1>2, MessageType DEF AtDoor, Offers, OfferMsg, Gift, Peer
  <2>4. p.at \in Nat /\ now \in Nat
    BY <2>3 DEF TypeOK, PendingAs
  <2>5. now <= m.at + MaxDelay
    BY DEF TimeInv
  <2>6. now <= p.at + MaxDelay /\ now <= now + Span
    BY <2>2, <2>3, <2>4, <2>5, SpanType
  <2> QED
    BY <1>2, <2>1, <2>2, <2>4, <2>6 DEF AtDoor
<1> QED
  BY <1>1, <1>2 DEF Met

\* An offer somebody has met is somebody else's, and pending.
LEMMA MetPending ==
    ASSUME TypeOK, AllOnline, OriginInv, PendInv, NEW c \in Clients, NEW o \in Met(c),
           NEW p \in PendingAs(o.gift), p.target = session[c]
    PROVE  /\ o.gift.peer[1] \in Clients \ {c}
           /\ \A q \in PendingAs(o.gift) : q = p
<1>1. o.gift.peer[1] \in Clients
  BY MetType DEF Offer, Gift, Peer
<1> QED
  BY <1>1 DEF PendInv, PendingAs

LEMMA TickBoth ==
    ASSUME TypeOK, AllOnline, OriginInv, BothInv, Prompt, Tick
    PROVE  BothInv'
<1>1. /\ ~Overdue /\ now' = now + 1
      /\ UNCHANGED <<session, conn, pending, nextId, told, net, landed, answered>>
      /\ UNCHANGED <<dialog, held, fetching>>
  BY DEF Tick, Prompt, online, giver, recipient, stash
<1>2. now \in Nat /\ now' \in Nat
  BY <1>1 DEF TypeOK
<1>3. \A d \in Clients : Has(d)' = Has(d)
  BY <1>1, HasSame
<1>4. \A m \in net : m.at <= now' /\ now' <= m.at + MaxDelay
  <2>1. \A m \in net : m.at \in Nat
    BY DEF TypeOK, OfferMsg, AnswerMsg
  <2> QED
    BY <1>1, <1>2, <2>1, GiftAssumption DEF BothInv, TimeInv, Overdue
<1>5. ASSUME NEW c \in Clients, NEW o \in Has(c)
      PROVE  o.at <= now' /\ now' <= o.at + Span
  <2>1. o.at \in Nat
    BY HasType DEF Offer
  <2>2. now - o.at < DialogTTL \/ now - o.at < PendingTTL - AnswerMargin
    <3>1. ~DialogDue(o) \/ ~AnswerDue(o)
      BY <1>1 DEF AllOnline, Has, Overdue
    <3> QED
      BY <1>2, <2>1, <3>1, GiftAssumption DEF DialogDue, AnswerDue
  <2> QED
    BY <1>1, <1>2, <2>1, <2>2, SpanType, GiftAssumption DEF BothInv, TimeInv
<1>6. TimeInv'
  BY <1>1, <1>3, <1>4, <1>5 DEF TimeInv
<1> QED
  BY <1>1, <1>3, <1>6 DEF BothInv, PendInv, LiveInv, AnsweredInv, NetInv, LandedInv,
       ToldInv, OutcomesAgree, Informed, PendingAs

LEMMA ShiftBoth ==
    ASSUME TypeOK, AllOnline, OriginInv, BothInv, Prompt, Shift
    PROVE  BothInv'
<1>1. /\ UNCHANGED <<now, session, conn, pending, nextId, landed, answered, told>>
      /\ net' \subseteq net
  BY DEF Shift
<1>2. \A gift : PendingAs(gift)' = PendingAs(gift)
  BY <1>1 DEF PendingAs
<1>3. \A c \in Clients : Has(c)' \subseteq Met(c)
  BY DEF Shift
<1>4. TimeInv'
  BY <1>1, <1>3, MetFacts DEF BothInv, TimeInv
<1>5. LiveInv'
  BY <1>1, <1>2, <1>3, MetFacts DEF BothInv, LiveInv, Offers
<1>6. LandedInv'
  <2> SUFFICES ASSUME NEW l \in landed, NEW p \in PendingAs(l.gift)
               PROVE  Informed(l.gift, p)'
    BY <1>1, <1>2 DEF BothInv, LandedInv
  <2>1. PICK m \in net : /\ Accepts(m) /\ m.about = l.gift /\ m.dst = l.gift.peer
                         /\ m.did = p.target /\ m.at <= p.at + MaxDelay + Span
    BY DEF BothInv, LandedInv, Informed
  <2>2. Answers(m) /\ m.dst[1] \in Clients
    BY <2>1, MessageType DEF Accepts, Answers
  <2>3. OfGiver(l.gift, m.target) /\ m.id = l.gift.id
    BY <2>1, <2>2 DEF OriginInv
  <2>4. p \in pending[m.dst[1]] /\ p.id = m.id
    BY <2>1, <2>3 DEF PendingAs
  <2>5. Matches(m.dst[1], m, p)
    BY <2>1, <2>3, <2>4 DEF Matches, OfGiver
  <2>6. Arrives(m)
    BY <2>1, <2>2, <2>3 DEF Arrives, AllOnline, OfGiver
  <2>7. m \in net'
    BY <2>2, <2>4, <2>5, <2>6 DEF Shift, Prompt
  <2> QED
    BY <1>1, <2>1, <2>7 DEF Informed, Accepts
<1> QED
  BY <1>1, <1>2, <1>4, <1>5, <1>6 DEF BothInv, PendInv, AnsweredInv, NetInv, ToldInv,
       OutcomesAgree, Answers

LEMMA GiveBoth ==
    ASSUME TypeOK, AllOnline, OneClientEach, OriginInv, OnePlace, BothInv, Prompt,
           NEW c \in Clients, NEW a \in Accounts, NEW item \in Items, GiveOffer(c, a, item)
    PROVE  BothInv'
<1>0. PICK gift, given :
        /\ gift = [peer |-> PeerOf(c), id |-> nextId[c]]
        /\ given = [id |-> nextId[c], target |-> a, at |-> now]
  OBVIOUS
<1>1. /\ UNCHANGED <<now, session, conn, told, landed, answered>>
      /\ pending' = [pending EXCEPT ![c] = @ \cup {given}]
      /\ nextId' = [nextId EXCEPT ![c] = @ + 1]
      /\ net \subseteq net'
      /\ \A m \in net' \ net : /\ m.kind = "offer" /\ m.gift = gift
                               /\ m.target = a /\ m.at = now
  BY <1>0 DEF GiveOffer
<1>2. \A d \in Clients : Has(d)' = Has(d)
  BY HasSame DEF GiveOffer
<1>3. a # session[c]
  BY DEF GiveOffer, AllOnline, OneClientEach
<1>4. now \in Nat /\ nextId[c] \in Nat
  BY DEF TypeOK
<1>5. given.id = nextId[c] /\ given.target = a /\ given.at = now
  BY <1>0
<1>6. gift.peer = PeerOf(c) /\ gift.peer[1] = c /\ gift.id = nextId[c]
  BY <1>0 DEF PeerOf
<1>7. pending'[c] = pending[c] \cup {given} /\ \A d \in Clients \ {c} : pending'[d] = pending[d]
  BY <1>1 DEF TypeOK
<1>8. \A g \in Gift : /\ PendingAs(g) \subseteq PendingAs(g)'
                      /\ PendingAs(g)' \subseteq PendingAs(g) \cup {given}
                      /\ PendingAs(g)' # PendingAs(g) => g.peer[1] = c /\ g.id = nextId[c]
  BY <1>5, <1>7 DEF PendingAs, Gift, Peer
<1>9. given \in PendingAs(gift)'
  BY <1>5, <1>6, <1>7 DEF PendingAs
\* Nobody has answered this gift.
<1>10. ASSUME NEW b \in answered PROVE PendingAs(b[2])' = PendingAs(b[2])
  <2>1. b[2] \in Gift
    BY DEF TypeOK
  <2>2. Issued(b[2]) /\ b[2].peer = PeerOf(b[2].peer[1])
    <3> DEFINE x == [place |-> "answered", at |-> b[1], gift |-> b[2], what |-> NoOffer]
    <3>1. x \in Places /\ x.gift = b[2]
      BY DEF Places, Answered
    <3> HIDE DEF x
    <3> QED
      BY <3>1 DEF OnePlace, OriginInv
  <2>3. ~(b[2].peer[1] = c /\ b[2].id = nextId[c])
    BY <1>4, <2>1, <2>2 DEF Issued, PeerOf, GiveOffer, Gift, TypeOK
  <2> QED
    BY <1>8, <2>1, <2>3
<1>11. TimeInv'
  <2>1. \A m \in net' : m.at <= now /\ now <= m.at + MaxDelay
    BY <1>1, <1>4, GiftAssumption DEF BothInv, TimeInv
  <2> QED
    BY <1>1, <1>2, <2>1 DEF BothInv, TimeInv
<1>12. PendInv'
  <2> SUFFICES ASSUME NEW d \in Clients, NEW p \in pending'[d]
               PROVE  /\ p.id < nextId'[d] /\ p.target # session[d]
                      /\ \A q \in pending'[d] : q.id = p.id => q = p
    BY <1>1 DEF PendInv
  <2>1. CASE d # c
    BY <1>1, <1>7, <2>1 DEF BothInv, PendInv, TypeOK
  <2>2. CASE d = c
    <3>1. \A q \in pending[c] : q.id \in Nat /\ q.id < nextId[c] /\ q.target # session[c]
      BY DEF BothInv, PendInv, TypeOK
    <3>2. nextId'[c] = nextId[c] + 1
      BY <1>1 DEF TypeOK
    <3>3. p.id < nextId'[d] /\ p.target # session[d]
      BY <1>3, <1>4, <1>5, <1>7, <2>2, <3>1, <3>2
    <3>4. \A q \in pending'[d] : q.id = p.id => q = p
      BY <1>4, <1>5, <1>7, <2>2, <3>1 DEF BothInv, PendInv
    <3> QED
      BY <3>3, <3>4
  <2> QED
    BY <2>1, <2>2
<1>13. LiveInv'
  <2>1. ASSUME NEW m \in net', Offers(m), session[m.dst[1]] = m.target
        PROVE  \E p \in PendingAs(m.gift)' : p.target = m.target /\ m.at <= p.at
    <3>1. CASE m \in net
      <4>1. m.gift \in Gift
        BY <2>1, <3>1, MessageType DEF Offers, OfferMsg
      <4> QED
        BY <1>8, <2>1, <3>1, <4>1 DEF BothInv, LiveInv
    <3>2. CASE m \notin net
      BY <1>1, <1>4, <1>5, <1>9, <3>2
    <3> QED
      BY <3>1, <3>2
  <2>2. ASSUME NEW d \in Clients, NEW o \in Has(d)
        PROVE  \E p \in PendingAs(o.gift)' : p.target = session[d] /\ o.at <= p.at + MaxDelay
    <3>1. o.gift \in Gift
      BY HasType DEF Offer
    <3> QED
      BY <1>8, <3>1 DEF BothInv, LiveInv
  <2> QED
    BY <1>1, <1>2, <2>1, <2>2 DEF LiveInv, Offers
<1>14. AnsweredInv'
  BY <1>1, <1>10 DEF BothInv, AnsweredInv
<1>15. NetInv'
  BY <1>1 DEF BothInv, NetInv, Answers
<1>16. LandedInv'
  <2> SUFFICES ASSUME NEW l \in landed
               PROVE  /\ \E b \in answered : b[2] = l.gift
                      /\ \A p \in PendingAs(l.gift)' : Informed(l.gift, p)'
    BY <1>1 DEF LandedInv
  <2>1. PICK b \in answered : b[2] = l.gift
    BY DEF BothInv, LandedInv
  <2>2. PendingAs(l.gift)' = PendingAs(l.gift)
    BY <1>10, <2>1
  <2> QED
    BY <1>1, <2>1, <2>2 DEF BothInv, LandedInv, Informed, Accepts
<1>17. ToldInv'
  <2> SUFFICES ASSUME NEW t \in told
               PROVE  /\ t.gift.peer[1] \in Clients /\ t.gift.id < nextId'[t.gift.peer[1]]
                      /\ PendingAs(t.gift)' = {}
    BY <1>1 DEF ToldInv
  <2>1. /\ t.gift.peer[1] \in Clients /\ t.gift.id < nextId[t.gift.peer[1]]
        /\ PendingAs(t.gift) = {}
    BY DEF BothInv, ToldInv
  <2>2. t.gift \in Gift /\ t.gift.id \in Nat
    BY DEF TypeOK, Gift
  <2>3. t.gift.id < nextId'[t.gift.peer[1]]
    BY <1>1, <1>4, <2>1, <2>2 DEF TypeOK
  <2>4. PendingAs(t.gift)' = PendingAs(t.gift)
    BY <1>4, <1>8, <2>1, <2>2
  <2> QED
    BY <2>1, <2>3, <2>4
<1> QED
  BY <1>1, <1>11, <1>12, <1>13, <1>14, <1>15, <1>16, <1>17 DEF BothInv, OutcomesAgree

\* Pending offers go, and nothing else of what a client has or has met: what
\* the others still wait for stands, if what goes is not theirs.
LEMMA FewerPending ==
    ASSUME TypeOK, OriginInv, BothInv,
           UNCHANGED <<now, session, conn, nextId, answered, landed>>, net' \subseteq net,
           \A d \in Clients : Has(d)' = Has(d),
           \A d \in Clients : pending'[d] \subseteq pending[d],
           \A m \in net' : Offers(m) /\ session[m.dst[1]] = m.target =>
             PendingAs(m.gift) \subseteq PendingAs(m.gift)',
           \A d \in Clients : \A o \in Has(d) : PendingAs(o.gift) \subseteq PendingAs(o.gift)',
           \A m \in net \ net' : \A p \in PendingAs(m.about)' : ~Accepts(m)
    PROVE  /\ TimeInv' /\ PendInv' /\ LiveInv' /\ AnsweredInv' /\ NetInv' /\ LandedInv'
           /\ \A gift \in Gift : PendingAs(gift)' \subseteq PendingAs(gift)
<1>1. \A gift \in Gift : PendingAs(gift)' \subseteq PendingAs(gift)
  BY DEF PendingAs, Gift, Peer
<1>2. TimeInv'
  BY DEF BothInv, TimeInv
<1>3. PendInv'
  BY DEF BothInv, PendInv
<1>4. LiveInv'
  BY DEF BothInv, LiveInv, Offers
<1>5. AnsweredInv'
  <2>1. \A a \in answered : a[2] \in Gift
    BY DEF TypeOK
  <2> QED
    BY <1>1, <2>1 DEF BothInv, AnsweredInv
<1>6. NetInv'
  BY DEF BothInv, NetInv, Answers
<1>7. LandedInv'
  <2> SUFFICES ASSUME NEW l \in landed, NEW p \in PendingAs(l.gift)'
               PROVE  Informed(l.gift, p)'
    BY DEF BothInv, LandedInv
  <2>1. p \in PendingAs(l.gift)
    BY <1>1 DEF TypeOK
  <2>2. PICK m \in net : /\ Accepts(m) /\ m.about = l.gift /\ m.dst = l.gift.peer
                         /\ m.did = p.target /\ m.at <= p.at + MaxDelay + Span
    BY <2>1 DEF BothInv, LandedInv, Informed
  <2>3. m \in net'
    BY <2>2
  <2> QED
    BY <2>2, <2>3 DEF Informed, Accepts
<1> QED
  BY <1>1, <1>2, <1>3, <1>4, <1>5, <1>6, <1>7

LEMMA HandleBoth ==
    ASSUME TypeOK, AllOnline, OneClientEach, OriginInv, OnePlace, BothInv, Prompt,
           NEW m \in net, HandleItemOfferResponse(m)
    PROVE  BothInv'
<1> DEFINE g == m.about
           c == g.peer[1]
<1>1. PICK p \in PendingAs(g) :
        /\ Answers(m) /\ m.dst[1] = c /\ p.target = m.did
        /\ pending' = [pending EXCEPT ![c] = @ \ {p}]
        /\ told' = told \cup {[gift |-> g, target |-> p.target,
                               outcome |-> Outcome(m), about |-> g]}
  BY HandleSettles
<1>2. g \in Gift /\ c \in Clients /\ g.peer \in Peer /\ m.by \in Clients
  BY <1>1, MessageType DEF Answers, AnswerMsg, Gift, Peer
<1>3. g.peer = PeerOf(c)
  BY <1>1 DEF OriginInv, OfGiver
<1>4. p \in pending[c] /\ p.id = g.id
  BY DEF PendingAs
<1>5. /\ UNCHANGED <<now, session, conn, nextId, answered, landed>>
      /\ net' = net \ {m} /\ \A d \in Clients : Has(d)' = Has(d)
  BY HasSame DEF HandleItemOfferResponse, online, recipient, stash
<1>6. /\ pending'[c] = pending[c] \ {p}
      /\ \A d \in Clients \ {c} : pending'[d] = pending[d]
  BY <1>1, <1>2 DEF TypeOK
\* A gift whose pending offer goes is the one answered.
<1>7. ASSUME NEW h \in Gift, h.peer = PeerOf(h.peer[1]), ~(PendingAs(h) \subseteq PendingAs(h)')
      PROVE  h = g /\ PendingAs(h) = {p}
  <2>1. h.peer[1] \in Clients
    BY DEF Gift, Peer
  <2>2. h.peer[1] = c /\ h.id = p.id
    BY <1>6, <1>7, <2>1 DEF PendingAs
  <2>3. h.peer = g.peer /\ h.id = g.id
    BY <1>3, <1>4, <1>7, <2>2
  <2>4. h = g
    BY <1>2, <2>3 DEF Gift
  <2>5. \A q \in PendingAs(g) : q = p
    BY <1>2, <1>4 DEF BothInv, PendInv, PendingAs
  <2> QED
    BY <2>4, <2>5
\* Whoever answered it, and is its addressee, has it nowhere else.
<1>8. ASSUME NEW d \in Clients, NEW o \in Met(d), o.gift = g, p.target = session[d]
      PROVE  FALSE
  <2>1. <<m.by, g>> \in answered /\ m.did = session[m.by]
    BY <1>1 DEF BothInv, NetInv
  <2>2. m.by = d
    BY <1>1, <1>2, <1>8, <2>1 DEF AllOnline, OneClientEach
  <2> QED
    BY <1>8, <2>1, <2>2, MetNotAnswered
<1>9. ASSUME NEW n \in net', Offers(n), session[n.dst[1]] = n.target
      PROVE  PendingAs(n.gift) \subseteq PendingAs(n.gift)'
  <2>1. n \in net
    BY <1>5
  <2>2. n.dst[1] \in Clients /\ n.gift \in Gift /\ n.gift.peer = PeerOf(n.gift.peer[1])
    BY <1>9, <2>1, MessageType DEF Offers, OfferMsg, OriginInv, OfGiver
  <2>3. PICK q \in PendingAs(n.gift) : q.target = n.target
    BY <1>9, <2>1 DEF BothInv, LiveInv
  <2>4. Incoming(n) \in Met(n.dst[1]) /\ Incoming(n).gift = n.gift
    BY <1>9, <2>1 DEF Met, AtDoor, Incoming
  <2>5. ~(n.gift = g /\ PendingAs(n.gift) = {p})
    BY <1>8, <1>9, <2>2, <2>3, <2>4
  <2> QED
    BY <1>7, <2>2, <2>5
<1>10. ASSUME NEW d \in Clients, NEW o \in Has(d)
       PROVE  PendingAs(o.gift) \subseteq PendingAs(o.gift)'
  <2>1. o.gift \in Gift /\ o.gift.peer = PeerOf(o.gift.peer[1])
    BY HasType DEF Offer, OriginInv, OfGiver
  <2>2. PICK q \in PendingAs(o.gift) : q.target = session[d]
    BY DEF BothInv, LiveInv
  <2>3. o \in Met(d)
    BY DEF Met
  <2>4. ~(o.gift = g /\ PendingAs(o.gift) = {p})
    BY <1>8, <2>2, <2>3
  <2> QED
    BY <1>7, <2>1, <2>4
<1>11. PendingAs(g)' = {}
  <2>1. PendingAs(g)' = {q \in pending'[c] : q.id = g.id}
    BY DEF PendingAs
  <2> QED
    BY <1>2, <1>4, <1>6, <2>1 DEF BothInv, PendInv
<1>12. /\ TimeInv' /\ PendInv' /\ LiveInv' /\ AnsweredInv' /\ NetInv' /\ LandedInv'
       /\ \A gift \in Gift : PendingAs(gift)' \subseteq PendingAs(gift)
  <2>1. \A d \in Clients : pending'[d] \subseteq pending[d]
    BY <1>6
  <2>2. \A n \in net \ net' : \A q \in PendingAs(n.about)' : ~Accepts(n)
    BY <1>5, <1>11
  <2>3. net' \subseteq net
    BY <1>5
  <2> QED
    BY <1>5, <1>9, <1>10, <2>1, <2>2, <2>3, FewerPending
<1>13. ASSUME NEW t \in told'
       PROVE  /\ t.gift.peer[1] \in Clients /\ t.gift.id < nextId[t.gift.peer[1]]
              /\ PendingAs(t.gift)' = {}
  <2>1. CASE t \in told
    BY <1>12, <2>1 DEF BothInv, ToldInv, TypeOK
  <2>2. CASE t \notin told
    <3>1. t.gift = g
      BY <1>1, <2>2
    <3>2. g.id < nextId[c]
      BY <1>2, <1>4 DEF BothInv, PendInv
    <3> QED
      BY <1>2, <1>11, <3>1, <3>2
  <2> QED
    BY <2>1, <2>2
<1>14. ToldInv'
  BY <1>5, <1>13 DEF ToldInv
<1>15. ASSUME NEW t \in told', NEW l \in landed, t.gift = l.gift
       PROVE  t.outcome = "accepted"
  <2>1. CASE t \in told
    BY <1>15, <2>1 DEF BothInv, OutcomesAgree
  <2>2. CASE t \notin told
    <3>1. t.gift = g /\ t.outcome = Outcome(m)
      BY <1>1, <2>2
    <3>2. m.accepted
      BY <1>1, <1>15, <3>1 DEF BothInv, NetInv
    <3> QED
      BY <3>1, <3>2 DEF Outcome
  <2> QED
    BY <2>1, <2>2
<1> QED
  BY <1>5, <1>12, <1>14, <1>15 DEF BothInv, OutcomesAgree

\* The sweep takes what is past its time, and by then nobody has the offer any
\* more, and no acceptance of it is on its way.
LEMMA SweepBoth ==
    ASSUME TypeOK, AllOnline, OriginInv, BothInv, Prompt,
           NEW c \in Clients, SweepStalePendingOffers(c)
    PROVE  BothInv'
<1> DEFINE stale == {p \in pending[c] : PendingDue(p)}
<1>1. /\ UNCHANGED <<now, session, conn, nextId, answered, landed, net>>
      /\ \A d \in Clients : Has(d)' = Has(d)
      /\ pending' = [pending EXCEPT ![c] = @ \ stale]
  BY HasSame DEF SweepStalePendingOffers, online, recipient, stash
<1>2. \A t \in told' \ told : \E p \in stale : t.gift = [peer |-> PeerOf(c), id |-> p.id]
  BY DEF SweepStalePendingOffers
<1>3. /\ pending'[c] = pending[c] \ stale
      /\ \A d \in Clients \ {c} : pending'[d] = pending[d]
  BY <1>1 DEF TypeOK
<1>4. ASSUME NEW p \in stale PROVE p.at \in Nat /\ now >= p.at + PendingTTL
  BY GiftAssumption DEF PendingDue, TypeOK
<1> HIDE DEF stale
<1>7. now \in Nat /\ PendingTTL \in Nat
  BY GiftAssumption DEF TypeOK
<1>5. ASSUME NEW g \in Gift, NEW p \in PendingAs(g), \A q \in PendingAs(g) : q = p,
             p.at \in Nat => now < p.at + PendingTTL
      PROVE  PendingAs(g) \subseteq PendingAs(g)'
  <2>1. p \notin stale
    BY <1>4, <1>5, <1>7
  <2>2. p \in PendingAs(g)'
    BY <1>3, <2>1 DEF PendingAs, Gift, Peer
  <2> QED
    BY <1>5, <2>2
<1>6. ASSUME NEW g \in Gift, NEW p \in PendingAs(g) PROVE \A q \in PendingAs(g) : q = p
  BY DEF BothInv, PendInv, PendingAs, Gift, Peer
<1>8. ASSUME NEW n \in net', Offers(n), session[n.dst[1]] = n.target
      PROVE  PendingAs(n.gift) \subseteq PendingAs(n.gift)'
  <2>1. n \in net /\ n.gift \in Gift /\ n.at \in Nat
    BY <1>1, <1>8, MessageType DEF Offers, OfferMsg
  <2>2. PICK p \in PendingAs(n.gift) : n.at <= p.at
    BY <1>8, <2>1 DEF BothInv, LiveInv
  <2>3. now <= n.at + MaxDelay
    BY <2>1 DEF BothInv, TimeInv
  <2>4. p.at \in Nat => now < p.at + PendingTTL
    BY <1>7, <2>1, <2>2, <2>3, SpanType
  <2> QED
    BY <1>5, <1>6, <2>1, <2>4
<1>9. ASSUME NEW d \in Clients, NEW o \in Has(d)
      PROVE  PendingAs(o.gift) \subseteq PendingAs(o.gift)'
  <2>1. o.gift \in Gift /\ o.at \in Nat
    BY HasType DEF Offer
  <2>2. PICK p \in PendingAs(o.gift) : o.at <= p.at + MaxDelay
    BY DEF BothInv, LiveInv
  <2>3. now <= o.at + Span
    BY DEF BothInv, TimeInv
  <2>4. p.at \in Nat => now < p.at + PendingTTL
    BY <1>7, <2>1, <2>2, <2>3, SpanType
  <2> QED
    BY <1>5, <1>6, <2>1, <2>4
<1>10. /\ TimeInv' /\ PendInv' /\ LiveInv' /\ AnsweredInv' /\ NetInv' /\ LandedInv'
       /\ \A gift \in Gift : PendingAs(gift)' \subseteq PendingAs(gift)
  <2>1. \A d \in Clients : pending'[d] \subseteq pending[d]
    BY <1>3
  <2>2. net' \subseteq net /\ \A n \in net \ net' : \A q \in PendingAs(n.about)' : ~Accepts(n)
    BY <1>1
  <2> QED
    BY <1>1, <1>8, <1>9, <2>1, <2>2, FewerPending
\* What the sweep speaks of had not landed.
<1>11. ASSUME NEW p \in stale, NEW g, g = [peer |-> PeerOf(c), id |-> p.id]
       PROVE  g.peer[1] = c /\ g.id = p.id /\ PendingAs(g)' = {} /\ \A l \in landed : l.gift # g
  <2>1. g.peer = PeerOf(c) /\ g.id = p.id /\ p \in pending[c]
    BY <1>11 DEF stale
  <2>2. g.peer[1] = c
    BY <2>1 DEF PeerOf
  <2>3. p \in PendingAs(g)
    BY <2>1, <2>2 DEF PendingAs
  <2>4. PendingAs(g)' = {q \in pending'[c] : q.id = p.id}
    BY <2>1, <2>2 DEF PendingAs
  <2>5. PendingAs(g)' = {}
    BY <1>3, <2>1, <2>4 DEF BothInv, PendInv
  <2>6. ASSUME NEW l \in landed, l.gift = g PROVE FALSE
    <3>1. PICK m \in net : Accepts(m) /\ m.at <= p.at + MaxDelay + Span
      BY <2>3, <2>6 DEF BothInv, LandedInv, Informed
    <3>2. m.at \in Nat
      BY DEF TypeOK, OfferMsg, AnswerMsg
    <3>3. now <= m.at + MaxDelay
      BY DEF BothInv, TimeInv
    <3> QED
      BY <1>4, <1>7, <3>1, <3>2, <3>3, SpanType
  <2> QED
    BY <2>1, <2>2, <2>5, <2>6
<1>12. ASSUME NEW t \in told'
       PROVE  /\ t.gift.peer[1] \in Clients /\ t.gift.id < nextId[t.gift.peer[1]]
              /\ PendingAs(t.gift)' = {}
              /\ \A l \in landed : t.gift = l.gift => t.outcome = "accepted"
  <2>1. CASE t \in told
    BY <1>10, <2>1 DEF BothInv, ToldInv, OutcomesAgree, TypeOK
  <2>2. CASE t \notin told
    <3>1. PICK p \in stale : t.gift = [peer |-> PeerOf(c), id |-> p.id]
      BY <1>2, <2>2
    <3>2. p.id < nextId[c]
      BY DEF BothInv, PendInv, stale
    <3>3. /\ t.gift.peer[1] = c /\ t.gift.id = p.id
          /\ PendingAs(t.gift)' = {} /\ \A l \in landed : l.gift # t.gift
      BY <1>11, <3>1
    <3> QED
      BY <3>2, <3>3
  <2> QED
    BY <2>1, <2>2
<1>13. ToldInv' /\ OutcomesAgree'
  BY <1>1, <1>12 DEF ToldInv, OutcomesAgree
<1> QED
  BY <1>10, <1>13 DEF BothInv

\* What an answer keeps, whatever it says.
LEMMA AnswerKeeps ==
    ASSUME TypeOK, AllOnline, OneClientEach, OriginInv, OnePlace, BothInv, Prompt,
           NEW c \in Clients, NEW o \in Met(c), Answer(c, o)
    PROVE  /\ TimeInv' /\ PendInv' /\ LiveInv' /\ AnsweredInv' /\ ToldInv'
           /\ \A gift : PendingAs(gift)' = PendingAs(gift)
           /\ \A l \in landed : l.gift # o.gift
           /\ \A m \in net : Answers(m) => m.about # o.gift
           /\ \A l \in landed : /\ \E a \in answered' : a[2] = l.gift
                                /\ \A p \in PendingAs(l.gift) : Informed(l.gift, p)'
           /\ \A t \in told : t.gift # o.gift
<1>1. /\ UNCHANGED <<now, session, conn, pending, nextId, told>>
      /\ answered' = answered \cup {<<c, o.gift>>}
      /\ \A m \in net \ net' : Offers(m)
      /\ \A m \in net' \ net : Says(m, c, o)
      /\ \A d \in Clients : Has(d)' \subseteq Has(d)
  BY DEF Answer
<1>2. \A gift : PendingAs(gift)' = PendingAs(gift)
  BY <1>1 DEF PendingAs
<1>3. o \in Offer /\ o.gift \in Gift
  BY MetType DEF Offer
<1>4. PICK p \in PendingAs(o.gift) : p.target = session[c]
  BY MetFacts DEF BothInv
<1>5. \A q \in PendingAs(o.gift) : q = p
  BY <1>4, MetPending DEF BothInv
<1>6. <<c, o.gift>> \notin answered
  BY MetNotAnswered
\* The addressee has not answered, so nobody has.
<1>7. ASSUME NEW a \in answered, a[2] = o.gift PROVE FALSE
  <2>1. p.target = session[a[1]]
    BY <1>4, <1>7 DEF BothInv, AnsweredInv
  <2>2. a[1] \in Clients /\ a = <<a[1], a[2]>>
    BY DEF TypeOK
  <2>3. a[1] = c
    BY <1>4, <2>1, <2>2 DEF AllOnline, OneClientEach
  <2> QED
    BY <1>6, <1>7, <2>2, <2>3
<1>8. \A l \in landed : l.gift # o.gift
  BY <1>7 DEF BothInv, LandedInv
<1>9. ASSUME NEW m \in net, Answers(m), m.about = o.gift PROVE FALSE
  <2>1. <<m.by, m.about>> \in answered
    BY <1>9 DEF BothInv, NetInv
  <2>2. <<m.by, m.about>>[2] = o.gift
    BY <1>9
  <2> QED
    BY <1>7, <2>1, <2>2
<1>10. \A t \in told : t.gift # o.gift
  BY <1>4 DEF BothInv, ToldInv
<1>11. TimeInv'
  <2>1. \A m \in net' : m.at <= now /\ now <= m.at + MaxDelay
    <3>1. now <= now + MaxDelay /\ now <= now
      BY GiftAssumption DEF TypeOK
    <3>2. \A m \in net' \ net : m.at = now
      BY <1>1 DEF Says
    <3> QED
      BY <3>1, <3>2 DEF BothInv, TimeInv
  <2> QED
    BY <1>1, <2>1 DEF BothInv, TimeInv
<1>12. PendInv' /\ ToldInv'
  BY <1>1, <1>2 DEF BothInv, PendInv, ToldInv
<1>13. LiveInv'
  <2>1. \A m \in net' : Offers(m) => m \in net
    BY <1>1 DEF Says, Offers, Answers
  <2> QED
    BY <1>1, <1>2, <2>1 DEF BothInv, LiveInv, Offers
<1>14. AnsweredInv'
  BY <1>1, <1>2, <1>4, <1>5 DEF BothInv, AnsweredInv
<1>15. ASSUME NEW l \in landed
       PROVE  /\ \E a \in answered' : a[2] = l.gift
              /\ \A q \in PendingAs(l.gift) : Informed(l.gift, q)'
  <2>1. \A m \in net : Accepts(m) => m \in net'
    BY <1>1 DEF Accepts, Offers
  <2> QED
    BY <1>1, <2>1 DEF BothInv, LandedInv, Informed, Accepts
<1> QED
  BY <1>2, <1>8, <1>9, <1>10, <1>11, <1>12, <1>13, <1>14, <1>15

LEMMA RefusalBoth ==
    ASSUME TypeOK, AllOnline, OneClientEach, OriginInv, OnePlace, BothInv, Prompt,
           NEW c \in Clients, NEW o \in Met(c), Refusal(c, o)
    PROVE  BothInv'
<1>1. /\ Answer(c, o) /\ UNCHANGED <<landed, session, told>>
      /\ answered' = answered \cup {<<c, o.gift>>}
      /\ \A m \in net' \ net : Says(m, c, o)
  BY DEF Refusal, Answer
<1>2. NetInv'
  <2> SUFFICES ASSUME NEW m \in net', Answers(m)
               PROVE  /\ <<m.by, m.about>> \in answered' /\ m.did = session[m.by]
                      /\ ~m.accepted => \A l \in landed : l.gift # m.about
    BY <1>1 DEF NetInv, Answers
  <2>1. CASE m \in net
    BY <1>1, <2>1 DEF BothInv, NetInv
  <2>2. CASE m \notin net
    BY <1>1, <2>2, AnswerKeeps DEF Says
  <2> QED
    BY <2>1, <2>2
<1>3. LandedInv'
  BY <1>1, AnswerKeeps DEF LandedInv
<1> QED
  BY <1>1, <1>2, <1>3, AnswerKeeps DEF BothInv, OutcomesAgree

LEMMA LandingBoth ==
    ASSUME TypeOK, AllOnline, OneClientEach, OriginInv, OnePlace, BothInv, Prompt,
           NEW c \in Clients, NEW o \in Met(c), Landing(c, o)
    PROVE  BothInv'
<1> DEFINE new == [gift |-> o.gift, by |-> session[c]]
<1>1. /\ Answer(c, o) /\ UNCHANGED <<session, told, now, conn, pending>>
      /\ answered' = answered \cup {<<c, o.gift>>}
      /\ landed' = landed \cup {new} /\ new.gift = o.gift
      /\ \A m \in net' \ net : Says(m, c, o) /\ m.accepted
  BY DEF Landing, Answer
<1> HIDE DEF new
<1>2. NetInv'
  <2> SUFFICES ASSUME NEW m \in net', Answers(m)
               PROVE  /\ <<m.by, m.about>> \in answered' /\ m.did = session[m.by]
                      /\ ~m.accepted => \A l \in landed' : l.gift # m.about
    BY <1>1 DEF NetInv, Answers
  <2>1. CASE m \in net
    BY <1>1, <2>1, AnswerKeeps DEF BothInv, NetInv
  <2>2. CASE m \notin net
    BY <1>1, <2>2 DEF Says
  <2> QED
    BY <2>1, <2>2
<1>3. ASSUME NEW p \in PendingAs(o.gift) PROVE Informed(o.gift, p)'
  <2>1. /\ o.at <= now /\ now <= o.at + Span
        /\ \E q \in PendingAs(o.gift) : q.target = session[c] /\ o.at <= q.at + MaxDelay
    BY MetFacts DEF BothInv
  <2>2. PICK q \in PendingAs(o.gift) : q.target = session[c] /\ o.at <= q.at + MaxDelay
    BY <2>1
  <2>3. o.gift.peer[1] \in Clients \ {c} /\ p = q
    BY <2>2, MetPending DEF BothInv
  <2>4. PICK m \in net' : /\ Says(m, c, o) /\ m.accepted
                          /\ m.dst = PeerOf(o.gift.peer[1])
    BY <2>3 DEF Landing, AllOnline
  <2>5. m.dst = o.gift.peer
    BY <2>4, MetOfGiver DEF OfGiver
  <2>6. o.at \in Nat /\ now \in Nat /\ q.at \in Nat
    BY <2>3, MetType DEF Offer, PendingAs, TypeOK
  <2>7. m.at <= q.at + MaxDelay + Span
    <3>1. m.at = now
      BY <2>4 DEF Says
    <3> QED
      BY <2>1, <2>2, <2>6, <3>1, SpanType
  <2> QED
    BY <1>1, <2>2, <2>3, <2>4, <2>5, <2>7 DEF Informed, Accepts, Says, Answers
<1>4. LandedInv'
  <2> SUFFICES ASSUME NEW l \in landed'
               PROVE  /\ \E a \in answered' : a[2] = l.gift
                      /\ \A p \in PendingAs(l.gift) : Informed(l.gift, p)'
    BY AnswerKeeps, <1>1 DEF LandedInv
  <2>1. CASE l \in landed
    BY <1>1, <2>1, AnswerKeeps
  <2>2. CASE l = new
    <3>1. <<c, o.gift>> \in answered' /\ <<c, o.gift>>[2] = o.gift
      BY <1>1
    <3> QED
      BY <1>1, <1>3, <2>2, <3>1
  <2> QED
    BY <1>1, <2>1, <2>2
<1>5. OutcomesAgree'
  BY <1>1, AnswerKeeps DEF BothInv, OutcomesAgree
<1> QED
  BY <1>1, <1>2, <1>4, <1>5, AnswerKeeps DEF BothInv

\* A gift that landed is reported to its giver as accepted or not yet at all,
\* never as declined and never as unanswered: while people stay signed in, each
\* on a client of their own, awake, and a message takes less time than the
\* deadlines leave for it.
THEOREM OutcomesAgreeCorrect ==
    ASSUME OneClientEach, Prompt
    PROVE  Spec => []OutcomesAgree
<1> DEFINE IInv == AllOnline /\ OriginInv /\ BothInv
<1>1. Init => IInv
  <2> SUFFICES ASSUME Init PROVE BothInv
    BY OriginInit
  <2>1. \A c \in Clients : Has(c) = {} /\ pending[c] = {}
    BY DEF Init, Has
  <2> QED
    BY <2>1 DEF Init, BothInv, TimeInv, PendInv, LiveInv, AnsweredInv, NetInv, LandedInv,
         ToldInv, OutcomesAgree
<1>2. TypeOK /\ OnePlace /\ IInv /\ [Next]_vars => IInv'
  <2> SUFFICES ASSUME TypeOK, OnePlace, IInv, [Next]_vars PROVE IInv'
    OBVIOUS
  <2>1. Kind
    BY StepKinds
  <2>2. AllOnline' /\ OriginInv'
    BY <2>1, OnlineStays, OriginStep
  <2>3. BothInv'
    BY <2>1, TickBoth, ShiftBoth, GiveBoth, HandleBoth, SweepBoth, RefusalBoth, LandingBoth
       DEF Kind
  <2> QED
    BY <2>2, <2>3
<1>3. IInv => OutcomesAgree
  BY DEF BothInv
<1> QED
  BY <1>1, <1>2, <1>3, TypeCorrect, OnePlaceCorrect, PTL DEF Spec

=============================================================================
