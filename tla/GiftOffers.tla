----------------------------- MODULE GiftOffers -----------------------------
(***************************************************************************)
(* Gifts offered peer to peer: the giver's pending offers, the             *)
(* recipient's one dialog and its busy gate, the offer set aside to make   *)
(* room, the world fetched after Accept, the answers, and the two clocks   *)
(* that end an offer on its two sides.                                     *)
(*                                                                         *)
(* A client is one running program; whoever is signed in on it is an       *)
(* account.  Signing in opens a fresh relay connection, so the address of  *)
(* a client is <<client, connection>> (the source's PeerId), and the relay *)
(* vouches for the account behind an address.  A gift is an address and    *)
(* the id its giver's counter gave it: that pair is unique, the id alone   *)
(* is not.                                                                 *)
(*                                                                         *)
(* Every stamp in this protocol is wall-clock time (real_secs_since), so   *)
(* one clock, now, stands for all of them.                                 *)
(***************************************************************************)
EXTENDS Naturals, FiniteSets

CONSTANTS
    Clients, Accounts,
    Nobody,          \* no account signed in
    NoOffer,         \* no dialog, nothing held
    SignsInAs,       \* SignsInAs[c]: the accounts that may sign in on client c
    GivesTo,         \* <<c, a>>: the person at client c may give to account a
    Mutes,           \* <<c, a>>: the person at client c may mute account a
    LogsOut,         \* the clients whose person may log out
    Items,           \* the kinds of gift offered, a subset of AllItems
    DialogTTL,       \* OFFER_DIALOG_TIMEOUT_SECS
    PendingTTL,      \* PENDING_OFFER_TIMEOUT_SECS
    AnswerMargin,    \* GIFT_WORLD_ANSWER_MARGIN_SECS
    MaxDelay,        \* how long a message may travel while nobody sleeps
    Sleepy,          \* TRUE: machines may sleep through a deadline
    Lossy,           \* TRUE: a message may be lost
    MaxNow, MaxOffers, MaxConn   \* bounds: clock, offers and sign-ins a client

AllItems == {"thing", "world", "unreadable"}

ASSUME GiftAssumption ==
    /\ Nobody \notin Accounts
    /\ SignsInAs \in [Clients -> SUBSET Accounts]
    /\ GivesTo \subseteq Clients \X Accounts
    /\ Mutes \subseteq Clients \X Accounts
    /\ LogsOut \subseteq Clients
    /\ Items \subseteq AllItems
    /\ DialogTTL \in Nat /\ PendingTTL \in Nat /\ AnswerMargin \in Nat
    /\ AnswerMargin <= PendingTTL
    /\ MaxDelay \in Nat /\ MaxNow \in Nat /\ MaxOffers \in Nat /\ MaxConn \in Nat
    /\ Sleepy \in BOOLEAN /\ Lossy \in BOOLEAN

Peer  == Clients \X Nat
Gift  == [peer : Peer, id : Nat]
Offer == [gift : Gift, did : Accounts, item : AllItems, at : Nat]

ASSUME NoOfferAssumption == NoOffer \notin Offer

Reasons == {"Declined", "Busy", "Unavailable", "Unanswered", "NotFetched"}

OfferMsg  == [kind : {"offer"}, dst : Peer, gift : Gift, did : Accounts,
              target : Accounts, item : AllItems, at : Nat]
AnswerMsg == [kind : {"answer"}, dst : Peer, did : Accounts, id : Nat,
              target : Accounts, accepted : BOOLEAN, reason : Reasons,
              by : Clients, about : Gift, at : Nat]
              \* by and about name the client and the gift for the properties

VARIABLES
    now,
    session,    \* session[c]: who is signed in on client c and in a world
    conn,       \* conn[c]: its relay connection
    pending,    \* PendingOutgoingOffers::by_id
    nextId,     \* PendingOutgoingOffers::next_id
    dialog,     \* IncomingOfferDialog
    held,       \* HeldOffer
    fetching,   \* the GiftWorldTask entities
    flipped,    \* peers whose mute flag moved since the last frame (Changed<RemotePeer>)
    muted,      \* muted[a]: MutedDids of account a
    full,       \* full[a]: whether account a's inventory is at MAX_INVENTORY_ITEMS
    net,        \* messages under way
    landed,     \* history: gifts put in an inventory, and whose
    answered,   \* history: <<c, gift>>: client c has answered gift
    told        \* history: outcomes written for the giver (OfferAnswered)

giver     == <<pending, nextId, told>>
recipient == <<dialog, held, fetching, flipped>>
stash     == <<full, landed>>
online    == <<session, conn>>
vars == <<now, session, conn, pending, nextId, dialog, held, fetching,
          flipped, muted, full, net, landed, answered, told>>

-----------------------------------------------------------------------------
(* Addresses and messages.                                                 *)

Online(c)  == session[c] # Nobody
PeerOf(c)  == <<c, conn[c]>>
Arrives(m) == Online(m.dst[1]) /\ PeerOf(m.dst[1]) = m.dst

\* Who a broadcast of client c reaches: bevy_symbios_multiuser sends it to
\* every connected peer.
Others(c) == {PeerOf(d) : d \in {e \in Clients \ {c} : Online(e)}}

\* OverlandsMessage::item_offer_response, as client c sends it to addresses to.
Response(c, offer, accepted, reason, to) ==
    {[kind |-> "answer", dst |-> p, did |-> session[c], id |-> offer.gift.id,
      target |-> offer.did, accepted |-> accepted, reason |-> reason,
      by |-> c, about |-> offer.gift, at |-> now] : p \in to}

\* A directed answer goes to the connection the offer came from.
Tell(c, offer, reason, taken) ==
    /\ net' = (net \ taken) \cup
              Response(c, offer, FALSE, reason, {offer.gift.peer})
    /\ answered' = answered \cup {<<c, offer.gift>>}

\* An answer given by the person, or by the world landing, is broadcast.
Announce(c, offer, accepted, reason) ==
    /\ net' = net \cup Response(c, offer, accepted, reason, Others(c))
    /\ answered' = answered \cup {<<c, offer.gift>>}

\* Mutant: an offer set aside no longer counts as busy.
DialogOpenForgetsHeld(c) == dialog[c] # NoOffer

\* The busy gate: a dialog on screen, or an offer owed the screen.
DialogOpen(c) == dialog[c] # NoOffer \/ held[c] # NoOffer

DialogDue(offer) == now - offer.at >= DialogTTL

\* Mutant: a given world may answer right up to its giver's deadline.
AnswerDueNoMargin(offer) == now - offer.at >= PendingTTL
AnswerDue(offer) == now - offer.at >= PendingTTL - AnswerMargin

\* Mutant: the sweep keeps the offers whose recipient has left.
PendingDueWhilePresent(p) ==
    /\ now - p.at >= PendingTTL
    /\ \E d \in Clients : session[d] = p.target
PendingDue(p)    == now - p.at >= PendingTTL

-----------------------------------------------------------------------------
(* The giver.                                                              *)

GiveOffer(c, a, item) ==
    /\ Online(c) /\ <<c, a>> \in GivesTo
    /\ \E d \in Clients \ {c} : session[d] = a
    /\ a \notin muted[session[c]]
    /\ nextId[c] < MaxOffers /\ now + PendingTTL <= MaxNow
    /\ LET gift == [peer |-> PeerOf(c), id |-> nextId[c]] IN
       /\ net' = net \cup {[kind |-> "offer", dst |-> p, gift |-> gift,
                            did |-> session[c], target |-> a, item |-> item,
                            at |-> now] : p \in Others(c)}
       /\ pending' = [pending EXCEPT ![c] = @ \cup
                        {[id |-> gift.id, target |-> a, at |-> now]}]
       /\ nextId' = [nextId EXCEPT ![c] = @ + 1]
    /\ UNCHANGED <<now, session, conn, told, dialog, held, fetching, flipped,
                   muted, full, landed, answered>>

\* Mutant: an answer meant for another giver is taken too.
MatchesAnyGiver(c, m, p) ==
    /\ p.id = m.id
    /\ p.target = m.did

\* Mutant: whoever answers settles the offer, the addressee or not.
MatchesAnyResponder(c, m, p) ==
    /\ session[c] = m.target
    /\ p.id = m.id

\* The gates of an answer: it names the account signed in here, and it comes
\* from the account the pending offer of that id was sent to.
Matches(c, m, p) ==
    /\ session[c] = m.target
    /\ p.id = m.id
    /\ p.target = m.did

Outcome(m) == IF m.accepted THEN "accepted" ELSE m.reason

HandleItemOfferResponse(m) ==
    LET c == m.dst[1] IN
    /\ m.kind = "answer" /\ Arrives(m)
    /\ \E p \in pending[c] :
         /\ Matches(c, m, p)
         /\ pending' = [pending EXCEPT ![c] = @ \ {p}]
         /\ told' = told \cup
              {[gift |-> [peer |-> PeerOf(c), id |-> p.id], target |-> p.target,
                outcome |-> Outcome(m), about |-> m.about]}
    /\ net' = net \ {m}
    /\ UNCHANGED <<now, online, nextId, recipient, muted, stash, answered>>

IgnoreItemOfferResponse(m) ==
    LET c == m.dst[1] IN
    /\ m.kind = "answer" /\ Arrives(m)
    /\ ~ \E p \in pending[c] : Matches(c, m, p)
    /\ net' = net \ {m}
    /\ UNCHANGED <<now, online, giver, recipient, muted, stash, answered>>

\* sweep_stale_pending_offers: every entry past its time, in one pass.
SweepStalePendingOffers(c) ==
    LET stale == {p \in pending[c] : PendingDue(p)} IN
    /\ Online(c) /\ stale # {}
    /\ pending' = [pending EXCEPT ![c] = @ \ stale]
    /\ told' = told \cup
         {[gift |-> [peer |-> PeerOf(c), id |-> p.id], target |-> p.target,
           outcome |-> "NoAnswer",
           about |-> [peer |-> PeerOf(c), id |-> p.id]] : p \in stale}
    /\ UNCHANGED <<now, online, nextId, recipient, muted, stash, net, answered>>

-----------------------------------------------------------------------------
(* An offer arrives (item_offer::handle), gate by gate.                    *)

Incoming(m) == [gift |-> m.gift, did |-> m.did, item |-> m.item, at |-> now]

ForMe(m) ==
    /\ m.kind = "offer" /\ Arrives(m)
    /\ session[m.dst[1]] = m.target

Heard(m) == ForMe(m) /\ m.did \notin muted[m.target]

DropOfferForAnother(m) ==
    /\ m.kind = "offer" /\ Arrives(m) /\ ~ForMe(m)
    /\ net' = net \ {m}
    /\ UNCHANGED <<now, online, giver, recipient, muted, stash, answered>>

DeclineFromMuted(m) ==
    /\ ForMe(m) /\ ~Heard(m)
    /\ Tell(m.dst[1], Incoming(m), "Declined", {m})
    /\ UNCHANGED <<now, online, giver, recipient, muted, stash>>

DeclineBusy(m) ==
    /\ Heard(m) /\ DialogOpen(m.dst[1])
    /\ Tell(m.dst[1], Incoming(m), "Busy", {m})
    /\ UNCHANGED <<now, online, giver, recipient, muted, stash>>

RefuseUnreadable(m) ==
    /\ Heard(m) /\ ~DialogOpen(m.dst[1]) /\ m.item = "unreadable"
    /\ Tell(m.dst[1], Incoming(m), "Unavailable", {m})
    /\ UNCHANGED <<now, online, giver, recipient, muted, stash>>

RaiseDialog(m) ==
    /\ Heard(m) /\ ~DialogOpen(m.dst[1]) /\ m.item # "unreadable"
    /\ dialog' = [dialog EXCEPT ![m.dst[1]] = Incoming(m)]
    /\ net' = net \ {m}
    /\ UNCHANGED <<now, online, giver, held, fetching, flipped, muted, stash,
                   answered>>

-----------------------------------------------------------------------------
(* The recipient answers (OfferAnswering::answer).                         *)

\* Mutant: the answer leaves the dialog on screen.
CloseDialogLate(c) == dialog' = dialog

CloseDialog(c) == dialog' = [dialog EXCEPT ![c] = NoOffer]

\* accept_gift: the gift joins the live inventory of whoever is signed in.
Land(c, offer) ==
    /\ landed' = landed \cup {[gift |-> offer.gift, by |-> session[c]]}
    /\ \E f \in BOOLEAN : full' = [full EXCEPT ![session[c]] = f]

CanAnswer(c) == Online(c) /\ dialog[c] # NoOffer

AcceptThing(c) ==
    /\ CanAnswer(c) /\ dialog[c].item = "thing"
    /\ ~full[session[c]]
    /\ Land(c, dialog[c])
    /\ Announce(c, dialog[c], TRUE, "Declined")
    /\ CloseDialog(c)
    /\ UNCHANGED <<now, online, giver, held, fetching, flipped, muted>>

\* A world is answered when its parts land (fetch_given_world).
AcceptWorld(c) ==
    /\ CanAnswer(c) /\ dialog[c].item = "world"
    /\ ~full[session[c]]
    /\ fetching' = [fetching EXCEPT ![c] = @ \cup {dialog[c]}]
    /\ CloseDialog(c)
    /\ UNCHANGED <<now, online, giver, held, flipped, muted, stash, net, answered>>

Decline(c) ==
    /\ CanAnswer(c)
    /\ Announce(c, dialog[c], FALSE, "Declined")
    /\ CloseDialog(c)
    /\ UNCHANGED <<now, online, giver, held, fetching, flipped, muted, stash>>

\* Mutant: the flags record accounts where the dialog compares addresses.
FlipAccounts(c, a) == {session[d] : d \in {e \in Clients \ {c} : session[e] = a}}

\* set_peer_mute, by whatever control moves it.  The flag on the live peer is
\* what dismisses a dialog in the next frame.
Flip(c, a) == {PeerOf(d) : d \in {e \in Clients \ {c} : session[e] = a}}

MuteAndDecline(c) ==
    /\ CanAnswer(c) /\ <<c, dialog[c].did>> \in Mutes
    /\ muted' = [muted EXCEPT ![session[c]] = @ \cup {dialog[c].did}]
    /\ flipped' = [flipped EXCEPT ![c] = @ \cup Flip(c, dialog[c].did)]
    /\ Announce(c, dialog[c], FALSE, "Declined")
    /\ CloseDialog(c)
    /\ UNCHANGED <<now, online, giver, held, fetching, stash>>

\* "Make room for it": offered only when the inventory is full.
Hold(c) ==
    /\ CanAnswer(c) /\ full[session[c]]
    /\ held' = [held EXCEPT ![c] = dialog[c]]
    /\ CloseDialog(c)
    /\ UNCHANGED <<now, online, giver, fetching, flipped, muted, stash, net,
                   answered>>

SetPeerMute(c, a) ==
    /\ Online(c) /\ <<c, a>> \in Mutes
    /\ Flip(c, a) # {} /\ a \notin muted[session[c]]
    /\ muted' = [muted EXCEPT ![session[c]] = @ \cup {a}]
    /\ flipped' = [flipped EXCEPT ![c] = @ \cup Flip(c, a)]
    /\ UNCHANGED <<now, online, giver, dialog, held, fetching, stash, net,
                   answered>>

\* The owner fills or frees the inventory by hand; it matters only for an
\* account somebody gives to.
EditStash(a) ==
    /\ \E c \in Clients : session[c] = a
    /\ \E c \in Clients : <<c, a>> \in GivesTo
    /\ full' = [full EXCEPT ![a] = ~@]
    /\ UNCHANGED <<now, online, giver, recipient, muted, landed, net, answered>>

-----------------------------------------------------------------------------
(* The frame's own sweeps.                                                 *)

EvictStaleOfferDialog(c) ==
    /\ CanAnswer(c) /\ DialogDue(dialog[c])
    /\ Tell(c, dialog[c], "Unanswered", {})
    /\ CloseDialog(c)
    /\ UNCHANGED <<now, online, giver, held, fetching, flipped, muted, stash>>

\* Mutant: the offer comes back on screen and stays set aside.
LetgoKeeps(c) == held' = held

Letgo(c) == held' = [held EXCEPT ![c] = NoOffer]

ExpireHeldOffer(c) ==
    /\ Online(c) /\ held[c] # NoOffer /\ DialogDue(held[c])
    /\ Tell(c, held[c], "Unavailable", {})
    /\ Letgo(c)
    /\ UNCHANGED <<now, online, giver, dialog, fetching, flipped, muted, stash>>

RepresentHeldOffer(c) ==
    /\ Online(c) /\ held[c] # NoOffer /\ ~DialogDue(held[c])
    /\ dialog[c] = NoOffer
    /\ ~full[session[c]]
    /\ dialog' = [dialog EXCEPT ![c] = held[c]]
    /\ Letgo(c)
    /\ UNCHANGED <<now, online, giver, fetching, flipped, muted, stash, net,
                   answered>>

\* dismiss_offer_dialog_from_muted_sender sees each flip for one frame.
Dismissed(c) ==
    /\ dialog[c] # NoOffer
    /\ dialog[c].gift.peer \in flipped[c]
    /\ dialog[c].did \in muted[session[c]]

DismissOfferDialog(c) ==
    /\ Online(c) /\ Dismissed(c)
    /\ Tell(c, dialog[c], "Declined", {})
    /\ CloseDialog(c)
    /\ flipped' = [flipped EXCEPT ![c] = {}]
    /\ UNCHANGED <<now, online, giver, held, fetching, muted, stash>>

ForgetFlips(c) ==
    /\ Online(c) /\ flipped[c] # {} /\ ~Dismissed(c)
    /\ flipped' = [flipped EXCEPT ![c] = {}]
    /\ UNCHANGED <<now, online, giver, dialog, held, fetching, muted, stash,
                   net, answered>>

\* poll_gift_world_tasks: the parts are there and there is room; they are
\* there and there is none; or the fetch failed, or ran out of time.
FetchEnds(c, offer) ==
    /\ Online(c) /\ offer \in fetching[c]
    /\ fetching' = [fetching EXCEPT ![c] = @ \ {offer}]
    /\ UNCHANGED <<now, online, giver, dialog, held, flipped, muted>>

GiftWorldLands(c, offer) ==
    /\ ~full[session[c]]
    /\ Land(c, offer)
    /\ Announce(c, offer, TRUE, "Declined")
    /\ FetchEnds(c, offer)

GiftWorldFindsNoRoom(c, offer) ==
    /\ full[session[c]]
    /\ Announce(c, offer, FALSE, "Unavailable")
    /\ FetchEnds(c, offer)
    /\ UNCHANGED stash

GiftWorldNotFetched(c, offer) ==
    /\ Announce(c, offer, FALSE, "NotFetched")
    /\ FetchEnds(c, offer)
    /\ UNCHANGED stash

-----------------------------------------------------------------------------
(* Sign-ins, the network, the clock.                                       *)

\* cleanup_on_logout: the pending offers, the held offer and the fetches of
\* the session go with it.  The dialog is in none of its lists.
Logout(c) ==
    /\ Online(c) /\ c \in LogsOut
    /\ session' = [session EXCEPT ![c] = Nobody]
    /\ pending' = [pending EXCEPT ![c] = {}]
    /\ nextId'  = [nextId EXCEPT ![c] = 0]
    /\ held'     = [held EXCEPT ![c] = NoOffer]
    /\ fetching' = [fetching EXCEPT ![c] = {}]
    /\ flipped'  = [flipped EXCEPT ![c] = {}]
    /\ UNCHANGED <<now, conn, dialog, muted, stash, net, answered, told>>

Login(c, a) ==
    /\ ~Online(c) /\ a \in SignsInAs[c] /\ conn[c] < MaxConn
    /\ session' = [session EXCEPT ![c] = a]
    /\ conn' = [conn EXCEPT ![c] = @ + 1]
    /\ UNCHANGED <<now, giver, recipient, muted, stash, net, answered>>

\* A message to a connection that is gone goes nowhere; on a lossy network,
\* or from an address the relay has not vouched for yet, any message may.
Lose(m) ==
    /\ Lossy \/ ~Arrives(m)
    /\ net' = net \ {m}
    /\ UNCHANGED <<now, online, giver, recipient, muted, stash, answered>>

\* What a frame, or the network, still owes at this instant.
Overdue ==
    \/ \E m \in net : now - m.at >= MaxDelay
    \/ \E c \in Clients :
         /\ Online(c)
         /\ \/ dialog[c] # NoOffer /\ DialogDue(dialog[c])
            \/ held[c] # NoOffer /\ DialogDue(held[c])
            \/ \E f \in fetching[c] : AnswerDue(f)
            \/ \E p \in pending[c] : PendingDue(p)
            \/ flipped[c] # {}

Tick ==
    /\ now < MaxNow
    /\ Sleepy \/ ~Overdue
    /\ now' = now + 1
    /\ UNCHANGED <<online, giver, recipient, muted, stash, net, answered>>

-----------------------------------------------------------------------------
Init ==
    /\ now = 0
    /\ session \in {s \in [Clients -> Accounts] : \A c \in Clients : s[c] \in SignsInAs[c]}
    /\ conn = [c \in Clients |-> 0]
    /\ pending = [c \in Clients |-> {}]
    /\ nextId = [c \in Clients |-> 0]
    /\ dialog = [c \in Clients |-> NoOffer]
    /\ held = [c \in Clients |-> NoOffer]
    /\ fetching = [c \in Clients |-> {}]
    /\ flipped = [c \in Clients |-> {}]
    /\ muted = [a \in Accounts |-> {}]
    /\ full = [a \in Accounts |-> FALSE]
    /\ net = {} /\ landed = {} /\ answered = {} /\ told = {}

Deliver(m) ==
    \/ HandleItemOfferResponse(m) \/ IgnoreItemOfferResponse(m)
    \/ DropOfferForAnother(m) \/ DeclineFromMuted(m) \/ DeclineBusy(m)
    \/ RefuseUnreadable(m) \/ RaiseDialog(m)
    \/ Lose(m)

Frame(c) ==
    \/ SweepStalePendingOffers(c)
    \/ EvictStaleOfferDialog(c)
    \/ ExpireHeldOffer(c) \/ RepresentHeldOffer(c)
    \/ DismissOfferDialog(c) \/ ForgetFlips(c)

\* The fetch of a given world ends: its parts arrive, or it gives up.
Fetch(c) ==
    \E offer \in fetching[c] :
       \/ GiftWorldLands(c, offer)
       \/ GiftWorldFindsNoRoom(c, offer)
       \/ GiftWorldNotFetched(c, offer)

Person(c) ==
    \/ \E a \in Accounts, item \in Items : GiveOffer(c, a, item)
    \/ AcceptThing(c) \/ AcceptWorld(c)
    \/ Decline(c) \/ MuteAndDecline(c) \/ Hold(c)
    \/ \E a \in Accounts : SetPeerMute(c, a)
    \/ Logout(c)
    \/ \E a \in Accounts : Login(c, a)

Next ==
    \/ \E m \in net : Deliver(m)
    \/ \E c \in Clients : Frame(c) \/ Fetch(c) \/ Person(c)
    \/ \E a \in Accounts : EditStash(a)
    \/ Tick

Spec == Init /\ [][Next]_vars

\* The frame's systems run every frame, the reliable channel delivers, and a
\* fetch is polled until its deadline ends it; people owe nothing.
Fairness ==
    /\ WF_vars(Tick)
    /\ WF_vars(\E m \in net : Deliver(m))
    /\ \A c \in Clients :
         /\ WF_vars(SweepStalePendingOffers(c))
         /\ WF_vars(EvictStaleOfferDialog(c))
         /\ WF_vars(ExpireHeldOffer(c) \/ RepresentHeldOffer(c))
         /\ WF_vars(DismissOfferDialog(c) \/ ForgetFlips(c))
         /\ WF_vars(Fetch(c))

FairSpec == Spec /\ Fairness

-----------------------------------------------------------------------------
(* What must hold.                                                         *)

Outcomes == Reasons \cup {"accepted", "NoAnswer"}

TypeOK ==
    /\ now \in Nat
    /\ session \in [Clients -> Accounts \cup {Nobody}]
    /\ conn \in [Clients -> Nat]
    /\ pending \in [Clients -> SUBSET [id : Nat, target : Accounts, at : Nat]]
    /\ nextId \in [Clients -> Nat]
    /\ dialog \in [Clients -> Offer \cup {NoOffer}]
    /\ held \in [Clients -> Offer \cup {NoOffer}]
    /\ fetching \in [Clients -> SUBSET Offer]
    /\ flipped \in [Clients -> SUBSET Peer]
    /\ muted \in [Accounts -> SUBSET Accounts]
    /\ full \in [Accounts -> BOOLEAN]
    /\ net \subseteq OfferMsg \cup AnswerMsg
    /\ landed \subseteq [gift : Gift, by : Accounts]
    /\ answered \subseteq Clients \X Gift
    /\ told \subseteq [gift : Gift, target : Accounts, outcome : Outcomes, about : Gift]

\* An offer set aside and an offer on screen never coexist: the one that
\* comes back when a slot frees would replace, and so lose, the other
\* (inbound/mod.rs's dialog_open counts a held offer as busy).
OneOfferAtATime == \A c \in Clients : dialog[c] = NoOffer \/ held[c] = NoOffer

\* Where a client has a gift: on its way in, on screen, set aside, its world
\* being fetched, or answered.
Coming   == {[place |-> "coming", at |-> m.dst[1], gift |-> m.gift, what |-> m] :
               m \in {n \in net : n.kind = "offer"}}
OnScreen == {[place |-> "screen", at |-> c, gift |-> dialog[c].gift, what |-> dialog[c]] :
               c \in {d \in Clients : dialog[d] # NoOffer}}
SetAside == {[place |-> "aside", at |-> c, gift |-> held[c].gift, what |-> held[c]] :
               c \in {d \in Clients : held[d] # NoOffer}}
Fetched  == UNION {{[place |-> "fetched", at |-> c, gift |-> o.gift, what |-> o] :
               o \in fetching[c]} : c \in Clients}
Answered == {[place |-> "answered", at |-> a[1], gift |-> a[2], what |-> NoOffer] :
               a \in answered}
Places == Coming \cup OnScreen \cup SetAside \cup Fetched \cup Answered

\* A gift whose id its giver's counter has passed, on this connection or before.
Issued(gift) ==
    LET c == gift.peer[1] IN
    \/ gift.peer[2] < conn[c]
    \/ gift.peer[2] = conn[c] /\ (Online(c) => gift.id < nextId[c])

\* A client has a gift in one place at a time - sign-ins reset the counters
\* and leave the dialog behind, and still no gift is met twice - so whichever
\* of its seven answering paths speaks first is the only one that can.
OnePlace ==
    /\ \A x, y \in Places : x.at = y.at /\ x.gift = y.gift => x = y
    /\ \A x \in Places : Issued(x.gift)

\* A client answers a gift at most once, whichever of its seven answering
\* paths gets there first: the click, the timeouts, the mute, the busy gate,
\* the world that lands.  A second answer could contradict the first.
AnsweredOnce ==
    [][\A m \in net' \ net :
         m.kind = "answer" => <<m.by, m.about>> \notin answered]_vars

\* The answer that settles a pending offer is an answer to that offer, not
\* to another giver's offer of the same id nor to an earlier session's
\* (handle_response matches the id and the responder, never the offer).
AnswerIsForThisOffer == \A t \in told : t.about = t.gift

\* A giver is told "accepted" only of a gift the addressed account has put
\* in its inventory - not of one that timed out, was lost, or was taken by
\* whoever signed in on that machine next.
AcceptedMeansLanded ==
    \A t \in told :
      t.outcome = "accepted" => [gift |-> t.about, by |-> t.target] \in landed

\* The two ends never settle on opposite outcomes for one offer (the reason
\* #1216 puts both deadlines on the wall clock and a given world's answer
\* AnswerMargin short of the giver's): a gift that landed was not reported
\* to its giver as declined, or as unanswered.
OutcomesAgree ==
    \A t \in told, l \in landed :
      t.gift = l.gift => t.outcome = "accepted"

\* The busy gate opens again, whatever the person does or fails to do.
GateReopens == \A c \in Clients : DialogOpen(c) ~> ~DialogOpen(c)

\* Every offer sent comes to an outcome its giver is told.
OffersResolve ==
    \A c \in Clients : (pending[c] # {}) ~> (pending[c] = {})

=============================================================================
