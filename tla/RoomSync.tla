------------------------------ MODULE RoomSync ------------------------------
(***************************************************************************)
(* How a room's guests follow its owner: the live updates the owner        *)
(* broadcasts, the one pushed to a newcomer, the ceiling past which both   *)
(* are refused, the save notices sent instead, and the guest's fetch of    *)
(* the saved room.                                                         *)
(*                                                                         *)
(* A room record is its version: every write of the owner's live record is *)
(* a new one, whatever its content.  The owner's systems run in frames;    *)
(* what they queue in a frame is handed to the wire at its end, broadcasts *)
(* first and directed messages after them.  A guest's link to the owner is *)
(* one reliable, ordered channel, lost whole when the link drops.  Waits   *)
(* (the debounce, the fetch window, the backoff) are arbitrary delays.     *)
(***************************************************************************)
EXTENDS Naturals, Sequences

CONSTANTS
    Guests,
    NoSave,          \* no save in flight
    NoNotice,        \* no notice waiting
    NoFetch,         \* no fetch running
    MaxAttempts,     \* ROOM_REFRESH_MAX_ATTEMPTS
    MidFrameEdits,   \* TRUE: an edit may land between the network systems of
                     \* one frame
    CrossMidSave,    \* TRUE: the world may cross the ceiling during a save
    FastSave,        \* TRUE: a save may be written inside the broadcast debounce
    MapLags,         \* TRUE: the relay's session map may trail a connection
    MaxVersion, MaxDrops, MaxSweeps   \* bounds

ASSUME RoomAssumption ==
    /\ MaxAttempts \in Nat \ {0}
    /\ MidFrameEdits \in BOOLEAN /\ CrossMidSave \in BOOLEAN
    /\ FastSave \in BOOLEAN /\ MapLags \in BOOLEAN
    /\ MaxVersion \in Nat \ {0} /\ MaxDrops \in Nat /\ MaxSweeps \in Nat

Version == 1..MaxVersion
Save    == [record : Version, written : BOOLEAN]
Fetch   == [tries : Nat, read : 0..MaxVersion, overtaken : BOOLEAN]
Message == [kind : {"state"}, record : Version] \cup [kind : {"notice"}]

ASSUME RoomNoneAssumption ==
    /\ NoSave \notin Save /\ NoNotice \notin Nat /\ NoFetch \notin Fetch

VARIABLES
    live,      \* LiveRoomRecord on the owner's client
    over,      \* the versions past MAX_RELIABLE_PAYLOAD_BYTES
    stored,    \* StoredRoomRecord on the owner's client
    saving,    \* PublishRoomTask
    pds,       \* the room record on the owner's PDS
    tried,     \* the version the broadcaster last took up: dirty is tried # live
    paused,    \* OversizeNotices holds LIVE_WORLD
    ran,       \* the owner's systems that have run in this frame
    outAll,    \* broadcasts queued in this frame
    outTo,     \* outTo[g]: directed messages queued in this frame
    joined,    \* guests whose Connected event waits at the owner
    link,      \* link[g]: "away" from the room, "down", or "up"
    wire,      \* wire[g]: what the owner's channel to g carries
    known,     \* known[g]: what g's entity for the owner says of it
    copy,      \* copy[g]: LiveRoomRecord on g's client
    notice,    \* notice[g]: RoomRefresh::pending, the failed tries behind it
    fetch,     \* fetch[g]: RoomRefreshTask
    unheard,   \* history: guests that dropped the owner's last word for want
               \* of a known sender
    gaveUp,    \* history: guests whose last fetch was given up
    drops, sweeps    \* history: for the bounds

owner == <<live, over, stored, saving, pds>>
frame == <<tried, paused, ran, outAll, outTo, joined>>
guest == <<copy, notice, fetch, unheard, gaveUp>>
count == <<drops, sweeps>>
vars  == <<owner, frame, link, wire, known, guest, count>>

-----------------------------------------------------------------------------
(* The owner.                                                              *)

State(v) == [kind |-> "state", record |-> v]
Notice   == [kind |-> "notice"]

Up == {g \in Guests : link[g] = "up"}

\* Every write of the owner's live record: the editor, the gizmo, the
\* catalogue, undo, a load from the PDS.
Edit(big) ==
    /\ live < MaxVersion
    /\ MidFrameEdits \/ ran = {}
    /\ CrossMidSave \/ saving = NoSave \/ (big <=> live \in over)
    /\ live' = live + 1
    /\ over' = IF big THEN over \cup {live'} ELSE over
    /\ UNCHANGED <<stored, saving, pds, frame, link, wire, known, guest, count>>

\* Mutant: the broadcaster's outcome never reaches the latch.
BroadcastKeepsLatch ==
    /\ tried # live /\ "broadcast" \notin ran
    /\ tried' = live
    /\ outAll' = IF live \in over THEN outAll ELSE Append(outAll, State(live))
    /\ ran' = ran \cup {"broadcast"}
    /\ UNCHANGED <<owner, paused, outTo, joined, link, wire, known, guest, count>>

\* broadcast_room_state, at the end of a debounce.
Broadcast ==
    /\ tried # live /\ "broadcast" \notin ran
    /\ tried' = live
    /\ paused' = (live \in over)
    /\ outAll' = IF paused' THEN outAll ELSE Append(outAll, State(live))
    /\ ran' = ran \cup {"broadcast"}
    /\ UNCHANGED <<owner, outTo, joined, link, wire, known, guest, count>>

\* handle_peer_connections on the owner's client: the live room, or a notice
\* where it is refused, to each newcomer.
PushToNewcomers ==
    /\ joined # {} /\ "peers" \notin ran
    /\ joined' = {}
    /\ paused' = (live \in over)
    /\ outTo' = [g \in Guests |->
                    IF g \notin joined THEN outTo[g]
                    ELSE Append(outTo[g], IF paused' THEN Notice ELSE State(live))]
    /\ ran' = ran \cup {"peers"}
    /\ UNCHANGED <<owner, tried, outAll, link, wire, known, guest, count>>

StartSave ==
    /\ saving = NoSave /\ stored # live
    /\ saving' = [record |-> live, written |-> FALSE]
    /\ UNCHANGED <<live, over, stored, pds, frame, link, wire, known, guest, count>>

\* The PDS commits the write.
CommitSave ==
    /\ saving # NoSave /\ ~saving.written
    /\ FastSave \/ tried >= saving.record
    /\ saving' = [saving EXCEPT !.written = TRUE]
    /\ pds' = saving.record
    /\ UNCHANGED <<live, over, stored, frame, link, wire, known, guest, count>>

\* Mutant: every landed save is announced.
NoticeDueAlways == TRUE

\* announce_save: only while the live updates are refused.
NoticeDue == paused

\* Mutant: stored is pinned to the live record of the landing.
SaveLandsPinsLive ==
    /\ saving # NoSave /\ saving.written /\ "saves" \notin ran
    /\ stored' = live
    /\ saving' = NoSave
    /\ outAll' = IF NoticeDue THEN Append(outAll, Notice) ELSE outAll
    /\ ran' = ran \cup {"saves"}
    /\ UNCHANGED <<live, over, pds, tried, paused, outTo, joined, link, wire,
                   known, guest, count>>

\* poll_publish_tasks on Ok: stored is pinned to what the task published.
SaveLands ==
    /\ saving # NoSave /\ saving.written /\ "saves" \notin ran
    /\ stored' = saving.record
    /\ saving' = NoSave
    /\ outAll' = IF NoticeDue THEN Append(outAll, Notice) ELSE outAll
    /\ ran' = ran \cup {"saves"}
    /\ UNCHANGED <<live, over, pds, tried, paused, outTo, joined, link, wire,
                   known, guest, count>>

\* poll_publish_tasks on Err, a timed-out write that the PDS has committed
\* included.
SaveFails ==
    /\ saving # NoSave /\ "saves" \notin ran
    /\ saving' = NoSave
    /\ ran' = ran \cup {"saves"}
    /\ UNCHANGED <<live, over, stored, pds, tried, paused, outAll, outTo, joined,
                   link, wire, known, guest, count>>

\* The frame ends, its connection events all handled: transmit_messages, then
\* transmit_directed_messages.
EndFrame ==
    /\ ran # {} /\ joined = {}
    /\ wire' = [g \in Guests |-> IF g \in Up THEN wire[g] \o outAll \o outTo[g]
                                 ELSE wire[g]]
    /\ ran' = {} /\ outAll' = <<>> /\ outTo' = [g \in Guests |-> <<>>]
    /\ UNCHANGED <<owner, tried, paused, joined, link, known, guest, count>>

-----------------------------------------------------------------------------
(* The link between the owner and one guest.                               *)

Overtaken(f) == IF f = NoFetch THEN f ELSE [f EXCEPT !.overtaken = TRUE]

\* The guest's client enters the room: it reads the saved one while it loads,
\* and note_room_swaps overtakes a fetch that an earlier visit left running.
Enter(g) ==
    /\ link[g] = "away"
    /\ link' = [link EXCEPT ![g] = "down"]
    /\ copy' = [copy EXCEPT ![g] = pds]
    /\ notice' = [notice EXCEPT ![g] = NoNotice]
    /\ fetch' = [fetch EXCEPT ![g] = Overtaken(@)]
    /\ unheard' = unheard \ {g} /\ gaveUp' = gaveUp \ {g}
    /\ UNCHANGED <<owner, frame, wire, known, count>>

\* The two sides connect, between two frames of the owner.  The guest spawns
\* the owner's entity, which learns its DID from the relay's session map.
Connect(g) ==
    /\ link[g] = "down" /\ ran = {}
    /\ link' = [link EXCEPT ![g] = "up"]
    /\ joined' = joined \cup {g}
    /\ \E k \in {"owner"} \cup (IF MapLags THEN {"peer"} ELSE {}) :
          known' = [known EXCEPT ![g] = k]
    /\ UNCHANGED <<owner, tried, paused, ran, outAll, outTo, wire, guest, count>>

\* adopt_peer_sessions, once the map has caught up.
Adopt(g) ==
    /\ known[g] = "peer"
    /\ known' = [known EXCEPT ![g] = "owner"]
    /\ UNCHANGED <<owner, frame, link, wire, guest, count>>

Cut(g, to) ==
    /\ drops < MaxDrops /\ drops' = drops + 1
    /\ link' = [link EXCEPT ![g] = to]
    /\ wire' = [wire EXCEPT ![g] = <<>>]
    /\ outTo' = [outTo EXCEPT ![g] = <<>>]
    /\ joined' = joined \ {g}
    /\ known' = [known EXCEPT ![g] = "none"]
    /\ UNCHANGED <<owner, tried, paused, ran, outAll, guest, sweeps>>

\* The link drops under a guest that stays where it is, or the guest leaves.
Drop(g)  == link[g] = "up" /\ Cut(g, "down")
Leave(g) == link[g] # "away" /\ Cut(g, "away")

\* sweep_quiet_peers on the guest's client: the owner's machine sleeps, and
\* its samples have stopped for so long that all it sent has arrived.
Sweep(g) ==
    /\ sweeps < MaxSweeps /\ sweeps' = sweeps + 1
    /\ known[g] \in {"peer", "owner"}
    /\ g \notin joined /\ ran = {} /\ wire[g] = <<>>
    /\ known' = [known EXCEPT ![g] = "swept"]
    /\ UNCHANGED <<owner, frame, link, wire, guest, drops>>

-----------------------------------------------------------------------------
(* The guest.                                                              *)

Of(batch, kind) == {i \in DOMAIN batch : batch[i].kind = kind}

\* Coalescing: of the states in a drain only the last is applied.
LastState(batch) == {i \in Of(batch, "state") : \A j \in Of(batch, "state") : j <= i}

\* RoomRefresh::pending after a drain: note_save where a notice came after the
\* last state, overtake where a state came last.
NoticeAfter(batch, old) ==
    IF \E i \in Of(batch, "notice") : \A j \in Of(batch, "state") : j < i THEN 0
    ELSE IF Of(batch, "state") # {} THEN NoNotice ELSE old

\* RoomRefresh::generation after a drain: a state overtakes a running fetch.
FetchAfter(batch, old) ==
    IF Of(batch, "state") # {} THEN Overtaken(old) ELSE old

\* handle_incoming_messages, one drain of the first k messages: the last of
\* each kind stands for the others, and counts only if the sender's entity, as
\* it was when the drain began, is known for the owner's.
Drain(g, k) ==
    /\ link[g] = "up"
    /\ wire' = [wire EXCEPT ![g] = SubSeq(@, k + 1, Len(@))]
    /\ LET batch == SubSeq(wire[g], 1, k)
           last  == LastState(batch) IN
       IF known[g] = "owner"
       THEN /\ copy'   = [copy EXCEPT ![g] = IF last = {} THEN @
                                             ELSE batch[CHOOSE i \in last : TRUE].record]
            /\ notice' = [notice EXCEPT ![g] = NoticeAfter(batch, @)]
            /\ fetch'  = [fetch EXCEPT ![g] = FetchAfter(batch, @)]
            /\ unheard' = unheard \ {g} /\ gaveUp' = gaveUp \ {g}
       ELSE /\ unheard' = IF k = 0 THEN unheard ELSE unheard \cup {g}
            /\ UNCHANGED <<copy, notice, fetch, gaveUp>>
    /\ UNCHANGED <<owner, frame, link, count>>

\* A drain takes what has arrived, which may be part of what was sent.
Hear(g) ==
    /\ \E k \in 1..Len(wire[g]) : Drain(g, k)
    /\ UNCHANGED known

\* The drain holds a sign of life (a Transform, Identity or Hello) of the owner
\* swept before: revive_swept_peer spawns the entity anew, which is there once
\* the drain is over, and adopt_peer_sessions names it before the next one.
Revive(g) ==
    /\ known[g] = "swept"
    /\ \E k \in 0..Len(wire[g]) : Drain(g, k)
    /\ known' = [known EXCEPT ![g] = "owner"]

\* start_room_refreshes, when the notice is due.
StartFetch(g) ==
    /\ link[g] # "away"
    /\ fetch[g] = NoFetch /\ notice[g] # NoNotice
    /\ fetch' = [fetch EXCEPT ![g] = [tries |-> notice[g], read |-> 0,
                                      overtaken |-> FALSE]]
    /\ notice' = [notice EXCEPT ![g] = NoNotice]
    /\ UNCHANGED <<owner, frame, link, wire, known, copy, unheard, gaveUp, count>>

\* The PDS answers the fetch with what it holds.
ReadSaved(g) ==
    /\ fetch[g] # NoFetch /\ fetch[g].read = 0
    /\ fetch' = [fetch EXCEPT ![g].read = pds]
    /\ UNCHANGED <<owner, frame, link, wire, known, copy, notice, unheard, gaveUp, count>>

\* poll_room_refreshes: overtaken, or for a room left since, it lands nowhere.
Lands(g) == ~fetch[g].overtaken /\ link[g] # "away"

FetchLands(g) ==
    /\ fetch[g] # NoFetch /\ fetch[g].read # 0
    /\ fetch' = [fetch EXCEPT ![g] = NoFetch]
    /\ copy' = [copy EXCEPT ![g] = IF Lands(g) THEN fetch[g].read ELSE @]
    /\ UNCHANGED <<owner, frame, link, wire, known, notice, unheard, gaveUp, count>>

\* Mutant: one attempt too many.
RetryOnceMore(g, left) ==
    IF notice[g] = NoNotice /\ left /\ fetch[g].tries < MaxAttempts
    THEN fetch[g].tries + 1 ELSE notice[g]

\* RoomRefresh::retry: a newer notice wins, and the attempts are bounded.
Retry(g, left) ==
    IF notice[g] = NoNotice /\ left /\ fetch[g].tries + 1 < MaxAttempts
    THEN fetch[g].tries + 1 ELSE notice[g]

\* The fetch fails: in a way that may pass (left: FetchError::left_unanswered)
\* or for good, a missing record included.
FetchFails(g, left) ==
    /\ fetch[g] # NoFetch /\ fetch[g].read = 0
    /\ fetch' = [fetch EXCEPT ![g] = NoFetch]
    /\ notice' = [notice EXCEPT ![g] = IF Lands(g) THEN Retry(g, left) ELSE @]
    /\ gaveUp' = IF Lands(g) /\ Retry(g, left) = NoNotice
                 THEN gaveUp \cup {g} ELSE gaveUp
    /\ UNCHANGED <<owner, frame, link, wire, known, copy, unheard, count>>

-----------------------------------------------------------------------------
(* The specification.                                                      *)

Init ==
    /\ live = 1 /\ stored = 1 /\ pds = 1
    /\ over \in {{}, {1}}
    /\ saving = NoSave
    /\ tried = 0 /\ paused = FALSE
    /\ ran = {} /\ outAll = <<>> /\ outTo = [g \in Guests |-> <<>>]
    /\ joined = {}
    /\ link = [g \in Guests |-> "away"]
    /\ wire = [g \in Guests |-> <<>>]
    /\ known = [g \in Guests |-> "none"]
    /\ copy = [g \in Guests |-> 1]
    /\ notice = [g \in Guests |-> NoNotice]
    /\ fetch = [g \in Guests |-> NoFetch]
    /\ unheard = {} /\ gaveUp = {}
    /\ drops = 0 /\ sweeps = 0

OwnerNext == Broadcast \/ PushToNewcomers \/ SaveLands \/ EndFrame

GuestNext(g) ==
    \/ Adopt(g) \/ Hear(g) \/ Revive(g)
    \/ StartFetch(g) \/ ReadSaved(g) \/ FetchLands(g)
    \/ \E left \in BOOLEAN : FetchFails(g, left)

Next ==
    \/ \E big \in BOOLEAN : Edit(big)
    \/ StartSave \/ CommitSave \/ SaveFails
    \/ OwnerNext
    \/ \E g \in Guests : Enter(g) \/ Connect(g) \/ Drop(g) \/ Leave(g) \/ Sweep(g)
    \/ \E g \in Guests : GuestNext(g)

Spec == Init /\ [][Next]_vars

\* The owner's systems run every frame, and so do a guest's; an HTTP request
\* of either ends, in an answer or at its deadline; the session map catches
\* up; a machine that sleeps wakes.  Nobody has to edit, save, enter, connect
\* or stay.
FairSpec ==
    /\ Spec
    /\ WF_vars(Broadcast) /\ WF_vars(PushToNewcomers) /\ WF_vars(EndFrame)
    /\ WF_vars(SaveLands \/ SaveFails)
    /\ \A g \in Guests :
          /\ WF_vars(Adopt(g)) /\ WF_vars(Hear(g)) /\ WF_vars(Revive(g))
          /\ WF_vars(StartFetch(g))
          /\ WF_vars(FetchLands(g) \/ \E left \in BOOLEAN : FetchFails(g, left))

-----------------------------------------------------------------------------
(* The properties.                                                         *)

OwnerTypeOK ==
    /\ live \in Version /\ over \subseteq Version
    /\ stored \in Version /\ pds \in Version /\ saving \in Save \cup {NoSave}

FrameTypeOK ==
    /\ tried \in 0..MaxVersion /\ paused \in BOOLEAN
    /\ ran \subseteq {"peers", "broadcast", "saves"}
    /\ outAll \in Seq(Message) /\ outTo \in [Guests -> Seq(Message)]
    /\ joined \subseteq Guests

LinkTypeOK ==
    /\ link \in [Guests -> {"away", "down", "up"}]
    /\ wire \in [Guests -> Seq(Message)]
    /\ known \in [Guests -> {"none", "peer", "owner", "swept"}]
    /\ drops \in Nat /\ sweeps \in Nat

GuestTypeOK ==
    /\ copy \in [Guests -> Version]
    /\ notice \in [Guests -> (0..MaxAttempts - 1) \cup {NoNotice}]
    /\ fetch \in [Guests -> Fetch \cup {NoFetch}]
    /\ unheard \subseteq Guests /\ gaveUp \subseteq Guests

\* The type invariant.  The tries behind a notice never reach the bound.
TypeOK == OwnerTypeOK /\ FrameTypeOK /\ LinkTypeOK /\ GuestTypeOK

\* A world that reads as saved is saved: whatever was edited while a save was
\* under way, a live record equal to stored is the one the PDS holds (#1116).
CleanIsSaved == stored = live => pds = live

\* What a guest should hold: the live record while it fits the wire, and past
\* the ceiling nothing older than the last save that landed.
UpToDate(g) == IF live \in over THEN copy[g] >= stored ELSE copy[g] = live

\* Nothing is under way between the owner and guest g.
AtRest(g) ==
    /\ link[g] = "up" /\ known[g] = "owner" /\ g \notin joined
    /\ tried = live /\ ran = {} /\ wire[g] = <<>>
    /\ notice[g] = NoNotice /\ fetch[g] = NoFetch

\* When nothing is under way a guest that heard the owner's last word, and did
\* not give up its fetch, is up to date.
Settled ==
    \A g \in Guests : AtRest(g) /\ g \notin unheard \cup gaveUp => UpToDate(g)

\* Every guest that stays linked ends up to date, unless it gave up its fetch
\* or dropped the owner's last word.
GuestsConverge ==
    \A g \in Guests :
        <>[](link[g] = "up" /\ g \notin unheard \cup gaveUp => UpToDate(g))

=============================================================================
