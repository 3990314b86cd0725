--------------------------- MODULE OwnerSessions ---------------------------
(***************************************************************************)
(* Sessions signed in as one owner, in the owner's own room (#1203).  Each *)
(* is an owner to the others: it broadcasts its live record, pushes it to  *)
(* a newcomer, and takes the record of another by the same-owner split.    *)
(*                                                                         *)
(* A record is its version.  An edit is a new version, and by tells which  *)
(* session made it; version 1 is the saved room the sessions start from.   *)
(* The world stays under the live ceiling: RoomSync models what lies past  *)
(* it.  Channels are reliable and ordered, one for each pair of sessions.  *)
(***************************************************************************)
EXTENDS Naturals, Sequences

CONSTANTS
    Sessions,
    NoRecord,        \* nothing parked, nothing being saved
    Opening,         \* the session that is in the room at the start
    MaxVersion, MaxChoices   \* bounds: edits, and saves and answers of the owner

ASSUME SessionAssumption ==
    /\ Opening \in Sessions
    /\ MaxVersion \in Nat \ {0} /\ MaxChoices \in Nat
    /\ NoRecord \notin 1..MaxVersion

Version == 1..MaxVersion

VARIABLES
    here,      \* the sessions in the room
    made,      \* the last version made, by any session
    by,        \* by[v]: the session that made version v; 1 is nobody's
    live,      \* live[s]: LiveRoomRecord
    stored,    \* stored[s]: StoredRoomRecord
    saving,    \* saving[s]: PublishRoomTask::published
    pds,       \* the room record on the PDS
    parked,    \* parked[s]: OtherSessionRoom
    dirty,     \* dirty[s]: broadcast_room_state's own dirty flag
    wire,      \* wire[s][t]: the versions under way from s to t
    unsaved,   \* history: unsaved[s], live[s] holds an edit of s it has not saved
    kept,      \* history: some session has kept its own copy over a parked one
    choices    \* history: for the bound

world == <<made, by>>
save  == <<stored, saving, pds>>
vars  == <<here, world, live, save, parked, dirty, wire, unsaved, kept, choices>>

-----------------------------------------------------------------------------

Chooses == choices < MaxChoices /\ choices' = choices + 1

Differs(s) == live[s] # stored[s]

\* A session signs in, loads the saved room, and each side pushes its live
\* record to the other (handle_peer_connections).
Join(s) ==
    /\ s \notin here
    /\ here' = here \cup {s}
    /\ live' = [live EXCEPT ![s] = pds]
    /\ stored' = [stored EXCEPT ![s] = pds]
    /\ dirty' = [dirty EXCEPT ![s] = TRUE]
    /\ wire' = [a \in Sessions |-> [b \in Sessions |->
                  IF a = s /\ b \in here THEN <<pds>>
                  ELSE IF a \in here /\ b = s THEN Append(wire[a][b], live[a])
                  ELSE wire[a][b]]]
    /\ UNCHANGED <<world, saving, pds, parked, unsaved, kept, choices>>

Edit(s) ==
    /\ s \in here /\ parked[s] = NoRecord /\ made < MaxVersion
    /\ made' = made + 1
    /\ by' = [by EXCEPT ![made'] = s]
    /\ live' = [live EXCEPT ![s] = made']
    /\ dirty' = [dirty EXCEPT ![s] = TRUE]
    /\ unsaved' = [unsaved EXCEPT ![s] = TRUE]
    /\ UNCHANGED <<here, save, parked, wire, kept, choices>>

\* broadcast_room_state at the end of a debounce.
Broadcast(s) ==
    /\ s \in here /\ dirty[s]
    /\ dirty' = [dirty EXCEPT ![s] = FALSE]
    /\ wire' = [wire EXCEPT ![s] = [t \in Sessions |->
                    IF t \in here \ {s} THEN Append(@[t], live[s]) ELSE @[t]]]
    /\ UNCHANGED <<here, world, live, save, parked, unsaved, kept, choices>>

\* Mutant: every record of the other session is installed.
ClassifyAlways(s, record) == IF record = live[s] THEN "Ignore" ELSE "Apply"

\* Mutant: an unpublished edit turns the other session's record away unasked.
ClassifyNeverAsks(s, record) ==
    IF record = live[s] \/ Differs(s) THEN "Ignore" ELSE "Apply"

\* Mutant: the echo of the session's own record is not told from a change.
ClassifyNoEcho(s, record) ==
    IF record # live[s] /\ Differs(s) THEN "Hold" ELSE "Apply"

\* classify_same_owner_update, on records_differ(live, stored).
Classify(s, record) ==
    IF record = live[s] THEN "Ignore"
    ELSE IF Differs(s) THEN "Hold" ELSE "Apply"

Ignore(s, record) ==
    /\ Classify(s, record) = "Ignore"
    /\ UNCHANGED <<live, dirty, parked, unsaved>>

Hold(s, record) ==
    /\ Classify(s, record) = "Hold"
    /\ parked' = [parked EXCEPT ![s] = record]
    /\ UNCHANGED <<live, dirty, unsaved>>

\* The record is installed, which raises is_changed: it is broadcast in turn.
Apply(s, record) ==
    /\ Classify(s, record) = "Apply"
    /\ live' = [live EXCEPT ![s] = record]
    /\ dirty' = [dirty EXCEPT ![s] = TRUE]
    /\ unsaved' = [unsaved EXCEPT ![s] = FALSE]
    /\ UNCHANGED parked

\* handle_room_state: of the records of t in a drain the last one counts.
Receive(s, t) ==
    /\ s \in here
    /\ \E k \in 1..Len(wire[t][s]) :
          /\ wire' = [wire EXCEPT ![t][s] = SubSeq(@, k + 1, Len(@))]
          /\ \/ Ignore(s, wire[t][s][k])
             \/ Hold(s, wire[t][s][k])
             \/ Apply(s, wire[t][s][k])
    /\ UNCHANGED <<here, world, save, kept, choices>>

\* The modal's two answers (other_session::resolve).
KeepMine(s) ==
    /\ parked[s] # NoRecord
    /\ parked' = [parked EXCEPT ![s] = NoRecord]
    /\ kept' = TRUE
    /\ UNCHANGED <<here, world, live, save, dirty, wire, unsaved, choices>>

TakeTheirs(s) ==
    /\ parked[s] # NoRecord /\ Chooses
    /\ live' = [live EXCEPT ![s] = parked[s]]
    /\ parked' = [parked EXCEPT ![s] = NoRecord]
    /\ dirty' = [dirty EXCEPT ![s] = TRUE]
    /\ unsaved' = [unsaved EXCEPT ![s] = FALSE]
    /\ UNCHANGED <<here, world, save, wire, kept>>

StartSave(s) ==
    /\ s \in here /\ saving[s] = NoRecord /\ Differs(s) /\ Chooses
    /\ saving' = [saving EXCEPT ![s] = live[s]]
    /\ UNCHANGED <<here, world, live, stored, pds, parked, dirty, wire,
                   unsaved, kept>>

\* Mutant: the task is forgotten before stored is pinned to its record.
SaveLandsForgetsFirst(s) ==
    /\ saving[s] # NoRecord
    /\ pds' = saving[s]
    /\ saving' = [saving EXCEPT ![s] = NoRecord]
    /\ stored' = [stored EXCEPT ![s] = saving'[s]]
    /\ unsaved' = [unsaved EXCEPT ![s] = @ /\ live[s] # saving[s]]
    /\ UNCHANGED <<here, world, live, parked, dirty, wire, kept, choices>>

\* The PDS takes the record, and poll_publish_tasks pins stored to it.
SaveLands(s) ==
    /\ saving[s] # NoRecord
    /\ pds' = saving[s]
    /\ stored' = [stored EXCEPT ![s] = saving[s]]
    /\ saving' = [saving EXCEPT ![s] = NoRecord]
    /\ unsaved' = [unsaved EXCEPT ![s] = @ /\ live[s] # saving[s]]
    /\ UNCHANGED <<here, world, live, parked, dirty, wire, kept, choices>>

\* poll_publish_tasks on Err: a write that timed out may have been committed.
SaveFails(s) ==
    /\ saving[s] # NoRecord
    /\ pds' \in {pds, saving[s]}
    /\ saving' = [saving EXCEPT ![s] = NoRecord]
    /\ UNCHANGED <<here, world, live, stored, parked, dirty, wire, unsaved,
                   kept, choices>>

-----------------------------------------------------------------------------

Init ==
    /\ here = {Opening}
    /\ made = 1 /\ by = [v \in Version |-> NoRecord]
    /\ live = [s \in Sessions |-> 1]
    /\ stored = [s \in Sessions |-> 1]
    /\ saving = [s \in Sessions |-> NoRecord]
    /\ pds = 1
    /\ parked = [s \in Sessions |-> NoRecord]
    /\ dirty = [s \in Sessions |-> FALSE]
    /\ wire = [s \in Sessions |-> [t \in Sessions |-> <<>>]]
    /\ unsaved = [s \in Sessions |-> FALSE]
    /\ kept = FALSE /\ choices = 0

Next ==
    \E s \in Sessions :
        \/ Join(s) \/ Edit(s) \/ Broadcast(s)
        \/ \E t \in Sessions : Receive(s, t)
        \/ KeepMine(s) \/ TakeTheirs(s)
        \/ StartSave(s) \/ SaveLands(s) \/ SaveFails(s)

Spec == Init /\ [][Next]_vars

\* Each session's systems run every frame; the owner need not edit, answer,
\* save or sign in again.
FairSpec ==
    /\ Spec
    /\ \A s \in Sessions : WF_vars(Broadcast(s))
    /\ \A s, t \in Sessions : WF_vars(Receive(s, t))

-----------------------------------------------------------------------------
(* The properties.                                                         *)

\* The type invariant.
TypeOK ==
    /\ here \subseteq Sessions /\ Opening \in here
    /\ made \in Version /\ by \in [Version -> Sessions \cup {NoRecord}]
    /\ live \in [Sessions -> 1..made] /\ stored \in [Sessions -> 1..made]
    /\ saving \in [Sessions -> 1..made \cup {NoRecord}] /\ pds \in 1..made
    /\ parked \in [Sessions -> 1..made \cup {NoRecord}]
    /\ dirty \in [Sessions -> BOOLEAN] /\ unsaved \in [Sessions -> BOOLEAN]
    /\ wire \in [Sessions -> [Sessions -> Seq(1..made)]]
    /\ kept \in BOOLEAN /\ choices \in Nat

\* What a session has edited and not saved is replaced by another session's
\* record only where the owner answers the modal that way (#1203).
NoSilentLoss ==
    [][\A s \in Sessions : unsaved[s] /\ live'[s] # live[s] =>
          by'[live'[s]] = s \/ TakeTheirs(s)]_vars

AtRest ==
    \A s \in Sessions : ~dirty[s] /\ \A t \in Sessions : wire[s][t] = <<>>

\* The sessions never part silently: with nothing under way, no question open
\* and none answered by keeping one's own, they all hold the same record.
Agreement ==
    AtRest /\ ~kept /\ (\A s \in Sessions : parked[s] = NoRecord)
        => \A s, t \in here : live[s] = live[t]

\* Rebroadcasting what was applied does not go round for ever.
EchoesEnd == <>[]AtRest

=============================================================================
