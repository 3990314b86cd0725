------------------------------- MODULE Journey -------------------------------
(***************************************************************************)
(* What may become of a player's unsaved records when the player leaves:   *)
(* the saves of an owner's records, the guard every departure goes         *)
(* through - a travel to another world, a sign-out, a quit - and the       *)
(* travel itself, from the fetch of the destination to the world that has  *)
(* been built.                                                             *)
(*                                                                         *)
(* One account on one client.  A record is seen through its version: the   *)
(* owner's edits make versions, Default is what a record that is missing   *)
(* or could not be read is shown as, Host the room of somebody else.  A    *)
(* save is one write, or for a reset a delete and a write, which its       *)
(* request may still make after the client has given it up.                *)
(***************************************************************************)
EXTENDS Naturals, FiniteSets

CONSTANTS
    Kinds, Room,     \* the records of an account; which one is the room
    Default,   \* what a record that is missing or unread is shown as
    Host,      \* the room of somebody else
    None,
    MaxVersion, MaxSaves, MaxTrips, MaxSessions   \* bounds

ASSUME JourneyAssumption ==
    /\ Room \in Kinds /\ IsFiniteSet(Kinds)
    /\ Default \notin Nat /\ Host \notin Nat \cup {Default}
    /\ None \notin Nat \cup {Default, Host}
    /\ MaxVersion \in Nat \ {0} /\ MaxSaves \in Nat
    /\ MaxTrips \in Nat /\ MaxSessions \in Nat

Worlds   == {"home", "away"}
Versions == 1..MaxVersion
Actions  == [to : Worlds \cup {"login", "desktop"}]

\* A number none of xs has.
Fresh(xs) == CHOOSE n \in 1..Cardinality(xs) + 1 : \A x \in xs : x.n # n

VARIABLES
    app,        \* AppState: "login", "in game"; "closed" once it has exited
    where,      \* CurrentRoomDid
    live,       \* LiveRoomRecord, LiveAvatarRecord, ...
    stored,     \* StoredRoomRecord, StoredAvatarRecord, ...
    marker,     \* RoomRecordRecovery, AvatarRecordRecovery, ...
    publishing, \* PublishFeedback: the status of k is Publishing
    saves,      \* the writes; those of a task the client still polls
    contact,    \* PortalContact
    guard,      \* UnsavedGuard
    travel,     \* TravelingTo
    fetches,    \* PortalTravelTasks
    pds,        \* the records kept for the account
    held,       \* held[k]: history, the versions pds[k] has been
    agreed,     \* history: what the player has agreed to lose by the travel
    onTheWay,   \* history: what has been edited, or saved, since it began
    lost,       \* history: what was lost otherwise
    counts      \* history: for the bounds; whether this session has reset the room

records == <<live, stored, marker>>
remote  == <<pds, held>>
trip    == <<contact, guard, travel, fetches>>
history == <<agreed, onTheWay, lost, counts>>
vars    == <<app, where, records, publishing, saves, trip, remote, history>>

-----------------------------------------------------------------------------
(* The records and what is unsaved of them.                                *)

Mine(k) == k = Room => where = "home"

\* DirtyRecords: a visitor's live room is not the visitor's to save.
Dirty == {k \in Kinds : Mine(k) /\ live[k] # stored[k]}

\* Mutant: every action discards every record.
AtAll(action) == Kinds

\* The kinds an action discards.
At(action) == IF action.to \in Worlds THEN {Room} ELSE Kinds

Tasks    == {s \in saves : s.polled}
InFlight == {s.kind : s \in Tasks}

\* Edits the account's server does not have, or that look unsaved.
Unsaved == {k \in Kinds : Mine(k) /\ (live[k] # stored[k] \/ live[k] \in Versions \ held[k])}

\* What the records of ks hold is gone from the client.
Lose(ks, asked) ==
    lost' = lost \cup ((ks \cap Unsaved) \ (asked \cup onTheWay))

\* A record is no longer as the guard found it.
Changed(k) == IF k = Room /\ travel # None THEN {Room} ELSE onTheWay

\* An edit, an undo, a value taken from elsewhere: nothing looks at the
\* guard, nor at the travel.
Edit(k, v) ==
    /\ app = "in game" /\ Mine(k)
    /\ v \in Versions \ {live[k]}
    /\ live' = [live EXCEPT ![k] = v]
    /\ onTheWay' = Changed(k)
    /\ UNCHANGED <<app, where, stored, marker, publishing, saves, trip, remote,
                   agreed, lost, counts>>

\* "Revert to saved": stands down while the status is Publishing.
Revert(k) ==
    /\ app = "in game" /\ k \in Dirty /\ ~publishing[k]
    /\ live' = [live EXCEPT ![k] = stored[k]]
    /\ UNCHANGED <<app, where, stored, marker, publishing, saves, trip, remote, history>>

-----------------------------------------------------------------------------
(* Saving.                                                                 *)

Write(k, v, reset) ==
    [n |-> Fresh(saves), kind |-> k, value |-> v, state |-> "sent",
     reset |-> reset, polled |-> TRUE]

\* Save, once confirmed if the record carries a marker: refused while the
\* status is Publishing and when there is nothing to save.
Save(k) ==
    /\ app = "in game" /\ k \in Dirty /\ ~publishing[k]
    /\ counts.saves < MaxSaves
    /\ counts' = [counts EXCEPT !.saves = @ + 1]
    /\ saves' = saves \cup {Write(k, live[k], FALSE)}
    /\ publishing' = [publishing EXCEPT ![k] = TRUE]
    /\ UNCHANGED <<app, where, records, trip, remote, agreed, onTheWay, lost>>

\* The recovery banner's "Reset to default", offered for a room that could
\* not be decoded; the banner does not ask whether a save is in flight.
ResetStored ==
    /\ app = "in game" /\ where = "home" /\ marker[Room]
    /\ counts.saves < MaxSaves
    /\ counts' = [counts EXCEPT !.saves = @ + 1, !.reset = TRUE]
    /\ live' = [live EXCEPT ![Room] = Default]
    /\ onTheWay' = Changed(Room)
    /\ saves' = saves \cup {Write(Room, Default, TRUE)}
    /\ publishing' = [publishing EXCEPT ![Room] = TRUE]
    /\ UNCHANGED <<app, where, stored, marker, trip, remote, agreed, lost>>

\* The request of a save at the account's server.
Commit(s) ==
    /\ s.state \in {"sent", "deleted"}
    /\ LET wipes == s.reset /\ s.state = "sent"
           v == IF wipes THEN Default ELSE s.value
       IN /\ pds' = [pds EXCEPT ![s.kind] = v]
          /\ held' = [held EXCEPT ![s.kind] = @ \cup {v}]
          /\ saves' = (saves \ {s}) \cup
               (IF wipes THEN {[s EXCEPT !.state = "deleted"]}
                ELSE IF s.polled THEN {[s EXCEPT !.state = "written"]} ELSE {})
    /\ UNCHANGED <<app, where, records, publishing, trip, history>>

\* stale_result: a save of a room this client is no longer in.
Stale(s) == s.kind = Room /\ where # "home"

\* Mutant: a save that lands answers for the record shown now.
PinsTheLive(s) == [stored EXCEPT ![s.kind] = live[s.kind]]

Pinned(s) == [stored EXCEPT ![s.kind] = s.value]

\* poll_publish_tasks: the answer of a save, or its failure - of the request,
\* of its answer, or by the deadline.  A stale answer is dropped whole.
PollSave(s) ==
    /\ app = "in game" /\ s \in Tasks
    /\ saves' = (saves \ {s}) \cup
                (IF s.state = "written" THEN {} ELSE {[s EXCEPT !.polled = FALSE]})
    /\ \/ /\ Stale(s)
          /\ UNCHANGED <<stored, marker, publishing>>
       \/ /\ ~Stale(s) /\ s.state = "written"
          /\ stored' = Pinned(s)
          /\ marker' = [marker EXCEPT ![s.kind] = FALSE]
          /\ publishing' = [publishing EXCEPT ![s.kind] = FALSE]
       \/ /\ ~Stale(s)
          /\ publishing' = [publishing EXCEPT ![s.kind] = FALSE]
          /\ UNCHANGED <<stored, marker>>
    /\ onTheWay' = IF stored' # stored THEN Changed(s.kind) ELSE onTheWay
    /\ UNCHANGED <<app, where, live, trip, remote, agreed, lost, counts>>

-----------------------------------------------------------------------------
(* Asking to leave.                                                        *)

AsksForTrip ==
    /\ counts.trips < MaxTrips
    /\ counts' = [counts EXCEPT !.trips = @ + 1]

Asking(action) == [action |-> action, phase |-> "prompt"]

\* The player walks into the collider of a portal.
Touch(d) ==
    /\ app = "in game" /\ d # where
    /\ travel = None /\ guard = None /\ contact = None
    /\ contact' = d
    /\ AsksForTrip
    /\ UNCHANGED <<app, where, records, publishing, saves, guard, travel, fetches, remote,
                   agreed, onTheWay, lost>>

\* raise_guard_for_portal_contact: over any guard another system has raised
\* in the frame.
RaiseGuard ==
    /\ app = "in game" /\ contact # None
    /\ guard' = Asking([to |-> contact])
    /\ contact' = None
    /\ UNCHANGED <<app, where, records, publishing, saves, travel, fetches, remote, history>>

\* A destination is chosen - the account menu, a peer's Visit, the agent; a
\* gateway's picker that was open may answer while a travel's fetch runs -
\* or "Log out" is, or the window's close button by a player with edits.
Ask(action) ==
    /\ app = "in game" /\ guard = None
    /\ \/ /\ action.to \in Worlds
          /\ travel # None => travel.phase = "fetching"
          /\ AsksForTrip
       \/ action.to = "login" /\ UNCHANGED counts
       \/ action.to = "desktop" /\ Dirty # {} /\ UNCHANGED counts
    /\ guard' = Asking(action)
    /\ UNCHANGED <<app, where, records, publishing, saves, contact, travel, fetches, remote,
                   agreed, onTheWay, lost>>

TravelGone == travel' = None

\* Every resource of the session and every task: cleanup_on_logout with
\* clear_editor_state_on_logout, or the end of the program.
EndSession(to, asked) ==
    /\ app' = to
    /\ where' = None
    /\ live' = [k \in Kinds |-> None] /\ stored' = live'
    /\ marker' = [k \in Kinds |-> FALSE]
    /\ publishing' = [k \in Kinds |-> FALSE]
    /\ saves' = {[s EXCEPT !.polled = FALSE] : s \in {t \in saves : t.state # "written"}}
    /\ contact' = None /\ guard' = None /\ fetches' = {} /\ TravelGone
    /\ Lose(Kinds, asked)
    /\ agreed' = {} /\ onTheWay' = {}
    /\ counts' = [counts EXCEPT !.reset = FALSE]
    /\ UNCHANGED remote

\* intercept_window_close with nothing unsaved, or outside a session.
CloseWindow ==
    /\ app # "closed" /\ guard = None /\ Dirty = {}
    /\ EndSession("closed", {})

\* begin_portal_travel: over any travel under way.
BeginTravel(d, asked) ==
    /\ travel' = [to |-> d, phase |-> "fetching"]
    /\ fetches' = fetches \cup
         {[n |-> Fresh(fetches), to |-> d, state |-> "asked", record |-> None]}
    /\ guard' = None
    /\ agreed' = asked /\ onTheWay' = {}
    /\ UNCHANGED <<app, where, records, publishing, saves, contact, remote, lost, counts>>

\* proceed: the guarded action; asked are the kinds the player gave up.
Proceed(asked) ==
    \/ guard.action.to \in Worlds /\ BeginTravel(guard.action.to, asked)
    \/ guard.action.to = "login" /\ EndSession("login", asked)
    \/ guard.action.to = "desktop" /\ EndSession("closed", asked)

Clean == Dirty \cap At(guard.action) = {}

\* Mutant: the guard does not see the saves of the editors.
NoWait == FALSE

Waits == InFlight \cap At(guard.action) # {}

InPhase(phase) ==
    /\ guard' = [guard EXCEPT !.phase = phase]
    /\ UNCHANGED <<app, where, records, publishing, saves, contact, travel, fetches, remote, history>>

\* Mutant: a guard whose saves did not save everything asks nothing again.
GuardOnlyProceeds ==
    /\ app = "in game" /\ guard # None
    /\ \/ guard.phase = "prompt" /\ Clean /\ Proceed({})
       \/ guard.phase = "prompt" /\ ~Clean /\ Waits /\ InPhase("publishing")
       \/ guard.phase = "publishing" /\ ~Waits /\ Clean /\ Proceed({})

\* unsaved_guard_ui, before the dialog is drawn.
GuardDecides ==
    /\ app = "in game" /\ guard # None
    /\ \/ guard.phase = "prompt" /\ Clean /\ Proceed({})
       \/ guard.phase = "prompt" /\ ~Clean /\ Waits /\ InPhase("publishing")
       \/ guard.phase = "publishing" /\ ~Waits /\ Clean /\ Proceed({})
       \/ guard.phase = "publishing" /\ ~Waits /\ ~Clean /\ InPhase("prompt")

\* The dialog as GuardDecides has left it in this frame.
Drawn(phase) ==
    /\ app = "in game" /\ guard # None /\ guard.phase = phase
    /\ IF phase = "prompt" THEN ~Clean /\ ~Waits ELSE Waits

\* "Save & ...": not offered when it would write over an unread record.
GuardSaves ==
    LET ks == Dirty \cap At(guard.action)
    IN /\ Drawn("prompt")
       /\ \A k \in ks : ~marker[k]
       /\ counts.saves + Cardinality(ks) <= MaxSaves
       /\ counts' = [counts EXCEPT !.saves = @ + Cardinality(ks)]
       /\ saves' = saves \cup {Write(k, live[k], FALSE) : k \in ks}
       /\ publishing' = [k \in Kinds |-> publishing[k] \/ k \in ks]
       /\ guard' = [guard EXCEPT !.phase = "publishing"]
       /\ UNCHANGED <<app, where, records, contact, travel, fetches, remote, agreed, onTheWay, lost>>

\* "Discard & ...", which a save in flight does not withhold.
GuardDiscards ==
    /\ Drawn("prompt") \/ Drawn("publishing")
    /\ Proceed(At(guard.action))

\* "Stay here", Esc; the agent's withdrawal of a guard nobody answers.
GuardCloses ==
    /\ Drawn("prompt") \/ Drawn("publishing")
    /\ guard' = None
    /\ UNCHANGED <<app, where, records, publishing, saves, contact, travel, fetches, remote, history>>

-----------------------------------------------------------------------------
(* The travel.                                                             *)

\* The room kept for the owner of a world, the default when there is none.
RoomOf(d) == IF d = "home" THEN pds[Room] ELSE Host

\* The answer of a fetch: a record - for one that is missing the default -
\* or a failure; the account's own record as it is at this moment.
FetchAnswers(f) ==
    /\ f \in fetches /\ f.state = "asked"
    /\ \E state \in {"read", "undecodable", "failed"} :
         fetches' = (fetches \ {f}) \cup
           {[f EXCEPT !.state = state,
                      !.record = CASE state = "read" -> RoomOf(f.to)
                                   [] state = "undecodable" -> Default
                                   [] OTHER -> None]}
    /\ UNCHANGED <<app, where, records, publishing, saves, contact, guard, travel, remote, history>>

\* Mutant: the answer of any travel lands the one under way.
Lands(f) == travel # None

Answers(f) == travel # None /\ travel.to = f.to

\* The travel ends where it began.
Stays ==
    /\ travel' = None /\ agreed' = {} /\ onTheWay' = {}
    /\ UNCHANGED <<app, where, records, publishing, saves, contact, guard, remote, lost, counts>>

\* poll_portal_travel_tasks.
PollTravel(f) ==
    /\ app = "in game" /\ f \in fetches /\ f.state # "asked"
    /\ fetches' = fetches \ {f}
    /\ \/ /\ ~Answers(f)
          /\ UNCHANGED <<app, where, records, publishing, saves, contact, guard, travel, remote, history>>
       \/ Answers(f) /\ f.state = "failed" /\ Stays
       \/ /\ Answers(f) /\ f.state # "failed"
          /\ live' = [live EXCEPT ![Room] = f.record]
          /\ stored' = [stored EXCEPT ![Room] = f.record]
          /\ marker' = [marker EXCEPT ![Room] = f.state = "undecodable"]
          /\ where' = travel.to
          /\ travel' = [travel EXCEPT !.phase = "building"]
          /\ Lose({Room}, agreed)
          /\ agreed' = agreed \ {Room} /\ onTheWay' = onTheWay \ {Room}
          /\ UNCHANGED <<app, publishing, saves, contact, guard, remote, counts>>

\* "Cancel travel": its task goes with it.
CancelTravel ==
    /\ app = "in game" /\ travel # None /\ travel.phase = "fetching"
    /\ fetches' = {}
    /\ Stays

\* release_travel_on_arrival: the terrain and the world have been built.
Arrive ==
    /\ app = "in game" /\ travel # None /\ travel.phase = "building"
    /\ travel' = None
    /\ UNCHANGED <<app, where, records, publishing, saves, contact, guard, fetches, remote, history>>

\* A sign-in and its loading: each record read, or its default installed
\* under a marker.
SignIn(d) ==
    /\ app = "login" /\ counts.sessions < MaxSessions
    /\ counts' = [counts EXCEPT !.sessions = @ + 1]
    /\ app' = "in game" /\ where' = d
    /\ marker' \in [Kinds -> BOOLEAN]
    /\ stored' = [k \in Kinds |-> IF marker'[k] THEN Default
                                  ELSE IF k = Room THEN RoomOf(d) ELSE pds[k]]
    /\ live' = stored'
    /\ UNCHANGED <<publishing, saves, trip, remote, agreed, onTheWay, lost>>

-----------------------------------------------------------------------------

\* An account that has signed in.
Init ==
    /\ app = "in game" /\ where = "home"
    /\ live = [k \in Kinds |-> 1] /\ stored = live
    /\ marker = [k \in Kinds |-> FALSE]
    /\ publishing = [k \in Kinds |-> FALSE]
    /\ saves = {} /\ contact = None /\ guard = None /\ travel = None /\ fetches = {}
    /\ pds = [k \in Kinds |-> 1] /\ held = [k \in Kinds |-> {1}]
    /\ agreed = {} /\ onTheWay = {} /\ lost = {}
    /\ counts = [saves |-> 0, trips |-> 0, sessions |-> 0, reset |-> FALSE]

Next ==
    \/ \E k \in Kinds, v \in Versions : Edit(k, v)
    \/ \E k \in Kinds : Revert(k) \/ Save(k)
    \/ ResetStored
    \/ \E s \in saves : Commit(s) \/ PollSave(s)
    \/ \E d \in Worlds : Touch(d) \/ SignIn(d)
    \/ RaiseGuard \/ CloseWindow
    \/ \E action \in Actions : Ask(action)
    \/ GuardDecides \/ GuardSaves \/ GuardDiscards \/ GuardCloses
    \/ \E f \in fetches : FetchAnswers(f) \/ PollTravel(f)
    \/ CancelTravel \/ Arrive

\* What runs every frame, and what each request is bounded by: a save by its
\* deadline, a fetch by the timeout of its task; terrain and world get built.
Fairness ==
    /\ WF_vars(\E s \in saves : PollSave(s))
    /\ WF_vars(RaiseGuard) /\ WF_vars(GuardDecides)
    /\ WF_vars(\E f \in fetches : FetchAnswers(f))
    /\ WF_vars(\E f \in fetches : PollTravel(f))
    /\ WF_vars(Arrive)

Spec == Init /\ [][Next]_vars

FairSpec == Spec /\ Fairness

-----------------------------------------------------------------------------
(* Properties.                                                             *)

\* What the account may have of a record, and what it may be shown.
Own    == Versions \cup {Default}
Values == Own \cup {Host}

Writes ==
    [n : Nat, kind : Kinds, value : Own, state : {"sent", "deleted", "written"},
     reset : BOOLEAN, polled : BOOLEAN]

Fetches ==
    [n : Nat, to : Worlds, state : {"asked", "read", "undecodable", "failed"},
     record : Values \cup {None}]

TypeOK ==
    /\ app \in {"login", "in game", "closed"} /\ where \in Worlds \cup {None}
    /\ live \in [Kinds -> Values \cup {None}] /\ stored \in [Kinds -> Values \cup {None}]
    /\ marker \in [Kinds -> BOOLEAN]
    /\ publishing \in [Kinds -> BOOLEAN]
    /\ saves \subseteq Writes /\ fetches \subseteq Fetches
    /\ contact \in Worlds \cup {None}
    /\ guard \in [action : Actions, phase : {"prompt", "publishing"}] \cup {None}
    /\ travel \in [to : Worlds, phase : {"fetching", "building"}] \cup {None}
    /\ pds \in [Kinds -> Own] /\ held \in [Kinds -> SUBSET Own]
    /\ agreed \subseteq {Room} /\ onTheWay \subseteq {Room} /\ lost \subseteq Kinds
    /\ counts \in [saves : Nat, trips : Nat, sessions : Nat, reset : BOOLEAN]

\* No step of the guard, of a travel or of a save loses an edit the player did
\* not agree to lose, if the record is as the guard found it: what is edited
\* or saved after the guard has answered nothing asks about again.
NothingLostSilently == lost = {}

\* What the client takes for stored is the record of the world it is in and
\* the server has had it: whatever saves, fetches and travels overlap, no
\* answer is taken for another world's or for what was typed since.
StoredIsOfThisWorld ==
    app = "in game" => \A k \in Kinds :
        IF Mine(k) THEN stored[k] \in held[k] \/ marker[k]
        ELSE stored[k] = Host \/ marker[k]

\* However a save is started - by a Save button, which asks the status, or by
\* the guard, which asks the tasks - there is one of a record at a time.  A
\* reset asks neither, and its answer frees the status of a save beside it: a
\* room that has been reset is exempt until the session ends.
OneSaveAtATime ==
    \A s, t \in Tasks : s.kind = t.kind =>
        s = t \/ (s.kind = Room /\ counts.reset)

\* Nobody is kept waiting.  A travel ends, by an arrival or where it began:
\* nothing of it, and no sign-out in the middle of it, leaves the player
\* frozen.  And the guard does not hold the player while it waits for saves.
LeavingEnds ==
    /\ travel # None ~> travel = None \/ app = "closed"
    /\ guard # None /\ guard.phase = "publishing"
         ~> guard = None \/ guard.phase = "prompt" \/ app = "closed"
=============================================================================
