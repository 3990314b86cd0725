---------------------------- MODULE RoomRecords ----------------------------
(***************************************************************************)
(* A room on its owner's PDS: a manifest (room/self) naming content kept   *)
(* in records of its own - generators, and the parts of a long set's       *)
(* copies - and how it is fetched, saved and wiped, several requests each. *)
(*                                                                         *)
(* A content record is keyed by a hash of its bytes, so it is its content, *)
(* and never changes.  A save is a list of writes in a fixed order, cut    *)
(* into commits by count and size: a commit may end anywhere in the list.  *)
(* Sessions are the owner's, of older and newer builds; visitors fetch.    *)
(***************************************************************************)
EXTENDS Naturals, Sequences

CONSTANTS
    Sessions, Visitors,
    Generators, Parts,
    Self,            \* the key of the manifest
    Name,            \* Name[x]: the name content x is placed under
    Reads,           \* Reads[c]: the content that c's build can decode
    Granted,         \* the sessions whose grant covers the copy parts
    Default,         \* the default homeworld's generators
    NoManifest, NoWorld, NoFetch, NoTask,
    Resets,          \* the sessions whose person may reset the room
    Overlap,         \* TRUE: the owner's sessions may be open together
    UndoDepth,       \* UNDO_DEPTH
    MaxEdits         \* bound: what people change and undo, over all sessions

Clients == Sessions \cup Visitors
Content == Generators \cup Parts

\* A room as a session holds it (RoomRecord): what its build decoded, the
\* refs it keeps without decoding (opaque_refs), and the parts of a set it
\* holds as Placement::Unknown.
World == [own : SUBSET Content, opaque : SUBSET Generators, unread : SUBSET Parts]
Write == [verb : {"create", "update", "delete"}, key : Content \cup {Self}]
Lists == {"gens", "parts", "self"}
Fetch == [refs : SUBSET Content, todo : Seq(Lists), found : SUBSET Content,
          crossed : BOOLEAN]
Task  == [wipes : BOOLEAN, world : World, todo : Seq(Lists),
          seen : SUBSET (Content \cup {Self}), done : SUBSET Write]

ASSUME RecordsAssumption ==
    /\ Sessions \cap Visitors = {} /\ Generators \cap Parts = {}
    /\ Self \notin Content
    /\ Reads \in [Clients -> SUBSET Content]
    /\ Granted \subseteq Sessions /\ Resets \subseteq Sessions
    /\ Overlap \in BOOLEAN /\ UndoDepth \in Nat /\ MaxEdits \in Nat
    /\ Default \subseteq Generators
    /\ \A c \in Sessions : Default \subseteq Reads[c]
    /\ \A x, y \in Default : Name[x] = Name[y] => x = y

ASSUME RecordsNoneAssumption ==
    /\ \A refs \in SUBSET Content : NoManifest # refs
    /\ NoWorld \notin World /\ NoFetch \notin Fetch /\ NoTask \notin Task

VARIABLES
    manifest,    \* room/self: the contents it names, or NoManifest
    records,     \* the content records in the repo
    live,        \* live[s]: LiveRoomRecord
    stored,      \* stored[s]: StoredRoomRecord
    recovery,    \* recovery[s]: RoomRecordRecovery
    past,        \* past[s]: RoomUndoHistory, what an undo goes back to
    fetch,       \* fetch[c]: a fetch_room_record under way
    task,        \* task[s]: PublishRoomTask, ResetRoomTask
    dropped,     \* history: dropped[s], what its person has taken out of the
                 \* room, or agreed to overwrite, in this session
    edits        \* history: for the bound

repo == <<manifest, records>>
room == <<live, stored, recovery, past>>
vars == <<repo, room, fetch, task, dropped, edits>>

-----------------------------------------------------------------------------
(* The fetch.                                                              *)

DefaultWorld == [own |-> Default, opaque |-> {}, unread |-> {}]

OfList(l) == IF l = "gens" THEN Generators ELSE Parts

Asked(l) == IF manifest \cap OfList(l) # {} THEN <<l>> ELSE <<>>

\* A client fetches the room, or fetches it again after a failure: the
\* manifest first, then only the lists that it gives cause for.
ReadManifest(c) ==
    /\ c \in Sessions => live[c] = NoWorld
    /\ c \in Sessions /\ ~Overlap => \A s \in Sessions \ {c} :
                            live[s] = NoWorld /\ fetch[s] = NoFetch
    /\ IF manifest = NoManifest
       THEN /\ fetch' = [fetch EXCEPT ![c] = NoFetch]
            /\ c \in Sessions
            /\ live' = [live EXCEPT ![c] = DefaultWorld]
            /\ stored' = [stored EXCEPT ![c] = DefaultWorld]
       ELSE /\ fetch' = [fetch EXCEPT ![c] =
                 [refs |-> manifest, found |-> {}, crossed |-> FALSE,
                  todo |-> Asked("gens") \o Asked("parts")]]
            /\ UNCHANGED <<live, stored>>
    /\ UNCHANGED <<repo, recovery, past, task, dropped, edits>>

Listed(f) == [f EXCEPT !.found = @ \cup (records \cap OfList(Head(f.todo))),
                       !.todo = Tail(@)]

ReadList(c) ==
    /\ fetch[c] # NoFetch /\ fetch[c].todo # <<>>
    /\ fetch' = [fetch EXCEPT ![c] = Listed(@)]
    /\ UNCHANGED <<repo, room, task, dropped, edits>>

\* Mutant: a part found and not decoded is preserved as a generator is.
AssembledKeepsParts(c, f) ==
    [own    |-> f.refs \cap f.found \cap Reads[c],
     opaque |-> (f.refs \cap f.found) \ Reads[c],
     unread |-> {}]

\* assemble_room: what was found and decoded; the generators found and not
\* decoded; and, one part of it found and not decoded, the whole long set.
\* What the manifest names and no list holds is skipped.
Assembled(c, f) ==
    LET found == f.refs \cap f.found
        blind == (found \cap Parts) \ Reads[c] # {} IN
    [own    |-> (found \cap Reads[c]) \ (IF blind THEN Parts ELSE {}),
     opaque |-> (found \cap Generators) \ Reads[c],
     unread |-> IF blind THEN found \cap Parts ELSE {}]

Fetched(c) == fetch[c] # NoFetch /\ fetch[c].todo = <<>>

Install(c) ==
    /\ Fetched(c)
    /\ fetch' = [fetch EXCEPT ![c] = NoFetch]
    /\ IF c \in Sessions
       THEN /\ live' = [live EXCEPT ![c] = Assembled(c, fetch[c])]
            /\ stored' = [stored EXCEPT ![c] = Assembled(c, fetch[c])]
       ELSE UNCHANGED <<live, stored>>
    /\ UNCHANGED <<repo, recovery, past, task, dropped, edits>>

\* The room could not be read, or not be reached: the default stands in for
\* it, with a marker that saving would overwrite a room never read.
Recover(s, cause) ==
    /\ fetch[s] # NoFetch
    /\ fetch' = [fetch EXCEPT ![s] = NoFetch]
    /\ live' = [live EXCEPT ![s] = DefaultWorld]
    /\ stored' = [stored EXCEPT ![s] = DefaultWorld]
    /\ recovery' = [recovery EXCEPT ![s] = cause]
    /\ UNCHANGED <<repo, past, task, dropped, edits>>

\* The session ends, in whatever way, and its requests with it.
Close(s) ==
    /\ live[s] # NoWorld \/ fetch[s] # NoFetch
    /\ live' = [live EXCEPT ![s] = NoWorld]
    /\ stored' = [stored EXCEPT ![s] = NoWorld]
    /\ recovery' = [recovery EXCEPT ![s] = "none"]
    /\ task' = [task EXCEPT ![s] = NoTask]
    /\ fetch' = [fetch EXCEPT ![s] = NoFetch]
    /\ past' = [past EXCEPT ![s] = <<>>]
    /\ dropped' = [dropped EXCEPT ![s] = {}]
    /\ UNCHANGED <<repo, edits>>

-----------------------------------------------------------------------------
(* The owner's edits.                                                      *)

Namesakes(x, contents) == {y \in contents \ {x} : Name[y] = Name[x]}

\* Mutant: a ref that was not decoded is left out of the manifest.
RefsDecoded(w) == w.own

\* RoomManifestOut::from_record: a decoded generator wins its name.
Refs(w) == w.own \cup {o \in w.opaque : Namesakes(o, w.own) = {}}

Put(w, x) == [w EXCEPT !.own = (@ \ Namesakes(x, @)) \cup {x}]

\* What a world keeps in the room: its refs, and the set it could not read.
Keeps(w) == Refs(w) \cup w.unread

Drops(s, gone) == dropped' = [dropped EXCEPT ![s] = @ \cup gone]

Becomes(s, w) ==
    /\ live' = [live EXCEPT ![s] = w]
    /\ Drops(s, Keeps(live[s]) \ Keeps(w))

\* UndoHistory::push: the ring keeps the worlds before this one, so many of
\* them.  A redo is the undone edit made again.
Pushed(s) ==
    LET ring == Append(past[s], live[s]) IN
    past' = [past EXCEPT ![s] =
                IF Len(ring) > UndoDepth THEN Tail(ring) ELSE ring]

Bounded == edits < MaxEdits /\ edits' = edits + 1

Edit(s, w) ==
    /\ Bounded /\ live[s] # w
    /\ Becomes(s, w) /\ Pushed(s)
    /\ UNCHANGED <<repo, stored, recovery, fetch, task>>

\* A generator is added, or one of that name changed to x; a part likewise.
\* A ref kept undecoded under that name is overridden, and stays in the world.
PutContent(s, x) ==
    /\ live[s] # NoWorld /\ x \in Reads[s] \ live[s].own
    /\ x \in Parts => live[s].unread = {}
    /\ Edit(s, Put(live[s], x))

TakeOut(s, x) ==
    /\ live[s] # NoWorld /\ x \in live[s].own
    /\ Edit(s, [live[s] EXCEPT !.own = @ \ {x}])

\* The placement that could not be read is removed.
TakeOutUnread(s) ==
    /\ live[s] # NoWorld
    /\ Edit(s, [live[s] EXCEPT !.unread = {}])

\* "Revert to saved" takes the stored record back, "Reset to default" the
\* default, which keeps no ref undecoded.  Both wait for a save to end.
Load(s) ==
    /\ live[s] # NoWorld /\ task[s] = NoTask
    /\ Edit(s, stored[s])

Reset(s) ==
    /\ s \in Resets /\ live[s] # NoWorld /\ task[s] = NoTask
    /\ Edit(s, DefaultWorld)

\* The world before the last edit, whatever has been saved since.
Undo(s) ==
    /\ past[s] # <<>> /\ Bounded
    /\ Becomes(s, past[s][Len(past[s])])
    /\ past' = [past EXCEPT ![s] = SubSeq(@, 1, Len(@) - 1)]
    /\ UNCHANGED <<repo, stored, recovery, fetch, task>>

-----------------------------------------------------------------------------
(* The save and the wipe.                                                  *)

Publish(w) == [wipes |-> FALSE, world |-> w, todo |-> <<"gens", "parts", "self">>,
               seen |-> {}, done |-> {}]
Wipe == [wipes |-> TRUE, world |-> DefaultWorld, todo |-> <<"self", "gens", "parts">>,
         seen |-> {}, done |-> {}]

\* publish_room_record refuses a room holding an unread placement before any
\* request; a room in recovery is saved once its owner agrees to overwrite.
StartSave(s) ==
    /\ live[s] # NoWorld /\ live[s] # stored[s] /\ task[s] = NoTask
    /\ live[s].unread = {}
    /\ task' = [task EXCEPT ![s] = Publish(live[s])]
    /\ Drops(s, IF recovery[s] = "none" THEN {} ELSE Content)
    /\ UNCHANGED <<repo, room, fetch, edits>>

\* The recovery banner's reset, offered where the room could not be decoded.
StartReset(s) ==
    /\ live[s] # NoWorld /\ recovery[s] = "Decode" /\ task[s] = NoTask
    /\ live' = [live EXCEPT ![s] = DefaultWorld]
    /\ task' = [task EXCEPT ![s] = Wipe]
    /\ Pushed(s) /\ Drops(s, Content)
    /\ UNCHANGED <<repo, stored, recovery, fetch, edits>>

Keys == records \cup (IF manifest = NoManifest THEN {} ELSE {Self})

Asks(l) == IF l = "self" THEN {Self} ELSE OfList(l)

Seen(t) == [t EXCEPT !.seen = @ \cup (Keys \cap Asks(Head(t.todo))), !.todo = Tail(@)]

\* list_room_children, list_room_part_keys, room_self_exists.
LookUp(s) ==
    /\ task[s] # NoTask /\ task[s].todo # <<>>
    /\ task' = [task EXCEPT ![s] = Seen(@)]
    /\ UNCHANGED <<repo, room, fetch, dropped, edits>>

Writes(verb, keys) == {[verb |-> verb, key |-> k] : k \in keys}

\* Mutant: only generators are swept.
OrphansGenerators(t) == (t.seen \cap Generators) \ Refs(t.world)

Orphans(t) == (t.seen \cap Content) \ Refs(t.world)

\* Mutant: the manifest is always updated in place.
ManifestVerbUpdate(t) == "update"

ManifestVerb(t) == IF Self \in t.seen THEN "update" ELSE "create"

\* Mutant: the manifest goes first.
SaveOrderManifestFirst(t) ==
    << Writes(ManifestVerb(t), {Self}),
       Writes("create", t.world.own \ t.seen),
       Writes("delete", Orphans(t)) >>

\* plan_room_writes: the order of the writes.
SaveOrder(t) ==
    << Writes("create", t.world.own \ t.seen),
       Writes(ManifestVerb(t), {Self}),
       Writes("delete", Orphans(t)) >>

\* Mutant: the manifest is deleted last.
WipeOrderManifestLast(t) ==
    << Writes("delete", t.seen \cap Content), Writes("delete", t.seen \cap {Self}) >>

\* delete_room_record: the manifest goes first.
WipeOrder(t) ==
    << Writes("delete", t.seen \cap {Self}), Writes("delete", t.seen \cap Content) >>

Plan(t)   == IF t.wipes THEN WipeOrder(t) ELSE SaveOrder(t)
Planned(t) == UNION {Plan(t)[i] : i \in DOMAIN Plan(t)}
Left(t)    == Planned(t) \ t.done

\* Where a commit may end: everything before what it holds is written.
InOrder(t, done) ==
    \A i, j \in DOMAIN Plan(t) :
        i < j /\ Plan(t)[j] \cap done # {} => Plan(t)[i] \subseteq done

\* A grant that predates the parts: refused before the first batch.
NeedsGrant(t) == \E w \in Planned(t) : w.key \in Parts

Ready(s)   == task[s] # NoTask /\ task[s].todo = <<>>
Allowed(s) == NeedsGrant(task[s]) => s \in Granted

\* The PDS takes a write only where it fits what the repo holds.
Fits(w) == (w.verb = "create") = (w.key \notin Keys)

KeysOf(batch, verbs) == {w.key : w \in {v \in batch : v.verb \in verbs}}

Apply(batch, refs) ==
    /\ records' = (records \cup (KeysOf(batch, {"create"}) \ {Self}))
                  \ KeysOf(batch, {"delete"})
    /\ manifest' = IF Self \in KeysOf(batch, {"create", "update"}) THEN refs
                   ELSE IF Self \in KeysOf(batch, {"delete"}) THEN NoManifest
                   ELSE manifest
    /\ fetch' = [c \in Clients |->
                   IF fetch[c] # NoFetch /\ KeysOf(batch, {"delete"}) # {}
                   THEN [fetch[c] EXCEPT !.crossed = TRUE] ELSE fetch[c]]

\* One applyWrites: every write of the batch lands.  A batch with a write
\* that does not fit lands not at all, and the task fails.
Commit(s) ==
    /\ Ready(s) /\ Allowed(s)
    /\ \E batch \in (SUBSET Left(task[s])) \ {{}} :
         /\ InOrder(task[s], task[s].done \cup batch)
         /\ \A w \in batch : Fits(w)
         /\ Apply(batch, Refs(task[s].world))
         /\ task' = [task EXCEPT ![s].done = @ \cup batch]
    /\ UNCHANGED <<room, dropped, edits>>

\* A wipe that is through goes on to the save of the default; a save that is
\* through pins stored, and retires the recovery marker.
Finish(s) ==
    /\ Ready(s) /\ Allowed(s) /\ Left(task[s]) = {}
    /\ IF task[s].wipes
       THEN /\ task' = [task EXCEPT ![s] = Publish(task[s].world)]
            /\ UNCHANGED <<stored, recovery>>
       ELSE /\ task' = [task EXCEPT ![s] = NoTask]
            /\ stored' = [stored EXCEPT ![s] = task[s].world]
            /\ recovery' = [recovery EXCEPT ![s] = "none"]
    /\ UNCHANGED <<repo, live, past, fetch, dropped, edits>>

\* A request fails, or its answer is lost; the PDS refuses a batch; or the
\* grant refuses the plan.
Fail(s) ==
    /\ task[s] # NoTask
    /\ task' = [task EXCEPT ![s] = NoTask]
    /\ UNCHANGED <<repo, room, fetch, dropped, edits>>

-----------------------------------------------------------------------------

Init ==
    /\ manifest = NoManifest /\ records = {}
    /\ live = [s \in Sessions |-> NoWorld]
    /\ stored = [s \in Sessions |-> NoWorld]
    /\ recovery = [s \in Sessions |-> "none"]
    /\ past = [s \in Sessions |-> <<>>]
    /\ fetch = [c \in Clients |-> NoFetch]
    /\ task = [s \in Sessions |-> NoTask]
    /\ dropped = [s \in Sessions |-> {}] /\ edits = 0

Person(s) ==
    \/ \E x \in Content : PutContent(s, x) \/ TakeOut(s, x)
    \/ TakeOutUnread(s) \/ Load(s) \/ Reset(s) \/ Undo(s)
    \/ StartSave(s) \/ StartReset(s) \/ Close(s)

Next ==
    \/ \E c \in Clients : ReadManifest(c) \/ ReadList(c) \/ Install(c)
    \/ \E s \in Sessions :
          \/ \E cause \in {"Decode", "Unreachable"} : Recover(s, cause)
          \/ Person(s)
          \/ LookUp(s) \/ Commit(s) \/ Finish(s) \/ Fail(s)

Spec == Init /\ [][Next]_vars

-----------------------------------------------------------------------------
(* The properties.                                                         *)

\* The type invariant.  No session holds two decoded contents of one name.
TypeOK ==
    /\ manifest # NoManifest => manifest \subseteq Content
    /\ records \subseteq Content
    /\ live \in [Sessions -> World \cup {NoWorld}]
    /\ stored \in [Sessions -> World \cup {NoWorld}]
    /\ recovery \in [Sessions -> {"none", "Decode", "Unreachable"}]
    /\ past \in [Sessions -> Seq(World)]
    /\ fetch \in [Clients -> Fetch \cup {NoFetch}]
    /\ task \in [Sessions -> Task \cup {NoTask}]
    /\ dropped \in [Sessions -> SUBSET Content] /\ edits \in Nat
    /\ \A s \in Sessions : live[s] # NoWorld =>
          \A x \in live[s].own : Namesakes(x, live[s].own) = {}

\* At every commit boundary of a save or a wipe, whole or cut off by a crash,
\* every ref of the manifest resolves.
RefsResolve == manifest # NoManifest => manifest \subseteq records

\* No batch is refused: a plan creates only what the repo lacks, and updates
\* and deletes only what it holds.
PlansApply ==
    \A s \in Sessions : Ready(s) => \A w \in Left(task[s]) : Fits(w)

\* A save that is through has left the manifest it was asked for, and no
\* record that the manifest does not name.
SavedWhole ==
    \A s \in Sessions :
        Ready(s) /\ ~task[s].wipes /\ Left(task[s]) = {}
            => manifest = Refs(task[s].world) /\ records = manifest

Named == IF manifest = NoManifest THEN {} ELSE manifest \cap records

\* What a saved room holds leaves it only because somebody took it out, or
\* agreed to overwrite it: a save by a build that cannot read it keeps it
\* (#1111, #1175).
Kept ==
    [][\A x \in Named \ Named' : \E s \in Sessions : x \in dropped[s]]_vars

Missing(c) == fetch[c].refs \ fetch[c].found

\* A fetch misses content only where a delete was committed under it.
ReadsWhole ==
    \A c \in Clients : Fetched(c) /\ Missing(c) # {} => fetch[c].crossed

=============================================================================
