------------------------------- MODULE Loading -------------------------------
(***************************************************************************)
(* The records of a session, from the sign-in to the first frame in game:  *)
(* the fetch of each, its retries and what stands in for a record that     *)
(* could not be had, the gate that waits for all of them and for the world *)
(* built from them, the abort of a load that does not end, and the re-read *)
(* a recovery banner offers in game.                                       *)
(*                                                                         *)
(* The backoff of a retry is left out: a retry fires when it will, as the  *)
(* "Retry now" button lets it.  A save is one step here (Journey has its   *)
(* phases), and a record is known by whose it is and by its version.       *)
(***************************************************************************)
EXTENDS Naturals, FiniteSets

CONSTANTS
    Kinds, Room,     \* the record types; which one is that of the room
    Dids, Accounts,  \* worlds one may enter, and whose account one may have
    Kept,            \* Kept[d][k]: what d's server holds to begin with
    Attempts,        \* LoadedRecord::MAX_ATTEMPTS
    Versions,        \* of a record
    None,
    MaxSessions, MaxReloads   \* bounds

Missing  == "missing"
Holdings == Versions \cup {Missing, "unreadable", "no account"}

Causes == {"Decode", "Unreachable"}

\* A record: whose, and which version; Missing is the default seeded by d.
Records == [did : Dids, version : Versions \cup {Missing}]

ASSUME LoadingAssumption ==
    /\ IsFiniteSet(Kinds) /\ Room \in Kinds /\ Accounts \subseteq Dids
    /\ Kept \in [Dids -> [Kinds -> Holdings]]
    /\ Attempts \in [Kinds -> Nat]
    /\ Versions \cap {Missing, "unreadable", "no account", "none", "failure"} = {}
    /\ None \notin Records \cup Causes
    /\ MaxSessions \in Nat /\ MaxReloads \in Nat

VARIABLES
    app,       \* AppState
    session,   \* AtprotoSession: the account
    where,     \* CurrentRoomDid
    live,      \* LiveRoomRecord, LiveAvatarRecord, LiveInventoryRecord
    stored,    \* StoredRoomRecord, ...
    marker,    \* RoomRecordRecovery, ...: the cause
    fetches,   \* RecordFetchTask
    retries,   \* PendingRecordRetry
    heightMap, \* FinishedHeightMap
    ambient,   \* AmbientBakeStarted and AmbientHandle
    compiled,  \* WorldCompiled
    pds,       \* pds[d][k]: what d's server holds
    passed,    \* history: kinds with a fetch under way that have been edited,
               \* or signed out of, since it was asked
    overtaken, \* history: kinds such a fetch has been installed for
    counts     \* history: for the bounds

records == <<live, stored, marker>>
world   == <<heightMap, ambient, compiled>>
history == <<passed, overtaken, counts>>
vars    == <<app, session, where, records, fetches, retries, world, pds, history>>

-----------------------------------------------------------------------------
(* The fetches.                                                            *)

Owner(k) == IF k = Room THEN where ELSE session

Pending(k) == \E f \in fetches \cup retries : f.kind = k

\* A number none of xs has.
Fresh(xs) == CHOOSE n \in 1..Cardinality(xs) + 1 : \A x \in xs : x.n # n

\* spawn_record_fetch.
Asked(k, d, attempt) ==
    [n |-> Fresh(fetches \cup retries), kind |-> k, did |-> d, attempt |-> attempt,
     answer |-> "none"]

\* A request that is answered: by what d's server holds, or with a failure -
\* the directory's, the network's, the server's, or the timeout.
Answer(f) ==
    /\ f.answer = "none"
    /\ \E answer \in {pds[f.did][f.kind], "failure"} :
         fetches' = (fetches \ {f}) \cup {[f EXCEPT !.answer = answer]}
    /\ UNCHANGED <<app, session, where, records, retries, world, pds, history>>

\* The systems of a record type run while loading and, but for the room, in
\* game.
Runs(k) == app = "loading" \/ (app = "in game" /\ k # Room)

\* Mutant: a best-effort record falls back to its default without a word.
CauseButTheLast(f) ==
    CASE f.answer = "unreadable" -> "Decode"
      [] f.answer = "no account" -> "Unreachable"
      [] OTHER -> None

\* on_unrecoverable, clear_recovery: what an outcome leaves as the marker.
Cause(f) ==
    CASE f.answer = "unreadable" -> "Decode"
      [] f.answer \in {"no account", "failure"} -> "Unreachable"
      [] OTHER -> None

\* The record an outcome installs, live and stored.
Outcome(f) ==
    [did |-> f.did, version |-> IF f.answer \in Versions THEN f.answer ELSE Missing]

\* Mutant: a failure is tried again for ever.
EveryTime(f) == f.answer = "failure"

\* A failure that may pass, within the budget of its record.
MayRetry(f) == f.answer = "failure" /\ f.attempt + 1 <= Attempts[f.kind]

\* poll_record_task on a failure that may pass.
Requeue(f) ==
    /\ Runs(f.kind) /\ MayRetry(f)
    /\ fetches' = fetches \ {f}
    /\ retries' = retries \cup {[f EXCEPT !.attempt = @ + 1, !.answer = "none"]}
    /\ UNCHANGED <<app, session, where, records, world, pds, history>>

\* poll_record_task on any other answer: a record, a default for one that is
\* not there, or a default under a marker.
Install(f) ==
    /\ Runs(f.kind)
    /\ f.answer # "none" /\ ~MayRetry(f)
    /\ fetches' = fetches \ {f}
    /\ live' = [live EXCEPT ![f.kind] = Outcome(f)]
    /\ stored' = [stored EXCEPT ![f.kind] = Outcome(f)]
    /\ marker' = [marker EXCEPT ![f.kind] = Cause(f)]
    /\ overtaken' = overtaken \cup ({f.kind} \cap passed)
    /\ UNCHANGED <<app, session, where, retries, world, pds, passed, counts>>

\* Mutant: nothing fires the retries of one record.
RoomsOnly(k) == k = Room /\ Runs(k)

\* The systems that fire the retries of a record, with its polls.
Fires(k) == Runs(k)

\* fire_pending_record_retries; "Retry now".
Fire(r) ==
    /\ Fires(r.kind)
    /\ retries' = retries \ {r}
    /\ fetches' = fetches \cup {Asked(r.kind, r.did, r.attempt)}
    /\ UNCHANGED <<app, session, where, records, world, pds, history>>

-----------------------------------------------------------------------------
(* The session.                                                            *)

Nothing == [k \in Kinds |-> None]

\* The sign-in, and what OnEnter(Loading) starts.
SignIn(a, d) ==
    /\ app = "login" /\ counts.sessions < MaxSessions
    /\ counts' = [counts EXCEPT !.sessions = @ + 1]
    /\ app' = "loading" /\ session' = a /\ where' = d
    /\ fetches' = fetches \cup
         {Asked(k, IF k = Room THEN d ELSE a, 0) : k \in Kinds}
    /\ ambient' = "none"
    /\ passed' = {k \in Kinds : Pending(k)}
    /\ UNCHANGED <<records, retries, heightMap, compiled, pds, overtaken>>

\* Mutant: an abort leaves what was under way.
LeftUnderWay(xs) == xs

\* What an abort leaves of the tasks and timers of the load.
Abandoned(xs) == {}

\* cleanup_on_logout, cleanup_terrain: what is the session's.
SessionGone ==
    /\ app' = "login" /\ session' = None /\ where' = None
    /\ live' = Nothing /\ stored' = Nothing /\ marker' = Nothing
    /\ heightMap' = FALSE /\ compiled' = FALSE
    /\ passed' = {} /\ overtaken' = {}
    /\ UNCHANGED <<pds, counts>>

\* "Back to login": abort_loading_to_login and the two teardowns that watch
\* its flag.
Abort ==
    /\ app = "loading"
    /\ fetches' = Abandoned(fetches) /\ retries' = Abandoned(retries)
    /\ ambient' = "none"
    /\ SessionGone

\* A sign-out: the fetches and timers of a re-read are not among the tasks
\* of the session.
SignOut ==
    /\ app = "in game"
    /\ SessionGone
    /\ UNCHANGED <<fetches, retries, ambient>>

-----------------------------------------------------------------------------
(* The gate.                                                               *)

\* The terrain of the room's record.
BuildTerrain ==
    /\ app = "loading" /\ live[Room] # None /\ ~heightMap
    /\ heightMap' = TRUE
    /\ UNCHANGED <<app, session, where, records, fetches, retries, ambient, compiled, pds, history>>

\* The room's compile, of the record on its terrain.
CompileWorld ==
    /\ app = "loading" /\ live[Room] # None /\ heightMap /\ ~compiled
    /\ compiled' = TRUE
    /\ UNCHANGED <<app, session, where, records, fetches, retries, heightMap, ambient, pds, history>>

\* start_ambient_bake: once per load, over at once when there is no audio.
StartAmbient ==
    /\ app = "loading" /\ live[Room] # None /\ ambient = "none"
    /\ ambient' \in {"started", "ready"}
    /\ UNCHANGED <<app, session, where, records, fetches, retries, heightMap, compiled, pds, history>>

\* poll_ambient_task, or the audio that has been fetched: a sound or none.
AmbientReady ==
    /\ app = "loading" /\ ambient = "started"
    /\ ambient' = "ready"
    /\ UNCHANGED <<app, session, where, records, fetches, retries, heightMap, compiled, pds, history>>

\* check_loading_complete.
EnterGame ==
    /\ app = "loading"
    /\ \A k \in Kinds : live[k] # None /\ stored[k] # None
    /\ heightMap /\ ambient = "ready" /\ compiled
    /\ app' = "in game"
    /\ UNCHANGED <<session, where, records, fetches, retries, world, pds, history>>

-----------------------------------------------------------------------------
(* In game.                                                                *)

Mine(k) == Owner(k) = session

Dirty(k) == live[k] # stored[k]

Edit(k, v) ==
    /\ app = "in game" /\ Mine(k)
    /\ live[k].version # v
    /\ live' = [live EXCEPT ![k].version = v]
    /\ passed' = IF Pending(k) THEN passed \cup {k} ELSE passed
    /\ UNCHANGED <<app, session, where, stored, marker, fetches, retries, world, pds,
                   overtaken, counts>>

\* A save that lands, one over an unread record confirmed.
Save(k) ==
    /\ app = "in game" /\ Mine(k) /\ Dirty(k)
    /\ pds' = [pds EXCEPT ![session][k] = live[k].version]
    /\ stored' = [stored EXCEPT ![k] = live[k]]
    /\ marker' = [marker EXCEPT ![k] = None]
    /\ UNCHANGED <<app, session, where, live, fetches, retries, world, history>>

\* "Try loading it again": offered under a marker, disabled while there is
\* something unsaved; the room's banner has none.
Reload(k) ==
    /\ app = "in game" /\ k # Room /\ marker[k] # None /\ ~Dirty(k)
    /\ counts.reloads < MaxReloads
    /\ counts' = [counts EXCEPT !.reloads = @ + 1]
    /\ fetches' = fetches \cup {Asked(k, session, 0)}
    /\ passed' = IF Pending(k) THEN passed ELSE passed \ {k}
    /\ UNCHANGED <<app, session, where, records, retries, world, pds, overtaken>>

-----------------------------------------------------------------------------

Init ==
    /\ app = "login" /\ session = None /\ where = None
    /\ live = Nothing /\ stored = Nothing /\ marker = Nothing
    /\ fetches = {} /\ retries = {}
    /\ heightMap = FALSE /\ ambient = "none" /\ compiled = FALSE
    /\ pds = Kept
    /\ passed = {} /\ overtaken = {}
    /\ counts = [sessions |-> 0, reloads |-> 0]

Next ==
    \/ \E f \in fetches : Answer(f) \/ Requeue(f) \/ Install(f)
    \/ \E r \in retries : Fire(r)
    \/ \E a \in Accounts, d \in Dids : SignIn(a, d)
    \/ Abort \/ SignOut
    \/ BuildTerrain \/ CompileWorld \/ StartAmbient \/ AmbientReady \/ EnterGame
    \/ \E k \in Kinds : Save(k) \/ Reload(k) \/ \E v \in Versions : Edit(k, v)

\* Every request ends, with its timeout if not before; the systems run every
\* frame, a timer among them fires, and the world gets built.
Fairness ==
    /\ \A k \in Kinds :
        /\ WF_vars(\E f \in fetches : f.kind = k /\ Answer(f))
        /\ WF_vars(\E f \in fetches : f.kind = k /\ (Requeue(f) \/ Install(f)))
        /\ WF_vars(\E r \in retries : r.kind = k /\ Fire(r))
    /\ WF_vars(BuildTerrain) /\ WF_vars(CompileWorld)
    /\ WF_vars(StartAmbient) /\ WF_vars(AmbientReady) /\ WF_vars(EnterGame)

Spec == Init /\ [][Next]_vars

FairSpec == Spec /\ Fairness

-----------------------------------------------------------------------------
(* Properties.                                                             *)

Tasks == [n : Nat, kind : Kinds, did : Dids, attempt : Nat,
          answer : Holdings \cup {"none", "failure"}]

TypeOK ==
    /\ app \in {"login", "loading", "in game"}
    /\ session \in Accounts \cup {None} /\ where \in Dids \cup {None}
    /\ live \in [Kinds -> Records \cup {None}]
    /\ stored \in [Kinds -> Records \cup {None}]
    /\ marker \in [Kinds -> Causes \cup {None}]
    /\ fetches \subseteq Tasks /\ retries \subseteq Tasks
    /\ \A f \in fetches \cup retries : f.attempt <= Attempts[f.kind]
    /\ heightMap \in BOOLEAN /\ compiled \in BOOLEAN
    /\ ambient \in {"none", "started", "ready"}
    /\ pds \in [Dids -> [Kinds -> Holdings]]
    /\ passed \subseteq Kinds /\ overtaken \subseteq Kinds
    /\ counts \in [sessions : Nat, reloads : Nat]

\* What a clean Missing answer and a read record leave as stored.
Held(k) == [did |-> Owner(k), version |-> pds[Owner(k)][k]]

\* What the client takes for the stored record of a world or an account is
\* that one, as its server holds it, or the record carries the marker that
\* makes the next save ask: through failed and repeated attempts, aborted
\* loads, saves and re-reads - but for a re-read that came in late.
StoredIsHeldOrMarked ==
    \A k \in Kinds \ overtaken : stored[k] # None =>
        /\ stored[k].did = Owner(k)
        /\ marker[k] # None \/ stored[k] = Held(k)

\* Only a re-read is under way in game, and a room has none: the systems that
\* poll a room do not run there.
NoFetchIsStranded ==
    app = "in game" =>
        /\ ~Pending(Room)
        /\ counts.reloads = 0 => fetches \cup retries = {}

\* A load ends, whatever the servers answer or fail to answer; and so does a
\* re-read, its retries being fired in game as well.
FetchingEnds ==
    /\ app = "loading" ~> app # "loading"
    /\ \A k \in Kinds : app = "in game" /\ Pending(k) ~> ~Pending(k) \/ app # "in game"

\* logout.rs: what a session has in flight does not land in the next one.
OwnRecords == \A k \in Kinds : live[k] # None => live[k].did = Owner(k)
=============================================================================
