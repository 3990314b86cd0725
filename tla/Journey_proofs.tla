---------------------------- MODULE Journey_proofs ----------------------------
(***************************************************************************)
(* Proofs about Journey.                                                   *)
(***************************************************************************)
EXTENDS Journey, FiniteSetTheorems, TLAPS

-----------------------------------------------------------------------------
(* The invariants.                                                         *)

\* A record of the account's is shown and kept as a value the account may
\* have, and so does a fetch of its room bring one.
OwnValues ==
    /\ app = "in game" =>
         /\ where \in Worlds
         /\ \A k \in Kinds : Mine(k) => live[k] \in Own /\ stored[k] \in Own
    /\ \A f \in fetches : f.state \in {"read", "undecodable"} =>
         f.record \in Values /\ (f.to = "home" => f.record \in Own)

TypeInv == TypeOK /\ IsFiniteSet(saves) /\ IsFiniteSet(fetches) /\ OwnValues

\* What has been written, and what has been read, the server has had.
HeldInv ==
    /\ \A k \in Kinds : pds[k] \in held[k]
    /\ \A s \in saves : s.state = "written" => s.value \in held[s.kind]
    /\ \A f \in fetches : f.state = "read" =>
         IF f.to = "home" THEN f.record \in held[Room] ELSE f.record = Host
    /\ StoredIsOfThisWorld

\* A save the client polls shows in the status, unless a reset has been there.
OneInv ==
    /\ \A s \in Tasks : publishing[s.kind] \/ (s.kind = Room /\ counts.reset)
    /\ OneSaveAtATime

Inv == TypeInv /\ HeldInv /\ OneInv

-----------------------------------------------------------------------------
(* The data.                                                               *)

LEMMA NoneFacts ==
    /\ None \notin Values /\ Host \notin Own /\ Own \subseteq Values
    /\ Default \in Own /\ Host \in Values /\ Versions \subseteq Own
    /\ Worlds = {"home", "away"}
BY JourneyAssumption DEF Values, Own, Versions, Worlds

LEMMA ActionType ==
    ASSUME NEW action \in Actions
    PROVE  /\ At(action) \subseteq Kinds
           /\ action.to \in Worlds => At(action) = {Room}
           /\ action.to \in Worlds \/ action.to = "login" \/ action.to = "desktop"
BY JourneyAssumption DEF Actions, At

\* There is a number that no member of a finite set has.
LEMMA FreshType ==
    ASSUME NEW xs, IsFiniteSet(xs)
    PROVE  Fresh(xs) \in Nat
<1> DEFINE ns == {x.n : x \in xs}
           bound == Cardinality(xs) + 1
<1>1. Cardinality(xs) \in Nat /\ IsFiniteSet(ns) /\ Cardinality(ns) <= Cardinality(xs)
  <2>1. [x \in xs |-> x.n] \in Surjection(xs, ns)
    BY DEF Surjection
  <2>2. QED  BY <2>1, FS_Surjection, FS_CardinalityType
<1>2. Cardinality(ns) \in Nat
  BY <1>1, FS_CardinalityType
<1>3. IsFiniteSet(1..bound) /\ Cardinality(1..bound) = bound
  <2>1. 1 \in Int /\ bound \in Int /\ 1 <= bound /\ bound - 1 + 1 = bound
    BY <1>1
  <2>2. QED  BY <2>1, FS_Interval
<1>4. ~ (1..bound \subseteq ns)
  <2>1. SUFFICES ASSUME 1..bound \subseteq ns PROVE FALSE
    OBVIOUS
  <2>2. Cardinality(1..bound) <= Cardinality(ns)
    BY <1>1, <2>1, FS_Subset
  <2>3. QED  BY <1>1, <1>2, <1>3, <2>2
<1>5. \E n \in 1..bound : \A x \in xs : x.n # n
  BY <1>4
<1>6. Fresh(xs) \in 1..bound
  BY <1>5 DEF Fresh
<1>7. QED  BY <1>1, <1>6

LEMMA WriteType ==
    ASSUME TypeInv, NEW k \in Kinds, NEW v \in Own, NEW reset \in BOOLEAN
    PROVE  /\ Write(k, v, reset) \in Writes
           /\ Write(k, v, reset).kind = k /\ Write(k, v, reset).state = "sent"
           /\ Write(k, v, reset).polled
<1>1. Fresh(saves) \in Nat
  BY FreshType DEF TypeInv
<1>2. QED  BY <1>1 DEF Write, Writes

\* What is unsaved is a value of the account's.
LEMMA DirtyType ==
    ASSUME TypeInv, app = "in game", NEW k \in Dirty
    PROVE  k \in Kinds /\ live[k] \in Own
BY DEF TypeInv, OwnValues, Dirty

\* A task keeps its record when its state or its polling changes.
LEMMA MovedType ==
    ASSUME NEW s \in Writes
    PROVE  /\ \A state \in {"sent", "deleted", "written"} :
                /\ [s EXCEPT !.state = state] \in Writes
                /\ [s EXCEPT !.state = state].kind = s.kind
                /\ [s EXCEPT !.state = state].value = s.value
                /\ [s EXCEPT !.state = state].state = state
                /\ [s EXCEPT !.state = state].polled = s.polled
           /\ [s EXCEPT !.polled = FALSE] \in Writes
           /\ [s EXCEPT !.polled = FALSE].kind = s.kind
           /\ [s EXCEPT !.polled = FALSE].value = s.value
           /\ [s EXCEPT !.polled = FALSE].state = s.state
           /\ ~[s EXCEPT !.polled = FALSE].polled
BY DEF Writes

LEMMA CountsType ==
    ASSUME TypeOK, NEW n \in Nat
    PROVE  /\ [counts EXCEPT !.saves = @ + n] \in
                [saves : Nat, trips : Nat, sessions : Nat, reset : BOOLEAN]
           /\ [counts EXCEPT !.saves = @ + n, !.reset = TRUE] \in
                [saves : Nat, trips : Nat, sessions : Nat, reset : BOOLEAN]
           /\ [counts EXCEPT !.trips = @ + n] \in
                [saves : Nat, trips : Nat, sessions : Nat, reset : BOOLEAN]
           /\ [counts EXCEPT !.sessions = @ + n] \in
                [saves : Nat, trips : Nat, sessions : Nat, reset : BOOLEAN]
           /\ [counts EXCEPT !.reset = FALSE] \in
                [saves : Nat, trips : Nat, sessions : Nat, reset : BOOLEAN]
           /\ [counts EXCEPT !.saves = @ + n].reset = counts.reset
           /\ [counts EXCEPT !.saves = @ + n, !.reset = TRUE].reset
           /\ [counts EXCEPT !.trips = @ + n].reset = counts.reset
           /\ [counts EXCEPT !.sessions = @ + n].reset = counts.reset
<1>1. counts \in [saves : Nat, trips : Nat, sessions : Nat, reset : BOOLEAN]
  BY DEF TypeOK
<1>2. \A m \in Nat : m + n \in Nat
  OBVIOUS
<1>3. QED  BY <1>1, <1>2

-----------------------------------------------------------------------------
(* Types.                                                                  *)

LEMMA TypeInit == Init => TypeInv
<1> SUFFICES ASSUME Init PROVE TypeInv
  OBVIOUS
<1>1. 1 \in Versions /\ 1 \in Own /\ 1 \in Values
  BY JourneyAssumption DEF Versions, Own, Values
<1>2. TypeOK
  BY <1>1, JourneyAssumption DEF Init, TypeOK, Worlds
<1>3. IsFiniteSet(saves) /\ IsFiniteSet(fetches)
  BY FS_EmptySet DEF Init
<1>4. OwnValues
  BY <1>1 DEF Init, OwnValues, Worlds
<1>5. QED  BY <1>2, <1>3, <1>4 DEF TypeInv

LEMMA EndSessionType ==
    ASSUME TypeInv, NEW to \in {"login", "closed"}, NEW asked, EndSession(to, asked)
    PROVE  TypeInv'
<1> DEFINE kept == {t \in saves : t.state # "written"}
           unpolled(t) == [t EXCEPT !.polled = FALSE]
<1>t. TypeOK
  BY DEF TypeInv
<1>1. saves' = {unpolled(t) : t \in kept}
  BY DEF EndSession
<1>2. \A t \in kept : unpolled(t) \in Writes
  BY <1>t, MovedType DEF TypeOK
<1>3. saves' \subseteq Writes
  BY <1>1, <1>2
<1>4. IsFiniteSet(saves')
  <2> HIDE DEF unpolled
  <2>1. IsFiniteSet(kept)
    BY FS_Subset DEF TypeInv
  <2> HIDE DEF kept
  <2>2. [t \in kept |-> unpolled(t)] \in Surjection(kept, saves')
    BY <1>1 DEF Surjection
  <2>3. QED  BY <2>1, <2>2, FS_Surjection
<1>5. IsFiniteSet(fetches') /\ fetches' = {}
  BY FS_EmptySet DEF EndSession
<1>6. lost' \subseteq Kinds
  BY <1>t DEF TypeOK, EndSession, Lose
<1>7. counts' \in [saves : Nat, trips : Nat, sessions : Nat, reset : BOOLEAN]
  BY <1>t, CountsType DEF EndSession
<1>8. TypeOK'
  BY <1>t, <1>3, <1>5, <1>6, <1>7 DEF TypeOK, EndSession, TravelGone, remote
<1>9. OwnValues'
  BY <1>5 DEF OwnValues, EndSession
<1>10. QED  BY <1>4, <1>5, <1>8, <1>9 DEF TypeInv

LEMMA BeginTravelType ==
    ASSUME TypeInv, NEW d \in Worlds, NEW asked \in SUBSET {Room}, BeginTravel(d, asked)
    PROVE  TypeInv'
<1> DEFINE f == [n |-> Fresh(fetches), to |-> d, state |-> "asked", record |-> None]
<1>t. TypeOK
  BY DEF TypeInv
<1>1. Fresh(fetches) \in Nat
  BY FreshType DEF TypeInv
<1>2. f \in Fetches /\ f.state = "asked"
  BY <1>1 DEF Fetches
<1>3. fetches' = fetches \cup {f}
  BY DEF BeginTravel
<1> HIDE DEF f
<1>4. IsFiniteSet(fetches') /\ IsFiniteSet(saves')
  BY <1>3, FS_AddElement DEF TypeInv, BeginTravel
<1>5. fetches' \subseteq Fetches
  BY <1>t, <1>2, <1>3 DEF TypeOK
<1>6. [to |-> d, phase |-> "fetching"] \in [to : Worlds, phase : {"fetching", "building"}]
  OBVIOUS
<1>7. TypeOK'
  BY <1>t, <1>5, <1>6 DEF TypeOK, BeginTravel, records, remote
<1>8. OwnValues'
  BY <1>2, <1>3 DEF TypeInv, OwnValues, BeginTravel, Mine, records
<1>9. QED  BY <1>4, <1>7, <1>8 DEF TypeInv

LEMMA ProceedType ==
    ASSUME TypeInv, guard # None, NEW asked \in {{}, At(guard.action)}, Proceed(asked)
    PROVE  TypeInv'
<1>1. guard.action \in Actions
  BY DEF TypeInv, TypeOK
<1>2. CASE guard.action.to \in Worlds
  <2>1. guard.action.to # "login" /\ guard.action.to # "desktop"
    BY <1>2, NoneFacts
  <2>2. asked \in SUBSET {Room}
    BY <1>1, <1>2, ActionType
  <2>3. BeginTravel(guard.action.to, asked)
    BY <2>1 DEF Proceed
  <2>4. QED  BY <1>2, <2>2, <2>3, BeginTravelType
<1>3. CASE guard.action.to \notin Worlds
  BY <1>3, EndSessionType DEF Proceed
<1>4. QED  BY <1>2, <1>3

LEMMA TypeStep ==
    ASSUME TypeInv, [Next]_vars
    PROVE  TypeInv'
<1>t. TypeOK /\ IsFiniteSet(saves) /\ IsFiniteSet(fetches) /\ OwnValues
  BY DEF TypeInv
<1> USE DEF TypeInv
<1>1. CASE \E k \in Kinds, v \in Versions : Edit(k, v)
  <2>1. PICK k \in Kinds, v \in Versions : Edit(k, v)
    BY <1>1
  <2>2. v \in Own /\ v \in Values
    BY NoneFacts
  <2>3. live' = [live EXCEPT ![k] = v] /\ onTheWay' = Changed(k)
    BY <2>1 DEF Edit
  <2>4. live' \in [Kinds -> Values \cup {None}] /\ onTheWay' \subseteq {Room}
    BY <1>t, <2>2, <2>3 DEF TypeOK, Changed
  <2>5. TypeOK'
    BY <1>t, <2>1, <2>4 DEF TypeOK, Edit, trip, remote
  <2>6. OwnValues'
    BY <1>t, <2>1, <2>2, <2>3 DEF TypeOK, OwnValues, Edit, Mine, trip
  <2>7. QED  BY <1>t, <2>1, <2>5, <2>6 DEF Edit, trip
<1>2. CASE \E k \in Kinds : Revert(k)
  <2>1. PICK k \in Kinds : Revert(k)
    BY <1>2
  <2>2. live' = [live EXCEPT ![k] = stored[k]]
    BY <2>1 DEF Revert
  <2>3. live' \in [Kinds -> Values \cup {None}]
    BY <1>t, <2>2 DEF TypeOK
  <2>4. TypeOK'
    BY <1>t, <2>1, <2>3 DEF TypeOK, Revert, trip, remote, history
  <2>5. OwnValues'
    BY <1>t, <2>1, <2>2 DEF TypeOK, OwnValues, Revert, Mine, trip
  <2>6. QED  BY <1>t, <2>1, <2>4, <2>5 DEF Revert, trip
<1>3. CASE \E k \in Kinds : Save(k)
  <2>1. PICK k \in Kinds : Save(k)
    BY <1>3
  <2> DEFINE w == Write(k, live[k], FALSE)
  <2>2. live[k] \in Own
    BY <2>1, DirtyType DEF Save
  <2>3. w \in Writes
    BY <2>2, WriteType
  <2>4. saves' = saves \cup {w}
    BY <2>1 DEF Save
  <2> HIDE DEF w
  <2>5. counts' \in [saves : Nat, trips : Nat, sessions : Nat, reset : BOOLEAN]
    BY <1>t, <2>1, CountsType DEF Save
  <2>6. TypeOK'
    BY <1>t, <2>1, <2>3, <2>4, <2>5 DEF TypeOK, Save, trip, remote, records
  <2>7. OwnValues'
    BY <1>t, <2>1 DEF OwnValues, Save, Mine, trip, records
  <2>8. IsFiniteSet(saves') /\ IsFiniteSet(fetches')
    BY <1>t, <2>1, <2>4, FS_AddElement DEF Save, trip
  <2>9. QED  BY <2>6, <2>7, <2>8
<1>4. CASE ResetStored
  <2> DEFINE w == Write(Room, Default, TRUE)
  <2>1. w \in Writes
    BY WriteType, NoneFacts, JourneyAssumption
  <2>2. saves' = saves \cup {w}
    BY <1>4 DEF ResetStored
  <2> HIDE DEF w
  <2>3. counts' \in [saves : Nat, trips : Nat, sessions : Nat, reset : BOOLEAN]
    BY <1>t, <1>4, CountsType DEF ResetStored
  <2>4. live' = [live EXCEPT ![Room] = Default] /\ onTheWay' = Changed(Room)
    BY <1>4 DEF ResetStored
  <2>5. live' \in [Kinds -> Values \cup {None}] /\ onTheWay' \subseteq {Room}
    BY <1>t, <2>4, NoneFacts DEF TypeOK, Changed
  <2>6. TypeOK'
    BY <1>t, <1>4, <2>1, <2>2, <2>3, <2>5 DEF TypeOK, ResetStored, trip, remote
  <2>7. OwnValues'
    BY <1>t, <1>4, <2>4, NoneFacts DEF TypeOK, OwnValues, ResetStored, Mine, trip
  <2>8. IsFiniteSet(saves') /\ IsFiniteSet(fetches')
    BY <1>t, <1>4, <2>2, FS_AddElement DEF ResetStored, trip
  <2>9. QED  BY <2>6, <2>7, <2>8
<1>5. CASE \E s \in saves : Commit(s)
  <2>1. PICK s \in saves : Commit(s)
    BY <1>5
  <2>2. s \in Writes /\ s.kind \in Kinds /\ s.value \in Own
    BY <1>t DEF TypeOK, Writes
  <2>3. PICK v \in Own : /\ pds' = [pds EXCEPT ![s.kind] = v]
                        /\ held' = [held EXCEPT ![s.kind] = @ \cup {v}]
    BY <2>1, <2>2, NoneFacts DEF Commit
  <2>4. PICK new \in SUBSET Writes : saves' = (saves \ {s}) \cup new /\ IsFiniteSet(new)
    <3> DEFINE deleted == {[s EXCEPT !.state = "deleted"]}
               written == {[s EXCEPT !.state = "written"]}
    <3>1. \/ saves' = (saves \ {s}) \cup deleted
          \/ saves' = (saves \ {s}) \cup written
          \/ saves' = (saves \ {s}) \cup {}
      BY <2>1 DEF Commit
    <3>2. deleted \in SUBSET Writes /\ written \in SUBSET Writes
      BY <2>2, MovedType
    <3>3. IsFiniteSet(deleted) /\ IsFiniteSet(written) /\ IsFiniteSet({})
      BY FS_EmptySet, FS_Singleton
    <3> HIDE DEF deleted, written
    <3>4. QED  BY <3>1, <3>2, <3>3
  <2>5. pds' \in [Kinds -> Own] /\ held' \in [Kinds -> SUBSET Own]
    BY <1>t, <2>2, <2>3 DEF TypeOK
  <2>6. UNCHANGED <<app, where, records, publishing, trip, history>>
    BY <2>1 DEF Commit
  <2>7. TypeOK'
    BY <1>t, <2>4, <2>5, <2>6 DEF TypeOK, records, trip, history
  <2>8. OwnValues'
    BY <1>t, <2>6 DEF OwnValues, Mine, records, trip
  <2>9. IsFiniteSet(saves') /\ IsFiniteSet(fetches')
    BY <1>t, <2>4, <2>6, FS_RemoveElement, FS_Union DEF trip
  <2>10. QED  BY <2>7, <2>8, <2>9
<1>6. CASE \E s \in saves : PollSave(s)
  <2>1. PICK s \in saves : PollSave(s)
    BY <1>6
  <2>2. s \in Writes /\ s.kind \in Kinds /\ s.value \in Own /\ s.value \in Values
    BY <1>t, NoneFacts DEF TypeOK, Writes
  <2>3. PICK new \in SUBSET Writes : saves' = (saves \ {s}) \cup new /\ IsFiniteSet(new)
    <3> DEFINE unpolled == {[s EXCEPT !.polled = FALSE]}
    <3>1. saves' = (saves \ {s}) \cup unpolled \/ saves' = (saves \ {s}) \cup {}
      BY <2>1 DEF PollSave
    <3>2. unpolled \in SUBSET Writes
      BY <2>2, MovedType
    <3>3. IsFiniteSet(unpolled) /\ IsFiniteSet({})
      BY FS_EmptySet, FS_Singleton
    <3> HIDE DEF unpolled
    <3>4. QED  BY <3>1, <3>2, <3>3
  <2>4. \/ stored' = stored
        \/ ~Stale(s) /\ stored' = [stored EXCEPT ![s.kind] = s.value]
    BY <2>1 DEF PollSave, Pinned
  <2>5. /\ marker' = marker \/ marker' = [marker EXCEPT ![s.kind] = FALSE]
        /\ publishing' = publishing \/ publishing' = [publishing EXCEPT ![s.kind] = FALSE]
    BY <2>1 DEF PollSave
  <2>6. onTheWay' = Changed(s.kind) \/ onTheWay' = onTheWay
    BY <2>1 DEF PollSave
  <2>7. /\ stored' \in [Kinds -> Values \cup {None}] /\ marker' \in [Kinds -> BOOLEAN]
        /\ publishing' \in [Kinds -> BOOLEAN] /\ onTheWay' \subseteq {Room}
    BY <1>t, <2>2, <2>4, <2>5, <2>6 DEF TypeOK, Changed
  <2>8. /\ app = "in game" /\ app' = app /\ where' = where /\ live' = live
        /\ contact' = contact /\ guard' = guard /\ travel' = travel /\ fetches' = fetches
        /\ pds' = pds /\ held' = held /\ agreed' = agreed /\ lost' = lost /\ counts' = counts
    BY <2>1 DEF PollSave, trip, remote
  <2>9. TypeOK'
    BY <1>t, <2>3, <2>7, <2>8 DEF TypeOK
  <2>10. OwnValues'
    BY <1>t, <2>2, <2>4, <2>8 DEF TypeOK, OwnValues, Mine
  <2>11. IsFiniteSet(saves') /\ IsFiniteSet(fetches')
    BY <1>t, <2>3, <2>8, FS_RemoveElement, FS_Union
  <2>12. QED  BY <2>9, <2>10, <2>11
<1>7. CASE \E d \in Worlds : Touch(d)
  <2>1. counts' \in [saves : Nat, trips : Nat, sessions : Nat, reset : BOOLEAN]
    BY <1>t, <1>7, CountsType DEF Touch, AsksForTrip
  <2>2. TypeOK'
    BY <1>t, <1>7, <2>1 DEF TypeOK, Touch, records, remote
  <2>3. OwnValues'
    BY <1>t, <1>7 DEF OwnValues, Touch, Mine, records
  <2>4. QED  BY <1>t, <1>7, <2>2, <2>3 DEF Touch
<1>8. CASE \E d \in Worlds : SignIn(d)
  <2>1. PICK d \in Worlds : SignIn(d)
    BY <1>8
  <2>2. RoomOf(d) \in Values /\ (d = "home" => RoomOf(d) \in Own)
    BY <1>t, NoneFacts, JourneyAssumption DEF TypeOK, RoomOf
  <2>3. /\ stored' = [k \in Kinds |-> IF marker'[k] THEN Default
                                      ELSE IF k = Room THEN RoomOf(d) ELSE pds[k]]
        /\ live' = stored' /\ where' = d /\ app' = "in game" /\ marker' \in [Kinds -> BOOLEAN]
        /\ fetches' = fetches /\ saves' = saves
    BY <2>1 DEF SignIn, trip
  <2>4. stored' \in [Kinds -> Values \cup {None}]
    BY <1>t, <2>2, <2>3, NoneFacts DEF TypeOK
  <2>5. \A k \in Kinds : (k = Room => d = "home") => stored'[k] \in Own
    BY <1>t, <2>2, <2>3, NoneFacts DEF TypeOK
  <2>6. counts' \in [saves : Nat, trips : Nat, sessions : Nat, reset : BOOLEAN]
    BY <1>t, <2>1, CountsType DEF SignIn
  <2>7. TypeOK'
    BY <1>t, <2>1, <2>3, <2>4, <2>6 DEF TypeOK, SignIn, trip, remote
  <2>8. OwnValues'
    BY <1>t, <2>3, <2>5 DEF OwnValues, Mine
  <2>9. QED  BY <1>t, <2>3, <2>7, <2>8
<1>9. CASE RaiseGuard
  <2>1. contact \in Worlds
    BY <1>t, <1>9 DEF TypeOK, RaiseGuard
  <2>2. Asking([to |-> contact]) \in [action : Actions, phase : {"prompt", "publishing"}]
    BY <2>1 DEF Asking, Actions
  <2>3. TypeOK'
    BY <1>t, <1>9, <2>2 DEF TypeOK, RaiseGuard, records, remote, history
  <2>4. OwnValues'
    BY <1>t, <1>9 DEF OwnValues, RaiseGuard, Mine, records
  <2>5. QED  BY <1>t, <1>9, <2>3, <2>4 DEF RaiseGuard
<1>10. CASE CloseWindow
  BY <1>10, EndSessionType DEF CloseWindow
<1>11. CASE \E action \in Actions : Ask(action)
  <2>1. PICK action \in Actions : Ask(action)
    BY <1>11
  <2>2. Asking(action) \in [action : Actions, phase : {"prompt", "publishing"}]
    BY DEF Asking
  <2>3. counts' \in [saves : Nat, trips : Nat, sessions : Nat, reset : BOOLEAN]
    BY <1>t, <2>1, CountsType DEF Ask, AsksForTrip, TypeOK
  <2>4. TypeOK'
    BY <1>t, <2>1, <2>2, <2>3 DEF TypeOK, Ask, records, remote
  <2>5. OwnValues'
    BY <1>t, <2>1 DEF OwnValues, Ask, Mine, records
  <2>6. QED  BY <1>t, <2>1, <2>4, <2>5 DEF Ask
<1>12. ASSUME NEW phase \in {"prompt", "publishing"}, guard # None, InPhase(phase)
       PROVE  TypeInv'
  <2>1. guard' \in [action : Actions, phase : {"prompt", "publishing"}]
    BY <1>t, <1>12 DEF TypeOK, InPhase
  <2>2. TypeOK'
    BY <1>t, <1>12, <2>1 DEF TypeOK, InPhase, records, remote, history
  <2>3. OwnValues'
    BY <1>t, <1>12 DEF OwnValues, InPhase, Mine, records
  <2>4. QED  BY <1>t, <1>12, <2>2, <2>3 DEF InPhase
<1>13. CASE GuardDecides
  BY <1>12, <1>13, ProceedType DEF GuardDecides
<1>14. CASE GuardSaves
  <2> DEFINE ks == Dirty \cap At(guard.action)
             w(k) == Write(k, live[k], FALSE)
             new == {w(k) : k \in ks}
  <2>1. app = "in game" /\ guard # None
    BY <1>14 DEF GuardSaves, Drawn
  <2>2. ks \subseteq Kinds /\ \A k \in ks : w(k) \in Writes
    BY <2>1, DirtyType, WriteType
  <2>3. IsFiniteSet(ks) /\ Cardinality(ks) \in Nat
    BY <2>2, JourneyAssumption, FS_Subset, FS_CardinalityType
  <2>4. saves' = saves \cup new
    BY <1>14 DEF GuardSaves
  <2>5. counts' = [counts EXCEPT !.saves = @ + Cardinality(ks)]
    BY <1>14 DEF GuardSaves
  <2>6. counts' \in [saves : Nat, trips : Nat, sessions : Nat, reset : BOOLEAN]
    BY <1>t, <2>3, <2>5, CountsType
  <2>7. /\ publishing' = [k \in Kinds |-> publishing[k] \/ k \in ks]
        /\ guard' = [guard EXCEPT !.phase = "publishing"]
    BY <1>14 DEF GuardSaves
  <2>8. /\ app' = app /\ where' = where /\ live' = live /\ stored' = stored /\ marker' = marker
        /\ contact' = contact /\ travel' = travel /\ fetches' = fetches /\ pds' = pds
        /\ held' = held /\ agreed' = agreed /\ onTheWay' = onTheWay /\ lost' = lost
    BY <1>14 DEF GuardSaves, records, remote
  <2> HIDE DEF ks, w
  <2>9. IsFiniteSet(new)
    <3>1. [k \in ks |-> w(k)] \in Surjection(ks, new)
      BY DEF Surjection
    <3>2. QED  BY <2>3, <3>1, FS_Surjection
  <2>10. IsFiniteSet(saves') /\ IsFiniteSet(fetches')
    BY <1>t, <2>4, <2>8, <2>9, FS_Union
  <2>11. saves' \subseteq Writes
    BY <1>t, <2>2, <2>4 DEF TypeOK
  <2>12. publishing' \in [Kinds -> BOOLEAN]
    BY <2>7
  <2>13. guard' \in [action : Actions, phase : {"prompt", "publishing"}]
    BY <1>t, <2>1, <2>7 DEF TypeOK
  <2>14. TypeOK'
    BY <1>t, <2>6, <2>8, <2>11, <2>12, <2>13 DEF TypeOK
  <2>15. OwnValues'
    BY <1>t, <2>8 DEF OwnValues, Mine
  <2>16. QED  BY <2>10, <2>14, <2>15
<1>15. CASE GuardDiscards
  BY <1>15, ProceedType DEF GuardDiscards, Drawn
<1>16. CASE GuardCloses
  <2>1. TypeOK'
    BY <1>t, <1>16 DEF TypeOK, GuardCloses, records, remote, history
  <2>2. OwnValues'
    BY <1>t, <1>16 DEF OwnValues, GuardCloses, Mine, records
  <2>3. QED  BY <1>t, <1>16, <2>1, <2>2 DEF GuardCloses
<1>17. CASE \E f \in fetches : FetchAnswers(f)
  <2>1. PICK f \in fetches : FetchAnswers(f)
    BY <1>17
  <2>2. PICK state \in {"read", "undecodable", "failed"} :
          fetches' = (fetches \ {f}) \cup
            {[f EXCEPT !.state = state,
                       !.record = CASE state = "read" -> RoomOf(f.to)
                                    [] state = "undecodable" -> Default
                                    [] OTHER -> None]}
    BY <2>1 DEF FetchAnswers
  <2> DEFINE record == CASE state = "read" -> RoomOf(f.to)
                         [] state = "undecodable" -> Default
                         [] OTHER -> None
             g == [f EXCEPT !.state = state, !.record = record]
  <2>3. f \in Fetches /\ f.to \in Worlds
    BY <1>t DEF TypeOK, Fetches
  <2>4. RoomOf(f.to) \in Values /\ (f.to = "home" => RoomOf(f.to) \in Own)
    BY <1>t, NoneFacts, JourneyAssumption DEF TypeOK, RoomOf
  <2>5. /\ record \in Values \cup {None}
        /\ state # "failed" => record \in Values /\ (f.to = "home" => record \in Own)
    BY <2>4, NoneFacts
  <2> HIDE DEF record
  <2>6. g \in Fetches /\ g.to = f.to /\ g.state = state /\ g.record = record
    BY <2>3, <2>5 DEF Fetches
  <2>7. fetches' = (fetches \ {f}) \cup {g}
    BY <2>2 DEF record
  <2> HIDE DEF g
  <2>8. fetches' \subseteq Fetches /\ IsFiniteSet(fetches')
    BY <1>t, <2>6, <2>7, FS_RemoveElement, FS_AddElement DEF TypeOK
  <2>9. TypeOK'
    BY <1>t, <2>1, <2>8 DEF TypeOK, FetchAnswers, records, remote, history
  <2>10. OwnValues'
    BY <1>t, <2>1, <2>5, <2>6, <2>7 DEF OwnValues, FetchAnswers, Mine, records
  <2>11. QED  BY <1>t, <2>1, <2>8, <2>9, <2>10 DEF FetchAnswers
<1>18. CASE \E f \in fetches : PollTravel(f)
  <2>1. PICK f \in fetches : PollTravel(f)
    BY <1>18
  <2>2. f \in Fetches /\ f.to \in Worlds /\ f.record \in Values \cup {None}
        /\ f.state \in {"read", "undecodable", "failed"}
    BY <1>t, <2>1 DEF TypeOK, Fetches, PollTravel
  <2>3. fetches' = fetches \ {f} /\ fetches' \subseteq Fetches /\ IsFiniteSet(fetches')
    BY <1>t, <2>1, FS_RemoveElement DEF TypeOK, PollTravel
  <2>4. CASE f.state = "failed" \/ ~Answers(f)
    <3>1. /\ saves' = saves
          /\ app' = app /\ where' = where /\ live' = live /\ stored' = stored /\ marker' = marker
          /\ publishing' = publishing /\ contact' = contact /\ guard' = guard /\ pds' = pds
          /\ held' = held /\ lost' = lost /\ counts' = counts
          /\ travel' = travel \/ travel' = None
          /\ agreed' = agreed \/ agreed' = {}
          /\ onTheWay' = onTheWay \/ onTheWay' = {}
      BY <2>1, <2>4 DEF PollTravel, Stays, records, remote, history
    <3>2. TypeOK'
      BY <1>t, <2>3, <3>1 DEF TypeOK
    <3>3. OwnValues'
      BY <1>t, <2>3, <3>1 DEF OwnValues, Mine
    <3>4. QED  BY <1>t, <2>3, <3>1, <3>2, <3>3
  <2>5. CASE f.state # "failed" /\ Answers(f)
    <3>1. /\ saves' = saves /\ app' = app /\ where' = travel.to
          /\ live' = [live EXCEPT ![Room] = f.record]
          /\ stored' = [stored EXCEPT ![Room] = f.record]
          /\ marker' = [marker EXCEPT ![Room] = f.state = "undecodable"]
          /\ travel' = [travel EXCEPT !.phase = "building"]
          /\ publishing' = publishing /\ contact' = contact /\ guard' = guard /\ pds' = pds
          /\ held' = held /\ counts' = counts
          /\ agreed' = agreed \ {Room} /\ onTheWay' = onTheWay \ {Room}
          /\ Lose({Room}, agreed)
      BY <2>1, <2>5 DEF PollTravel, remote
    <3>2. lost' \subseteq Kinds
      BY <1>t, <3>1, JourneyAssumption DEF TypeOK, Lose
    <3>3. travel # None /\ travel.to = f.to
      BY <2>5 DEF Answers
    <3>4. travel' \in [to : Worlds, phase : {"fetching", "building"}]
      BY <1>t, <3>1, <3>3 DEF TypeOK
    <3>5. /\ live' \in [Kinds -> Values \cup {None}] /\ stored' \in [Kinds -> Values \cup {None}]
          /\ marker' \in [Kinds -> BOOLEAN]
      BY <1>t, <2>2, <3>1 DEF TypeOK
    <3>6. TypeOK'
      BY <1>t, <2>2, <2>3, <3>1, <3>2, <3>3, <3>4, <3>5 DEF TypeOK
    <3>7. f.to = "home" => f.record \in Own
      BY <1>t, <2>2, <2>5 DEF OwnValues
    <3>8. live'[Room] = f.record /\ stored'[Room] = f.record
          /\ \A k \in Kinds \ {Room} : live'[k] = live[k] /\ stored'[k] = stored[k]
      BY <1>t, <3>1, JourneyAssumption DEF TypeOK
    <3>9. app = "in game" /\ where' \in Worlds /\ where' = f.to
      BY <2>1, <2>2, <3>1, <3>3 DEF PollTravel
    <3>10. OwnValues'
      BY <1>t, <2>3, <3>1, <3>7, <3>8, <3>9 DEF OwnValues, Mine
    <3>11. QED  BY <1>t, <2>3, <3>1, <3>6, <3>10
  <2>6. QED  BY <2>2, <2>4, <2>5
<1>19. CASE CancelTravel
  <2>1. fetches' = {} /\ IsFiniteSet(fetches')
    BY <1>19, FS_EmptySet DEF CancelTravel
  <2>2. TypeOK'
    BY <1>t, <1>19, <2>1 DEF TypeOK, CancelTravel, Stays, records, remote
  <2>3. OwnValues'
    BY <1>t, <1>19, <2>1 DEF OwnValues, CancelTravel, Stays, Mine, records
  <2>4. QED  BY <1>t, <1>19, <2>1, <2>2, <2>3 DEF CancelTravel, Stays
<1>20. CASE Arrive
  <2>1. TypeOK'
    BY <1>t, <1>20 DEF TypeOK, Arrive, records, remote, history
  <2>2. OwnValues'
    BY <1>t, <1>20 DEF OwnValues, Arrive, Mine, records
  <2>3. QED  BY <1>t, <1>20, <2>1, <2>2 DEF Arrive
<1>21. CASE UNCHANGED vars
  <2>1. TypeOK'
    BY <1>t, <1>21 DEF TypeOK, vars, records, remote, trip, history
  <2>2. OwnValues'
    BY <1>t, <1>21 DEF OwnValues, vars, records, trip, Mine
  <2>3. QED  BY <1>t, <1>21, <2>1, <2>2 DEF vars, trip
<1>22. QED
  BY <1>1, <1>2, <1>3, <1>4, <1>5, <1>6, <1>7, <1>8, <1>9, <1>10, <1>11, <1>13, <1>14, <1>15,
     <1>16, <1>17, <1>18, <1>19, <1>20, <1>21 DEF Next

-----------------------------------------------------------------------------
(* What is taken for stored.                                               *)

LEMMA HeldInit == Init => HeldInv
BY DEF Init, HeldInv, StoredIsOfThisWorld, Mine

\* A step that reads and writes nothing.
LEMMA HeldUnchanged ==
    ASSUME HeldInv, UNCHANGED <<app, where, stored, marker, pds, held>>,
           \A s \in saves' : s \in saves \/ s.state # "written",
           \A f \in fetches' : f \in fetches \/ f.state # "read"
    PROVE  HeldInv'
<1>1. \A k : Mine(k)' = Mine(k)
  BY DEF Mine
<1>2. StoredIsOfThisWorld'
  BY <1>1 DEF HeldInv, StoredIsOfThisWorld
<1>3. QED  BY <1>2 DEF HeldInv

LEMMA EndSessionHeld ==
    ASSUME TypeInv, HeldInv, NEW to \in {"login", "closed"}, NEW asked, EndSession(to, asked)
    PROVE  HeldInv'
<1>1. /\ app' = to /\ fetches' = {} /\ pds' = pds /\ held' = held
      /\ saves' = {[s EXCEPT !.polled = FALSE] : s \in {t \in saves : t.state # "written"}}
  BY DEF EndSession, remote
<1>2. \A s \in saves : [s EXCEPT !.polled = FALSE].state = s.state
  BY MovedType DEF TypeInv, TypeOK
<1>3. \A s \in saves' : s.state # "written"
  BY <1>1, <1>2
<1>4. StoredIsOfThisWorld'
  BY <1>1 DEF StoredIsOfThisWorld
<1>5. QED  BY <1>1, <1>3, <1>4 DEF HeldInv

LEMMA ProceedHeld ==
    ASSUME TypeInv, HeldInv, guard # None, NEW asked, Proceed(asked)
    PROVE  HeldInv'
<1>1. CASE BeginTravel(guard.action.to, asked)
  BY <1>1, HeldUnchanged DEF BeginTravel, records, remote
<1>2. QED  BY <1>1, EndSessionHeld DEF Proceed

LEMMA HeldStep ==
    ASSUME TypeInv, HeldInv, [Next]_vars
    PROVE  HeldInv'
<1>t. TypeOK /\ OwnValues
  BY DEF TypeInv
<1>1. CASE \E k \in Kinds : (\E v \in Versions : Edit(k, v)) \/ Revert(k)
  BY <1>1, HeldUnchanged DEF Edit, Revert, trip, remote
<1>2. CASE \E k \in Kinds : Save(k)
  <2>1. PICK k \in Kinds : Save(k)
    BY <1>2
  <2>2. Write(k, live[k], FALSE).state # "written"
    BY DEF Write
  <2>3. saves' = saves \cup {Write(k, live[k], FALSE)}
    BY <2>1 DEF Save
  <2>4. QED  BY <2>1, <2>2, <2>3, HeldUnchanged DEF Save, records, trip, remote
<1>3. CASE ResetStored
  <2>1. Write(Room, Default, TRUE).state # "written"
    BY DEF Write
  <2>2. saves' = saves \cup {Write(Room, Default, TRUE)}
    BY <1>3 DEF ResetStored
  <2>3. QED  BY <1>3, <2>1, <2>2, HeldUnchanged DEF ResetStored, trip, remote
<1>4. CASE \E s \in saves : Commit(s)
  <2>1. PICK s \in saves : Commit(s)
    BY <1>4
  <2>2. s \in Writes /\ s.kind \in Kinds /\ s.value \in Own
    BY <1>t DEF TypeOK, Writes
  <2> DEFINE v == IF s.reset /\ s.state = "sent" THEN Default ELSE s.value
             deleted == [s EXCEPT !.state = "deleted"]
             written == [s EXCEPT !.state = "written"]
  <2>3. /\ pds' = [pds EXCEPT ![s.kind] = v]
        /\ held' = [held EXCEPT ![s.kind] = @ \cup {v}]
        /\ \/ saves' = (saves \ {s}) \cup {deleted}
           \/ saves' = (saves \ {s}) \cup {written} /\ v = s.value
           \/ saves' = saves \ {s}
    BY <2>1 DEF Commit
  <2>4. /\ deleted.state # "written"
        /\ written.kind = s.kind /\ written.value = s.value
    BY <2>2, MovedType
  <2>5. UNCHANGED <<app, where, stored, marker, fetches>>
    BY <2>1 DEF Commit, records, trip
  <2> HIDE DEF v, deleted, written
  <2>6. /\ v \in held'[s.kind] /\ pds'[s.kind] = v
        /\ \A k \in Kinds : held[k] \subseteq held'[k]
        /\ \A k \in Kinds \ {s.kind} : pds'[k] = pds[k]
    BY <1>t, <2>2, <2>3 DEF TypeOK
  <2>7. \A k \in Kinds : pds'[k] \in held'[k]
    BY <2>6 DEF HeldInv
  <2>8. \A t \in saves : t.kind \in Kinds
    BY <1>t DEF TypeOK, Writes
  <2>9. \A t \in saves' : t.state = "written" => t.value \in held'[t.kind]
    BY <2>3, <2>4, <2>6, <2>8 DEF HeldInv
  <2>10. \A f \in fetches' : f.state = "read" =>
           IF f.to = "home" THEN f.record \in held'[Room] ELSE f.record = Host
    BY <2>5, <2>6, JourneyAssumption DEF HeldInv
  <2>11. StoredIsOfThisWorld'
    BY <2>5, <2>6 DEF HeldInv, StoredIsOfThisWorld, Mine
  <2>12. QED  BY <2>7, <2>9, <2>10, <2>11 DEF HeldInv
<1>5. CASE \E s \in saves : PollSave(s)
  <2>1. PICK s \in saves : PollSave(s)
    BY <1>5
  <2>2. s \in Writes /\ s.kind \in Kinds
    BY <1>t DEF TypeOK, Writes
  <2>3. /\ app' = app /\ where' = where /\ fetches' = fetches /\ pds' = pds /\ held' = held
        /\ app = "in game"
    BY <2>1 DEF PollSave, trip, remote
  <2> DEFINE unpolled == [s EXCEPT !.polled = FALSE]
  <2>4. unpolled.state = s.state
    BY <2>2, MovedType
  <2>5. \/ saves' = saves \ {s}
        \/ saves' = (saves \ {s}) \cup {unpolled} /\ s.state # "written"
    BY <2>1 DEF PollSave
  <2> HIDE DEF unpolled
  <2>6. \A t \in saves' : t \in saves \/ t.state # "written"
    BY <2>4, <2>5
  <2>7. CASE UNCHANGED <<stored, marker>>
    BY <2>3, <2>6, <2>7, HeldUnchanged
  <2>8. CASE ~UNCHANGED <<stored, marker>>
    <3>1. /\ ~Stale(s) /\ s.state = "written"
          /\ stored' = [stored EXCEPT ![s.kind] = s.value]
          /\ marker' = [marker EXCEPT ![s.kind] = FALSE]
      BY <2>1, <2>8 DEF PollSave, Pinned
    <3>2. Mine(s.kind) /\ s.value \in held[s.kind]
      BY <3>1 DEF Stale, Mine, HeldInv
    <3>3. /\ stored'[s.kind] = s.value
          /\ \A k \in Kinds \ {s.kind} : stored'[k] = stored[k] /\ marker'[k] = marker[k]
      BY <1>t, <2>2, <3>1 DEF TypeOK
    <3>4. \A k : Mine(k)' = Mine(k)
      BY <2>3 DEF Mine
    <3>5. StoredIsOfThisWorld'
      BY <2>3, <3>2, <3>3, <3>4 DEF HeldInv, StoredIsOfThisWorld
    <3>6. QED  BY <2>3, <2>6, <3>5 DEF HeldInv
  <2>9. QED  BY <2>7, <2>8
<1>6. CASE \E d \in Worlds : Touch(d)
  BY <1>6, HeldUnchanged DEF Touch, records, remote
<1>7. CASE \E d \in Worlds : SignIn(d)
  <2>1. PICK d \in Worlds : SignIn(d)
    BY <1>7
  <2>2. /\ stored' = [k \in Kinds |-> IF marker'[k] THEN Default
                                      ELSE IF k = Room THEN RoomOf(d) ELSE pds[k]]
        /\ where' = d /\ fetches' = fetches /\ saves' = saves /\ pds' = pds /\ held' = held
    BY <2>1 DEF SignIn, trip, remote
  <2>3. \A k \in Kinds : marker'[k] \/ stored'[k] = IF k = Room THEN RoomOf(d) ELSE pds[k]
    BY <2>2
  <2>4. d # "home" => RoomOf(d) = Host
    BY DEF RoomOf
  <2>5. d = "home" => RoomOf(d) = pds[Room]
    BY DEF RoomOf
  <2>6. \A k \in Kinds : pds[k] \in held[k]
    BY DEF HeldInv
  <2>7. ASSUME NEW k \in Kinds
        PROVE  IF Mine(k)' THEN stored'[k] \in held'[k] \/ marker'[k]
               ELSE stored'[k] = Host \/ marker'[k]
    <3>1. CASE marker'[k]
      BY <3>1
    <3>2. CASE ~marker'[k] /\ k # Room
      BY <2>2, <2>3, <2>6, <3>2 DEF Mine
    <3>3. CASE ~marker'[k] /\ k = Room
      BY <2>2, <2>3, <2>4, <2>5, <2>6, <3>3 DEF Mine
    <3>4. QED  BY <3>1, <3>2, <3>3
  <2>8. StoredIsOfThisWorld'
    BY <2>7 DEF StoredIsOfThisWorld
  <2>9. QED  BY <2>2, <2>8 DEF HeldInv
<1>8. CASE RaiseGuard \/ (\E action \in Actions : Ask(action)) \/ GuardCloses
  BY <1>8, HeldUnchanged DEF RaiseGuard, Ask, GuardCloses, records, remote
<1>9. CASE CloseWindow
  BY <1>9, EndSessionHeld DEF CloseWindow
<1>10. CASE GuardDecides
  <2>1. ASSUME NEW phase, InPhase(phase)
        PROVE  HeldInv'
    BY <2>1, HeldUnchanged DEF InPhase, records, remote
  <2>2. QED  BY <1>10, <2>1, ProceedHeld DEF GuardDecides
<1>11. CASE GuardSaves
  <2> DEFINE ks == Dirty \cap At(guard.action)
  <2>1. saves' = saves \cup {Write(k, live[k], FALSE) : k \in ks}
    BY <1>11 DEF GuardSaves
  <2>2. \A k : Write(k, live[k], FALSE).state # "written"
    BY DEF Write
  <2>3. \A t \in saves' : t \in saves \/ t.state # "written"
    BY <2>1, <2>2
  <2>4. UNCHANGED <<app, where, stored, marker, pds, held, fetches>>
    BY <1>11 DEF GuardSaves, records, remote
  <2>5. QED  BY <2>3, <2>4, HeldUnchanged
<1>12. CASE GuardDiscards
  BY <1>12, ProceedHeld DEF GuardDiscards, Drawn
<1>13. CASE \E f \in fetches : FetchAnswers(f)
  <2>1. PICK f \in fetches : FetchAnswers(f)
    BY <1>13
  <2>2. PICK state \in {"read", "undecodable", "failed"} :
          fetches' = (fetches \ {f}) \cup
            {[f EXCEPT !.state = state,
                       !.record = CASE state = "read" -> RoomOf(f.to)
                                    [] state = "undecodable" -> Default
                                    [] OTHER -> None]}
    BY <2>1 DEF FetchAnswers
  <2> DEFINE record == CASE state = "read" -> RoomOf(f.to)
                         [] state = "undecodable" -> Default
                         [] OTHER -> None
             g == [f EXCEPT !.state = state, !.record = record]
  <2>3. f \in Fetches /\ f.to \in Worlds
    BY <1>t DEF TypeOK, Fetches
  <2>4. state = "read" => record = RoomOf(f.to)
    OBVIOUS
  <2> HIDE DEF record
  <2>5. g.to = f.to /\ g.state = state /\ g.record = record
    BY <2>3 DEF Fetches
  <2>6. fetches' = (fetches \ {f}) \cup {g}
    BY <2>2 DEF record
  <2> HIDE DEF g
  <2>7. UNCHANGED <<app, where, stored, marker, saves, pds, held>>
    BY <2>1 DEF FetchAnswers, records, remote
  <2>8. StoredIsOfThisWorld'
    BY <2>7 DEF HeldInv, StoredIsOfThisWorld, Mine
  <2>9. g.state = "read" => IF g.to = "home" THEN g.record \in held[Room] ELSE g.record = Host
    BY <2>4, <2>5, JourneyAssumption DEF RoomOf, HeldInv
  <2>10. QED  BY <2>6, <2>7, <2>8, <2>9 DEF HeldInv
<1>14. CASE \E f \in fetches : PollTravel(f)
  <2>1. PICK f \in fetches : PollTravel(f)
    BY <1>14
  <2>2. /\ fetches' = fetches \ {f} /\ saves' = saves /\ pds' = pds /\ held' = held
        /\ app = "in game" /\ app' = app
    BY <2>1 DEF PollTravel, Stays, remote
  <2>3. CASE UNCHANGED <<where, stored, marker>>
    BY <2>2, <2>3, HeldUnchanged
  <2>4. CASE ~UNCHANGED <<where, stored, marker>>
    <3>1. /\ where' = travel.to
          /\ stored' = [stored EXCEPT ![Room] = f.record]
          /\ marker' = [marker EXCEPT ![Room] = f.state = "undecodable"]
          /\ travel.to = f.to /\ f.state # "asked" /\ f.state # "failed"
      BY <2>1, <2>4 DEF PollTravel, Stays, Answers, records
    <3>2. f.state \in {"read", "undecodable"}
      BY <1>t, <3>1 DEF TypeOK, Fetches
    <3>3. /\ stored'[Room] = f.record
          /\ marker'[Room] = (f.state = "undecodable")
          /\ \A k \in Kinds \ {Room} : stored'[k] = stored[k] /\ marker'[k] = marker[k]
      BY <1>t, <3>1, JourneyAssumption DEF TypeOK
    <3>4. Mine(Room)' <=> f.to = "home"
      BY <3>1 DEF Mine
    <3>5. IF Mine(Room)' THEN stored'[Room] \in held[Room] \/ marker'[Room]
          ELSE stored'[Room] = Host \/ marker'[Room]
      BY <3>2, <3>3, <3>4 DEF HeldInv
    <3>6. \A k \in Kinds \ {Room} : Mine(k)' /\ (stored'[k] \in held[k] \/ marker'[k])
      BY <2>2, <3>3 DEF Mine, HeldInv, StoredIsOfThisWorld
    <3>7. StoredIsOfThisWorld'
      BY <2>2, <3>5, <3>6 DEF StoredIsOfThisWorld
    <3>8. QED  BY <2>2, <3>7 DEF HeldInv
  <2>5. QED  BY <2>3, <2>4
<1>15. CASE CancelTravel \/ Arrive
  BY <1>15, HeldUnchanged DEF CancelTravel, Stays, Arrive, records, remote
<1>16. CASE UNCHANGED vars
  BY <1>16, HeldUnchanged DEF vars, records, trip, remote
<1>17. QED
  BY <1>1, <1>2, <1>3, <1>4, <1>5, <1>6, <1>7, <1>8, <1>9, <1>10, <1>11, <1>12, <1>13, <1>14,
     <1>15, <1>16 DEF Next

-----------------------------------------------------------------------------
(* One save of a record at a time.                                         *)

LEMMA OneInit == Init => OneInv
BY DEF Init, OneInv, OneSaveAtATime, Tasks

\* A step that starts no save and frees no status.
LEMMA OneUnchanged ==
    ASSUME OneInv, UNCHANGED <<saves, publishing>>, counts'.reset = counts.reset
    PROVE  OneInv'
BY DEF OneInv, OneSaveAtATime, Tasks

LEMMA EndSessionOne ==
    ASSUME TypeInv, NEW to, NEW asked, EndSession(to, asked)
    PROVE  OneInv'
<1>1. saves' = {[s EXCEPT !.polled = FALSE] : s \in {t \in saves : t.state # "written"}}
  BY DEF EndSession
<1>2. \A s \in saves : ~[s EXCEPT !.polled = FALSE].polled
  BY MovedType DEF TypeInv, TypeOK
<1>3. Tasks' = {}
  BY <1>1, <1>2 DEF Tasks
<1>4. QED  BY <1>3 DEF OneInv, OneSaveAtATime

LEMMA ProceedOne ==
    ASSUME TypeInv, OneInv, guard # None, NEW asked, Proceed(asked)
    PROVE  OneInv'
<1>1. CASE BeginTravel(guard.action.to, asked)
  BY <1>1, OneUnchanged DEF BeginTravel
<1>2. QED  BY <1>1, EndSessionOne DEF Proceed

LEMMA OneStep ==
    ASSUME TypeInv, OneInv, [Next]_vars
    PROVE  OneInv'
<1>t. TypeOK
  BY DEF TypeInv
<1>1. CASE \E k \in Kinds : (\E v \in Versions : Edit(k, v)) \/ Revert(k)
  BY <1>1, OneUnchanged DEF Edit, Revert, history
<1>2. CASE \E k \in Kinds : Save(k)
  <2>1. PICK k \in Kinds : Save(k)
    BY <1>2
  <2> DEFINE w == Write(k, live[k], FALSE)
  <2>2. w.kind = k
    BY DEF Write
  <2>3. /\ saves' = saves \cup {w} /\ publishing' = [publishing EXCEPT ![k] = TRUE]
        /\ ~publishing[k]
    BY <2>1 DEF Save
  <2> HIDE DEF w
  <2>4. counts'.reset = counts.reset
    BY <1>t, <2>1, CountsType DEF Save
  <2>5. publishing'[k] /\ \A j \in Kinds \ {k} : publishing'[j] = publishing[j]
    BY <1>t, <2>3 DEF TypeOK
  <2>6. \A s \in Tasks : s.kind \in Kinds
    BY <1>t DEF TypeOK, Tasks, Writes
  <2>7. \A s \in Tasks' : s \in Tasks \/ s = w
    BY <2>3 DEF Tasks
  <2>8. \A s \in Tasks : s.kind = k => k = Room /\ counts.reset
    BY <2>3 DEF OneInv
  <2>9. \A s \in Tasks' : publishing'[s.kind] \/ (s.kind = Room /\ counts'.reset)
    BY <2>2, <2>4, <2>5, <2>6, <2>7 DEF OneInv
  <2>10. OneSaveAtATime'
    BY <2>2, <2>4, <2>7, <2>8 DEF OneInv, OneSaveAtATime
  <2>11. QED  BY <2>9, <2>10 DEF OneInv
<1>3. CASE ResetStored
  <2> DEFINE w == Write(Room, Default, TRUE)
  <2>1. w.kind = Room
    BY DEF Write
  <2>2. saves' = saves \cup {w} /\ publishing' = [publishing EXCEPT ![Room] = TRUE]
    BY <1>3 DEF ResetStored
  <2> HIDE DEF w
  <2>3. counts'.reset
    BY <1>t, <1>3, CountsType DEF ResetStored
  <2>4. \A j \in Kinds : publishing[j] => publishing'[j]
    BY <1>t, <2>2 DEF TypeOK
  <2>5. \A s \in Tasks : s.kind \in Kinds
    BY <1>t DEF TypeOK, Tasks, Writes
  <2>6. \A s \in Tasks' : s \in Tasks \/ s = w
    BY <2>2 DEF Tasks
  <2>7. \A s \in Tasks' : publishing'[s.kind] \/ (s.kind = Room /\ counts'.reset)
    BY <2>1, <2>3, <2>4, <2>5, <2>6 DEF OneInv
  <2>8. OneSaveAtATime'
    BY <2>1, <2>3, <2>6 DEF OneInv, OneSaveAtATime
  <2>9. QED  BY <2>7, <2>8 DEF OneInv
<1>4. CASE \E s \in saves : Commit(s)
  <2>1. PICK s \in saves : Commit(s)
    BY <1>4
  <2>2. s \in Writes
    BY <1>t DEF TypeOK
  <2>3. PICK state \in {"deleted", "written"} :
          saves' = (saves \ {s}) \cup {[s EXCEPT !.state = state]} \/ saves' = saves \ {s}
    BY <2>1 DEF Commit
  <2> DEFINE u == [s EXCEPT !.state = state]
  <2>4. u.kind = s.kind /\ u.polled = s.polled
    BY <2>2, MovedType
  <2>5. saves' = (saves \ {s}) \cup {u} \/ saves' = saves \ {s}
    BY <2>3
  <2> HIDE DEF u
  <2>6. publishing' = publishing /\ counts' = counts
    BY <2>1 DEF Commit, history
  <2>7. \A t \in Tasks' : (t \in Tasks /\ t # s) \/ (t = u /\ s \in Tasks)
    BY <2>4, <2>5 DEF Tasks
  <2>8. \A t \in Tasks' : publishing[t.kind] \/ (t.kind = Room /\ counts.reset)
    BY <2>4, <2>7 DEF OneInv
  <2>9. \A t, r \in Tasks' : t.kind = r.kind => t = r \/ (t.kind = Room /\ counts.reset)
    BY <2>4, <2>7 DEF OneInv, OneSaveAtATime
  <2>10. QED  BY <2>6, <2>8, <2>9 DEF OneInv, OneSaveAtATime
<1>5. CASE \E s \in saves : PollSave(s)
  <2>1. PICK s \in saves : PollSave(s)
    BY <1>5
  <2>2. s \in Writes /\ s.kind \in Kinds /\ s \in Tasks
    BY <1>t, <2>1 DEF TypeOK, Writes, PollSave
  <2> DEFINE u == [s EXCEPT !.polled = FALSE]
  <2>3. ~u.polled
    BY <2>2, MovedType
  <2>4. saves' = (saves \ {s}) \cup {u} \/ saves' = (saves \ {s})
    BY <2>1 DEF PollSave
  <2> HIDE DEF u
  <2>5. \A t \in Tasks' : t \in Tasks /\ t # s
    BY <2>3, <2>4 DEF Tasks
  <2>6. /\ publishing' = publishing \/ publishing' = [publishing EXCEPT ![s.kind] = FALSE]
        /\ counts' = counts
    BY <2>1 DEF PollSave
  <2>7. \A j \in Kinds \ {s.kind} : publishing'[j] = publishing[j]
    BY <1>t, <2>6 DEF TypeOK
  <2>8. \A t \in Tasks' : t.kind = s.kind => s.kind = Room /\ counts.reset
    BY <2>2, <2>5 DEF OneInv, OneSaveAtATime
  <2>9. \A t \in Tasks : t.kind \in Kinds
    BY <1>t DEF TypeOK, Tasks, Writes
  <2>10. \A t \in Tasks' : publishing'[t.kind] \/ (t.kind = Room /\ counts'.reset)
    BY <2>5, <2>6, <2>7, <2>8, <2>9 DEF OneInv
  <2>11. OneSaveAtATime'
    BY <2>5, <2>6 DEF OneInv, OneSaveAtATime
  <2>12. QED  BY <2>10, <2>11 DEF OneInv
<1>6. CASE \E d \in Worlds : Touch(d)
  <2>1. counts'.reset = counts.reset
    BY <1>t, <1>6, CountsType DEF Touch, AsksForTrip
  <2>2. QED  BY <1>6, <2>1, OneUnchanged DEF Touch
<1>7. CASE \E d \in Worlds : SignIn(d)
  <2>1. counts'.reset = counts.reset
    BY <1>t, <1>7, CountsType DEF SignIn
  <2>2. QED  BY <1>7, <2>1, OneUnchanged DEF SignIn
<1>8. CASE \E action \in Actions : Ask(action)
  <2>1. counts'.reset = counts.reset
    BY <1>t, <1>8, CountsType DEF Ask, AsksForTrip
  <2>2. QED  BY <1>8, <2>1, OneUnchanged DEF Ask
<1>9. CASE RaiseGuard \/ GuardCloses
  BY <1>9, OneUnchanged DEF RaiseGuard, GuardCloses, history
<1>10. CASE CloseWindow
  BY <1>10, EndSessionOne DEF CloseWindow
<1>11. CASE GuardDecides
  <2>1. ASSUME NEW phase, InPhase(phase)
        PROVE  OneInv'
    BY <2>1, OneUnchanged DEF InPhase, history
  <2>2. QED  BY <1>11, <2>1, ProceedOne DEF GuardDecides
<1>12. CASE GuardSaves
  <2> DEFINE ks == Dirty \cap At(guard.action)
             w(k) == Write(k, live[k], FALSE)
  <2>1. \A k : w(k).kind = k
    BY DEF Write
  <2>2. /\ saves' = saves \cup {w(k) : k \in ks}
        /\ publishing' = [k \in Kinds |-> publishing[k] \/ k \in ks]
    BY <1>12 DEF GuardSaves
  <2>3. \A k \in ks : k \in Kinds /\ \A s \in Tasks : s.kind # k
    BY <1>12 DEF GuardSaves, Drawn, Waits, InFlight, Dirty
  <2>4. IsFiniteSet(ks) /\ Cardinality(ks) \in Nat
    <3>1. ks \subseteq Kinds
      BY <2>3
    <3>2. QED  BY <3>1, JourneyAssumption, FS_Subset, FS_CardinalityType
  <2>5. counts' = [counts EXCEPT !.saves = @ + Cardinality(ks)]
    BY <1>12 DEF GuardSaves
  <2>6. counts'.reset = counts.reset
    BY <1>t, <2>4, <2>5, CountsType
  <2> HIDE DEF ks, w
  <2>7. \A s \in Tasks' : s \in Tasks \/ \E k \in ks : s = w(k)
    BY <2>2 DEF Tasks
  <2>8. \A s \in Tasks : s.kind \in Kinds
    BY <1>t DEF TypeOK, Tasks, Writes
  <2>9. \A s \in Tasks' : publishing'[s.kind] \/ (s.kind = Room /\ counts'.reset)
    BY <2>1, <2>2, <2>3, <2>6, <2>7, <2>8 DEF OneInv
  <2>10. OneSaveAtATime'
    BY <2>1, <2>3, <2>6, <2>7 DEF OneInv, OneSaveAtATime
  <2>11. QED  BY <2>9, <2>10 DEF OneInv
<1>13. CASE GuardDiscards
  BY <1>13, ProceedOne DEF GuardDiscards, Drawn
<1>14. CASE \E f \in fetches : FetchAnswers(f)
  BY <1>14, OneUnchanged DEF FetchAnswers, history
<1>15. CASE \E f \in fetches : PollTravel(f)
  BY <1>15, OneUnchanged DEF PollTravel, Stays, history
<1>16. CASE CancelTravel \/ Arrive
  BY <1>16, OneUnchanged DEF CancelTravel, Stays, Arrive, history
<1>17. CASE UNCHANGED vars
  BY <1>17, OneUnchanged DEF vars, history
<1>18. QED
  BY <1>1, <1>2, <1>3, <1>4, <1>5, <1>6, <1>7, <1>8, <1>9, <1>10, <1>11, <1>12, <1>13, <1>14,
     <1>15, <1>16, <1>17 DEF Next

-----------------------------------------------------------------------------
(* What is lost.                                                           *)

\* While a travel is under way the room is as the guard found it, or the
\* player has agreed to lose it, or it has been touched since.
AgreedInv == travel # None /\ Room \in Dirty => Room \in agreed \cup onTheWay

\* A record under a marker is the default, until it has been saved.
MarkedInv ==
    /\ app = "in game" => \A k \in Kinds :
         Mine(k) /\ marker[k] => stored[k] \in held[k] \cup {Default}
    /\ \A f \in fetches : f.state = "undecodable" => f.record = Default

\* Out of the game nothing is shown and nobody travels.
LeftInv ==
    app # "in game" => travel = None /\ \A k \in Kinds : live[k] = None /\ stored[k] = None

LostInv == lost = {} /\ AgreedInv /\ MarkedInv /\ LeftInv

LEMMA LostInit == Init => LostInv
BY DEF Init, LostInv, AgreedInv, MarkedInv, LeftInv

\* Nothing that does not look unsaved could be lost.
LEMMA UnsavedIsDirty ==
    ASSUME TypeInv, HeldInv, LostInv
    PROVE  Unsaved \subseteq Dirty
<1>1. SUFFICES ASSUME NEW k \in Kinds, Mine(k), live[k] = stored[k], live[k] \in Versions
               PROVE  live[k] \in held[k]
  BY DEF Unsaved, Dirty
<1>2. None \notin Versions /\ Default \notin Versions
  BY JourneyAssumption DEF Versions
<1>3. app = "in game"
  BY <1>1, <1>2 DEF LostInv, LeftInv
<1>4. QED  BY <1>1, <1>2, <1>3 DEF HeldInv, StoredIsOfThisWorld, LostInv, MarkedInv

\* A step that neither edits nor stores, ends nothing and begins no travel.
LEMMA LostUnchanged ==
    ASSUME TypeInv, LostInv, UNCHANGED <<app, where, records, held, agreed, onTheWay, lost>>,
           travel' = None \/ (travel # None /\ travel' # None),
           \A f \in fetches' : f \in fetches \/ f.state # "undecodable"
    PROVE  LostInv'
<1>1. Dirty' = Dirty /\ \A k : Mine(k)' = Mine(k)
  BY DEF Dirty, Mine, records
<1>2. QED  BY <1>1 DEF LostInv, AgreedInv, MarkedInv, LeftInv, records

\* A step that edits or saves in the game.
LEMMA LostEdited ==
    ASSUME TypeInv, LostInv, app = "in game",
           UNCHANGED <<app, where, travel, fetches, held, agreed, lost>>,
           \A k \in Kinds : Mine(k) /\ marker'[k] => stored'[k] \in held[k] \cup {Default},
           \/ onTheWay' = {Room}
           \/ onTheWay' = onTheWay /\ (travel = None \/ (Room \in Dirty' => Room \in Dirty))
    PROVE  LostInv'
<1>1. \A k : Mine(k)' = Mine(k)
  BY DEF Mine
<1>2. AgreedInv'
  BY DEF LostInv, AgreedInv
<1>3. MarkedInv'
  BY <1>1 DEF LostInv, MarkedInv
<1>4. QED  BY <1>2, <1>3 DEF LostInv, LeftInv

LEMMA EndSessionLost ==
    ASSUME TypeInv, HeldInv, LostInv, NEW to \in {"login", "closed"}, NEW asked,
           Dirty \subseteq asked, EndSession(to, asked)
    PROVE  LostInv'
<1>1. lost' = {}
  BY UnsavedIsDirty DEF LostInv, EndSession, Lose
<1>2. app' = to /\ travel' = None /\ fetches' = {} /\ \A k \in Kinds : live'[k] = None /\ stored'[k] = None
  BY DEF EndSession, TravelGone
<1>3. QED  BY <1>1, <1>2 DEF LostInv, AgreedInv, MarkedInv, LeftInv

LEMMA ProceedLost ==
    ASSUME TypeInv, HeldInv, LostInv, app = "in game", guard # None, NEW asked,
           Dirty \cap At(guard.action) \subseteq asked, Proceed(asked)
    PROVE  LostInv'
<1>1. guard.action \in Actions /\ Dirty \subseteq Kinds
  BY DEF TypeInv, TypeOK, Dirty
<1>2. CASE guard.action.to \in Worlds
  <2>1. BeginTravel(guard.action.to, asked) /\ At(guard.action) = {Room}
    BY <1>1, <1>2, ActionType, NoneFacts DEF Proceed
  <2>2. Dirty' = Dirty /\ \A k : Mine(k)' = Mine(k)
    BY <2>1 DEF BeginTravel, Dirty, Mine, records
  <2>3. AgreedInv'
    BY <2>1, <2>2 DEF AgreedInv, BeginTravel
  <2>4. \A f \in fetches' : f.state = "undecodable" => f.record = Default
    <3> DEFINE new == [n |-> Fresh(fetches), to |-> guard.action.to,
                       state |-> "asked", record |-> None]
    <3>1. new.state = "asked"
      OBVIOUS
    <3>2. fetches' = fetches \cup {new}
      BY <2>1 DEF BeginTravel
    <3> HIDE DEF new
    <3>3. QED  BY <3>1, <3>2 DEF LostInv, MarkedInv
  <2>5. MarkedInv'
    BY <2>1, <2>2, <2>4 DEF LostInv, MarkedInv, BeginTravel, records, remote
  <2>6. QED  BY <2>1, <2>3, <2>5 DEF LostInv, LeftInv, BeginTravel
<1>3. CASE guard.action.to \notin Worlds
  <2>1. Dirty \subseteq asked
    BY <1>1, <1>3 DEF At
  <2>2. EndSession("login", asked) \/ EndSession("closed", asked)
    BY <1>3 DEF Proceed
  <2>3. QED  BY <2>1, <2>2, EndSessionLost
<1>4. QED  BY <1>2, <1>3

LEMMA LostStep ==
    ASSUME TypeInv, HeldInv, LostInv, [Next]_vars
    PROVE  LostInv'
<1>t. TypeOK /\ \A k \in Kinds : Mine(k) /\ marker[k] /\ app = "in game" =>
                                    stored[k] \in held[k] \cup {Default}
  BY DEF TypeInv, LostInv, MarkedInv
<1>1. ASSUME NEW k \in Kinds, NEW v \in Versions, Edit(k, v)
      PROVE  LostInv'
  <2>1. /\ app = "in game" /\ live' = [live EXCEPT ![k] = v] /\ onTheWay' = Changed(k)
        /\ UNCHANGED <<app, where, stored, marker, travel, fetches, held, agreed, lost>>
    BY <1>1 DEF Edit, trip, remote
  <2>2. \/ onTheWay' = {Room}
        \/ onTheWay' = onTheWay /\ (travel = None \/ (Room \in Dirty' => Room \in Dirty))
    BY <1>t, <2>1 DEF Changed, Dirty, Mine, TypeOK
  <2>3. QED  BY <1>t, <2>1, <2>2, LostEdited
<1>2. ASSUME NEW k \in Kinds, Revert(k)
      PROVE  LostInv'
  <2>1. /\ app = "in game" /\ live' = [live EXCEPT ![k] = stored[k]]
        /\ UNCHANGED <<app, where, stored, marker, travel, fetches, held, agreed, lost, onTheWay>>
    BY <1>2 DEF Revert, trip, remote, history
  <2>2. Room \in Dirty' => Room \in Dirty
    BY <1>t, <2>1 DEF Dirty, Mine, TypeOK
  <2>3. QED  BY <1>t, <2>1, <2>2, LostEdited
<1>3. CASE \E k \in Kinds : Save(k)
  BY <1>3, LostUnchanged DEF Save, records, trip, remote
<1>4. CASE ResetStored
  <2>1. /\ app = "in game" /\ onTheWay' = Changed(Room)
        /\ UNCHANGED <<app, where, stored, marker, travel, fetches, held, agreed, lost>>
    BY <1>4 DEF ResetStored, trip, remote
  <2>2. \/ onTheWay' = {Room}
        \/ onTheWay' = onTheWay /\ (travel = None \/ (Room \in Dirty' => Room \in Dirty))
    BY <2>1 DEF Changed
  <2>3. QED  BY <1>t, <2>1, <2>2, LostEdited
<1>5. ASSUME NEW s \in saves, Commit(s)
      PROVE  LostInv'
  <2>1. /\ \E v : held' = [held EXCEPT ![s.kind] = @ \cup {v}]
        /\ UNCHANGED <<app, where, records, travel, fetches, agreed, onTheWay, lost>>
    BY <1>5 DEF Commit, trip, history
  <2>2. \A k \in Kinds : held[k] \subseteq held'[k]
    BY <1>t, <2>1 DEF TypeOK
  <2>3. Dirty' = Dirty /\ \A k : Mine(k)' = Mine(k)
    BY <2>1 DEF Dirty, Mine, records
  <2>4. QED  BY <2>1, <2>2, <2>3 DEF LostInv, AgreedInv, MarkedInv, LeftInv, records
<1>6. ASSUME NEW s \in saves, PollSave(s)
      PROVE  LostInv'
  <2>1. /\ app = "in game"
        /\ UNCHANGED <<app, where, live, travel, fetches, held, agreed, lost>>
        /\ onTheWay' = IF stored' # stored THEN Changed(s.kind) ELSE onTheWay
        /\ \/ UNCHANGED <<stored, marker>>
           \/ /\ stored' = [stored EXCEPT ![s.kind] = s.value]
              /\ marker' = [marker EXCEPT ![s.kind] = FALSE]
    BY <1>6 DEF PollSave, Pinned, trip, remote
  <2>2. \A k \in Kinds : Mine(k) /\ marker'[k] => stored'[k] \in held[k] \cup {Default}
    BY <1>t, <2>1 DEF TypeOK
  <2>3. \/ onTheWay' = {Room}
        \/ onTheWay' = onTheWay /\ (travel = None \/ (Room \in Dirty' => Room \in Dirty))
    <3>1. CASE stored' = stored
      BY <2>1, <3>1 DEF Dirty, Mine
    <3>2. CASE stored' # stored /\ s.kind = Room
      BY <2>1, <3>2 DEF Changed
    <3>3. CASE stored' # stored /\ s.kind # Room
      <4>1. stored'[Room] = stored[Room] /\ onTheWay' = onTheWay
        BY <1>t, <2>1, <3>3, JourneyAssumption DEF Changed, TypeOK
      <4>2. QED  BY <2>1, <4>1 DEF Dirty, Mine
    <3>4. QED  BY <3>1, <3>2, <3>3
  <2>4. QED  BY <2>1, <2>2, <2>3, LostEdited
<1>7. CASE RaiseGuard \/ GuardCloses \/ \E d \in Worlds : Touch(d)
  BY <1>7, LostUnchanged DEF RaiseGuard, GuardCloses, Touch, records, remote, history
<1>8. CASE \E action \in Actions : Ask(action)
  BY <1>8, LostUnchanged DEF Ask, records, remote
<1>9. CASE \E d \in Worlds : SignIn(d)
  <2>1. PICK d \in Worlds : SignIn(d)
    BY <1>9
  <2>2. /\ app = "login" /\ app' = "in game" /\ where' = d
        /\ marker' \in [Kinds -> BOOLEAN]
        /\ stored' = [k \in Kinds |-> IF marker'[k] THEN Default
                                      ELSE IF k = Room THEN RoomOf(d) ELSE pds[k]]
        /\ UNCHANGED <<travel, fetches, held, lost>>
    BY <2>1 DEF SignIn, trip, remote
  <2>3. travel = None
    BY <2>2 DEF LostInv, LeftInv
  <2>4. \A k \in Kinds : marker'[k] => stored'[k] = Default
    BY <2>2
  <2>5. QED  BY <2>2, <2>3, <2>4 DEF LostInv, AgreedInv, MarkedInv, LeftInv
<1>10. CASE CloseWindow
  BY <1>10, EndSessionLost DEF CloseWindow
<1>11. CASE GuardDecides
  <2>1. ASSUME NEW phase, InPhase(phase)
        PROVE  LostInv'
    BY <2>1, LostUnchanged DEF InPhase, records, remote, history
  <2>2. ASSUME app = "in game", guard # None, Clean, Proceed({})
        PROVE  LostInv'
    BY <2>2, ProceedLost DEF Clean
  <2>3. QED  BY <1>11, <2>1, <2>2 DEF GuardDecides
<1>12. CASE GuardSaves
  BY <1>12, LostUnchanged DEF GuardSaves, records, remote
<1>13. CASE GuardDiscards
  <2>1. app = "in game" /\ guard # None /\ Proceed(At(guard.action))
    BY <1>13 DEF GuardDiscards, Drawn
  <2>2. Dirty \cap At(guard.action) \subseteq At(guard.action)
    OBVIOUS
  <2>3. QED  BY <2>1, <2>2, ProceedLost
<1>14. ASSUME NEW f \in fetches, FetchAnswers(f)
       PROVE  LostInv'
  <2>1. PICK state \in {"read", "undecodable", "failed"} :
          fetches' = (fetches \ {f}) \cup
            {[f EXCEPT !.state = state,
                       !.record = CASE state = "read" -> RoomOf(f.to)
                                    [] state = "undecodable" -> Default
                                    [] OTHER -> None]}
    BY <1>14 DEF FetchAnswers
  <2> DEFINE r == CASE state = "read" -> RoomOf(f.to)
                    [] state = "undecodable" -> Default
                    [] OTHER -> None
             g == [f EXCEPT !.state = state, !.record = r]
  <2>2. f \in Fetches
    BY <1>t DEF TypeOK
  <2>3. state = "undecodable" => r = Default
    OBVIOUS
  <2> HIDE DEF r
  <2>4. g.state = state /\ g.record = r
    BY <2>2 DEF Fetches
  <2>5. fetches' = (fetches \ {f}) \cup {g}
    BY <2>1 DEF r
  <2> HIDE DEF g
  <2>6. \A h \in fetches' : h.state = "undecodable" => h.record = Default
    BY <2>3, <2>4, <2>5 DEF LostInv, MarkedInv
  <2>7. UNCHANGED <<app, where, records, held, travel, agreed, onTheWay, lost>>
    BY <1>14 DEF FetchAnswers, remote, history
  <2>8. Dirty' = Dirty /\ \A k : Mine(k)' = Mine(k)
    BY <2>7 DEF Dirty, Mine, records
  <2>9. QED  BY <2>6, <2>7, <2>8 DEF LostInv, AgreedInv, MarkedInv, LeftInv, records
<1>15. ASSUME NEW f \in fetches, PollTravel(f)
       PROVE  LostInv'
  <2>1. fetches' \subseteq fetches
    BY <1>15 DEF PollTravel
  <2>2. CASE ~Answers(f)
    BY <1>15, <2>1, <2>2, LostUnchanged DEF PollTravel, records, remote, history
  <2>3. CASE Stays
    <3>1. Dirty' = Dirty /\ \A k : Mine(k)' = Mine(k)
      BY <2>3 DEF Stays, Dirty, Mine, records
    <3>2. QED  BY <2>1, <2>3, <3>1 DEF Stays, LostInv, AgreedInv, MarkedInv, LeftInv, records, remote
  <2>4. CASE Answers(f) /\ ~Stays
    <3>1. /\ app = "in game" /\ app' = app /\ held' = held /\ f.state \in {"read", "undecodable"}
          /\ live' = [live EXCEPT ![Room] = f.record]
          /\ stored' = [stored EXCEPT ![Room] = f.record]
          /\ marker' = [marker EXCEPT ![Room] = f.state = "undecodable"]
          /\ Lose({Room}, agreed) /\ travel # None
      BY <1>t, <1>15, <2>4 DEF PollTravel, Answers, remote, TypeOK, Fetches
    <3>2. live'[Room] = stored'[Room] /\ stored'[Room] = f.record
          /\ marker'[Room] = (f.state = "undecodable")
          /\ \A k \in Kinds \ {Room} : marker'[k] = marker[k] /\ stored'[k] = stored[k]
      BY <1>t, <3>1, JourneyAssumption DEF TypeOK
    <3>3. lost' = {}
      <4>1. Room \in Unsaved => Room \in agreed \cup onTheWay
        BY <3>1, UnsavedIsDirty DEF LostInv, AgreedInv
      <4>2. QED  BY <3>1, <4>1 DEF Lose, LostInv
    <3>4. Room \notin Dirty'
      BY <3>2 DEF Dirty
    <3>5. MarkedInv'
      <4>1. \A k \in Kinds \ {Room} : Mine(k)
        BY DEF Mine
      <4>2. f.state = "undecodable" => f.record = Default
        BY DEF LostInv, MarkedInv
      <4>3. \A k \in Kinds : marker'[k] => stored'[k] \in held[k] \cup {Default}
                                           \/ (k # Room /\ ~Mine(k))
        BY <1>t, <3>1, <3>2, <4>1, <4>2
      <4>4. QED  BY <2>1, <3>1, <4>1, <4>3 DEF LostInv, MarkedInv
    <3>6. QED  BY <3>1, <3>3, <3>4, <3>5 DEF LostInv, AgreedInv, LeftInv
  <2>5. QED  BY <2>2, <2>3, <2>4
<1>16. CASE CancelTravel
  <2>1. Dirty' = Dirty /\ \A k : Mine(k)' = Mine(k)
    BY <1>16 DEF CancelTravel, Stays, Dirty, Mine, records
  <2>2. QED  BY <1>16, <2>1 DEF CancelTravel, Stays, LostInv, AgreedInv, MarkedInv, LeftInv,
                  records, remote
<1>17. CASE Arrive
  BY <1>17, LostUnchanged DEF Arrive, records, remote, history
<1>18. CASE UNCHANGED vars
  BY <1>18, LostUnchanged DEF vars, trip, remote, history
<1>19. QED
  BY <1>1, <1>2, <1>3, <1>4, <1>5, <1>6, <1>7, <1>8, <1>9, <1>10, <1>11, <1>12, <1>13, <1>14,
     <1>15, <1>16, <1>17, <1>18 DEF Next

-----------------------------------------------------------------------------
(* The theorems.                                                           *)

LEMMA Invariant == Spec => []Inv
<1>1. Init => Inv
  BY TypeInit, HeldInit, OneInit DEF Inv
<1>2. Inv /\ [Next]_vars => Inv'
  BY TypeStep, HeldStep, OneStep DEF Inv
<1>3. QED  BY <1>1, <1>2, PTL DEF Spec

\* Records, saves, guard, travel and fetches keep their types; what an owner's
\* save writes is never the record of somebody else.
THEOREM TypeCorrect == Spec => []TypeOK
<1>1. Inv => TypeOK
  BY DEF Inv, TypeInv
<1>2. QED  BY <1>1, Invariant, PTL

\* However saves, fetches and travels overlap, what the client takes for stored
\* is of the world it is in, and the server has had it or the marker is there.
THEOREM StoredCorrect == Spec => []StoredIsOfThisWorld
<1>1. Inv => StoredIsOfThisWorld
  BY DEF Inv, HeldInv
<1>2. QED  BY <1>1, Invariant, PTL

\* Editors and guard between them never have two saves of one record under
\* way, in a session in which the room has not been reset.
THEOREM OneSaveCorrect == Spec => []OneSaveAtATime
<1>1. Inv => OneSaveAtATime
  BY DEF Inv, OneInv
<1>2. QED  BY <1>1, Invariant, PTL

\* unsaved_guard.rs, portal travel, sign-out and window close together: what
\* they discard the player has agreed to lose, or has touched since the guard
\* answered, however many saves, trips and sessions overlap.
THEOREM NothingLostCorrect == Spec => []NothingLostSilently
<1>1. Init => Inv /\ LostInv
  BY TypeInit, HeldInit, OneInit, LostInit DEF Inv
<1>2. Inv /\ LostInv /\ [Next]_vars => (Inv /\ LostInv)'
  BY TypeStep, HeldStep, OneStep, LostStep DEF Inv
<1>3. LostInv => NothingLostSilently
  BY DEF LostInv, NothingLostSilently
<1>4. QED  BY <1>1, <1>2, <1>3, PTL DEF Spec
=============================================================================
