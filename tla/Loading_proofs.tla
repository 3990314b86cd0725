---------------------------- MODULE Loading_proofs ----------------------------
(***************************************************************************)
(* Proofs about Loading.                                                   *)
(***************************************************************************)
EXTENDS Loading, FiniteSetTheorems, TLAPS

-----------------------------------------------------------------------------
(* The invariants.                                                         *)

\* The tasks and timers are entities of the client.
TypeInv == TypeOK /\ IsFiniteSet(fetches) /\ IsFiniteSet(retries)

\* What the state of the program says of the records and the session.
PhaseInv ==
    /\ app = "in game" => \A k \in Kinds : live[k] # None
    /\ app = "login" => live = Nothing /\ stored = Nothing /\ marker = Nothing
    /\ app # "login" => session \in Accounts /\ where \in Dids

\* A kind no re-read has been asked for.
Solo(k) == k = Room \/ counts.reloads = 0

\* Such a kind has one fetch or timer at most, and only on the loading screen
\* until its record is there.
SoloInv ==
    \A k \in Kinds : Solo(k) =>
        /\ \A f, g \in fetches : f.kind = k /\ g.kind = k => f = g
        /\ \A f, g \in retries : f.kind = k /\ g.kind = k => f = g
        /\ \A f \in fetches, g \in retries : ~ (f.kind = k /\ g.kind = k)
        /\ Pending(k) => app = "loading" /\ live[k] = None

\* What is under way and has not been passed by an edit or a sign-out asks
\* for this session's record, and has been told what the server holds; and
\* there is nothing unsaved that it would replace.
AskedInv ==
    /\ app # "login" => \A f \in fetches \cup retries : f.kind \notin passed =>
          /\ f.did = Owner(f.kind)
          /\ f.answer \in {"none", "failure", pds[f.did][f.kind]}
    /\ app # "in game" => live = stored
    /\ \A k \in Kinds : Pending(k) /\ k \notin passed => live[k] = stored[k]

\* What is shown, and what is taken for stored.
OwnInv ==
    /\ \A k \in Kinds \ overtaken : live[k] # None => live[k].did = Owner(k)
    /\ StoredIsHeldOrMarked

Inv == TypeInv /\ PhaseInv /\ SoloInv /\ AskedInv /\ OwnInv

-----------------------------------------------------------------------------
(* The data.                                                               *)

\* There is a number that no member of a finite set has.
LEMMA FreshType ==
    ASSUME NEW xs, IsFiniteSet(xs)
    PROVE  Fresh(xs) \in Nat
<1> DEFINE ns == {x.n : x \in xs}
           bound == Cardinality(xs) + 1
<1>1. Cardinality(xs) \in Nat /\ IsFiniteSet(ns) /\ Cardinality(ns) <= Cardinality(xs)
  <2>1. [x \in xs |-> x.n] \in Surjection(xs, ns)
    BY DEF Surjection
  <2>2. QED  BY <2>1, FS_Surjection, FS_CardinalityType
<1>2. Cardinality(ns) \in Nat
  BY <1>1, FS_CardinalityType
<1>3. IsFiniteSet(1..bound) /\ Cardinality(1..bound) = bound
  <2>1. 1 \in Int /\ bound \in Int /\ 1 <= bound /\ bound - 1 + 1 = bound
    BY <1>1
  <2>2. QED  BY <2>1, FS_Interval
<1>4. ~ (1..bound \subseteq ns)
  <2>1. SUFFICES ASSUME 1..bound \subseteq ns PROVE FALSE
    OBVIOUS
  <2>2. Cardinality(1..bound) <= Cardinality(ns)
    BY <1>1, <2>1, FS_Subset
  <2>3. QED  BY <1>1, <1>2, <1>3, <2>2
<1>5. \E n \in 1..bound : \A x \in xs : x.n # n
  BY <1>4
<1>6. Fresh(xs) \in 1..bound
  BY <1>5 DEF Fresh
<1>7. QED  BY <1>1, <1>6

\* What a record type's request, its answer and its installation are.
LEMMA AskedType ==
    ASSUME TypeInv, NEW k \in Kinds, NEW d \in Dids, NEW attempt \in Nat
    PROVE  /\ Asked(k, d, attempt) \in Tasks
           /\ Asked(k, d, attempt).kind = k /\ Asked(k, d, attempt).did = d
           /\ Asked(k, d, attempt).attempt = attempt
           /\ Asked(k, d, attempt).answer = "none"
<1>1. IsFiniteSet(fetches \cup retries)
  BY FS_Union DEF TypeInv
<1>2. Fresh(fetches \cup retries) \in Nat
  BY <1>1, FreshType
<1>3. QED  BY <1>2 DEF Asked, Tasks

LEMMA OutcomeType ==
    ASSUME NEW f \in Tasks
    PROVE  /\ Outcome(f) \in Records /\ Outcome(f).did = f.did
           /\ Outcome(f) # None
           /\ Cause(f) \in Causes \cup {None}
<1>1. f.did \in Dids
  BY DEF Tasks
<1>2. Outcome(f) \in Records /\ Outcome(f).did = f.did
  BY <1>1 DEF Outcome, Records
<1>3. Outcome(f) # None
  BY <1>2, LoadingAssumption
<1>4. Cause(f) \in Causes \cup {None}
  BY DEF Cause, Causes
<1>5. QED  BY <1>2, <1>3, <1>4

LEMMA AttemptsType == \A k \in Kinds : Attempts[k] \in Nat /\ 0 <= Attempts[k]
<1>1. Attempts \in [Kinds -> Nat]
  BY LoadingAssumption
<1>2. QED  BY <1>1

-----------------------------------------------------------------------------
(* Types.                                                                  *)

LEMMA TypeInit == Init => TypeInv
<1> SUFFICES ASSUME Init PROVE TypeInv
  OBVIOUS
<1>1. TypeOK
  BY LoadingAssumption DEF Init, TypeOK, Nothing
<1>2. IsFiniteSet(fetches) /\ IsFiniteSet(retries)
  BY FS_EmptySet DEF Init
<1>3. QED  BY <1>1, <1>2 DEF TypeInv

LEMMA TypeStep ==
    ASSUME TypeInv, PhaseInv, [Next]_vars
    PROVE  TypeInv'
<1> USE DEF TypeInv
<1>t. TypeOK
  OBVIOUS
<1>1. CASE \E f \in fetches : Answer(f)
  <2>1. PICK f \in fetches : Answer(f)
    BY <1>1
  <2>2. f \in Tasks
    BY <1>t DEF TypeOK
  <2>3. PICK answer \in {pds[f.did][f.kind], "failure"} :
          fetches' = (fetches \ {f}) \cup {[f EXCEPT !.answer = answer]}
    BY <2>1 DEF Answer
  <2>4. answer \in Holdings \cup {"failure"}
    <3>1. f.did \in Dids /\ f.kind \in Kinds
      BY <2>2 DEF Tasks
    <3>2. pds \in [Dids -> [Kinds -> Holdings]]
      BY <1>t DEF TypeOK
    <3>3. QED  BY <3>1, <3>2, <2>3
  <2>5. [f EXCEPT !.answer = answer] \in Tasks
        /\ [f EXCEPT !.answer = answer].attempt = f.attempt
        /\ [f EXCEPT !.answer = answer].kind = f.kind
    BY <2>2, <2>4 DEF Tasks
  <2>6. fetches' \subseteq Tasks
    BY <2>3, <2>5, <1>t DEF TypeOK
  <2>7. \A g \in fetches' \cup retries' : g.attempt <= Attempts[g.kind]
    BY <2>1, <2>3, <2>5, <1>t DEF TypeOK, Answer
  <2>8. IsFiniteSet(fetches')
    BY <2>3, FS_RemoveElement, FS_AddElement
  <2>9. QED  BY <2>1, <2>6, <2>7, <2>8, <1>t DEF TypeOK, Answer, records, world, history
<1>2. CASE \E f \in fetches : Requeue(f)
  <2>1. PICK f \in fetches : Requeue(f)
    BY <1>2
  <2>2. f \in Tasks
    BY <1>t DEF TypeOK
  <2>3. [f EXCEPT !.attempt = @ + 1, !.answer = "none"] \in Tasks
        /\ [f EXCEPT !.attempt = @ + 1, !.answer = "none"].attempt <= Attempts[f.kind]
        /\ [f EXCEPT !.attempt = @ + 1, !.answer = "none"].kind = f.kind
    <3>1. f.attempt \in Nat /\ f.attempt + 1 \in Nat /\ f.attempt + 1 <= Attempts[f.kind]
      BY <2>1, <2>2 DEF Tasks, Requeue, MayRetry
    <3>2. QED  BY <2>2, <3>1 DEF Tasks
  <2>4. fetches' \subseteq Tasks /\ retries' \subseteq Tasks
    BY <2>1, <2>3, <1>t DEF TypeOK, Requeue
  <2>5. \A g \in fetches' \cup retries' : g.attempt <= Attempts[g.kind]
    BY <2>1, <2>3, <1>t DEF TypeOK, Requeue
  <2>6. IsFiniteSet(fetches') /\ IsFiniteSet(retries')
    BY <2>1, FS_RemoveElement, FS_AddElement DEF Requeue
  <2>7. QED  BY <2>1, <2>4, <2>5, <2>6, <1>t DEF TypeOK, Requeue, records, world, history
<1>3. CASE \E f \in fetches : Install(f)
  <2>1. PICK f \in fetches : Install(f)
    BY <1>3
  <2>2. f \in Tasks /\ f.kind \in Kinds
    BY <1>t DEF TypeOK, Tasks
  <2>3. Outcome(f) \in Records /\ Cause(f) \in Causes \cup {None}
    BY <2>2, OutcomeType
  <2>4. IsFiniteSet(fetches')
    BY <2>1, FS_RemoveElement DEF Install
  <2>5. QED  BY <2>1, <2>2, <2>3, <2>4, <1>t DEF TypeOK, Install, world
<1>4. CASE \E r \in retries : Fire(r)
  <2>1. PICK r \in retries : Fire(r)
    BY <1>4
  <2>2. r \in Tasks /\ r.kind \in Kinds /\ r.did \in Dids /\ r.attempt \in Nat
        /\ r.attempt <= Attempts[r.kind]
    BY <1>t DEF TypeOK, Tasks
  <2>3. /\ Asked(r.kind, r.did, r.attempt) \in Tasks
        /\ Asked(r.kind, r.did, r.attempt).kind = r.kind
        /\ Asked(r.kind, r.did, r.attempt).attempt = r.attempt
    BY <2>2, AskedType
  <2>4. fetches' \subseteq Tasks /\ retries' \subseteq Tasks
        /\ \A g \in fetches' \cup retries' : g.attempt <= Attempts[g.kind]
    BY <2>1, <2>2, <2>3, <1>t DEF TypeOK, Fire
  <2>5. IsFiniteSet(fetches') /\ IsFiniteSet(retries')
    BY <2>1, FS_RemoveElement, FS_AddElement DEF Fire
  <2>6. QED  BY <2>1, <2>4, <2>5, <1>t DEF TypeOK, Fire, records, world, history
<1>5. CASE \E a \in Accounts, d \in Dids : SignIn(a, d)
  <2>1. PICK a \in Accounts, d \in Dids : SignIn(a, d)
    BY <1>5
  <2> DEFINE asked(k) == Asked(k, IF k = Room THEN d ELSE a, 0)
             new == {asked(k) : k \in Kinds}
  <2>2. a \in Dids
    BY LoadingAssumption
  <2>3. \A k \in Kinds : asked(k) \in Tasks /\ asked(k).kind = k /\ asked(k).attempt = 0
    BY <2>2, AskedType
  <2>4. fetches' = fetches \cup new
    BY <2>1 DEF SignIn
  <2>5. fetches' \subseteq Tasks
    BY <2>3, <2>4, <1>t DEF TypeOK
  <2>6. \A g \in fetches' \cup retries' : g.attempt <= Attempts[g.kind]
    <3> HIDE DEF asked
    <3>1. \A g \in fetches \cup retries : g.attempt <= Attempts[g.kind]
      BY <1>t DEF TypeOK
    <3>2. \A k \in Kinds : 0 <= Attempts[k]
      BY AttemptsType
    <3>3. \A g \in new : g.attempt <= Attempts[g.kind]
      BY <2>3, <3>2
    <3>4. retries' = retries
      BY <2>1 DEF SignIn
    <3>5. QED  BY <2>4, <3>1, <3>3, <3>4
  <2>7. IsFiniteSet(new)
    <3> HIDE DEF asked
    <3>1. [k \in Kinds |-> asked(k)] \in Surjection(Kinds, new)
      BY DEF Surjection
    <3>2. QED  BY <3>1, LoadingAssumption, FS_Surjection
  <2>8. IsFiniteSet(fetches')
    BY <2>4, <2>7, FS_Union
  <2>9. {k \in Kinds : Pending(k)} \subseteq Kinds
    OBVIOUS
  <2>10. QED
    BY <2>1, <2>5, <2>6, <2>8, <2>9, <1>t DEF TypeOK, SignIn, records
<1>6. CASE Abort
  BY <1>6, <1>t, FS_EmptySet DEF TypeOK, Abort, SessionGone, Abandoned, Nothing
<1>7. CASE SignOut
  BY <1>7, <1>t DEF TypeOK, SignOut, SessionGone, Nothing
<1>8. CASE BuildTerrain \/ CompileWorld \/ StartAmbient \/ AmbientReady \/ EnterGame
  BY <1>8, <1>t DEF TypeOK, BuildTerrain, CompileWorld, StartAmbient, AmbientReady, EnterGame,
     records, world, history
<1>9. CASE \E k \in Kinds : Save(k)
  <2>1. PICK k \in Kinds : Save(k)
    BY <1>9
  <2>2. live \in [Kinds -> Records \cup {None}]
    BY <1>t DEF TypeOK
  <2>3. live[k] # None
    BY <2>1 DEF Save, PhaseInv
  <2>4. live[k] \in Records /\ live[k].version \in Holdings
    BY <2>2, <2>3 DEF Records, Holdings
  <2>5. pds' \in [Dids -> [Kinds -> Holdings]]
    BY <2>1, <2>4, <1>t DEF TypeOK, Save
  <2>6. QED  BY <2>1, <2>2, <2>5, <1>t DEF TypeOK, Save, world, history
<1>10. CASE \E k \in Kinds : Reload(k)
  <2>1. PICK k \in Kinds : Reload(k)
    BY <1>10
  <2>2. session \in Dids
    BY <2>1, LoadingAssumption DEF Reload, PhaseInv
  <2>3. /\ Asked(k, session, 0) \in Tasks
        /\ Asked(k, session, 0).kind = k /\ Asked(k, session, 0).attempt = 0
    BY <2>2, AskedType
  <2>4. 0 <= Attempts[k]
    BY AttemptsType
  <2>5. fetches' \subseteq Tasks
        /\ \A g \in fetches' \cup retries' : g.attempt <= Attempts[g.kind]
    BY <2>1, <2>3, <2>4, <1>t DEF TypeOK, Reload
  <2>6. IsFiniteSet(fetches') /\ IsFiniteSet(retries')
    BY <2>1, FS_AddElement DEF Reload
  <2>7. counts' \in [sessions : Nat, reloads : Nat] /\ passed' \subseteq Kinds
    <3>1. counts \in [sessions : Nat, reloads : Nat] /\ passed \subseteq Kinds
      BY <1>t DEF TypeOK
    <3>2. counts' = [counts EXCEPT !.reloads = @ + 1]
      BY <2>1 DEF Reload
    <3>3. passed' = passed \/ passed' = passed \ {k}
      BY <2>1 DEF Reload
    <3>4. counts' \in [sessions : Nat, reloads : Nat]
      BY <3>1, <3>2
    <3>5. QED  BY <3>1, <3>3, <3>4
  <2>8. QED  BY <2>1, <2>5, <2>6, <2>7, <1>t DEF TypeOK, Reload, records, world
<1>11. CASE \E k \in Kinds, v \in Versions : Edit(k, v)
  <2>1. PICK k \in Kinds, v \in Versions : Edit(k, v)
    BY <1>11
  <2>2. live \in [Kinds -> Records \cup {None}] /\ live[k] \in Records
    BY <2>1, <1>t DEF TypeOK, Edit, PhaseInv
  <2>3. live' \in [Kinds -> Records \cup {None}]
    BY <2>1, <2>2 DEF Edit, Records
  <2>4. QED  BY <2>1, <2>3, <1>t DEF TypeOK, Edit, world
<1>12. CASE UNCHANGED vars
  BY <1>12, <1>t DEF TypeOK, vars, records, world, history
<1>13. QED
  BY <1>1, <1>2, <1>3, <1>4, <1>5, <1>6, <1>7, <1>8, <1>9, <1>10, <1>11, <1>12 DEF Next

\* Every task is of a record type.
LEMMA KindType == TypeInv => \A f \in fetches \cup retries : f \in Tasks /\ f.kind \in Kinds
BY DEF TypeInv, TypeOK, Tasks

-----------------------------------------------------------------------------
(* The phases.                                                             *)

LEMMA PhaseInit == Init => PhaseInv
BY DEF Init, PhaseInv, Nothing

LEMMA PhaseStep ==
    ASSUME TypeInv, PhaseInv, [Next]_vars
    PROVE  PhaseInv'
<1>t. live \in [Kinds -> Records \cup {None}]
  BY DEF TypeInv, TypeOK
<1>1. CASE \E f \in fetches : Answer(f) \/ Requeue(f)
  BY <1>1 DEF PhaseInv, Answer, Requeue, records
<1>2. CASE \E f \in fetches : Install(f)
  <2>1. PICK f \in fetches : Install(f)
    BY <1>2
  <2>2. f.kind \in Kinds /\ Outcome(f) # None
    BY KindType, OutcomeType
  <2>3. /\ live' = [live EXCEPT ![f.kind] = Outcome(f)]
        /\ app' = app /\ session' = session /\ where' = where
        /\ app # "login"
    BY <2>1 DEF Install, Runs
  <2>4. QED  BY <1>t, <2>2, <2>3 DEF PhaseInv
<1>3. CASE \E r \in retries : Fire(r)
  BY <1>3 DEF PhaseInv, Fire, records
<1>4. CASE \E a \in Accounts, d \in Dids : SignIn(a, d)
  BY <1>4 DEF PhaseInv, SignIn, records
<1>5. CASE Abort \/ SignOut
  BY <1>5 DEF PhaseInv, Abort, SignOut, SessionGone
<1>6. CASE BuildTerrain \/ CompileWorld \/ StartAmbient \/ AmbientReady \/ EnterGame
  BY <1>6 DEF PhaseInv, BuildTerrain, CompileWorld, StartAmbient, AmbientReady, EnterGame, records
<1>7. CASE \E k \in Kinds : Save(k) \/ Reload(k)
  BY <1>7 DEF PhaseInv, Save, Reload, records
<1>8. CASE \E k \in Kinds, v \in Versions : Edit(k, v)
  <2>1. PICK k \in Kinds, v \in Versions : Edit(k, v)
    BY <1>8
  <2>2. live[k] \in Records
    BY <1>t, <2>1 DEF PhaseInv, Edit
  <2>3. [live[k] EXCEPT !.version = v] \in Records
    BY <2>2 DEF Records
  <2>4. [live[k] EXCEPT !.version = v] # None
    BY <2>3, LoadingAssumption
  <2>5. live' = [live EXCEPT ![k] = [live[k] EXCEPT !.version = v]]
    BY <2>1 DEF Edit
  <2>6. app' = "in game" /\ app = "in game" /\ session' = session /\ where' = where
    BY <2>1 DEF Edit
  <2>7. QED  BY <1>t, <2>4, <2>5, <2>6 DEF PhaseInv
<1>9. CASE UNCHANGED vars
  BY <1>9 DEF PhaseInv, vars, records
<1>10. QED
  BY <1>1, <1>2, <1>3, <1>4, <1>5, <1>6, <1>7, <1>8, <1>9 DEF Next

-----------------------------------------------------------------------------
(* One task for a kind.                                                    *)

LEMMA SoloInit == Init => SoloInv
BY DEF Init, SoloInv, Pending

LEMMA SoloStep ==
    ASSUME TypeInv, PhaseInv, SoloInv, [Next]_vars
    PROVE  SoloInv'
<1>1. CASE \E f \in fetches : Answer(f)
  <2>1. PICK f \in fetches : Answer(f)
    BY <1>1
  <2>2. PICK answer : fetches' = (fetches \ {f}) \cup {[f EXCEPT !.answer = answer]}
    BY <2>1 DEF Answer
  <2> DEFINE g == [f EXCEPT !.answer = answer]
  <2>3. g.kind = f.kind
    BY KindType DEF Tasks
  <2>4. retries' = retries /\ counts' = counts /\ app' = app /\ live' = live
    BY <2>1 DEF Answer, records, history
  <2>5. fetches' = (fetches \ {f}) \cup {g}
    BY <2>2
  <2> HIDE DEF g
  <2>6. QED  BY <2>3, <2>4, <2>5 DEF SoloInv, Solo, Pending
<1>2. CASE \E f \in fetches : Requeue(f)
  <2>1. PICK f \in fetches : Requeue(f)
    BY <1>2
  <2> DEFINE g == [f EXCEPT !.attempt = @ + 1, !.answer = "none"]
  <2>2. g.kind = f.kind
    BY KindType DEF Tasks
  <2>3. fetches' = fetches \ {f} /\ retries' = retries \cup {g}
    BY <2>1 DEF Requeue
  <2>4. counts' = counts /\ app' = app /\ live' = live
    BY <2>1 DEF Requeue, records, history
  <2> HIDE DEF g
  <2>5. QED  BY <2>2, <2>3, <2>4 DEF SoloInv, Solo, Pending
<1>3. CASE \E f \in fetches : Install(f)
  <2>1. PICK f \in fetches : Install(f)
    BY <1>3
  <2>2. fetches' = fetches \ {f} /\ retries' = retries /\ counts' = counts /\ app' = app
    BY <2>1 DEF Install
  <2>3. \A k \in Kinds \ {f.kind} : live'[k] = live[k]
    BY <2>1 DEF Install, TypeInv, TypeOK
  <2>4. QED  BY <2>2, <2>3 DEF SoloInv, Solo, Pending
<1>4. CASE \E r \in retries : Fire(r)
  <2>1. PICK r \in retries : Fire(r)
    BY <1>4
  <2> DEFINE g == Asked(r.kind, r.did, r.attempt)
  <2>2. g.kind = r.kind
    BY KindType, AskedType DEF Tasks
  <2>3. fetches' = fetches \cup {g} /\ retries' = retries \ {r}
    BY <2>1 DEF Fire
  <2>4. counts' = counts /\ app' = app /\ live' = live
    BY <2>1 DEF Fire, records, history
  <2> HIDE DEF g
  <2>5. QED  BY <2>2, <2>3, <2>4 DEF SoloInv, Solo, Pending
<1>5. CASE \E a \in Accounts, d \in Dids : SignIn(a, d)
  <2>1. PICK a \in Accounts, d \in Dids : SignIn(a, d)
    BY <1>5
  <2> DEFINE asked(k) == Asked(k, IF k = Room THEN d ELSE a, 0)
  <2>2. a \in Dids
    BY LoadingAssumption
  <2>3. \A k \in Kinds : asked(k).kind = k
    BY <2>2, AskedType
  <2>4. fetches' = fetches \cup {asked(k) : k \in Kinds} /\ retries' = retries
    BY <2>1 DEF SignIn
  <2>5. app = "login" /\ app' = "loading" /\ live' = Nothing /\ counts'.reloads = counts.reloads
    BY <2>1 DEF SignIn, records, PhaseInv, TypeInv, TypeOK
  <2> HIDE DEF asked
  <2>6. \A k \in Kinds : Solo(k) => \A f \in fetches \cup retries : f.kind # k
    BY <2>5 DEF SoloInv, Pending
  <2>7. \A k \in Kinds : Solo(k)' => Solo(k)
    BY <2>5 DEF Solo
  <2>8. \A k \in Kinds : live'[k] = None
    BY <2>5 DEF Nothing
  <2>9. QED  BY <2>3, <2>4, <2>5, <2>6, <2>7, <2>8 DEF SoloInv, Pending
<1>6. CASE Abort
  BY <1>6 DEF Abort, Abandoned, SoloInv, Pending
<1>7. CASE SignOut
  <2>1. app = "in game" /\ fetches' = fetches /\ retries' = retries /\ counts' = counts
    BY <1>7 DEF SignOut, SessionGone
  <2>2. \A k \in Kinds : Solo(k) => ~Pending(k)
    BY <2>1 DEF SoloInv
  <2>3. QED  BY <2>1, <2>2 DEF SoloInv, Solo, Pending
<1>8. CASE BuildTerrain \/ CompileWorld \/ StartAmbient \/ AmbientReady \/ EnterGame
  BY <1>8 DEF SoloInv, Solo, Pending, BuildTerrain, CompileWorld, StartAmbient, AmbientReady,
     EnterGame, records, history
<1>9. CASE \E k \in Kinds : Save(k)
  BY <1>9 DEF SoloInv, Solo, Pending, Save, history
<1>10. CASE \E k \in Kinds : Reload(k)
  <2>1. PICK k \in Kinds : Reload(k)
    BY <1>10
  <2>2. session \in Dids
    BY <2>1, LoadingAssumption DEF Reload, PhaseInv
  <2>3. Asked(k, session, 0).kind = k
    BY <2>2, AskedType
  <2> DEFINE g == Asked(k, session, 0)
  <2>4. counts'.reloads # 0
    <3>1. counts \in [sessions : Nat, reloads : Nat]
      BY DEF TypeInv, TypeOK
    <3>2. counts' = [counts EXCEPT !.reloads = @ + 1]
      BY <2>1 DEF Reload
    <3>3. counts'.reloads = counts.reloads + 1 /\ counts.reloads \in Nat
      BY <3>1, <3>2
    <3>4. QED  BY <3>3
  <2>5. fetches' = fetches \cup {g} /\ retries' = retries /\ app' = app /\ live' = live
    BY <2>1 DEF Reload, records
  <2>6. g.kind = k
    BY <2>3
  <2> HIDE DEF g
  <2>7. app = "in game"
    BY <2>1 DEF Reload
  <2>8. ~Pending(Room)
    BY <2>7, LoadingAssumption DEF SoloInv, Solo
  <2>9. \A f \in fetches' \cup retries' : f.kind # Room
    BY <2>1, <2>5, <2>6, <2>8 DEF Pending, Reload
  <2>10. \A j \in Kinds : Solo(j)' => j = Room
    BY <2>4 DEF Solo
  <2>11. QED  BY <2>9, <2>10 DEF SoloInv, Pending
<1>11. CASE \E k \in Kinds, v \in Versions : Edit(k, v)
  BY <1>11 DEF SoloInv, Solo, Pending, Edit
<1>12. CASE UNCHANGED vars
  BY <1>12 DEF SoloInv, Solo, Pending, vars, records, history
<1>13. QED
  BY <1>1, <1>2, <1>3, <1>4, <1>5, <1>6, <1>7, <1>8, <1>9, <1>10, <1>11, <1>12 DEF Next

-----------------------------------------------------------------------------
(* What is under way.                                                      *)

LEMMA AskedInit == Init => AskedInv
BY DEF Init, AskedInv, Pending, Nothing

LEMMA AskedStep ==
    ASSUME TypeInv, PhaseInv, AskedInv, [Next]_vars
    PROVE  AskedInv'
<1>t. /\ live \in [Kinds -> Records \cup {None}] /\ stored \in [Kinds -> Records \cup {None}]
      /\ pds \in [Dids -> [Kinds -> Holdings]]
  BY DEF TypeInv, TypeOK
<1>1. CASE \E f \in fetches : Answer(f)
  <2>1. PICK f \in fetches : Answer(f)
    BY <1>1
  <2>2. PICK answer \in {pds[f.did][f.kind], "failure"} :
          fetches' = (fetches \ {f}) \cup {[f EXCEPT !.answer = answer]}
    BY <2>1 DEF Answer
  <2> DEFINE g == [f EXCEPT !.answer = answer]
  <2>3. g.kind = f.kind /\ g.did = f.did /\ g.answer = answer
    BY KindType DEF Tasks
  <2>4. /\ retries' = retries /\ passed' = passed /\ app' = app /\ live' = live
        /\ stored' = stored /\ pds' = pds /\ session' = session /\ where' = where
    BY <2>1 DEF Answer, records, history
  <2>5. fetches' = (fetches \ {f}) \cup {g}
    BY <2>2
  <2> HIDE DEF g
  <2>6. g.answer \in {"failure", pds[g.did][g.kind]}
    BY <2>2, <2>3
  <2>7. \A k \in Kinds : Pending(k)' => Pending(k)
    BY <2>3, <2>4, <2>5 DEF Pending
  <2>8. \A h \in fetches' \cup retries' : h # g => h \in fetches \cup retries
    BY <2>4, <2>5
  <2>9. app # "login" => \A h \in fetches' \cup retries' : h.kind \notin passed =>
          h.did = Owner(h.kind) /\ h.answer \in {"none", "failure", pds[h.did][h.kind]}
    BY <2>3, <2>6, <2>8 DEF AskedInv
  <2>10. \A k : Owner(k)' = Owner(k)
    BY <2>4 DEF Owner
  <2>11. QED  BY <2>4, <2>7, <2>9, <2>10 DEF AskedInv
<1>2. CASE \E f \in fetches : Requeue(f)
  <2>1. PICK f \in fetches : Requeue(f)
    BY <1>2
  <2> DEFINE g == [f EXCEPT !.attempt = @ + 1, !.answer = "none"]
  <2>2. g.kind = f.kind /\ g.did = f.did /\ g.answer = "none"
    BY KindType DEF Tasks
  <2>3. fetches' = fetches \ {f} /\ retries' = retries \cup {g}
    BY <2>1 DEF Requeue
  <2>4. /\ passed' = passed /\ app' = app /\ live' = live /\ stored' = stored
        /\ pds' = pds /\ session' = session /\ where' = where
    BY <2>1 DEF Requeue, records, history
  <2> HIDE DEF g
  <2>5. QED  BY <2>2, <2>3, <2>4 DEF AskedInv, Pending, Owner
<1>3. CASE \E f \in fetches : Install(f)
  <2>1. PICK f \in fetches : Install(f)
    BY <1>3
  <2>2. /\ fetches' = fetches \ {f} /\ retries' = retries /\ passed' = passed /\ app' = app
        /\ pds' = pds /\ session' = session /\ where' = where
        /\ live' = [live EXCEPT ![f.kind] = Outcome(f)]
        /\ stored' = [stored EXCEPT ![f.kind] = Outcome(f)]
    BY <2>1 DEF Install
  <2>3. \A k \in Kinds : live[k] = stored[k] => live'[k] = stored'[k]
    BY <2>2, <1>t
  <2>4. live = stored => live' = stored'
    BY <2>2
  <2>5. QED  BY <2>2, <2>3, <2>4 DEF AskedInv, Pending, Owner
<1>4. CASE \E r \in retries : Fire(r)
  <2>1. PICK r \in retries : Fire(r)
    BY <1>4
  <2> DEFINE g == Asked(r.kind, r.did, r.attempt)
  <2>2. g.kind = r.kind /\ g.did = r.did /\ g.answer = "none"
    BY KindType, AskedType DEF Tasks
  <2>3. fetches' = fetches \cup {g} /\ retries' = retries \ {r}
    BY <2>1 DEF Fire
  <2>4. /\ passed' = passed /\ app' = app /\ live' = live /\ stored' = stored
        /\ pds' = pds /\ session' = session /\ where' = where
    BY <2>1 DEF Fire, records, history
  <2> HIDE DEF g
  <2>5. QED  BY <2>2, <2>3, <2>4 DEF AskedInv, Pending, Owner
<1>5. CASE \E a \in Accounts, d \in Dids : SignIn(a, d)
  <2>1. PICK a \in Accounts, d \in Dids : SignIn(a, d)
    BY <1>5
  <2> DEFINE asked(k) == Asked(k, IF k = Room THEN d ELSE a, 0)
  <2>2. a \in Dids
    BY LoadingAssumption
  <2>3. \A k \in Kinds : /\ asked(k).kind = k /\ asked(k).answer = "none"
                         /\ asked(k).did = IF k = Room THEN d ELSE a
    BY <2>2, AskedType
  <2>4. fetches' = fetches \cup {asked(k) : k \in Kinds} /\ retries' = retries
    BY <2>1 DEF SignIn
  <2>5. /\ app = "login" /\ app' = "loading" /\ live' = live /\ stored' = stored
        /\ session' = a /\ where' = d /\ passed' = {k \in Kinds : Pending(k)}
    BY <2>1 DEF SignIn, records
  <2> HIDE DEF asked
  <2>6. \A f \in fetches \cup retries : f.kind \in passed'
    BY <2>5, KindType DEF Pending
  <2>7. \A k \in Kinds : asked(k).did = Owner(k)'
    BY <2>3, <2>5 DEF Owner
  <2>8. \A f \in fetches' \cup retries' : f.kind \notin passed' =>
          f.did = Owner(f.kind)' /\ f.answer = "none"
    BY <2>3, <2>4, <2>6, <2>7
  <2>9. live' = stored'
    BY <2>5 DEF AskedInv
  <2>10. QED  BY <2>5, <2>8, <2>9 DEF AskedInv
<1>6. CASE Abort
  BY <1>6 DEF Abort, SessionGone, Abandoned, AskedInv, Pending
<1>7. CASE SignOut
  BY <1>7 DEF SignOut, SessionGone, AskedInv
<1>8. CASE BuildTerrain \/ CompileWorld \/ StartAmbient \/ AmbientReady \/ EnterGame
  BY <1>8 DEF AskedInv, Pending, Owner, BuildTerrain, CompileWorld, StartAmbient, AmbientReady,
     EnterGame, records, history
<1>9. CASE \E k \in Kinds : Save(k)
  <2>1. PICK k \in Kinds : Save(k)
    BY <1>9
  <2>2. /\ fetches' = fetches /\ retries' = retries /\ passed' = passed
        /\ app = "in game" /\ app' = app /\ session' = session /\ where' = where
        /\ pds' = [pds EXCEPT ![session][k] = live[k].version]
        /\ live' = live /\ stored' = [stored EXCEPT ![k] = live[k]]
        /\ live[k] # stored[k]
    BY <2>1 DEF Save, Dirty, history
  <2>3. \A f \in fetches \cup retries : f.kind \notin passed => f.kind # k
    BY <2>2 DEF AskedInv, Pending
  <2>4. \A f \in fetches \cup retries : f.kind \notin passed =>
          pds'[f.did][f.kind] = pds[f.did][f.kind]
    BY <2>2, <2>3, <1>t, KindType DEF Tasks
  <2>5. \A j \in Kinds : live[j] = stored[j] => live'[j] = stored'[j]
    BY <2>2, <1>t
  <2>6. QED  BY <2>2, <2>4, <2>5 DEF AskedInv, Pending, Owner
<1>10. CASE \E k \in Kinds : Reload(k)
  <2>1. PICK k \in Kinds : Reload(k)
    BY <1>10
  <2>2. session \in Dids
    BY <2>1, LoadingAssumption DEF Reload, PhaseInv
  <2> DEFINE g == Asked(k, session, 0)
  <2>3. g.kind = k /\ g.did = session /\ g.answer = "none"
    BY <2>2, AskedType
  <2>4. /\ fetches' = fetches \cup {g} /\ retries' = retries
        /\ app = "in game" /\ app' = app /\ session' = session /\ where' = where
        /\ pds' = pds /\ live' = live /\ stored' = stored
        /\ k # Room /\ live[k] = stored[k]
        /\ passed' = IF Pending(k) THEN passed ELSE passed \ {k}
    BY <2>1 DEF Reload, Dirty, records
  <2> HIDE DEF g
  <2>5. \A f \in fetches \cup retries : f.kind \notin passed' => f.kind \notin passed
    BY <2>4 DEF Pending
  <2>6. \A j \in Kinds \ {k} : Pending(j)' /\ j \notin passed' => Pending(j) /\ j \notin passed
    BY <2>3, <2>4 DEF Pending
  <2>7. Owner(k)' = session /\ \A j \in Kinds : Owner(j)' = Owner(j)
    BY <2>4 DEF Owner
  <2>8. \A f \in fetches' \cup retries' : f.kind \notin passed' =>
          /\ f.did = Owner(f.kind)'
          /\ f.answer \in {"none", "failure", pds'[f.did][f.kind]}
    <3> TAKE f \in fetches' \cup retries'
    <3> HAVE f.kind \notin passed'
    <3>1. CASE f = g
      BY <3>1, <2>3, <2>7
    <3>2. CASE f # g
      <4>1. f \in fetches \cup retries
        BY <3>2, <2>4
      <4>2. f.kind \in Kinds /\ f.kind \notin passed
        BY <4>1, <2>5, KindType
      <4>3. f.did = Owner(f.kind) /\ f.answer \in {"none", "failure", pds[f.did][f.kind]}
        BY <4>1, <4>2, <2>4 DEF AskedInv
      <4>4. QED  BY <4>2, <4>3, <2>4, <2>7
    <3>3. QED  BY <3>1, <3>2
  <2>9. \A j \in Kinds : Pending(j)' /\ j \notin passed' => live'[j] = stored'[j]
    <3> TAKE j \in Kinds
    <3>1. CASE j = k
      BY <3>1, <2>4
    <3>2. CASE j # k
      BY <3>2, <2>4, <2>6 DEF AskedInv
    <3>3. QED  BY <3>1, <3>2
  <2>10. (app # "in game")' => (live = stored)'
    BY <2>4
  <2>11. QED  BY <2>8, <2>9, <2>10 DEF AskedInv
<1>11. CASE \E k \in Kinds, v \in Versions : Edit(k, v)
  <2>1. PICK k \in Kinds, v \in Versions : Edit(k, v)
    BY <1>11
  <2>2. /\ fetches' = fetches /\ retries' = retries
        /\ app = "in game" /\ app' = app /\ session' = session /\ where' = where
        /\ pds' = pds /\ stored' = stored
        /\ passed' = IF Pending(k) THEN passed \cup {k} ELSE passed
    BY <2>1 DEF Edit
  <2>3. \A j \in Kinds \ {k} : live'[j] = live[j]
    BY <2>1, <1>t DEF Edit
  <2>4. \A j \in Kinds : Pending(j)' /\ j \notin passed' => Pending(j) /\ j \notin passed /\ j # k
    BY <2>2 DEF Pending
  <2>5. \A f \in fetches \cup retries : f.kind \notin passed' => f.kind \notin passed
    BY <2>2
  <2>6. \A j : Owner(j)' = Owner(j)
    BY <2>2 DEF Owner
  <2>7. QED  BY <2>2, <2>3, <2>4, <2>5, <2>6 DEF AskedInv
<1>12. CASE UNCHANGED vars
  BY <1>12 DEF AskedInv, Pending, Owner, vars, records, history
<1>13. QED
  BY <1>1, <1>2, <1>3, <1>4, <1>5, <1>6, <1>7, <1>8, <1>9, <1>10, <1>11, <1>12 DEF Next

-----------------------------------------------------------------------------
(* What is shown and what is taken for stored.                             *)

LEMMA OwnInit == Init => OwnInv
BY DEF Init, OwnInv, StoredIsHeldOrMarked, Nothing

\* A fetch that has not been passed installs what the server holds, or a
\* default under a marker.
LEMMA InstallHeld ==
    ASSUME TypeInv, AskedInv, NEW f \in fetches, Install(f), f.kind \notin passed
    PROVE  /\ Outcome(f).did = Owner(f.kind)
           /\ Cause(f) # None \/ Outcome(f) = Held(f.kind)
<1>1. f \in Tasks /\ f.kind \in Kinds /\ f.did \in Dids
  BY KindType DEF Tasks
<1>2. app # "login" /\ f.answer # "none"
  BY DEF Install, Runs
<1>3. f.did = Owner(f.kind) /\ f.answer \in {"failure", pds[f.did][f.kind]}
  BY <1>2 DEF AskedInv
<1>4. Outcome(f).did = Owner(f.kind)
  BY <1>3 DEF Outcome
<1>5. pds[f.did][f.kind] \in Holdings
  BY <1>1 DEF TypeInv, TypeOK
<1>6. CASE f.answer \in {"failure", "unreadable", "no account"}
  <2>1. Cause(f) \in Causes
    BY <1>6 DEF Cause, Causes
  <2>2. QED  BY <1>4, <2>1, LoadingAssumption
<1>7. CASE f.answer \notin {"failure", "unreadable", "no account"}
  <2>1. f.answer = pds[f.did][f.kind] /\ f.answer \in Versions \cup {Missing}
    BY <1>3, <1>5, <1>7 DEF Holdings
  <2>2. Outcome(f) = [did |-> f.did, version |-> f.answer]
    BY <2>1 DEF Outcome
  <2>3. QED  BY <1>3, <1>4, <2>1, <2>2 DEF Held
<1>8. QED  BY <1>6, <1>7

LEMMA OwnUnchanged ==
    ASSUME OwnInv, UNCHANGED <<records, session, where, pds, overtaken>>
    PROVE  OwnInv'
<1>1. /\ live' = live /\ stored' = stored /\ marker' = marker /\ overtaken' = overtaken
      /\ session' = session /\ where' = where /\ pds' = pds
  BY DEF records
<1>2. \A k \in Kinds : Owner(k)' = Owner(k) /\ Held(k)' = Held(k)
  BY <1>1 DEF Owner, Held
<1>3. QED  BY <1>1, <1>2 DEF OwnInv, StoredIsHeldOrMarked

LEMMA OwnStep ==
    ASSUME TypeInv, PhaseInv, AskedInv, OwnInv, [Next]_vars
    PROVE  OwnInv'
<1>t. /\ live \in [Kinds -> Records \cup {None}] /\ stored \in [Kinds -> Records \cup {None}]
      /\ marker \in [Kinds -> Causes \cup {None}]
      /\ pds \in [Dids -> [Kinds -> Holdings]]
  BY DEF TypeInv, TypeOK
<1>1. CASE \E f \in fetches : Answer(f) \/ Requeue(f)
  BY <1>1, OwnUnchanged DEF Answer, Requeue, history
<1>2. CASE \E f \in fetches : Install(f)
  <2>1. PICK f \in fetches : Install(f)
    BY <1>2
  <2>2. f.kind \in Kinds
    BY KindType
  <2>3. /\ live' = [live EXCEPT ![f.kind] = Outcome(f)]
        /\ stored' = [stored EXCEPT ![f.kind] = Outcome(f)]
        /\ marker' = [marker EXCEPT ![f.kind] = Cause(f)]
        /\ overtaken' = overtaken \cup ({f.kind} \cap passed)
        /\ session' = session /\ where' = where /\ pds' = pds
    BY <2>1 DEF Install
  <2>4. \A k \in Kinds \ {f.kind} :
          live'[k] = live[k] /\ stored'[k] = stored[k] /\ marker'[k] = marker[k]
    BY <2>3, <1>t
  <2>5. live'[f.kind] = Outcome(f) /\ stored'[f.kind] = Outcome(f) /\ marker'[f.kind] = Cause(f)
    BY <2>2, <2>3, <1>t
  <2>6. \A k \in Kinds : Owner(k)' = Owner(k) /\ Held(k)' = Held(k)
    BY <2>3 DEF Owner, Held
  <2>7. f.kind \notin overtaken' =>
          Outcome(f).did = Owner(f.kind) /\ (Cause(f) # None \/ Outcome(f) = Held(f.kind))
    BY <2>1, <2>3, InstallHeld
  <2>8. ASSUME NEW k \in Kinds \ overtaken'
        PROVE  /\ live'[k] # None => live'[k].did = Owner(k)
               /\ stored'[k] # None =>
                    stored'[k].did = Owner(k) /\ (marker'[k] # None \/ stored'[k] = Held(k))
    <3>1. CASE k = f.kind
      BY <3>1, <2>5, <2>7
    <3>2. CASE k # f.kind
      BY <3>2, <2>3, <2>4 DEF OwnInv, StoredIsHeldOrMarked
    <3>3. QED  BY <3>1, <3>2
  <2>9. \A k \in Kinds \ overtaken' : live'[k] # None => live'[k].did = Owner(k)'
    BY <2>6, <2>8
  <2>10. \A k \in Kinds \ overtaken' : stored'[k] # None =>
           stored'[k].did = Owner(k)' /\ (marker'[k] # None \/ stored'[k] = Held(k)')
    BY <2>6, <2>8
  <2>11. StoredIsHeldOrMarked'
    BY <2>10, Zenon DEF StoredIsHeldOrMarked
  <2>12. QED  BY <2>9, <2>11, Zenon DEF OwnInv
<1>3. CASE \E r \in retries : Fire(r)
  BY <1>3, OwnUnchanged DEF Fire, history
<1>4. CASE \E a \in Accounts, d \in Dids : SignIn(a, d)
  BY <1>4 DEF OwnInv, StoredIsHeldOrMarked, SignIn, PhaseInv, Nothing, records
<1>5. CASE Abort \/ SignOut
  BY <1>5 DEF OwnInv, StoredIsHeldOrMarked, Abort, SignOut, SessionGone, Nothing
<1>6. CASE BuildTerrain \/ CompileWorld \/ StartAmbient \/ AmbientReady \/ EnterGame
  BY <1>6, OwnUnchanged DEF BuildTerrain, CompileWorld, StartAmbient, AmbientReady, EnterGame,
     history
<1>7. CASE \E k \in Kinds : Save(k)
  <2>1. PICK k \in Kinds : Save(k)
    BY <1>7
  <2>2. /\ app = "in game" /\ session' = session /\ where' = where /\ live' = live
        /\ overtaken' = overtaken /\ Owner(k) = session
        /\ pds' = [pds EXCEPT ![session][k] = live[k].version]
        /\ stored' = [stored EXCEPT ![k] = live[k]]
        /\ marker' = [marker EXCEPT ![k] = None]
    BY <2>1 DEF Save, Mine, history
  <2>3. session \in Dids /\ live[k] \in Records
    BY <2>2, <1>t, LoadingAssumption DEF PhaseInv
  <2>4. \A j \in Kinds : Owner(j)' = Owner(j)
    BY <2>2 DEF Owner
  <2>5. \A j \in Kinds \ {k} : /\ stored'[j] = stored[j] /\ marker'[j] = marker[j]
                              /\ Held(j)' = Held(j)
    <3> TAKE j \in Kinds \ {k}
    <3>1. stored'[j] = stored[j] /\ marker'[j] = marker[j]
      BY <2>2, <1>t
    <3>2. Owner(j) \in Dids
      BY <2>2, LoadingAssumption DEF Owner, PhaseInv
    <3>3. pds'[Owner(j)][j] = pds[Owner(j)][j]
      BY <2>2, <3>2, <1>t
    <3>4. QED  BY <3>1, <3>3, <2>4 DEF Held
  <2>6. k \notin overtaken => stored'[k] = Held(k)' /\ stored'[k].did = Owner(k)
    <3> HAVE k \notin overtaken
    <3>1. live[k].did = session
      BY <2>2, <2>3, LoadingAssumption DEF OwnInv
    <3>2. live[k] = [did |-> session, version |-> live[k].version]
      BY <2>3, <3>1 DEF Records
    <3>3. stored'[k] = live[k]
      BY <2>2, <1>t
    <3>4. pds'[session][k] = live[k].version
      BY <2>2, <2>3, <1>t
    <3>5. QED  BY <2>2, <2>4, <3>1, <3>2, <3>3, <3>4 DEF Held
  <2>7. QED  BY <2>2, <2>4, <2>5, <2>6 DEF OwnInv, StoredIsHeldOrMarked
<1>8. CASE \E k \in Kinds : Reload(k)
  BY <1>8, OwnUnchanged DEF Reload
<1>9. CASE \E k \in Kinds, v \in Versions : Edit(k, v)
  <2>1. PICK k \in Kinds, v \in Versions : Edit(k, v)
    BY <1>9
  <2>2. /\ session' = session /\ where' = where /\ stored' = stored /\ marker' = marker
        /\ pds' = pds /\ overtaken' = overtaken /\ app = "in game"
        /\ live' = [live EXCEPT ![k] = [live[k] EXCEPT !.version = v]]
    BY <2>1 DEF Edit
  <2>3. live[k] \in Records
    BY <2>2, <1>t DEF PhaseInv
  <2>4. [live[k] EXCEPT !.version = v].did = live[k].did /\ live[k] # None
    BY <2>3, LoadingAssumption DEF Records
  <2>5. \A j \in Kinds : live'[j] # None => live[j] # None /\ live'[j].did = live[j].did
    BY <2>2, <2>4, <1>t
  <2>6. \A j \in Kinds : Owner(j)' = Owner(j) /\ Held(j)' = Held(j)
    BY <2>2 DEF Owner, Held
  <2>7. QED  BY <2>2, <2>5, <2>6 DEF OwnInv, StoredIsHeldOrMarked
<1>10. CASE UNCHANGED vars
  BY <1>10, OwnUnchanged DEF vars, history
<1>11. QED
  BY <1>1, <1>2, <1>3, <1>4, <1>5, <1>6, <1>7, <1>8, <1>9, <1>10 DEF Next

-----------------------------------------------------------------------------
(* The theorems.                                                           *)

LEMMA Invariant == Spec => []Inv
<1>1. Init => Inv
  BY TypeInit, PhaseInit, SoloInit, AskedInit, OwnInit DEF Inv
<1>2. Inv /\ [Next]_vars => Inv'
  BY TypeStep, PhaseStep, SoloStep, AskedStep, OwnStep DEF Inv
<1>3. QED  BY <1>1, <1>2, PTL DEF Spec

\* The records, the tasks and the gate keep their types, and no fetch is past
\* the budget of its record.
THEOREM TypeCorrect == Spec => []TypeOK
<1>1. Inv => TypeOK
  BY DEF Inv, TypeInv
<1>2. QED  BY <1>1, Invariant, PTL

\* In game only a re-read is under way, and a room has none: the gate opens
\* when every record is there, and there is one task for each until then.
THEOREM StrandedCorrect == Spec => []NoFetchIsStranded
<1>1. Inv => NoFetchIsStranded
  <2> SUFFICES ASSUME Inv, app = "in game"
               PROVE  ~Pending(Room) /\ (counts.reloads = 0 => fetches \cup retries = {})
    BY DEF NoFetchIsStranded
  <2>1. \A k \in Kinds : Solo(k) => ~Pending(k)
    BY DEF Inv, SoloInv
  <2>2. ~Pending(Room)
    BY <2>1, LoadingAssumption DEF Solo
  <2>3. \A f \in fetches \cup retries : f.kind \in Kinds
    BY KindType DEF Inv
  <2>4. counts.reloads = 0 => fetches \cup retries = {}
    BY <2>1, <2>3 DEF Solo, Pending
  <2>5. QED  BY <2>2, <2>4
<1>2. QED  BY <1>1, Invariant, PTL

\* A record taken for the stored one is whose it should be, and is what its
\* server holds or carries the marker - but for a re-read that came in late.
THEOREM StoredCorrect == Spec => []StoredIsHeldOrMarked
<1>1. Inv => StoredIsHeldOrMarked
  BY DEF Inv, OwnInv
<1>2. QED  BY <1>1, Invariant, PTL
=============================================================================
