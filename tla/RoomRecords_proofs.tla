------------------------- MODULE RoomRecords_proofs -------------------------
(***************************************************************************)
(* Proofs about RoomRecords, for any sessions, builds and content.         *)
(***************************************************************************)
EXTENDS RoomRecords, SequenceTheorems, TLAPS

-----------------------------------------------------------------------------
(* Type correctness.  That no session holds two contents of one name rests *)
(* on every place a world comes from: the manifest, a fetch, the undo ring *)
(* and the record of a task have names that are distinct too.              *)

Distinct(contents) ==
    \A x, y \in contents : Name[x] = Name[y] => x = y

Good == {w \in World : Distinct(w.own) /\ Distinct(w.opaque)}
GoodFetch == {f \in Fetch : Distinct(f.refs)}
GoodTask == {t \in Task : t.world \in Good}

RepoInv ==
    /\ manifest # NoManifest => manifest \subseteq Content /\ Distinct(manifest)
    /\ records \subseteq Content

RoomInv ==
    /\ live \in [Sessions -> Good \cup {NoWorld}]
    /\ stored \in [Sessions -> Good \cup {NoWorld}]
    /\ \A s \in Sessions : stored[s] = NoWorld => live[s] = NoWorld
    /\ past \in [Sessions -> Seq(Good)]
    /\ \A s \in Sessions : live[s] = NoWorld => past[s] = <<>>
    /\ recovery \in [Sessions -> {"none", "Decode", "Unreachable"}]

RestInv ==
    /\ fetch \in [Clients -> GoodFetch \cup {NoFetch}]
    /\ task \in [Sessions -> GoodTask \cup {NoTask}]
    /\ dropped \in [Sessions -> SUBSET Content] /\ edits \in Nat

TypeInv == RepoInv /\ RoomInv /\ RestInv

LEMMA NotNone ==
    /\ NoWorld \notin Good /\ NoFetch \notin GoodFetch /\ NoTask \notin GoodTask
    /\ \A refs \in SUBSET Content : refs # NoManifest
BY RecordsNoneAssumption DEF Good, GoodFetch, GoodTask

LEMMA DefaultGood == DefaultWorld \in Good
BY RecordsAssumption DEF DefaultWorld, Good, World, Distinct, Content

LEMMA RefsDistinct ==
    ASSUME NEW w \in Good
    PROVE  Refs(w) \subseteq Content /\ Distinct(Refs(w))
BY DEF Good, World, Refs, Distinct, Namesakes, Content

LEMMA PutGood ==
    ASSUME NEW w \in Good, NEW x \in Content
    PROVE  Put(w, x) \in Good
BY DEF Good, World, Put, Distinct, Namesakes

\* A world that holds less than a good one is good.
LEMMA LessGood ==
    ASSUME NEW w \in Good, NEW own \in SUBSET w.own, NEW unread \in SUBSET w.unread
    PROVE  /\ [w EXCEPT !.own = own] \in Good
           /\ [w EXCEPT !.unread = unread] \in Good
BY DEF Good, World, Distinct

LEMMA AssembledGood ==
    ASSUME NEW c \in Clients, NEW f \in GoodFetch
    PROVE  Assembled(c, f) \in Good
<1>1. f.refs \subseteq Content /\ Distinct(f.refs)
  BY DEF GoodFetch, Fetch
<1> DEFINE found == f.refs \cap f.found
           own   == (found \cap Reads[c]) \ (IF (found \cap Parts) \ Reads[c] # {} THEN Parts ELSE {})
           opaque == (found \cap Generators) \ Reads[c]
           unread == IF (found \cap Parts) \ Reads[c] # {} THEN found \cap Parts ELSE {}
<1>2. Assembled(c, f) = [own |-> own, opaque |-> opaque, unread |-> unread]
  BY DEF Assembled
<1>3. own \subseteq f.refs /\ opaque \subseteq f.refs \cap Generators /\ unread \subseteq Parts
  OBVIOUS
<1>4. Distinct(own) /\ Distinct(opaque)
  BY <1>1, <1>3 DEF Distinct
<1> HIDE DEF own, opaque, unread
<1> QED
  BY <1>1, <1>2, <1>3, <1>4 DEF Good, World

LEMMA TypeInit == Init => TypeInv
BY NotNone DEF Init, TypeInv, RepoInv, RoomInv, RestInv

-----------------------------------------------------------------------------
(* The fetch.                                                              *)

LEMMA ReadManifestType ==
    ASSUME TypeInv, NEW c \in Clients, ReadManifest(c)
    PROVE  TypeInv'
<1> USE NotNone, DefaultGood DEF TypeInv
<1>1. RepoInv'
  BY DEF ReadManifest, repo, RepoInv
<1>2. RoomInv'
  BY DEF ReadManifest, RoomInv, RepoInv
<1>3. CASE manifest = NoManifest
  BY <1>1, <1>2, <1>3 DEF ReadManifest, RestInv
<1>4. CASE manifest # NoManifest
  <2> DEFINE new == [refs |-> manifest, found |-> {}, crossed |-> FALSE,
                     todo |-> Asked("gens") \o Asked("parts")]
  <2>1. new.todo \in Seq(Lists)
    <3>1. ASSUME NEW l \in Lists PROVE Asked(l) \in Seq(Lists)
      BY DEF Asked
    <3>2. "gens" \in Lists /\ "parts" \in Lists
      BY DEF Lists
    <3> QED
      BY <3>1, <3>2
  <2>2. new \in GoodFetch
    BY <1>4, <2>1 DEF RepoInv, GoodFetch, Fetch
  <2> QED
    BY <1>1, <1>2, <1>4, <2>2 DEF ReadManifest, RestInv
<1> QED
  BY <1>1, <1>2, <1>3, <1>4

LEMMA FetchingType ==
    ASSUME TypeInv, NEW c \in Clients, fetch[c] # NoFetch
    PROVE  /\ fetch[c] \in GoodFetch
           /\ [fetch[c] EXCEPT !.crossed = TRUE] \in GoodFetch
BY DEF TypeInv, RepoInv, RestInv, GoodFetch, Fetch

LEMMA ListedType ==
    ASSUME NEW f \in GoodFetch, f.todo # <<>>, records \subseteq Content
    PROVE  Listed(f) \in GoodFetch
<1>1. Tail(f.todo) \in Seq(Lists)
  BY HeadTailProperties DEF GoodFetch, Fetch
<1> QED
  BY <1>1 DEF Listed, GoodFetch, Fetch

LEMMA ReadListType ==
    ASSUME TypeInv, NEW c \in Clients, ReadList(c)
    PROVE  TypeInv'
<1>1. Listed(fetch[c]) \in GoodFetch
  BY FetchingType, ListedType DEF ReadList, TypeInv, RepoInv
<1> HIDE DEF Listed
<1> QED
  BY <1>1 DEF ReadList, TypeInv, RepoInv, RoomInv, RestInv, repo, room

LEMMA InstallType ==
    ASSUME TypeInv, NEW c \in Clients, Install(c)
    PROVE  TypeInv'
<1>1. fetch[c] \in GoodFetch
  BY FetchingType DEF Install, Fetched
<1>2. Assembled(c, fetch[c]) \in Good
  BY <1>1, AssembledGood
<1> HIDE DEF Assembled
<1> QED
  BY <1>1, <1>2, NotNone DEF Install, TypeInv, RepoInv, RoomInv, RestInv, repo, Clients

LEMMA RecoverType ==
    ASSUME TypeInv, NEW s \in Sessions, NEW cause \in {"Decode", "Unreachable"},
           Recover(s, cause)
    PROVE  TypeInv'
BY NotNone, DefaultGood DEF Recover, TypeInv, RepoInv, RoomInv, RestInv, repo, Clients

LEMMA CloseType ==
    ASSUME TypeInv, NEW s \in Sessions, Close(s)
    PROVE  TypeInv'
BY NotNone DEF Close, TypeInv, RepoInv, RoomInv, RestInv, repo, Clients

-----------------------------------------------------------------------------
(* The owner's edits.                                                      *)

LEMMA OpenGood ==
    ASSUME TypeInv, NEW s \in Sessions, live[s] # NoWorld
    PROVE  live[s] \in Good /\ stored[s] \in Good /\ past[s] \in Seq(Good)
BY DEF TypeInv, RoomInv

\* The undo ring never holds anything but whole rooms.
LEMMA PushedType ==
    ASSUME TypeInv, NEW s \in Sessions, live[s] # NoWorld, Pushed(s)
    PROVE  past' \in [Sessions -> Seq(Good)] /\ \A r \in Sessions \ {s} : past'[r] = past[r]
<1> DEFINE ring == Append(past[s], live[s])
<1>1. ring \in Seq(Good) /\ ring # <<>>
  BY OpenGood, AppendProperties
<1>2. Tail(ring) \in Seq(Good)
  BY <1>1, HeadTailProperties
<1>3. past' = [past EXCEPT ![s] = IF Len(ring) > UndoDepth THEN Tail(ring) ELSE ring]
  BY DEF Pushed
<1>4. past \in [Sessions -> Seq(Good)]
  BY DEF TypeInv, RoomInv
<1> HIDE DEF ring
<1> QED
  BY <1>1, <1>2, <1>3, <1>4

LEMMA KeepsType ==
    ASSUME NEW w \in Good
    PROVE  Keeps(w) \subseteq Content
BY RefsDistinct DEF Keeps, Good, World, Content

LEMMA BecomesType ==
    ASSUME TypeInv, NEW s \in Sessions, live[s] # NoWorld, NEW w \in Good, Becomes(s, w)
    PROVE  /\ live' = [live EXCEPT ![s] = w]
           /\ dropped' \in [Sessions -> SUBSET Content]
<1>1. Keeps(live[s]) \subseteq Content
  BY OpenGood, KeepsType
<1> QED
  BY <1>1 DEF Becomes, Drops, TypeInv, RestInv

LEMMA EditType ==
    ASSUME TypeInv, NEW s \in Sessions, live[s] # NoWorld, NEW w \in Good, Edit(s, w)
    PROVE  TypeInv'
<1>1. /\ live' = [live EXCEPT ![s] = w]
      /\ dropped' \in [Sessions -> SUBSET Content]
  BY BecomesType DEF Edit
<1>2. past' \in [Sessions -> Seq(Good)] /\ \A r \in Sessions \ {s} : past'[r] = past[r]
  BY PushedType DEF Edit
<1>3. edits' \in Nat /\ UNCHANGED <<repo, stored, recovery, fetch, task>>
  BY DEF Edit, Bounded, TypeInv, RestInv
<1>4. RepoInv'
  BY <1>3 DEF TypeInv, RepoInv, repo
<1>5. RoomInv'
  BY <1>1, <1>2, <1>3, OpenGood, NotNone DEF TypeInv, RoomInv
<1> QED
  BY <1>1, <1>3, <1>4, <1>5 DEF TypeInv, RestInv

LEMMA ContentType ==
    ASSUME TypeInv, NEW s \in Sessions, NEW x \in Content,
           PutContent(s, x) \/ TakeOut(s, x)
    PROVE  TypeInv'
<1>1. live[s] # NoWorld /\ live[s] \in Good
  BY OpenGood DEF PutContent, TakeOut
<1>2. CASE PutContent(s, x)
  BY <1>1, <1>2, PutGood, EditType DEF PutContent
<1>3. CASE TakeOut(s, x)
  <2>1. [live[s] EXCEPT !.own = @ \ {x}] \in Good
    BY <1>1, LessGood
  <2> QED
    BY <1>1, <1>3, <2>1, EditType DEF TakeOut
<1> QED
  BY <1>2, <1>3

LEMMA RoomType ==
    ASSUME TypeInv, NEW s \in Sessions,
           TakeOutUnread(s) \/ Load(s) \/ Reset(s)
    PROVE  TypeInv'
<1>1. live[s] # NoWorld /\ live[s] \in Good /\ stored[s] \in Good
  BY OpenGood DEF TakeOutUnread, Load, Reset
<1>2. CASE TakeOutUnread(s)
  <2>1. [live[s] EXCEPT !.unread = {}] \in Good
    BY <1>1, LessGood
  <2> QED
    BY <1>1, <1>2, <2>1, EditType DEF TakeOutUnread
<1>3. CASE Load(s)
  BY <1>1, <1>3, EditType DEF Load
<1>4. CASE Reset(s)
  BY <1>1, <1>4, DefaultGood, EditType DEF Reset
<1> QED
  BY <1>2, <1>3, <1>4

LEMMA UndoType ==
    ASSUME TypeInv, NEW s \in Sessions, Undo(s)
    PROVE  TypeInv'
<1> DEFINE w == past[s][Len(past[s])]
           ring == SubSeq(past[s], 1, Len(past[s]) - 1)
<1>1. live[s] # NoWorld /\ past[s] \in Seq(Good) /\ past[s] # <<>>
  BY DEF Undo, TypeInv, RoomInv
<1>2. w \in Good /\ ring \in Seq(Good)
  <2>1. Len(past[s]) \in Nat /\ Len(past[s]) # 0
    BY <1>1, EmptySeq, LenProperties
  <2>2. w \in Good
    BY <1>1, <2>1, ElementOfSeq
  <2>3. \A i \in 1..(Len(past[s]) - 1) : past[s][i] \in Good
    BY <1>1, <2>1, ElementOfSeq
  <2> QED
    BY <1>1, <2>1, <2>2, <2>3, SubSeqProperties
<1>3. /\ Becomes(s, w) /\ past' = [past EXCEPT ![s] = ring]
      /\ edits' \in Nat /\ UNCHANGED <<repo, stored, recovery, fetch, task>>
  BY DEF Undo, Bounded, TypeInv, RestInv
<1> HIDE DEF w, ring
<1>4. /\ live' = [live EXCEPT ![s] = w]
      /\ dropped' \in [Sessions -> SUBSET Content]
  BY <1>1, <1>2, <1>3, BecomesType
<1>5. RepoInv'
  BY <1>3 DEF TypeInv, RepoInv, repo
<1>6. RoomInv'
  BY <1>1, <1>2, <1>3, <1>4, OpenGood, NotNone DEF TypeInv, RoomInv
<1> QED
  BY <1>3, <1>4, <1>5, <1>6 DEF TypeInv, RestInv

-----------------------------------------------------------------------------
(* The save and the wipe.                                                  *)

LEMMA TaskGood ==
    ASSUME TypeInv, NEW s \in Sessions, task[s] # NoTask
    PROVE  task[s] \in GoodTask
BY DEF TypeInv, RestInv

LEMMA PublishGood ==
    ASSUME NEW w \in Good
    PROVE  Publish(w) \in GoodTask
<1>1. <<"gens", "parts", "self">> \in Seq(Lists)
  BY DEF Lists
<1> QED
  BY <1>1 DEF Publish, GoodTask, Task, Good

LEMMA WipeGood == Wipe \in GoodTask
<1>1. <<"self", "gens", "parts">> \in Seq(Lists)
  BY DEF Lists
<1> QED
  BY <1>1, DefaultGood DEF Wipe, GoodTask, Task, Good

LEMMA StartSaveType ==
    ASSUME TypeInv, NEW s \in Sessions, StartSave(s)
    PROVE  TypeInv'
<1>1. Publish(live[s]) \in GoodTask
  BY OpenGood, PublishGood DEF StartSave
<1> HIDE DEF Publish
<1> QED
  BY <1>1 DEF StartSave, Drops, TypeInv, RepoInv, RoomInv, RestInv, repo, room

LEMMA StartResetType ==
    ASSUME TypeInv, NEW s \in Sessions, StartReset(s)
    PROVE  TypeInv'
<1>1. past' \in [Sessions -> Seq(Good)] /\ \A r \in Sessions \ {s} : past'[r] = past[r]
  BY PushedType DEF StartReset
<1> HIDE DEF Pushed, Wipe
<1> QED
  BY <1>1, OpenGood, NotNone, WipeGood, DefaultGood
     DEF StartReset, Drops, TypeInv, RepoInv, RoomInv, RestInv, repo

LEMMA SeenType ==
    ASSUME TypeInv, NEW t \in GoodTask, t.todo # <<>>
    PROVE  Seen(t) \in GoodTask
<1>1. Tail(t.todo) \in Seq(Lists)
  BY HeadTailProperties DEF GoodTask, Task
<1>2. Keys \subseteq Content \cup {Self}
  BY DEF Keys, TypeInv, RepoInv
<1> HIDE DEF Keys
<1> QED
  BY <1>1, <1>2 DEF Seen, GoodTask, Task

LEMMA LookUpType ==
    ASSUME TypeInv, NEW s \in Sessions, LookUp(s)
    PROVE  TypeInv'
<1>1. Seen(task[s]) \in GoodTask
  BY TaskGood, SeenType DEF LookUp
<1> HIDE DEF Seen
<1> QED
  BY <1>1 DEF LookUp, TypeInv, RepoInv, RoomInv, RestInv, repo, room

\* Every write a plan holds is one of the manifest or of a content record.
LEMMA PlannedType ==
    ASSUME NEW t \in GoodTask
    PROVE  Planned(t) \subseteq Write
<1>1. /\ t.seen \subseteq Content \cup {Self}
      /\ t.world.own \subseteq Content
  BY DEF GoodTask, Task, Good, World
<1>2. ASSUME NEW keys \in SUBSET (Content \cup {Self}),
             NEW verb \in {"create", "update", "delete"}
      PROVE  Writes(verb, keys) \subseteq Write
  BY DEF Writes, Write
<1>3. ASSUME NEW i \in DOMAIN SaveOrder(t)
      PROVE  SaveOrder(t)[i] \subseteq Write
  BY <1>1, <1>2 DEF SaveOrder, Orphans, ManifestVerb
<1>4. ASSUME NEW i \in DOMAIN WipeOrder(t)
      PROVE  WipeOrder(t)[i] \subseteq Write
  BY <1>1, <1>2 DEF WipeOrder
<1> QED
  BY <1>3, <1>4 DEF Planned, Plan

LEMMA CommitType ==
    ASSUME TypeInv, NEW s \in Sessions, Commit(s)
    PROVE  TypeInv'
<1> DEFINE t == task[s]
<1>1. t \in GoodTask
  BY TaskGood DEF Commit, Ready
<1>2. PICK batch \in SUBSET Left(t) :
        /\ Apply(batch, Refs(t.world))
        /\ task' = [task EXCEPT ![s].done = @ \cup batch]
  BY DEF Commit
<1>3. batch \subseteq Write
  BY <1>1, PlannedType DEF Left
<1>4. \A verbs : KeysOf(batch, verbs) \subseteq Content \cup {Self}
  BY <1>3 DEF KeysOf, Write
<1>5. Refs(t.world) \subseteq Content /\ Distinct(Refs(t.world))
  BY <1>1, RefsDistinct DEF GoodTask
<1>6. RepoInv'
  BY <1>2, <1>4, <1>5 DEF Apply, TypeInv, RepoInv
<1>7. fetch' \in [Clients -> GoodFetch \cup {NoFetch}]
  <2>1. fetch' = [c \in Clients |->
                    IF fetch[c] # NoFetch /\ KeysOf(batch, {"delete"}) # {}
                    THEN [fetch[c] EXCEPT !.crossed = TRUE] ELSE fetch[c]]
    BY <1>2 DEF Apply
  <2>2. \A c \in Clients : fetch[c] # NoFetch =>
           [fetch[c] EXCEPT !.crossed = TRUE] \in GoodFetch
    BY FetchingType
  <2>3. fetch \in [Clients -> GoodFetch \cup {NoFetch}]
    BY DEF TypeInv, RestInv
  <2> QED
    BY <2>1, <2>2, <2>3
<1>8. task' \in [Sessions -> GoodTask \cup {NoTask}]
  <2>1. [t EXCEPT !.done = @ \cup batch] \in GoodTask
    BY <1>1, <1>3 DEF GoodTask, Task
  <2>2. task' = [task EXCEPT ![s] = [t EXCEPT !.done = @ \cup batch]]
    BY <1>2
  <2> QED
    BY <2>1, <2>2 DEF TypeInv, RestInv
<1>9. UNCHANGED <<room, dropped, edits>>
  BY DEF Commit
<1> QED
  BY <1>6, <1>7, <1>8, <1>9 DEF TypeInv, RoomInv, RestInv, room

LEMMA FinishType ==
    ASSUME TypeInv, NEW s \in Sessions, Finish(s)
    PROVE  TypeInv'
<1>1. task[s] \in GoodTask
  BY TaskGood DEF Finish, Ready
<1>2. task[s].world \in Good /\ Publish(task[s].world) \in GoodTask
  BY <1>1, PublishGood DEF GoodTask
<1> HIDE DEF Publish, Left, Allowed
<1> QED
  BY <1>2, NotNone DEF Finish, TypeInv, RepoInv, RoomInv, RestInv, repo

LEMMA FailType ==
    ASSUME TypeInv, NEW s \in Sessions, Fail(s)
    PROVE  TypeInv'
BY DEF Fail, TypeInv, RepoInv, RoomInv, RestInv, repo, room

-----------------------------------------------------------------------------

LEMMA StutterType ==
    ASSUME TypeInv, UNCHANGED vars
    PROVE  TypeInv'
BY DEF vars, repo, room, TypeInv, RepoInv, RoomInv, RestInv

LEMMA TypeStep == TypeInv /\ [Next]_vars => TypeInv'
<1> SUFFICES ASSUME TypeInv, [Next]_vars PROVE TypeInv'
  OBVIOUS
<1>1. ASSUME NEW c \in Clients, ReadManifest(c) \/ ReadList(c) \/ Install(c)
      PROVE  TypeInv'
  BY <1>1, ReadManifestType, ReadListType, InstallType
<1>2. ASSUME NEW s \in Sessions, NEW cause \in {"Decode", "Unreachable"},
             Recover(s, cause)
      PROVE  TypeInv'
  BY <1>2, RecoverType
<1>3. ASSUME NEW s \in Sessions, Person(s)
      PROVE  TypeInv'
  <2>1. ASSUME NEW x \in Content, PutContent(s, x) \/ TakeOut(s, x)
        PROVE  TypeInv'
    BY <2>1, ContentType
  <2>2. CASE TakeOutUnread(s) \/ Load(s) \/ Reset(s)
    BY <2>2, RoomType
  <2>3. CASE Undo(s) \/ StartSave(s) \/ StartReset(s) \/ Close(s)
    BY <2>3, UndoType, StartSaveType, StartResetType, CloseType
  <2> QED
    BY <1>3, <2>1, <2>2, <2>3 DEF Person
<1>4. ASSUME NEW s \in Sessions, LookUp(s) \/ Commit(s) \/ Finish(s) \/ Fail(s)
      PROVE  TypeInv'
  BY <1>4, LookUpType, CommitType, FinishType, FailType
<1> QED
  BY <1>1, <1>2, <1>3, <1>4, StutterType DEF Next

LEMMA TypeInvariant == Spec => []TypeInv
BY TypeInit, TypeStep, PTL DEF Spec

\* The state is well typed, and no session ever holds two decoded contents
\* under one name: not by an edit, an undo, a fetch or a save that came back.
THEOREM TypeCorrect == Spec => []TypeOK
<1>1. ASSUME TypeInv PROVE TypeOK
  <2>1. Good \subseteq World /\ GoodFetch \subseteq Fetch /\ GoodTask \subseteq Task
    BY DEF Good, GoodFetch, GoodTask
  <2>2. past \in [Sessions -> Seq(World)]
    BY <1>1, <2>1 DEF TypeInv, RoomInv
  <2>3. /\ live \in [Sessions -> World \cup {NoWorld}]
        /\ stored \in [Sessions -> World \cup {NoWorld}]
        /\ fetch \in [Clients -> Fetch \cup {NoFetch}]
        /\ task \in [Sessions -> Task \cup {NoTask}]
    BY <1>1, <2>1 DEF TypeInv, RoomInv, RestInv
  <2>4. ASSUME NEW s \in Sessions, live[s] # NoWorld
        PROVE  \A x \in live[s].own : Namesakes(x, live[s].own) = {}
    <3>1. live[s] \in Good
      BY <1>1, <2>4, OpenGood
    <3> QED
      BY <3>1 DEF Good, Distinct, Namesakes
  <2> QED
    BY <1>1, <2>2, <2>3, <2>4 DEF TypeInv, RepoInv, RoomInv, RestInv, TypeOK
<1> QED
  BY <1>1, TypeInvariant, PTL

-----------------------------------------------------------------------------
(* The room on the PDS, for sessions that are not open together, and each  *)
(* of which reads every generator or leaves those it cannot read where     *)
(* they are: it resets nothing, and gives none of their names away.        *)

Careful ==
    /\ ~Overlap
    /\ \A s \in Sessions :
          \/ Generators \subseteq Reads[s]
          \/ /\ s \notin Resets
             /\ \A o \in Generators \ Reads[s], x \in Reads[s] : Name[x] # Name[o]

\* One session at a time is open or opening; a save or a recovery is of an open
\* one.
SoleInv ==
    /\ \A r, s \in Sessions :
          /\ live[r] # NoWorld \/ fetch[r] # NoFetch
          /\ live[s] # NoWorld \/ fetch[s] # NoFetch
          => r = s
    /\ \A s \in Sessions :
          /\ live[s] # NoWorld => fetch[s] = NoFetch
          /\ task[s] # NoTask => live[s] # NoWorld
          /\ live[s] = NoWorld => recovery[s] = "none"

Pending(todo) == UNION {Asks(todo[i]) : i \in DOMAIN todo}

\* Until a delete crosses it, what a fetch is after is in the repo, and either
\* found or still to be asked for.  Nothing crosses a session's own.
Reading(f) == ~f.crossed => /\ f.refs \subseteq records
                            /\ f.refs \subseteq f.found \cup Pending(f.todo)
Opening(f) == ~f.crossed /\ f.refs = manifest /\ f.found \subseteq records

FetchInv ==
    \A c \in Clients : fetch[c] # NoFetch =>
        Reading(fetch[c]) /\ (c \in Sessions => Opening(fetch[c]))

\* A session carries the same undecoded refs through every world it can come
\* back to, and their records are in the repo.
Carries(s, w) == w.opaque = live[s].opaque /\ w.own \subseteq Reads[s]

Carrying(s) ==
    /\ live[s].opaque \subseteq records \ Reads[s]
    /\ recovery[s] # "none" => live[s].opaque = {}
    /\ Carries(s, live[s]) /\ Carries(s, stored[s])
    /\ \A i \in DOMAIN past[s] : Carries(s, past[s][i])
    /\ task[s] # NoTask => Carries(s, task[s].world)

WorldInv == \A s \in Sessions : live[s] # NoWorld => Carrying(s)

\* The write of the manifest.
Hand(t) == [verb |-> ManifestVerb(t), key |-> Self]

\* What a task has seen is what the repo held when it had looked, and holds
\* but for the task's own writes.
Looking(t) ==
    /\ t.done = {} /\ t.seen \subseteq Keys
    /\ Keys \subseteq t.seen \cup Pending(t.todo)
Writing(t) ==
    /\ Keys = (t.seen \cup KeysOf(t.done, {"create"})) \ KeysOf(t.done, {"delete"})
    /\ t.done \subseteq Planned(t) /\ InOrder(t, t.done)
    /\ ~t.wipes /\ Hand(t) \in t.done => manifest = Refs(t.world)
Working(t) == IF t.todo = <<>> THEN Writing(t) ELSE Looking(t)

TaskInv ==
    \A s \in Sessions : task[s] # NoTask =>
        /\ Working(task[s])
        /\ task[s].wipes => task[s].world.opaque = {} /\ Content \subseteq dropped[s]

\* What the room holds a session keeps, or somebody took it out.
Keeping(s) ==
    /\ recovery[s] # "none" \/ Named \subseteq Keeps(live[s]) \cup dropped[s]
    /\ task[s] # NoTask =>
          /\ Named \subseteq Refs(task[s].world) \cup dropped[s]
          /\ Refs(task[s].world) \subseteq Keeps(live[s]) \cup dropped[s]
          /\ recovery[s] # "none" => Content \subseteq dropped[s]

KeptInv == \A s \in Sessions : live[s] # NoWorld => Keeping(s)

RecordsInv ==
    RefsResolve /\ SoleInv /\ FetchInv /\ WorldInv /\ TaskInv /\ KeptInv

-----------------------------------------------------------------------------
(* Plans.                                                                  *)

LEMMA CarriedRefs ==
    ASSUME Careful, NEW s \in Sessions, NEW w \in Good,
           w.own \subseteq Reads[s], w.opaque \cap Reads[s] = {}
    PROVE  Refs(w) = w.own \cup w.opaque
<1>1. w.opaque \subseteq Generators
  BY DEF Good, World
<1>2. ASSUME NEW o \in w.opaque PROVE Namesakes(o, w.own) = {}
  BY <1>1, <1>2 DEF Careful, Namesakes
<1> QED
  BY <1>2 DEF Refs

LEMMA TaskParts ==
    ASSUME NEW t \in GoodTask
    PROVE  /\ t.seen \subseteq Content \cup {Self} /\ t.done \subseteq Write
           /\ t.wipes \in BOOLEAN /\ t.world \in Good /\ t.todo \in Seq(Lists)
           /\ t.world.own \subseteq Content /\ t.world.opaque \subseteq Generators
           /\ Self \notin Content
BY RecordsAssumption DEF GoodTask, Task, Good, World

\* What a save writes.
LEMMA SavePlan ==
    ASSUME NEW t \in GoodTask, ~t.wipes
    PROVE  Planned(t) = Writes("create", t.world.own \ t.seen)
                        \cup {Hand(t)} \cup Writes("delete", Orphans(t))
<1> DEFINE P == SaveOrder(t)
<1>1. /\ DOMAIN P = 1..3 /\ P[1] = Writes("create", t.world.own \ t.seen)
      /\ P[2] = Writes(ManifestVerb(t), {Self}) /\ P[3] = Writes("delete", Orphans(t))
  BY DEF SaveOrder
<1>2. Plan(t) = P
  BY DEF Plan
<1>3. Writes(ManifestVerb(t), {Self}) = {Hand(t)}
  BY DEF Writes, Hand
<1> HIDE DEF P
<1> QED
  BY <1>1, <1>2, <1>3 DEF Planned

LEMMA SaveInOrder ==
    ASSUME NEW t \in GoodTask, ~t.wipes, NEW d, InOrder(t, d)
    PROVE  /\ Hand(t) \in d => Writes("create", t.world.own \ t.seen) \subseteq d
           /\ \A w \in Writes("delete", Orphans(t)) \cap d :
                 Hand(t) \in d /\ Writes("create", t.world.own \ t.seen) \subseteq d
<1> DEFINE P == SaveOrder(t)
<1>1. /\ DOMAIN P = 1..3 /\ P[1] = Writes("create", t.world.own \ t.seen)
      /\ P[2] = Writes(ManifestVerb(t), {Self}) /\ P[3] = Writes("delete", Orphans(t))
  BY DEF SaveOrder
<1>2. Plan(t) = P
  BY DEF Plan
<1>3. Writes(ManifestVerb(t), {Self}) = {Hand(t)}
  BY DEF Writes, Hand
<1> HIDE DEF P
<1>4. /\ P[2] \cap d # {} => P[1] \subseteq d
      /\ P[3] \cap d # {} => P[1] \subseteq d /\ P[2] \subseteq d
  BY <1>1, <1>2 DEF InOrder
<1> QED
  BY <1>1, <1>3, <1>4

\* What a wipe writes.
LEMMA WipePlan ==
    ASSUME NEW t \in GoodTask, t.wipes
    PROVE  Planned(t) = Writes("delete", t.seen)
<1> DEFINE P == WipeOrder(t)
<1>1. /\ DOMAIN P = 1..2 /\ P[1] = Writes("delete", t.seen \cap {Self})
      /\ P[2] = Writes("delete", t.seen \cap Content)
  BY DEF WipeOrder
<1>2. Plan(t) = P
  BY DEF Plan
<1>3. Writes("delete", t.seen \cap {Self}) \cup Writes("delete", t.seen \cap Content)
         = Writes("delete", t.seen)
  BY TaskParts DEF Writes
<1> HIDE DEF P
<1> QED
  BY <1>1, <1>2, <1>3 DEF Planned

LEMMA WipeInOrder ==
    ASSUME NEW t \in GoodTask, t.wipes, NEW d, InOrder(t, d)
    PROVE  \A w \in Writes("delete", t.seen \cap Content) \cap d :
              Writes("delete", t.seen \cap {Self}) \subseteq d
<1> DEFINE P == WipeOrder(t)
<1>1. /\ DOMAIN P = 1..2 /\ P[1] = Writes("delete", t.seen \cap {Self})
      /\ P[2] = Writes("delete", t.seen \cap Content)
  BY DEF WipeOrder
<1>2. Plan(t) = P
  BY DEF Plan
<1> HIDE DEF P
<1>3. P[2] \cap d # {} => P[1] \subseteq d
  BY <1>1, <1>2 DEF InOrder
<1> QED
  BY <1>1, <1>3


\* One plan writes a key once: it creates what was not seen, and deletes or
\* updates what was.
LEMMA PlanVerbs ==
    ASSUME NEW t \in GoodTask, NEW w \in Planned(t)
    PROVE  /\ w.verb = "create" => w.key \notin t.seen
           /\ w.verb # "create" => w.key \in t.seen
           /\ w.verb \in {"create", "update", "delete"}
           /\ w = [verb |-> w.verb, key |-> w.key]
           /\ ~t.wipes /\ w.key = Self => w = Hand(t)
           /\ t.wipes => w.verb = "delete"
           /\ ~t.wipes => /\ w.verb = "update" => w.key = Self
                          /\ w.verb = "delete" => w.key \in Content \ Refs(t.world)
                          /\ w.verb = "create" => w.key \in t.world.own \cup {Self}
<1>1. CASE t.wipes
  BY <1>1, WipePlan DEF Writes
<1>2. CASE ~t.wipes
  <2>1. CASE w \in Writes("create", t.world.own \ t.seen)
    BY <1>2, <2>1, TaskParts DEF Writes
  <2>2. CASE w = Hand(t)
    BY <2>2, <1>2 DEF Hand, ManifestVerb
  <2>3. CASE w \in Writes("delete", Orphans(t))
    BY <1>2, <2>3, TaskParts DEF Writes, Orphans
  <2> QED
    BY <1>2, <2>1, <2>2, <2>3, SavePlan
<1> QED
  BY <1>1, <1>2

LEMMA KeysUnion ==
    ASSUME NEW d, NEW e, NEW verbs
    PROVE  KeysOf(d \cup e, verbs) = KeysOf(d, verbs) \cup KeysOf(e, verbs)
BY DEF KeysOf

LEMMA NoKeys == \A verbs : KeysOf({}, verbs) = {}
BY DEF KeysOf

\* What the repo holds once a batch has landed.
LEMMA KeysAfter ==
    ASSUME TypeInv, NEW t \in GoodTask, NEW batch \in SUBSET Planned(t),
           \A w \in batch : Fits(w), NEW refs \in SUBSET Content, Apply(batch, refs)
    PROVE  /\ Keys' = (Keys \cup KeysOf(batch, {"create"})) \ KeysOf(batch, {"delete"})
           /\ records' = Keys' \ {Self} /\ records = Keys \ {Self}
           /\ Self \in Keys' <=> manifest' # NoManifest
           /\ Self \in Keys <=> manifest # NoManifest
<1> DEFINE C == KeysOf(batch, {"create"})
           D == KeysOf(batch, {"delete"})
<1>0. records \subseteq Content /\ Self \notin Content /\ refs # NoManifest
  BY NotNone, RecordsAssumption DEF TypeInv, RepoInv
<1>1. Self \in D => Self \notin KeysOf(batch, {"create", "update"})
  <2> SUFFICES ASSUME NEW v \in batch, v.verb = "delete", v.key = Self,
                      NEW w \in batch, w.verb \in {"create", "update"}, w.key = Self
               PROVE  FALSE
    BY DEF KeysOf
  <2>1. CASE t.wipes
    BY <2>1, PlanVerbs
  <2>2. CASE ~t.wipes
    <3>1. v.key \in Content
      BY <2>2, PlanVerbs
    <3> QED
      BY <1>0, <3>1
  <2> QED
    BY <2>1, <2>2
<1>2. Self \in KeysOf(batch, {"create", "update"}) => Self \in C \/ Self \in Keys
  <2> SUFFICES ASSUME NEW w \in batch, w.verb \in {"create", "update"}, w.key = Self
               PROVE  Self \in C \/ Self \in Keys
    BY DEF KeysOf
  <2> QED
    BY DEF KeysOf, Fits
<1>3. C \subseteq KeysOf(batch, {"create", "update"})
  BY DEF KeysOf
<1>4. /\ records' = (records \cup (C \ {Self})) \ D
      /\ manifest' = IF Self \in KeysOf(batch, {"create", "update"}) THEN refs
                     ELSE IF Self \in D THEN NoManifest ELSE manifest
  BY DEF Apply
<1> HIDE DEF C, D
<1>5. C \subseteq Content \cup {Self} /\ D \subseteq Content \cup {Self}
  <2>1. batch \subseteq Write
    BY PlannedType
  <2> QED
    BY <2>1 DEF C, D, KeysOf, Write
<1>6. Self \in Keys <=> manifest # NoManifest
  BY <1>0 DEF Keys
<1>7. records = Keys \ {Self}
  BY <1>0 DEF Keys
<1>8. records' \subseteq Content
  BY <1>0, <1>4, <1>5
<1>9. Keys' = records' \cup (IF manifest' = NoManifest THEN {} ELSE {Self})
  BY DEF Keys
<1>10. Self \in Keys' <=> manifest' # NoManifest
  BY <1>0, <1>8, <1>9
<1>11. records' = Keys' \ {Self}
  BY <1>0, <1>8, <1>9
<1>12. manifest' # NoManifest <=> Self \in (Keys \cup C) \ D
  BY <1>0, <1>1, <1>2, <1>3, <1>4, <1>6
<1>13. Keys' = (Keys \cup C) \ D
  BY <1>4, <1>7, <1>10, <1>11, <1>12
<1> QED
  BY <1>6, <1>7, <1>10, <1>11, <1>13 DEF C, D


LEMMA SamePlan ==
    ASSUME NEW t \in GoodTask, NEW u \in GoodTask,
           u.wipes = t.wipes, u.world = t.world, u.seen = t.seen
    PROVE  /\ Plan(u) = Plan(t) /\ Planned(u) = Planned(t) /\ Hand(u) = Hand(t)
           /\ \A d : InOrder(u, d) <=> InOrder(t, d)
<1>1. SaveOrder(u) = SaveOrder(t)
  BY DEF SaveOrder, Orphans, ManifestVerb
<1>2. WipeOrder(u) = WipeOrder(t)
  BY DEF WipeOrder
<1>3. Plan(u) = Plan(t)
  BY <1>1, <1>2 DEF Plan
<1>4. Hand(u) = Hand(t)
  BY DEF Hand, ManifestVerb
<1> QED
  BY <1>3, <1>4 DEF Planned, InOrder

LEMMA DoneParts ==
    ASSUME NEW t \in GoodTask, NEW batch \in SUBSET Write
    PROVE  LET u == [t EXCEPT !.done = @ \cup batch] IN
           /\ u \in GoodTask /\ u.wipes = t.wipes /\ u.world = t.world
           /\ u.seen = t.seen /\ u.todo = t.todo /\ u.done = t.done \cup batch
BY DEF GoodTask, Task

\* The keys the repo holds after a batch are those seen, and the task's writes.
LEMMA CommitKeys ==
    ASSUME TypeInv, NEW t \in GoodTask, t.todo = <<>>, Writing(t),
           NEW batch \in SUBSET Planned(t),
           \A w \in batch : Fits(w), NEW refs \in SUBSET Content, Apply(batch, refs)
    PROVE  Keys' = (t.seen \cup KeysOf(t.done \cup batch, {"create"}))
                   \ KeysOf(t.done \cup batch, {"delete"})
<1> DEFINE C == KeysOf(t.done, {"create"})
           D == KeysOf(t.done, {"delete"})
           Cb == KeysOf(batch, {"create"})
           Db == KeysOf(batch, {"delete"})
<1>1. Keys = (t.seen \cup C) \ D
  BY DEF Writing
<1>2. Keys' = (Keys \cup Cb) \ Db
  BY KeysAfter
<1>3. Cb \cap t.seen = {}
  BY PlanVerbs DEF KeysOf
<1>4. D \subseteq t.seen
  BY PlanVerbs DEF KeysOf, Writing
<1>5. /\ KeysOf(t.done \cup batch, {"create"}) = C \cup Cb
      /\ KeysOf(t.done \cup batch, {"delete"}) = D \cup Db
  BY KeysUnion
<1> HIDE DEF C, D, Cb, Db
<1> QED
  BY <1>1, <1>2, <1>3, <1>4, <1>5

\* A save's batch: the manifest is written once its refs are there, and nothing
\* is deleted before.
LEMMA SaveLanding ==
    ASSUME TypeInv, NEW t \in GoodTask, ~t.wipes, t.todo = <<>>, Writing(t),
           NEW batch \in SUBSET Planned(t), InOrder(t, t.done \cup batch),
           \A w \in batch : Fits(w), Apply(batch, Refs(t.world)),
           Refs(t.world) = t.world.own \cup t.world.opaque, t.world.opaque \subseteq records
    PROVE  /\ Hand(t) \in t.done \cup batch =>
                 manifest' = Refs(t.world) /\ Refs(t.world) \subseteq records'
           /\ Hand(t) \notin t.done \cup batch => manifest' = manifest /\ records \subseteq records'
           /\ t.world.opaque \subseteq records'
<1> DEFINE d == t.done \cup batch
           w == t.world
<1>0. /\ Refs(w) \subseteq Content /\ Self \notin Content /\ w.own \subseteq Content
      /\ d \subseteq Planned(t)
  BY TaskParts, RefsDistinct DEF Writing
<1>1. /\ Keys' = (Keys \cup KeysOf(batch, {"create"})) \ KeysOf(batch, {"delete"})
      /\ records' = Keys' \ {Self} /\ records = Keys \ {Self}
  BY <1>0, KeysAfter
<1>2. Keys' = (t.seen \cup KeysOf(d, {"create"})) \ KeysOf(d, {"delete"})
  BY <1>0, CommitKeys
<1>3. KeysOf(d, {"delete"}) \cap Refs(w) = {}
  BY <1>0, PlanVerbs DEF KeysOf
<1>4. CASE Hand(t) \in d
  <2>1. Writes("create", w.own \ t.seen) \subseteq d
    BY <1>4, SaveInOrder
  <2>2. ASSUME NEW k \in w.own \ t.seen PROVE k \in KeysOf(d, {"create"})
    <3>1. [verb |-> "create", key |-> k] \in d
      BY <2>1, <2>2 DEF Writes
    <3> QED
      BY <3>1 DEF KeysOf
  <2>3. w.own \subseteq Keys'
    BY <1>0, <1>2, <1>3, <2>2
  <2>4. w.opaque \subseteq Keys'
    <3>1. KeysOf(batch, {"delete"}) \subseteq KeysOf(d, {"delete"})
      BY DEF KeysOf
    <3> QED
      BY <1>1, <1>3, <3>1
  <2>5. Refs(w) \subseteq records'
    BY <1>0, <1>1, <2>3, <2>4
  <2>6. manifest' = Refs(w)
    <3>1. CASE Hand(t) \in batch
      <4>1. Self \in KeysOf(batch, {"create", "update"})
        BY <3>1 DEF KeysOf, Hand, ManifestVerb
      <4> QED
        BY <4>1 DEF Apply
    <3>2. CASE Hand(t) \notin batch
      <4>1. \A v : Self \notin KeysOf(batch, v)
        BY <3>2, PlanVerbs DEF KeysOf
      <4>2. manifest = Refs(w)
        BY <1>4, <3>2 DEF Writing
      <4> QED
        BY <4>1, <4>2 DEF Apply
    <3> QED
      BY <3>1, <3>2
  <2> QED
    BY <1>4, <2>5, <2>6
<1>5. CASE Hand(t) \notin d
  <2>1. \A v \in d : v.verb # "delete"
    <3> SUFFICES ASSUME NEW v \in d, v.verb = "delete" PROVE FALSE
      OBVIOUS
    <3>1. v \in Writes("delete", Orphans(t))
      BY <1>0, SavePlan DEF Writes, Hand, ManifestVerb
    <3> QED
      BY <1>5, <3>1, SaveInOrder
  <2>2. KeysOf(batch, {"delete"}) = {}
    BY <2>1 DEF KeysOf
  <2>3. \A v : Self \notin KeysOf(batch, v)
    BY <1>5, PlanVerbs DEF KeysOf
  <2>4. manifest' = manifest
    BY <2>2, <2>3 DEF Apply
  <2>5. records \subseteq records'
    BY <1>1, <2>2
  <2> QED
    BY <1>5, <2>4, <2>5
<1> QED
  BY <1>4, <1>5


\* A wipe's batch: while the manifest is there, its refs are.
LEMMA WipeLanding ==
    ASSUME TypeInv, NEW t \in GoodTask, t.wipes, t.todo = <<>>, Writing(t),
           NEW batch \in SUBSET Planned(t), InOrder(t, t.done \cup batch),
           \A w \in batch : Fits(w), Apply(batch, Refs(t.world))
    PROVE  manifest' = NoManifest \/ (manifest' = manifest /\ records' = records)
<1> DEFINE d == t.done \cup batch
<1>0. /\ Refs(t.world) \subseteq Content /\ Self \notin Content
      /\ t.seen \subseteq Content \cup {Self} /\ d \subseteq Writes("delete", t.seen)
  BY TaskParts, RefsDistinct, WipePlan DEF Writing
<1>1. /\ Self \in Keys' <=> manifest' # NoManifest
      /\ Keys' = (t.seen \cup KeysOf(d, {"create"})) \ KeysOf(d, {"delete"})
  BY <1>0, KeysAfter, CommitKeys
<1>2. CASE manifest' # NoManifest
  <2>1. KeysOf(d, {"create"}) = {} /\ KeysOf(batch, {"create", "update"}) = {}
    BY <1>0 DEF KeysOf, Writes
  <2>2. Self \in t.seen /\ Self \notin KeysOf(d, {"delete"})
    BY <1>1, <1>2, <2>1
  <2>3. ~ Writes("delete", t.seen \cap {Self}) \subseteq d
    <3>1. [verb |-> "delete", key |-> Self] \in Writes("delete", t.seen \cap {Self})
      BY <2>2 DEF Writes
    <3>2. [verb |-> "delete", key |-> Self] \notin d
      BY <2>2 DEF KeysOf
    <3> QED
      BY <3>1, <3>2
  <2>4. Writes("delete", t.seen \cap Content) \cap d = {}
    BY <2>3, WipeInOrder
  <2>5. ASSUME NEW w \in d PROVE FALSE
    <3>1. w.verb = "delete" /\ w.key \in t.seen /\ w.key \in KeysOf(d, {"delete"})
      BY <1>0, <2>5 DEF Writes, KeysOf
    <3>2. w.key # Self /\ w.key \in Content
      BY <1>0, <2>2, <3>1
    <3>3. w \in Writes("delete", t.seen \cap Content)
      BY <1>0, <3>1, <3>2 DEF Writes
    <3> QED
      BY <2>4, <3>3
  <2>6. batch = {}
    BY <2>5
  <2>7. \A v : KeysOf(batch, v) = {}
    BY <2>6, NoKeys
  <2>8. records' = records /\ manifest' = manifest
    BY <2>7 DEF Apply
  <2> QED
    BY <2>8
<1> QED
  BY <1>2

\* One commit, by the only session that is open.
LEMMA CommitRecords ==
    ASSUME Careful, TypeInv, TypeInv', RecordsInv, NEW s \in Sessions, Commit(s)
    PROVE  RecordsInv'
<1>0. PICK t : t = task[s]
  OBVIOUS
<1>1. /\ t \in GoodTask /\ t.todo = <<>> /\ task[s] # NoTask /\ live[s] # NoWorld
      /\ UNCHANGED <<live, stored, recovery, past, dropped>>
  BY <1>0, TaskGood DEF Commit, Ready, RecordsInv, SoleInv, room
<1>2. PICK batch \in SUBSET Left(t) :
        /\ InOrder(t, t.done \cup batch) /\ \A w \in batch : Fits(w)
        /\ Apply(batch, Refs(t.world))
        /\ task' = [task EXCEPT ![s].done = @ \cup batch]
  BY <1>0 DEF Commit
<1> DEFINE d == t.done \cup batch
<1>3. /\ batch \in SUBSET Planned(t) /\ batch \in SUBSET Write
  BY <1>1, PlannedType DEF Left
<1>4. PICK u \in GoodTask :
        /\ task' = [task EXCEPT ![s] = u] /\ u.wipes = t.wipes
        /\ u.world = t.world /\ u.seen = t.seen /\ u.todo = <<>> /\ u.done = d
  <2> DEFINE u == [t EXCEPT !.done = @ \cup batch]
  <2>1. task' = [task EXCEPT ![s] = u]
    BY <1>0, <1>2
  <2>2. /\ u \in GoodTask /\ u.wipes = t.wipes /\ u.world = t.world
        /\ u.seen = t.seen /\ u.todo = <<>> /\ u.done = d
    BY <1>1, <1>3, DoneParts
  <2> QED
    BY <2>1, <2>2
<1>5. /\ Plan(u) = Plan(t) /\ Planned(u) = Planned(t) /\ Hand(u) = Hand(t)
      /\ InOrder(u, d)
  BY <1>1, <1>2, <1>4, SamePlan
<1>6. /\ Writing(t) /\ (t.wipes => t.world.opaque = {} /\ Content \subseteq dropped[s])
      /\ Carrying(s) /\ Keeping(s)
  BY <1>0, <1>1 DEF RecordsInv, TaskInv, Working, WorldInv, KeptInv
<1>7. \A r \in Sessions : r # s => live[r] = NoWorld /\ task[r] = NoTask /\ fetch[r] = NoFetch
  BY <1>1 DEF RecordsInv, SoleInv
<1>8. fetch[s] = NoFetch
  BY <1>1 DEF RecordsInv, SoleInv
<1>9. task'[s] = u /\ u # NoTask /\ \A r \in Sessions : r # s => task'[r] = NoTask
  BY <1>4, <1>7, NotNone DEF TypeInv, RestInv
<1>10. /\ t.world \in Good /\ Refs(t.world) \subseteq Content
       /\ t.world.opaque = live[s].opaque /\ t.world.opaque \subseteq records \ Reads[s]
       /\ Refs(t.world) = t.world.own \cup t.world.opaque
  <2>1. t.world \in Good
    BY <1>1, TaskParts
  <2>2. /\ t.world.opaque = live[s].opaque /\ t.world.own \subseteq Reads[s]
        /\ t.world.opaque \subseteq records \ Reads[s]
    BY <1>0, <1>1, <1>6 DEF Carrying, Carries
  <2> QED
    BY <2>1, <2>2, CarriedRefs, RefsDistinct
<1>11. ~t.wipes =>
         /\ Hand(t) \in d => manifest' = Refs(t.world) /\ Refs(t.world) \subseteq records'
         /\ Hand(t) \notin d => manifest' = manifest /\ records \subseteq records'
         /\ t.world.opaque \subseteq records'
  BY <1>1, <1>2, <1>3, <1>6, <1>10, SaveLanding
<1>12. t.wipes => manifest' = NoManifest \/ (manifest' = manifest /\ records' = records)
  BY <1>1, <1>2, <1>3, <1>6, WipeLanding
<1>13. RefsResolve'
  BY <1>11, <1>12 DEF RecordsInv, RefsResolve
<1>14. \A r \in Sessions : fetch'[r] = NoFetch
  BY <1>2, <1>7, <1>8 DEF Apply, Clients
<1>15. SoleInv'
  BY <1>1, <1>7, <1>9, <1>14 DEF RecordsInv, SoleInv
<1>16. FetchInv'
  <2> SUFFICES ASSUME NEW c \in Clients, fetch'[c] # NoFetch
               PROVE  Reading(fetch[c])'
    BY <1>14 DEF FetchInv
  <2>1. CASE KeysOf(batch, {"delete"}) = {}
    <3>1. fetch'[c] = fetch[c]
      BY <1>2, <2>1 DEF Apply
    <3>2. records \subseteq records'
      BY <1>2, <2>1 DEF Apply
    <3> QED
      BY <3>1, <3>2 DEF Reading, RecordsInv, FetchInv, Pending, Asks
  <2>2. CASE KeysOf(batch, {"delete"}) # {}
    <3>1. fetch[c] # NoFetch /\ fetch'[c] = [fetch[c] EXCEPT !.crossed = TRUE]
      BY <1>2, <2>2 DEF Apply
    <3>2. fetch'[c].crossed
      BY <3>1, FetchingType DEF GoodFetch, Fetch
    <3> QED
      BY <3>2 DEF Reading
  <2> QED
    BY <2>1, <2>2
<1>17. WorldInv'
  <2>1. live[s].opaque \subseteq records' \ Reads[s]
    BY <1>6, <1>10, <1>11
  <2>2. Carrying(s)'
    BY <1>0, <1>1, <1>4, <1>6, <1>9, <2>1 DEF Carrying, Carries
  <2> QED
    BY <1>1, <1>7, <2>2 DEF WorldInv
<1>18. TaskInv'
  <2>1. Keys' = (u.seen \cup KeysOf(u.done, {"create"})) \ KeysOf(u.done, {"delete"})
    <3>1. Keys' = (t.seen \cup KeysOf(d, {"create"})) \ KeysOf(d, {"delete"})
      BY <1>1, <1>2, <1>3, <1>6, <1>10, CommitKeys
    <3> QED
      BY <1>4, <3>1
  <2>2. u.done \subseteq Planned(u) /\ InOrder(u, u.done)
    BY <1>3, <1>4, <1>5, <1>6 DEF Writing
  <2>3. ~u.wipes /\ Hand(u) \in u.done => manifest' = Refs(u.world)
    BY <1>4, <1>5, <1>11
  <2>4. Writing(u)'
    BY <2>1, <2>2, <2>3 DEF Writing
  <2> QED
    BY <1>1, <1>4, <1>6, <1>9, <2>4 DEF TaskInv, Working
<1>19. KeptInv'
  <2>1. Named' \subseteq Refs(t.world) \cup dropped[s]
    <3>1. CASE t.wipes
      BY <1>6, <3>1 DEF Named, TypeInv, RepoInv
    <3>2. CASE ~t.wipes /\ Hand(t) \in d
      BY <1>11, <3>2 DEF Named
    <3>3. CASE ~t.wipes /\ Hand(t) \notin d
      BY <1>0, <1>1, <1>6, <1>11, <3>3 DEF Named, RecordsInv, RefsResolve, Keeping
    <3> QED
      BY <3>1, <3>2, <3>3
  <2>2. Keeping(s)'
    BY <1>0, <1>1, <1>4, <1>6, <1>9, <2>1 DEF Keeping
  <2> QED
    BY <1>1, <1>7, <2>2 DEF KeptInv
<1> QED
  BY <1>13, <1>15, <1>16, <1>17, <1>18, <1>19 DEF RecordsInv


-----------------------------------------------------------------------------
(* The steps that leave the repo alone.                                    *)

\* Such a step of one session is that session's affair.
LEMMA OneSession ==
    ASSUME RecordsInv, UNCHANGED repo, NEW s \in Sessions,
           \A r \in Sessions \ {s} :
              /\ live'[r] = live[r] /\ stored'[r] = stored[r] /\ past'[r] = past[r]
              /\ recovery'[r] = recovery[r] /\ task'[r] = task[r] /\ dropped'[r] = dropped[r],
           live'[s] # NoWorld => Carrying(s)' /\ Keeping(s)',
           task'[s] # NoTask =>
              /\ Working(task[s])'
              /\ task'[s].wipes => task'[s].world.opaque = {} /\ Content \subseteq dropped'[s]
    PROVE  RefsResolve' /\ WorldInv' /\ TaskInv' /\ KeptInv'
<1>1. manifest' = manifest /\ records' = records /\ Keys' = Keys /\ Named' = Named
  BY DEF repo, Keys, Named
<1>2. RefsResolve'
  BY <1>1 DEF RecordsInv, RefsResolve
<1>3. ASSUME NEW r \in Sessions, live'[r] # NoWorld PROVE Carrying(r)' /\ Keeping(r)'
  <2>1. CASE r = s
    BY <1>3, <2>1
  <2>2. CASE r # s
    <3>1. Carrying(r) /\ Keeping(r)
      BY <1>3, <2>2 DEF RecordsInv, WorldInv, KeptInv
    <3>2. Carrying(r)'
      BY <1>1, <2>2, <3>1 DEF Carrying, Carries
    <3>3. Keeping(r)'
      BY <1>1, <2>2, <3>1 DEF Keeping
    <3> QED
      BY <3>2, <3>3
  <2> QED
    BY <2>1, <2>2
<1>4. ASSUME NEW r \in Sessions, task'[r] # NoTask
      PROVE  /\ Working(task[r])'
             /\ task'[r].wipes => task'[r].world.opaque = {} /\ Content \subseteq dropped'[r]
  <2>1. CASE r = s
    BY <1>4, <2>1
  <2>2. CASE r # s
    <3>1. PICK t : t = task[r] /\ t = task'[r]
      BY <2>2
    <3>2. Working(t) /\ (t.wipes => t.world.opaque = {} /\ Content \subseteq dropped[r])
      BY <1>4, <3>1 DEF RecordsInv, TaskInv
    <3>3. Working(t)'
      BY <1>1, <3>2 DEF Working, Writing, Looking
    <3> QED
      BY <2>2, <3>1, <3>2, <3>3 DEF Working, Writing, Looking
  <2> QED
    BY <2>1, <2>2
<1> QED
  BY <1>2, <1>3, <1>4 DEF WorldInv, TaskInv, KeptInv

LEMMA SameFetches ==
    ASSUME RecordsInv, UNCHANGED repo,
           \A c \in Clients : fetch'[c] # NoFetch => fetch'[c] = fetch[c]
    PROVE  FetchInv'
BY DEF RecordsInv, FetchInv, Reading, Opening, repo

LEMMA SameSole ==
    ASSUME RecordsInv, UNCHANGED fetch,
           \A s \in Sessions : /\ live'[s] # NoWorld <=> live[s] # NoWorld
                               /\ task'[s] # NoTask => live[s] # NoWorld
                               /\ live[s] = NoWorld => recovery'[s] = recovery[s]
    PROVE  SoleInv'
BY DEF RecordsInv, SoleInv

-----------------------------------------------------------------------------
(* The fetch.                                                              *)

LEMMA DefaultCarried ==
    ASSUME NEW s \in Sessions
    PROVE  DefaultWorld.opaque = {} /\ DefaultWorld.own \subseteq Reads[s]
BY RecordsAssumption DEF DefaultWorld

LEMMA HeadPending ==
    ASSUME NEW todo \in Seq(Lists), todo # <<>>
    PROVE  Pending(todo) = Asks(Head(todo)) \cup Pending(Tail(todo))
<1>1. /\ Len(todo) \in Nat /\ Len(todo) >= 1 /\ Len(Tail(todo)) = Len(todo) - 1
      /\ Head(todo) = todo[1] /\ DOMAIN todo = 1..Len(todo)
      /\ DOMAIN Tail(todo) = 1..(Len(todo) - 1)
      /\ \A i \in 1..(Len(todo) - 1) : Tail(todo)[i] = todo[i + 1]
  BY HeadTailProperties, EmptySeq, LenProperties
<1>2. ASSUME NEW i \in DOMAIN todo
      PROVE  todo[i] = Head(todo) \/ \E j \in DOMAIN Tail(todo) : todo[i] = Tail(todo)[j]
  <2>1. CASE i = 1
    BY <1>1, <2>1
  <2>2. CASE i # 1
    <3>1. i - 1 \in 1..(Len(todo) - 1) /\ (i - 1) + 1 = i
      BY <1>1, <2>2
    <3> QED
      BY <1>1, <3>1
  <2> QED
    BY <2>1, <2>2
<1>3. ASSUME NEW j \in DOMAIN Tail(todo)
      PROVE  \E i \in DOMAIN todo : Tail(todo)[j] = todo[i]
  BY <1>1
<1>4. \E i \in DOMAIN todo : Head(todo) = todo[i]
  BY <1>1
<1> QED
  BY <1>2, <1>3, <1>4 DEF Pending

LEMMA NonePending == Pending(<<>>) = {}
BY DEF Pending


\* A fetch is of all that the manifest names.
LEMMA AskedPending ==
    ASSUME TypeInv, manifest # NoManifest
    PROVE  manifest \subseteq Pending(Asked("gens") \o Asked("parts"))
<1> DEFINE todo == Asked("gens") \o Asked("parts")
<1>1. ASSUME NEW l \in {"gens", "parts"}, manifest \cap OfList(l) # {}
      PROVE  \E i \in DOMAIN todo : todo[i] = l
  <2>1. CASE l = "gens"
    <3>1. Asked("gens") = <<"gens">>
      BY <1>1, <2>1 DEF Asked
    <3>2. Asked("parts") = <<"parts">> \/ Asked("parts") = <<>>
      BY DEF Asked
    <3>3. 1 \in DOMAIN todo /\ todo[1] = "gens"
      BY <3>1, <3>2
    <3> QED
      BY <2>1, <3>3
  <2>2. CASE l = "parts"
    <3>1. Asked("parts") = <<"parts">>
      BY <1>1, <2>2 DEF Asked
    <3>2. Asked("gens") = <<"gens">> \/ Asked("gens") = <<>>
      BY DEF Asked
    <3>3. Len(todo) \in DOMAIN todo /\ todo[Len(todo)] = "parts"
      BY <3>1, <3>2
    <3> QED
      BY <2>2, <3>3
  <2> QED
    BY <1>1, <2>1, <2>2
<1>2. ASSUME NEW x \in manifest PROVE x \in Pending(todo)
  <2>1. PICK l \in {"gens", "parts"} : x \in OfList(l)
    BY <1>2 DEF TypeInv, RepoInv, OfList, Content
  <2>2. PICK i \in DOMAIN todo : todo[i] = l
    BY <1>1, <1>2, <2>1
  <2>3. Asks(todo[i]) = OfList(l)
    BY <2>2 DEF Asks
  <2> QED
    BY <2>1, <2>3 DEF Pending
<1> QED
  BY <1>2

LEMMA ReadManifestRecords ==
    ASSUME Careful, TypeInv, TypeInv', RecordsInv, NEW c \in Clients, ReadManifest(c)
    PROVE  RecordsInv'
<1>1. UNCHANGED <<repo, recovery, past, task, dropped>>
  BY DEF ReadManifest
<1>2. c \in Sessions => /\ live[c] = NoWorld /\ task[c] = NoTask /\ recovery[c] = "none"
                        /\ past[c] = <<>>
                        /\ \A r \in Sessions \ {c} : live[r] = NoWorld /\ fetch[r] = NoFetch
  BY DEF ReadManifest, Careful, RecordsInv, SoleInv, TypeInv, RoomInv
<1>3. CASE manifest = NoManifest
  <2>1. /\ c \in Sessions /\ fetch' = [fetch EXCEPT ![c] = NoFetch]
        /\ live' = [live EXCEPT ![c] = DefaultWorld]
        /\ stored' = [stored EXCEPT ![c] = DefaultWorld]
    BY <1>3 DEF ReadManifest
  <2>2. live'[c] = DefaultWorld /\ stored'[c] = DefaultWorld /\ DefaultWorld # NoWorld
    BY <2>1, DefaultGood, NotNone DEF TypeInv, RoomInv
  <2>3. Carrying(c)'
    BY <1>1, <1>2, <2>1, <2>2, DefaultCarried DEF Carrying, Carries
  <2>4. Keeping(c)'
    BY <1>1, <1>2, <1>3, <2>1 DEF Keeping, Named, repo
  <2>5. RefsResolve' /\ WorldInv' /\ TaskInv' /\ KeptInv'
    BY <1>1, <1>2, <2>1, <2>3, <2>4, OneSession DEF TypeInv, RoomInv
  <2>6. FetchInv'
    BY <1>1, <2>1, SameFetches DEF TypeInv, RestInv
  <2>7. SoleInv'
    <3>1. \A r \in Sessions : fetch'[r] = NoFetch /\ (r # c => live'[r] = NoWorld)
      BY <1>2, <2>1 DEF TypeInv, RestInv, RoomInv, Clients
    <3> QED
      BY <1>1, <1>2, <2>1, <2>2, <3>1 DEF RecordsInv, SoleInv
  <2> QED
    BY <2>5, <2>6, <2>7 DEF RecordsInv
<1>4. CASE manifest # NoManifest
  <2>1. PICK f \in GoodFetch :
          /\ f.refs = manifest /\ f.found = {} /\ ~f.crossed
          /\ f.todo = Asked("gens") \o Asked("parts")
          /\ fetch' = [fetch EXCEPT ![c] = f]
    <3> DEFINE new == [refs |-> manifest, found |-> {}, crossed |-> FALSE,
                       todo |-> Asked("gens") \o Asked("parts")]
    <3>1. fetch' = [fetch EXCEPT ![c] = new]
      BY <1>4 DEF ReadManifest
    <3>2. new \in GoodFetch
      <4>1. new # NoFetch
        <5>1. \A l \in Lists : Asked(l) \in Seq(Lists)
          BY DEF Asked
        <5>2. "gens" \in Lists /\ "parts" \in Lists
          BY DEF Lists
        <5>3. new.todo \in Seq(Lists)
          BY <5>1, <5>2
        <5>4. new \in Fetch
          BY <1>4, <5>3 DEF TypeInv, RepoInv, Fetch
        <5> QED
          BY <5>4, RecordsNoneAssumption
      <4>2. fetch'[c] = new
        BY <3>1 DEF TypeInv, RestInv
      <4> QED
        BY <4>1, <4>2 DEF TypeInv, RestInv
    <3>3. /\ new.refs = manifest /\ new.found = {} /\ ~new.crossed
          /\ new.todo = Asked("gens") \o Asked("parts")
      OBVIOUS
    <3> QED
      BY <3>1, <3>2, <3>3
  <2>2. UNCHANGED <<live, stored>>
    BY <1>4 DEF ReadManifest
  <2>3. fetch'[c] = f
    BY <2>1 DEF TypeInv, RestInv
  <2>4. \A d \in Clients : d # c => fetch'[d] = fetch[d]
    BY <2>1 DEF TypeInv, RestInv
  <2>5. manifest' = manifest /\ records' = records
    BY <1>1 DEF repo
  <2>6. Reading(f)' /\ Opening(f)'
    <3>1. manifest \subseteq records
      BY <1>4 DEF RecordsInv, RefsResolve
    <3>2. manifest \subseteq Pending(f.todo)
      BY <1>4, <2>1, AskedPending
    <3> QED
      BY <2>1, <2>5, <3>1, <3>2 DEF Reading, Opening
  <2>7. FetchInv'
    <3> SUFFICES ASSUME NEW d \in Clients, fetch'[d] # NoFetch
                 PROVE  Reading(fetch[d])' /\ (d \in Sessions => Opening(fetch[d])')
      BY DEF FetchInv
    <3>1. CASE d = c
      BY <2>3, <2>6, <3>1 DEF Reading, Opening
    <3>2. CASE d # c
      BY <2>4, <2>5, <3>2 DEF RecordsInv, FetchInv, Reading, Opening
    <3> QED
      BY <3>1, <3>2
  <2>8. SoleInv'
    BY <1>1, <1>2, <2>2, <2>4 DEF RecordsInv, SoleInv, Clients
  <2>9. RefsResolve' /\ WorldInv' /\ TaskInv' /\ KeptInv'
    <3>1. Keys' = Keys /\ Named' = Named
      BY <2>5 DEF Keys, Named
    <3> QED
      BY <1>1, <2>2, <2>5, <3>1 DEF RecordsInv, RefsResolve, WorldInv, Carrying, Carries,
         TaskInv, Working, Writing, Looking, KeptInv, Keeping
  <2> QED
    BY <2>7, <2>8, <2>9 DEF RecordsInv
<1> QED
  BY <1>3, <1>4


\* A step in which only a fetch moves.
LEMMA FetchRecords ==
    ASSUME RecordsInv, NEW c \in Clients, fetch[c] # NoFetch,
           UNCHANGED <<repo, room, task, dropped>>,
           \A d \in Clients \ {c} : fetch'[d] = fetch[d],
           fetch'[c] # NoFetch =>
              Reading(fetch[c])' /\ (c \in Sessions => Opening(fetch[c])')
    PROVE  RecordsInv'
<1>1. manifest' = manifest /\ records' = records /\ Keys' = Keys /\ Named' = Named
  BY DEF repo, Keys, Named
<1>2. RefsResolve' /\ WorldInv' /\ TaskInv' /\ KeptInv'
  BY <1>1 DEF RecordsInv, RefsResolve, WorldInv, Carrying, Carries, room,
     TaskInv, Working, Writing, Looking, KeptInv, Keeping
<1>3. FetchInv'
  <2> SUFFICES ASSUME NEW d \in Clients, fetch'[d] # NoFetch
               PROVE  Reading(fetch[d])' /\ (d \in Sessions => Opening(fetch[d])')
    BY DEF FetchInv
  <2>1. CASE d = c
    BY <2>1
  <2>2. CASE d # c
    BY <1>1, <2>2 DEF RecordsInv, FetchInv, Reading, Opening
  <2> QED
    BY <2>1, <2>2
<1>4. SoleInv'
  BY DEF RecordsInv, SoleInv, room, Clients
<1> QED
  BY <1>2, <1>3, <1>4 DEF RecordsInv

LEMMA ReadListRecords ==
    ASSUME TypeInv, TypeInv', RecordsInv, NEW c \in Clients, ReadList(c)
    PROVE  RecordsInv'
<1>1. PICK f : f = fetch[c]
  OBVIOUS
<1>2. f \in GoodFetch /\ f # NoFetch /\ f.todo # <<>> /\ f.todo \in Seq(Lists)
  BY <1>1, FetchingType DEF ReadList, GoodFetch, Fetch
<1>3. PICK g : /\ g = fetch'[c] /\ g.refs = f.refs /\ g.crossed = f.crossed
               /\ g.found = f.found \cup (records \cap OfList(Head(f.todo)))
               /\ g.todo = Tail(f.todo)
  <2>1. fetch'[c] = Listed(f)
    BY <1>1 DEF ReadList, TypeInv, RestInv
  <2>2. /\ Listed(f).refs = f.refs /\ Listed(f).crossed = f.crossed
        /\ Listed(f).found = f.found \cup (records \cap OfList(Head(f.todo)))
        /\ Listed(f).todo = Tail(f.todo)
    BY <1>2 DEF Listed, GoodFetch, Fetch
  <2> QED
    BY <2>1, <2>2
<1>4. Reading(f) /\ (c \in Sessions => Opening(f))
  BY <1>1, <1>2 DEF RecordsInv, FetchInv
<1>5. UNCHANGED <<repo, room, task, dropped>> /\ manifest' = manifest /\ records' = records
  BY DEF ReadList, repo
<1>6. Pending(f.todo) = Asks(Head(f.todo)) \cup Pending(Tail(f.todo))
  BY <1>2, HeadPending
<1>7. f.refs \subseteq Content
  BY <1>2 DEF GoodFetch, Fetch
<1>8. Asks(Head(f.todo)) \cap Content = OfList(Head(f.todo)) \/ Head(f.todo) = "self"
  BY DEF Asks, OfList, Content
<1>9. Head(f.todo) = "self" => Asks(Head(f.todo)) \cap Content = {}
  BY RecordsAssumption DEF Asks
<1>10. Reading(g)'
  BY <1>3, <1>4, <1>5, <1>6, <1>7, <1>8, <1>9 DEF Reading
<1>11. c \in Sessions => Opening(g)'
  BY <1>3, <1>4, <1>5 DEF Opening
<1>12. \A d \in Clients \ {c} : fetch'[d] = fetch[d]
  BY DEF ReadList, TypeInv, RestInv
<1>13. Reading(fetch[c])' /\ (c \in Sessions => Opening(fetch[c])')
  BY <1>3, <1>10, <1>11 DEF Reading, Opening
<1> QED
  BY <1>1, <1>2, <1>5, <1>12, <1>13, FetchRecords

\* A session opens with all that its room holds.
LEMMA AssembledKeeps ==
    ASSUME Careful, TypeInv, NEW s \in Sessions, NEW f \in GoodFetch,
           f.refs \subseteq f.found
    PROVE  /\ f.refs \subseteq Keeps(Assembled(s, f))
           /\ Assembled(s, f).own \subseteq Reads[s]
           /\ Assembled(s, f).opaque \subseteq f.refs \ Reads[s]
<1> DEFINE w == Assembled(s, f)
           blind == (f.refs \cap Parts) \ Reads[s] # {}
<1>1. f.refs \cap f.found = f.refs /\ f.refs \subseteq Content
  BY DEF GoodFetch, Fetch
<1>2. /\ w.own = (f.refs \cap Reads[s]) \ (IF blind THEN Parts ELSE {})
      /\ w.opaque = (f.refs \cap Generators) \ Reads[s]
      /\ w.unread = IF blind THEN f.refs \cap Parts ELSE {}
  BY <1>1 DEF Assembled
<1>3. w \in Good
  BY AssembledGood DEF Clients
<1> HIDE DEF w
<1>4. Refs(w) = w.own \cup w.opaque
  BY <1>2, <1>3, CarriedRefs
<1>5. f.refs \subseteq w.own \cup w.opaque \cup w.unread
  BY <1>1, <1>2, RecordsAssumption DEF Content
<1> QED
  BY <1>2, <1>4, <1>5 DEF Keeps, w

LEMMA InstallRecords ==
    ASSUME Careful, TypeInv, TypeInv', RecordsInv, NEW c \in Clients, Install(c)
    PROVE  RecordsInv'
<1>1. PICK f : f = fetch[c]
  OBVIOUS
<1>2. /\ f \in GoodFetch /\ f # NoFetch /\ f.todo = <<>>
      /\ fetch' = [fetch EXCEPT ![c] = NoFetch]
      /\ UNCHANGED <<repo, recovery, past, task, dropped>>
  BY <1>1, FetchingType DEF Install, Fetched
<1>3. fetch'[c] = NoFetch /\ \A d \in Clients \ {c} : fetch'[d] = fetch[d]
  BY <1>2 DEF TypeInv, RestInv
<1>4. CASE c \notin Sessions
  <2>1. UNCHANGED <<live, stored>>
    BY <1>4 DEF Install
  <2> QED
    BY <1>1, <1>2, <1>3, <2>1, FetchRecords DEF room
<1>5. CASE c \in Sessions
  <2>1. PICK w : w = Assembled(c, f)
    OBVIOUS
  <2>2. live' = [live EXCEPT ![c] = w] /\ stored' = [stored EXCEPT ![c] = w]
    BY <1>1, <1>5, <2>1 DEF Install
  <2>3. w \in Good
    BY <1>2, <2>1, AssembledGood
  <2>4. live'[c] = w /\ stored'[c] = w /\ w # NoWorld
    BY <1>5, <2>2, <2>3, NotNone DEF TypeInv, RoomInv
  <2>5. Reading(f) /\ Opening(f)
    BY <1>1, <1>2, <1>5 DEF RecordsInv, FetchInv
  <2>6. f.refs = manifest /\ f.refs \subseteq f.found /\ f.refs \subseteq records
    BY <1>2, <2>5, NonePending DEF Reading, Opening
  <2>7. manifest \subseteq Keeps(w) /\ w.own \subseteq Reads[c] /\ w.opaque \subseteq records \ Reads[c]
    BY <1>2, <1>5, <2>1, <2>6, AssembledKeeps
  <2>8. live[c] = NoWorld /\ task[c] = NoTask /\ recovery[c] = "none" /\ past[c] = <<>>
    BY <1>1, <1>2, <1>5 DEF RecordsInv, SoleInv, TypeInv, RoomInv
  <2>9. Carrying(c)'
    BY <1>2, <2>4, <2>7, <2>8 DEF Carrying, Carries, repo
  <2>10. Keeping(c)'
    BY <1>2, <2>4, <2>7, <2>8 DEF Keeping, Named, Keeps, Refs, repo
  <2>11. RefsResolve' /\ WorldInv' /\ TaskInv' /\ KeptInv'
    BY <1>2, <1>5, <2>2, <2>8, <2>9, <2>10, OneSession DEF TypeInv, RoomInv
  <2>12. FetchInv'
    BY <1>2, <1>3, SameFetches
  <2>13. \A r \in Sessions : r # c =>
           live[r] = NoWorld /\ fetch[r] = NoFetch /\ live'[r] = NoWorld /\ fetch'[r] = NoFetch
    BY <1>1, <1>2, <1>3, <1>5, <2>2 DEF RecordsInv, SoleInv, TypeInv, RoomInv, Clients
  <2>14. SoleInv'
    BY <1>2, <1>3, <2>4, <2>13 DEF RecordsInv, SoleInv
  <2> QED
    BY <2>11, <2>12, <2>14 DEF RecordsInv
<1> QED
  BY <1>4, <1>5

LEMMA RecoverRecords ==
    ASSUME TypeInv, TypeInv', RecordsInv, NEW s \in Sessions,
           NEW cause \in {"Decode", "Unreachable"}, Recover(s, cause)
    PROVE  RecordsInv'
<1>1. /\ fetch' = [fetch EXCEPT ![s] = NoFetch] /\ fetch[s] # NoFetch
      /\ live' = [live EXCEPT ![s] = DefaultWorld]
      /\ stored' = [stored EXCEPT ![s] = DefaultWorld]
      /\ recovery' = [recovery EXCEPT ![s] = cause]
      /\ UNCHANGED <<repo, past, task, dropped>>
  BY DEF Recover
<1>2. live[s] = NoWorld /\ task[s] = NoTask /\ past[s] = <<>>
  BY <1>1 DEF RecordsInv, SoleInv, TypeInv, RoomInv
<1>3. /\ live'[s] = DefaultWorld /\ stored'[s] = DefaultWorld /\ recovery'[s] = cause
      /\ DefaultWorld # NoWorld /\ fetch'[s] = NoFetch
      /\ \A d \in Clients \ {s} : fetch'[d] = fetch[d]
  BY <1>1, DefaultGood, NotNone DEF TypeInv, RoomInv, RestInv, Clients
<1>4. Carrying(s)'
  BY <1>1, <1>2, <1>3, DefaultCarried DEF Carrying, Carries
<1>5. Keeping(s)'
  BY <1>1, <1>2, <1>3 DEF Keeping
<1>6. RefsResolve' /\ WorldInv' /\ TaskInv' /\ KeptInv'
  BY <1>1, <1>2, <1>4, <1>5, OneSession DEF TypeInv, RoomInv
<1>7. FetchInv'
  BY <1>1, <1>3, SameFetches
<1>8. \A r \in Sessions : r # s =>
        /\ live[r] = NoWorld /\ fetch[r] = NoFetch /\ live'[r] = NoWorld
        /\ fetch'[r] = NoFetch /\ recovery'[r] = recovery[r]
  BY <1>1, <1>3 DEF RecordsInv, SoleInv, TypeInv, RoomInv, Clients
<1>9. SoleInv'
  BY <1>1, <1>3, <1>8 DEF RecordsInv, SoleInv
<1> QED
  BY <1>6, <1>7, <1>9 DEF RecordsInv

LEMMA CloseRecords ==
    ASSUME TypeInv, TypeInv', RecordsInv, NEW s \in Sessions, Close(s)
    PROVE  RecordsInv'
<1>1. /\ live' = [live EXCEPT ![s] = NoWorld] /\ stored' = [stored EXCEPT ![s] = NoWorld]
      /\ recovery' = [recovery EXCEPT ![s] = "none"] /\ task' = [task EXCEPT ![s] = NoTask]
      /\ fetch' = [fetch EXCEPT ![s] = NoFetch] /\ past' = [past EXCEPT ![s] = <<>>]
      /\ dropped' = [dropped EXCEPT ![s] = {}] /\ UNCHANGED repo
  BY DEF Close
<1>2. /\ live'[s] = NoWorld /\ task'[s] = NoTask /\ recovery'[s] = "none" /\ fetch'[s] = NoFetch
      /\ \A d \in Clients \ {s} : fetch'[d] = fetch[d]
      /\ \A r \in Sessions \ {s} :
           /\ live'[r] = live[r] /\ stored'[r] = stored[r] /\ past'[r] = past[r]
           /\ recovery'[r] = recovery[r] /\ task'[r] = task[r] /\ dropped'[r] = dropped[r]
  BY <1>1 DEF TypeInv, RoomInv, RestInv, Clients
<1>3. RefsResolve' /\ WorldInv' /\ TaskInv' /\ KeptInv'
  BY <1>1, <1>2, OneSession
<1>4. FetchInv'
  BY <1>1, <1>2, SameFetches
<1>5. SoleInv'
  BY <1>2 DEF RecordsInv, SoleInv, Clients
<1> QED
  BY <1>3, <1>4, <1>5 DEF RecordsInv


-----------------------------------------------------------------------------
(* The owner's edits.                                                      *)

\* A session's world becomes another it carries the same refs through: what it
\* no longer keeps has been taken out.
LEMMA BecomesRecords ==
    ASSUME TypeInv, TypeInv', RecordsInv, NEW s \in Sessions, live[s] # NoWorld,
           NEW w \in Good, Carries(s, w), Becomes(s, w),
           \A i \in DOMAIN past'[s] : Carries(s, past'[s][i]),
           \A r \in Sessions \ {s} : past'[r] = past[r],
           UNCHANGED <<repo, stored, recovery, fetch, task>>
    PROVE  RecordsInv'
<1>1. /\ live'[s] = w /\ w # NoWorld
      /\ dropped'[s] = dropped[s] \cup (Keeps(live[s]) \ Keeps(w))
      /\ \A r \in Sessions \ {s} : live'[r] = live[r] /\ dropped'[r] = dropped[r]
  BY NotNone DEF Becomes, Drops, TypeInv, RoomInv, RestInv
<1>2. Carrying(s) /\ Keeping(s)
  BY DEF RecordsInv, WorldInv, KeptInv
<1>3. /\ manifest' = manifest /\ records' = records /\ Keys' = Keys /\ Named' = Named
      /\ stored'[s] = stored[s] /\ recovery'[s] = recovery[s] /\ task'[s] = task[s]
  BY DEF repo, Keys, Named
<1>4. w.opaque = live[s].opaque /\ w.own \subseteq Reads[s]
  BY DEF Carries
<1>5. Carrying(s)'
  BY <1>1, <1>2, <1>3, <1>4 DEF Carrying, Carries
<1>6. Keeps(live[s])' = Keeps(w)
  BY <1>1 DEF Keeps, Refs
<1>7. Keeping(s)'
  <2>1. Keeps(live[s]) \cup dropped[s] \subseteq Keeps(w) \cup dropped'[s]
    BY <1>1
  <2>2. dropped[s] \subseteq dropped'[s]
    BY <1>1
  <2> QED
    BY <1>2, <1>3, <1>6, <2>1, <2>2 DEF Keeping
<1>8. task'[s] # NoTask =>
        /\ Working(task[s])'
        /\ task'[s].wipes => task'[s].world.opaque = {} /\ Content \subseteq dropped'[s]
  <2> SUFFICES ASSUME task[s] # NoTask
               PROVE  /\ Working(task[s])'
                      /\ task[s].wipes => task[s].world.opaque = {} /\ Content \subseteq dropped'[s]
    BY <1>3
  <2>1. /\ Working(task[s])
        /\ task[s].wipes => task[s].world.opaque = {} /\ Content \subseteq dropped[s]
    BY DEF RecordsInv, TaskInv
  <2>2. Working(task[s])'
    BY <1>3, <2>1 DEF Working, Writing, Looking
  <2> QED
    BY <1>1, <2>1, <2>2
<1>9. RefsResolve' /\ WorldInv' /\ TaskInv' /\ KeptInv'
  BY <1>1, <1>3, <1>5, <1>7, <1>8, OneSession
<1>10. FetchInv'
  BY SameFetches
<1>11. SoleInv'
  BY <1>1, SameSole DEF RecordsInv, SoleInv
<1> QED
  BY <1>9, <1>10, <1>11 DEF RecordsInv

LEMMA PushedCarries ==
    ASSUME TypeInv, RecordsInv, NEW s \in Sessions, live[s] # NoWorld, Pushed(s)
    PROVE  /\ \A i \in DOMAIN past'[s] : Carries(s, past'[s][i])
           /\ \A r \in Sessions \ {s} : past'[r] = past[r]
<1>1. PICK ring : ring = Append(past[s], live[s])
  OBVIOUS
<1>2. past[s] \in Seq(Good) /\ live[s] \in Good
  BY OpenGood
<1>3. Carries(s, live[s]) /\ \A i \in DOMAIN past[s] : Carries(s, past[s][i])
  BY DEF RecordsInv, WorldInv, Carrying
<1>4. /\ ring \in Seq(Good) /\ ring # <<>> /\ Len(ring) = Len(past[s]) + 1
      /\ \A i \in 1..Len(past[s]) : ring[i] = past[s][i]
      /\ ring[Len(past[s]) + 1] = live[s]
      /\ Len(past[s]) \in Nat /\ DOMAIN past[s] = 1..Len(past[s]) /\ DOMAIN ring = 1..Len(ring)
  BY <1>1, <1>2, AppendProperties, LenProperties
<1>5. \A i \in DOMAIN ring : Carries(s, ring[i])
  <2> SUFFICES ASSUME NEW i \in DOMAIN ring PROVE Carries(s, ring[i])
    OBVIOUS
  <2>1. i \in 1..Len(past[s]) \/ i = Len(past[s]) + 1
    BY <1>4
  <2> QED
    BY <1>3, <1>4, <2>1
<1>6. \A i \in DOMAIN Tail(ring) : Carries(s, Tail(ring)[i])
  <2>1. /\ Len(Tail(ring)) = Len(ring) - 1 /\ Tail(ring) \in Seq(Good)
        /\ \A i \in 1..Len(Tail(ring)) : Tail(ring)[i] = ring[i + 1]
    BY <1>4, HeadTailProperties
  <2>2. DOMAIN Tail(ring) = 1..(Len(ring) - 1)
    BY <2>1, LenProperties
  <2> SUFFICES ASSUME NEW i \in DOMAIN Tail(ring) PROVE Carries(s, Tail(ring)[i])
    OBVIOUS
  <2>3. i + 1 \in DOMAIN ring /\ Tail(ring)[i] = ring[i + 1]
    BY <1>4, <2>1, <2>2
  <2> QED
    BY <1>5, <2>3
<1>7. past'[s] = IF Len(ring) > UndoDepth THEN Tail(ring) ELSE ring
  BY <1>1 DEF Pushed, TypeInv, RoomInv
<1>8. \A r \in Sessions \ {s} : past'[r] = past[r]
  BY DEF Pushed, TypeInv, RoomInv
<1> QED
  BY <1>5, <1>6, <1>7, <1>8

LEMMA EditRecords ==
    ASSUME TypeInv, TypeInv', RecordsInv, NEW s \in Sessions, live[s] # NoWorld,
           NEW w \in Good, Carries(s, w), Edit(s, w)
    PROVE  RecordsInv'
<1>1. /\ \A i \in DOMAIN past'[s] : Carries(s, past'[s][i])
      /\ \A r \in Sessions \ {s} : past'[r] = past[r]
  BY PushedCarries DEF Edit
<1> QED
  BY <1>1, BecomesRecords DEF Edit

LEMMA PersonRecords ==
    ASSUME Careful, TypeInv, TypeInv', RecordsInv, NEW s \in Sessions,
           \/ \E x \in Content : PutContent(s, x) \/ TakeOut(s, x)
           \/ TakeOutUnread(s) \/ Load(s) \/ Reset(s) \/ Undo(s)
    PROVE  RecordsInv'
<1>1. live[s] # NoWorld /\ live[s] \in Good /\ stored[s] \in Good
  BY OpenGood DEF PutContent, TakeOut, TakeOutUnread, Load, Reset, Undo, TypeInv, RoomInv
<1>2. Carrying(s) /\ Carries(s, live[s]) /\ Carries(s, stored[s])
  BY <1>1 DEF RecordsInv, WorldInv, Carrying
<1>3. ASSUME NEW x \in Content, PutContent(s, x) PROVE RecordsInv'
  <2>1. Put(live[s], x) \in Good
    BY <1>1, PutGood
  <2>2. Carries(s, Put(live[s], x))
    BY <1>1, <1>2, <1>3 DEF PutContent, Carries, Put, Good, World
  <2> QED
    BY <1>1, <1>3, <2>1, <2>2, EditRecords DEF PutContent
<1>4. ASSUME NEW x \in Content, TakeOut(s, x) PROVE RecordsInv'
  <2>1. [live[s] EXCEPT !.own = @ \ {x}] \in Good
    BY <1>1, LessGood
  <2>2. Carries(s, [live[s] EXCEPT !.own = @ \ {x}])
    BY <1>1, <1>2 DEF Carries, Good, World
  <2> QED
    BY <1>1, <1>4, <2>1, <2>2, EditRecords DEF TakeOut
<1>5. CASE TakeOutUnread(s)
  <2>1. [live[s] EXCEPT !.unread = {}] \in Good
    BY <1>1, LessGood
  <2>2. Carries(s, [live[s] EXCEPT !.unread = {}])
    BY <1>1, <1>2 DEF Carries, Good, World
  <2> QED
    BY <1>1, <1>5, <2>1, <2>2, EditRecords DEF TakeOutUnread
<1>6. CASE Load(s)
  BY <1>1, <1>2, <1>6, EditRecords DEF Load
\* Only a session that reads every generator resets its room.
<1>7. CASE Reset(s)
  <2>1. Generators \subseteq Reads[s]
    BY <1>7 DEF Reset, Careful
  <2>2. live[s].opaque = {}
    BY <1>1, <1>2, <2>1 DEF Carrying, Good, World
  <2>3. Carries(s, DefaultWorld)
    BY <2>2, DefaultCarried DEF Carries
  <2> QED
    BY <1>1, <1>7, <2>3, DefaultGood, EditRecords DEF Reset
<1>8. CASE Undo(s)
  <2>1. PICK n : n = Len(past[s])
    OBVIOUS
  <2>2. past[s] \in Seq(Good) /\ past[s] # <<>>
    BY <1>1, <1>8, OpenGood DEF Undo
  <2>3. n \in Nat /\ n >= 1 /\ DOMAIN past[s] = 1..n
    BY <2>1, <2>2, EmptySeq, LenProperties
  <2>4. past[s][n] \in Good /\ Carries(s, past[s][n])
    BY <1>2, <2>2, <2>3, ElementOfSeq DEF Carrying
  <2>5. past' = [past EXCEPT ![s] = SubSeq(past[s], 1, n - 1)]
    BY <1>8, <2>1 DEF Undo
  <2>6. \A i \in DOMAIN past'[s] : Carries(s, past'[s][i])
    <3>1. \A i \in 1..(n - 1) : past[s][i] \in Good
      BY <2>2, <2>3
    <3>2. /\ SubSeq(past[s], 1, n - 1) \in Seq(Good)
          /\ Len(SubSeq(past[s], 1, n - 1)) = n - 1
          /\ \A i \in 1..(n - 1) : SubSeq(past[s], 1, n - 1)[i] = past[s][i]
      BY <2>3, <3>1, SubSeqProperties
    <3>3. DOMAIN SubSeq(past[s], 1, n - 1) = 1..(n - 1)
      BY <3>2, LenProperties
    <3>4. past'[s] = SubSeq(past[s], 1, n - 1)
      BY <2>5 DEF TypeInv, RoomInv
    <3>5. \A i \in 1..(n - 1) : i \in DOMAIN past[s]
      BY <2>3
    <3> QED
      BY <1>2, <3>2, <3>3, <3>4, <3>5 DEF Carrying
  <2>7. \A r \in Sessions \ {s} : past'[r] = past[r]
    BY <2>5 DEF TypeInv, RoomInv
  <2> QED
    BY <1>1, <1>8, <2>1, <2>4, <2>6, <2>7, BecomesRecords DEF Undo
<1> QED
  BY <1>3, <1>4, <1>5, <1>6, <1>7, <1>8


-----------------------------------------------------------------------------
(* The save and the wipe, but for their commits.                           *)

LEMMA StartsLooking ==
    ASSUME TypeInv, NEW t, t.done = {}, t.seen = {}, t.todo \in Seq(Lists),
           t.todo # <<>>, \A l \in Lists : \E i \in DOMAIN t.todo : t.todo[i] = l
    PROVE  Working(t)
<1>1. Lists = {"gens", "parts", "self"}
  BY DEF Lists
<1>2. Generators \cup Parts \cup {Self} \subseteq Pending(t.todo)
  <2>1. Asks("gens") = Generators /\ Asks("parts") = Parts /\ Asks("self") = {Self}
    BY DEF Asks, OfList
  <2> QED
    BY <1>1, <2>1 DEF Pending
<1>3. Keys \subseteq Content \cup {Self}
  BY DEF Keys, TypeInv, RepoInv
<1> QED
  BY <1>2, <1>3 DEF Working, Looking, Content

LEMMA PublishLooks ==
    ASSUME TypeInv, NEW w \in Good
    PROVE  /\ Working(Publish(w)) /\ Publish(w).world = w /\ ~Publish(w).wipes
           /\ Publish(w) \in GoodTask
<1>1. PICK t \in GoodTask : t = Publish(w)
  BY PublishGood
<1>2. /\ t.world = w /\ ~t.wipes /\ t.done = {} /\ t.seen = {}
      /\ t.todo = <<"gens", "parts", "self">>
  BY <1>1 DEF Publish
<1>3. t.todo \in Seq(Lists) /\ t.todo # <<>>
  <2>1. t.todo \in Seq(Lists)
    BY TaskParts
  <2>2. t.todo # <<>>
    BY <1>2
  <2> QED
    BY <2>1, <2>2
<1>4. \A l \in Lists : \E i \in DOMAIN t.todo : t.todo[i] = l
  <2>1. 1 \in DOMAIN t.todo /\ 2 \in DOMAIN t.todo /\ 3 \in DOMAIN t.todo
    BY <1>2
  <2>2. t.todo[1] = "gens" /\ t.todo[2] = "parts" /\ t.todo[3] = "self"
    BY <1>2
  <2> QED
    BY <2>1, <2>2 DEF Lists
<1>5. Working(t)
  BY <1>2, <1>3, <1>4, StartsLooking
<1> QED
  BY <1>1, <1>2, <1>5

LEMMA WipeLooks ==
    ASSUME TypeInv
    PROVE  /\ Working(Wipe) /\ Wipe.world = DefaultWorld /\ Wipe.wipes
           /\ Wipe \in GoodTask
<1>1. PICK t \in GoodTask : t = Wipe
  BY WipeGood
<1>2. /\ t.world = DefaultWorld /\ t.wipes /\ t.done = {} /\ t.seen = {}
      /\ t.todo = <<"self", "gens", "parts">>
  BY <1>1 DEF Wipe
<1>3. t.todo \in Seq(Lists) /\ t.todo # <<>>
  <2>1. t.todo \in Seq(Lists)
    BY TaskParts
  <2>2. t.todo # <<>>
    BY <1>2
  <2> QED
    BY <2>1, <2>2
<1>4. \A l \in Lists : \E i \in DOMAIN t.todo : t.todo[i] = l
  <2>1. 1 \in DOMAIN t.todo /\ 2 \in DOMAIN t.todo /\ 3 \in DOMAIN t.todo
    BY <1>2
  <2>2. t.todo[1] = "self" /\ t.todo[2] = "gens" /\ t.todo[3] = "parts"
    BY <1>2
  <2> QED
    BY <2>1, <2>2 DEF Lists
<1>5. Working(t)
  BY <1>2, <1>3, <1>4, StartsLooking
<1> QED
  BY <1>1, <1>2, <1>5

LEMMA NamedType ==
    ASSUME TypeInv PROVE Named \subseteq Content
BY DEF Named, TypeInv, RepoInv

LEMMA StartSaveRecords ==
    ASSUME TypeInv, TypeInv', RecordsInv, NEW s \in Sessions, StartSave(s)
    PROVE  RecordsInv'
<1>1. PICK w : w = live[s]
  OBVIOUS
<1>2. /\ w \in Good /\ w # NoWorld /\ w.unread = {} /\ UNCHANGED <<repo, room, fetch>>
  BY <1>1, OpenGood DEF StartSave
<1>3. PICK t \in GoodTask : t = Publish(w) /\ Working(t) /\ t.world = w /\ ~t.wipes
  BY <1>2, PublishLooks
<1>4. task' = [task EXCEPT ![s] = t]
  BY <1>1, <1>3 DEF StartSave
<1>5. task'[s] = t /\ \A r \in Sessions \ {s} : task'[r] = task[r]
  BY <1>4 DEF TypeInv, RestInv
<1>6. /\ \A r \in Sessions \ {s} : dropped'[r] = dropped[r]
      /\ dropped'[s] = dropped[s] \cup (IF recovery[s] = "none" THEN {} ELSE Content)
  BY DEF StartSave, Drops, TypeInv, RestInv
<1>7. Carrying(s) /\ Keeping(s)
  BY <1>1, <1>2 DEF RecordsInv, WorldInv, KeptInv
<1>8. /\ manifest' = manifest /\ records' = records /\ Keys' = Keys /\ Named' = Named
      /\ live' = live /\ stored' = stored /\ recovery' = recovery /\ past' = past
  BY <1>2 DEF repo, room, Keys, Named
<1>9. Keeps(w) = Refs(w)
  BY <1>2 DEF Keeps
<1>10. Carrying(s)'
  BY <1>1, <1>3, <1>5, <1>7, <1>8 DEF Carrying, Carries
<1>11. Keeping(s)'
  <2>1. Named \subseteq Refs(w) \cup dropped'[s]
    BY <1>1, <1>6, <1>7, <1>9, NamedType DEF Keeping
  <2>2. Refs(w) \subseteq Keeps(live[s]) \cup dropped'[s]
    BY <1>1, <1>9
  <2>3. recovery[s] # "none" \/ Named \subseteq Keeps(live[s]) \cup dropped'[s]
    BY <1>6, <1>7 DEF Keeping
  <2> QED
    BY <1>3, <1>5, <1>6, <1>8, <2>1, <2>2, <2>3 DEF Keeping
<1>12. Working(task[s])'
  BY <1>3, <1>5, <1>8 DEF Working, Writing, Looking
<1>13. RefsResolve' /\ WorldInv' /\ TaskInv' /\ KeptInv'
  BY <1>2, <1>3, <1>5, <1>6, <1>8, <1>10, <1>11, <1>12, OneSession
<1>14. FetchInv'
  BY <1>2, SameFetches
<1>15. SoleInv'
  BY <1>1, <1>2, <1>5, <1>8, SameSole DEF RecordsInv, SoleInv
<1> QED
  BY <1>13, <1>14, <1>15 DEF RecordsInv

LEMMA StartResetRecords ==
    ASSUME TypeInv, TypeInv', RecordsInv, NEW s \in Sessions, StartReset(s)
    PROVE  RecordsInv'
<1>1. /\ live[s] # NoWorld /\ recovery[s] # "none"
      /\ live' = [live EXCEPT ![s] = DefaultWorld] /\ Pushed(s)
      /\ UNCHANGED <<repo, stored, recovery, fetch>>
  BY DEF StartReset
<1>2. PICK t \in GoodTask : t = Wipe /\ Working(t) /\ t.world = DefaultWorld /\ t.wipes
  BY WipeLooks
<1>3. task'[s] = t /\ \A r \in Sessions \ {s} : task'[r] = task[r]
  BY <1>2 DEF StartReset, TypeInv, RestInv
<1>4. Content \subseteq dropped'[s] /\ \A r \in Sessions \ {s} : dropped'[r] = dropped[r]
  BY DEF StartReset, Drops, TypeInv, RestInv
<1>5. /\ live'[s] = DefaultWorld /\ DefaultWorld # NoWorld
      /\ \A r \in Sessions \ {s} : live'[r] = live[r]
  BY <1>1, DefaultGood, NotNone DEF TypeInv, RoomInv
<1>6. Carrying(s) /\ live[s].opaque = {}
  BY <1>1 DEF RecordsInv, WorldInv, Carrying
<1>7. /\ \A i \in DOMAIN past'[s] : Carries(s, past'[s][i])
      /\ \A r \in Sessions \ {s} : past'[r] = past[r]
  BY <1>1, PushedCarries
<1>8. /\ manifest' = manifest /\ records' = records /\ Keys' = Keys
  BY <1>1 DEF repo, Keys
<1>9. Carrying(s)'
  BY <1>1, <1>2, <1>3, <1>5, <1>6, <1>7, <1>8, DefaultCarried DEF Carrying, Carries
<1>10. Keeping(s)'
  <2>1. Named' \subseteq Content
    BY NamedType DEF Named, TypeInv, RepoInv
  <2>2. Refs(DefaultWorld) \subseteq Content
    BY DefaultGood, RefsDistinct
  <2> QED
    BY <1>2, <1>3, <1>4, <2>1, <2>2 DEF Keeping
<1>11. Working(task[s])'
  BY <1>2, <1>3, <1>8 DEF Working, Writing, Looking
<1>12. RefsResolve' /\ WorldInv' /\ TaskInv' /\ KeptInv'
  BY <1>1, <1>2, <1>3, <1>4, <1>5, <1>7, <1>9, <1>10, <1>11, DefaultCarried, OneSession
<1>13. FetchInv'
  BY <1>1, SameFetches
<1>14. SoleInv'
  BY <1>1, <1>3, <1>5, SameSole DEF RecordsInv, SoleInv
<1> QED
  BY <1>12, <1>13, <1>14 DEF RecordsInv


\* A task has looked everywhere when there is nowhere left to look.
LEMMA SeenWorks ==
    ASSUME TypeInv, NEW t \in GoodTask, t.todo # <<>>, Working(t)
    PROVE  Working(Seen(t)) /\ Seen(t).wipes = t.wipes /\ Seen(t).world = t.world
<1>1. PICK u \in GoodTask : u = Seen(t)
  BY SeenType
<1>2. /\ u.wipes = t.wipes /\ u.world = t.world /\ u.done = t.done
      /\ u.seen = t.seen \cup (Keys \cap Asks(Head(t.todo))) /\ u.todo = Tail(t.todo)
  <2> HIDE DEF Keys, Asks
  <2> QED
    BY <1>1 DEF Seen, GoodTask, Task
<1>3. Looking(t)
  BY DEF Working
<1>4. Pending(t.todo) = Asks(Head(t.todo)) \cup Pending(u.todo)
  BY <1>2, TaskParts, HeadPending
<1>5. Looking(u)
  BY <1>2, <1>3, <1>4 DEF Looking
<1>6. u.todo = <<>> => Writing(u)
  <2> SUFFICES ASSUME u.todo = <<>> PROVE Writing(u)
    OBVIOUS
  <2>1. u.done = {} /\ Keys = u.seen
    BY <1>5, NonePending DEF Looking
  <2>2. InOrder(u, {})
    BY DEF InOrder
  <2> QED
    BY <2>1, <2>2, NoKeys DEF Writing
<1>7. Working(u)
  BY <1>5, <1>6 DEF Working
<1> QED
  BY <1>1, <1>2, <1>7

LEMMA LookUpRecords ==
    ASSUME TypeInv, TypeInv', RecordsInv, NEW s \in Sessions, LookUp(s)
    PROVE  RecordsInv'
<1>1. PICK t : t = task[s]
  OBVIOUS
<1>2. /\ t \in GoodTask /\ t.todo # <<>> /\ task[s] # NoTask /\ live[s] # NoWorld
      /\ UNCHANGED <<repo, room, fetch, dropped>>
  BY <1>1, TaskGood DEF LookUp, RecordsInv, SoleInv
<1>3. Working(t) /\ (t.wipes => t.world.opaque = {} /\ Content \subseteq dropped[s])
  BY <1>1, <1>2 DEF RecordsInv, TaskInv
<1>4. PICK u : u = Seen(t) /\ Working(u) /\ u.wipes = t.wipes /\ u.world = t.world
  BY <1>2, <1>3, SeenWorks
<1>5. task'[s] = u /\ \A r \in Sessions \ {s} : task'[r] = task[r]
  BY <1>1, <1>4 DEF LookUp, TypeInv, RestInv
<1>6. /\ manifest' = manifest /\ records' = records /\ Keys' = Keys /\ Named' = Named
      /\ live' = live /\ stored' = stored /\ recovery' = recovery /\ past' = past
  BY <1>2 DEF repo, room, Keys, Named
<1>7. Carrying(s) /\ Keeping(s)
  BY <1>2 DEF RecordsInv, WorldInv, KeptInv
<1>8. Carrying(s)'
  BY <1>1, <1>2, <1>4, <1>5, <1>6, <1>7 DEF Carrying, Carries
<1>9. Keeping(s)'
  BY <1>1, <1>2, <1>4, <1>5, <1>6, <1>7 DEF Keeping
<1>10. Working(task[s])'
  BY <1>4, <1>5, <1>6 DEF Working, Writing, Looking
<1>11. RefsResolve' /\ WorldInv' /\ TaskInv' /\ KeptInv'
  BY <1>2, <1>3, <1>4, <1>5, <1>6, <1>8, <1>9, <1>10, OneSession
<1>12. FetchInv'
  BY <1>2, SameFetches
<1>13. SoleInv'
  BY <1>2, <1>5, <1>6, SameSole DEF RecordsInv, SoleInv
<1> QED
  BY <1>11, <1>12, <1>13 DEF RecordsInv

LEMMA FinishRecords ==
    ASSUME TypeInv, TypeInv', RecordsInv, NEW s \in Sessions, Finish(s)
    PROVE  RecordsInv'
<1>1. PICK t : t = task[s]
  OBVIOUS
<1>2. /\ t \in GoodTask /\ task[s] # NoTask /\ live[s] # NoWorld
      /\ UNCHANGED <<repo, live, past, fetch, dropped>>
  BY <1>1, TaskGood DEF Finish, Ready, RecordsInv, SoleInv
<1>3. t.wipes => t.world.opaque = {} /\ Content \subseteq dropped[s]
  BY <1>1, <1>2 DEF RecordsInv, TaskInv
<1>4. Carrying(s) /\ Keeping(s) /\ Carries(s, t.world)
  BY <1>1, <1>2 DEF RecordsInv, WorldInv, KeptInv, Carrying
<1>5. manifest' = manifest /\ records' = records /\ Keys' = Keys /\ Named' = Named
  BY <1>2 DEF repo, Keys, Named
<1>6. FetchInv'
  BY <1>2, SameFetches
<1>7. CASE t.wipes
  <2>1. PICK u \in GoodTask : u = Publish(t.world) /\ Working(u) /\ u.world = t.world /\ ~u.wipes
    BY <1>2, TaskParts, PublishLooks
  <2>2. UNCHANGED <<stored, recovery>> /\ task' = [task EXCEPT ![s] = u]
    BY <1>1, <1>7, <2>1 DEF Finish
  <2>3. task'[s] = u /\ \A r \in Sessions \ {s} : task'[r] = task[r]
    BY <2>2 DEF TypeInv, RestInv
  <2>4. Carrying(s)'
    BY <1>2, <1>4, <1>5, <2>1, <2>2, <2>3 DEF Carrying, Carries
  <2>5. Keeping(s)'
    <3>1. Refs(t.world) \subseteq Content
      BY <1>2, TaskParts, RefsDistinct
    <3> QED
      BY <1>2, <1>3, <1>4, <1>5, <1>7, <2>1, <2>2, <2>3, <3>1, NamedType DEF Keeping
  <2>6. Working(task[s])'
    BY <1>5, <2>1, <2>3 DEF Working, Writing, Looking
  <2>7. RefsResolve' /\ WorldInv' /\ TaskInv' /\ KeptInv'
    BY <1>2, <2>1, <2>2, <2>3, <2>4, <2>5, <2>6, OneSession
  <2>8. SoleInv'
    BY <1>2, <2>2, <2>3, SameSole DEF RecordsInv, SoleInv
  <2> QED
    BY <1>6, <2>7, <2>8 DEF RecordsInv
<1>8. CASE ~t.wipes
  <2>1. /\ task' = [task EXCEPT ![s] = NoTask]
        /\ stored' = [stored EXCEPT ![s] = t.world]
        /\ recovery' = [recovery EXCEPT ![s] = "none"]
    BY <1>1, <1>8 DEF Finish
  <2>2. /\ task'[s] = NoTask /\ stored'[s] = t.world /\ recovery'[s] = "none"
        /\ \A r \in Sessions \ {s} : /\ task'[r] = task[r] /\ stored'[r] = stored[r]
                                     /\ recovery'[r] = recovery[r]
    BY <2>1 DEF TypeInv, RestInv, RoomInv
  <2>3. Carrying(s)'
    BY <1>2, <1>4, <1>5, <2>2 DEF Carrying, Carries
  <2>4. Keeping(s)'
    <3>1. Named \subseteq Keeps(live[s]) \cup dropped[s]
      BY <1>2, <1>4, NamedType DEF Keeping
    <3> QED
      BY <1>2, <1>5, <2>2, <3>1 DEF Keeping
  <2>5. RefsResolve' /\ WorldInv' /\ TaskInv' /\ KeptInv'
    BY <1>2, <2>2, <2>3, <2>4, OneSession
  <2>6. SoleInv'
    BY <1>2, <2>2, SameSole DEF RecordsInv, SoleInv
  <2> QED
    BY <1>6, <2>5, <2>6 DEF RecordsInv
<1> QED
  BY <1>7, <1>8

LEMMA FailRecords ==
    ASSUME TypeInv, TypeInv', RecordsInv, NEW s \in Sessions, Fail(s)
    PROVE  RecordsInv'
<1>1. /\ task[s] # NoTask /\ live[s] # NoWorld /\ UNCHANGED <<repo, room, fetch, dropped>>
      /\ task'[s] = NoTask /\ \A r \in Sessions \ {s} : task'[r] = task[r]
  BY DEF Fail, RecordsInv, SoleInv, TypeInv, RestInv
<1>2. /\ manifest' = manifest /\ records' = records /\ Named' = Named
      /\ live' = live /\ stored' = stored /\ recovery' = recovery /\ past' = past
  BY <1>1 DEF repo, room, Named
<1>3. Carrying(s) /\ Keeping(s)
  BY <1>1 DEF RecordsInv, WorldInv, KeptInv
<1>4. Carrying(s)'
  BY <1>1, <1>2, <1>3 DEF Carrying, Carries
<1>5. Keeping(s)'
  BY <1>1, <1>2, <1>3 DEF Keeping
<1>6. RefsResolve' /\ WorldInv' /\ TaskInv' /\ KeptInv'
  BY <1>1, <1>2, <1>4, <1>5, OneSession
<1>7. FetchInv'
  BY <1>1, SameFetches
<1>8. SoleInv'
  BY <1>1, <1>2, SameSole DEF RecordsInv, SoleInv
<1> QED
  BY <1>6, <1>7, <1>8 DEF RecordsInv

-----------------------------------------------------------------------------

LEMMA RecordsInit == Init => RecordsInv
<1> SUFFICES ASSUME Init PROVE RecordsInv
  OBVIOUS
<1>1. /\ manifest = NoManifest
      /\ \A s \in Sessions : live[s] = NoWorld /\ task[s] = NoTask /\ recovery[s] = "none"
      /\ \A c \in Clients : fetch[c] = NoFetch
  BY DEF Init
<1>2. \A s \in Sessions : fetch[s] = NoFetch
  BY <1>1 DEF Clients
<1>3. RefsResolve /\ SoleInv
  BY <1>1, <1>2 DEF RefsResolve, SoleInv
<1>4. FetchInv /\ WorldInv /\ TaskInv /\ KeptInv
  BY <1>1 DEF FetchInv, WorldInv, TaskInv, KeptInv
<1> QED
  BY <1>3, <1>4 DEF RecordsInv

LEMMA RecordsStep ==
    ASSUME Careful, TypeInv, TypeInv', RecordsInv, [Next]_vars
    PROVE  RecordsInv'
<1>1. ASSUME NEW c \in Clients, ReadManifest(c) \/ ReadList(c) \/ Install(c)
      PROVE  RecordsInv'
  BY <1>1, ReadManifestRecords, ReadListRecords, InstallRecords
<1>2. ASSUME NEW s \in Sessions, NEW cause \in {"Decode", "Unreachable"},
             Recover(s, cause)
      PROVE  RecordsInv'
  BY <1>2, RecoverRecords
<1>3. ASSUME NEW s \in Sessions, Person(s)
      PROVE  RecordsInv'
  BY <1>3, PersonRecords, StartSaveRecords, StartResetRecords, CloseRecords DEF Person
<1>4. ASSUME NEW s \in Sessions, LookUp(s) \/ Commit(s) \/ Finish(s) \/ Fail(s)
      PROVE  RecordsInv'
  BY <1>4, LookUpRecords, CommitRecords, FinishRecords, FailRecords
<1>5. CASE UNCHANGED vars
  <2>1. UNCHANGED <<repo, room, fetch, task, dropped>>
    BY <1>5 DEF vars
  <2>2. /\ manifest' = manifest /\ records' = records /\ Keys' = Keys /\ Named' = Named
    BY <2>1 DEF repo, Keys, Named
  <2>3. FetchInv' /\ SoleInv'
    BY <2>1, SameFetches DEF room, RecordsInv, SoleInv
  <2>4. RefsResolve' /\ WorldInv' /\ TaskInv' /\ KeptInv'
    BY <2>1, <2>2 DEF RecordsInv, RefsResolve, WorldInv, Carrying, Carries, room,
       TaskInv, Working, Writing, Looking, KeptInv, Keeping
  <2> QED
    BY <2>3, <2>4 DEF RecordsInv
<1> QED
  BY <1>1, <1>2, <1>3, <1>4, <1>5 DEF Next

LEMMA RecordsInvariant == ASSUME Careful PROVE Spec => [](TypeInv /\ RecordsInv)
<1>1. TypeInv /\ TypeInv' /\ RecordsInv /\ [Next]_vars => RecordsInv'
  BY RecordsStep
<1> QED
  BY <1>1, RecordsInit, TypeInvariant, PTL DEF Spec

\* Every ref of the manifest resolves, at every commit boundary.
THEOREM RefsResolveCorrect == ASSUME Careful PROVE Spec => []RefsResolve
<1>1. RecordsInv => RefsResolve
  BY DEF RecordsInv
<1> QED
  BY <1>1, RecordsInvariant, PTL

\* No batch of a save or a wipe is refused for what it finds in the repo.
THEOREM PlansApplyCorrect == ASSUME Careful PROVE Spec => []PlansApply
<1>1. ASSUME TypeInv, RecordsInv PROVE PlansApply
  <2> SUFFICES ASSUME NEW s \in Sessions, Ready(s), NEW w \in Left(task[s])
               PROVE  Fits(w)
    BY DEF PlansApply
  <2>1. PICK t : t = task[s]
    OBVIOUS
  <2>2. t \in GoodTask /\ w \in Planned(t) /\ w \notin t.done
    BY <1>1, <2>1, TaskGood DEF Ready, Left
  <2>3. Writing(t)
    BY <1>1, <2>1 DEF RecordsInv, TaskInv, Ready, Working
  <2>4. Keys = (t.seen \cup KeysOf(t.done, {"create"})) \ KeysOf(t.done, {"delete"})
    BY <2>3 DEF Writing
  <2>5. t.done \subseteq Planned(t)
    BY <2>3 DEF Writing
  <2>6. CASE w.verb = "create"
    <3>1. w.key \notin t.seen
      BY <2>2, <2>6, PlanVerbs
    <3>2. w.key \notin KeysOf(t.done, {"create"})
      <4> SUFFICES ASSUME NEW v \in t.done, v.verb = "create", v.key = w.key PROVE FALSE
        BY DEF KeysOf
      <4>1. v = w
        BY <2>2, <2>5, <2>6, PlanVerbs
      <4> QED
        BY <2>2, <4>1
    <3> QED
      BY <2>4, <2>6, <3>1, <3>2 DEF Fits
  <2>7. CASE w.verb # "create"
    <3>1. w.key \in t.seen
      BY <2>2, <2>7, PlanVerbs
    <3>2. w.key \notin KeysOf(t.done, {"delete"})
      <4> SUFFICES ASSUME NEW v \in t.done, v.verb = "delete", v.key = w.key PROVE FALSE
        BY DEF KeysOf
      <4>1. CASE w.verb = "delete"
        <5>1. v = w
          BY <2>2, <2>5, <4>1, PlanVerbs
        <5> QED
          BY <2>2, <5>1
      <4>2. CASE w.verb = "update"
        <5>1. ~t.wipes /\ w.key = Self
          BY <2>2, <4>2, PlanVerbs
        <5>2. v.key \in Content
          BY <2>2, <2>5, <5>1, PlanVerbs
        <5> QED
          BY <5>1, <5>2, RecordsAssumption
      <4> QED
        BY <2>2, <2>7, <4>1, <4>2, PlanVerbs
    <3> QED
      BY <2>4, <2>7, <3>1, <3>2 DEF Fits
  <2> QED
    BY <2>6, <2>7
<1> QED
  BY <1>1, RecordsInvariant, PTL

\* A save that is through has left its manifest, and no record besides.
THEOREM SavedWholeCorrect == ASSUME Careful PROVE Spec => []SavedWhole
<1>1. ASSUME TypeInv, RecordsInv PROVE SavedWhole
  <2> SUFFICES ASSUME NEW s \in Sessions, Ready(s), ~task[s].wipes, Left(task[s]) = {}
               PROVE  manifest = Refs(task[s].world) /\ records = manifest
    BY DEF SavedWhole
  <2>1. PICK t : t = task[s]
    OBVIOUS
  <2>2. t \in GoodTask /\ ~t.wipes /\ Planned(t) \subseteq t.done
    BY <1>1, <2>1, TaskGood DEF Ready, Left
  <2>3. Writing(t)
    BY <1>1, <2>1 DEF RecordsInv, TaskInv, Ready, Working
  <2>4. manifest = Refs(t.world) /\ manifest # NoManifest
    <3>1. Hand(t) \in t.done
      BY <2>2, SavePlan
    <3>2. Refs(t.world) \subseteq Content
      BY <2>2, TaskParts, RefsDistinct
    <3> QED
      BY <2>2, <2>3, <3>1, <3>2, NotNone DEF Writing
  <2>5. manifest \subseteq records
    BY <1>1, <2>4 DEF RecordsInv, RefsResolve
  <2>6. ASSUME NEW k \in records PROVE k \in Refs(t.world)
    <3>1. k \in Content /\ k # Self /\ k \in Keys
      BY <1>1, <2>6, RecordsAssumption DEF Keys, TypeInv, RepoInv
    <3>2. /\ k \in t.seen \cup KeysOf(t.done, {"create"})
          /\ k \notin KeysOf(t.done, {"delete"})
      BY <2>3, <3>1 DEF Writing
    <3>3. CASE k \in KeysOf(t.done, {"create"})
      <4>1. PICK w \in t.done : w.verb = "create" /\ w.key = k
        BY <3>3 DEF KeysOf
      <4>2. k \in t.world.own
        BY <2>2, <2>3, <3>1, <4>1, PlanVerbs DEF Writing
      <4> QED
        BY <4>2 DEF Refs
    <3>4. CASE k \in t.seen /\ k \notin Refs(t.world)
      <4>1. [verb |-> "delete", key |-> k] \in Planned(t)
        BY <2>2, <3>1, <3>4, SavePlan DEF Orphans, Writes
      <4> QED
        BY <2>2, <3>2, <4>1 DEF KeysOf
    <3> QED
      BY <3>2, <3>3, <3>4
  <2> QED
    BY <2>1, <2>4, <2>5, <2>6
<1> QED
  BY <1>1, RecordsInvariant, PTL

\* A fetch misses content only where a delete was committed under it.
THEOREM ReadsWholeCorrect == ASSUME Careful PROVE Spec => []ReadsWhole
<1>1. ASSUME RecordsInv PROVE ReadsWhole
  BY <1>1, NonePending DEF RecordsInv, FetchInv, Reading, ReadsWhole, Fetched, Missing
<1> QED
  BY <1>1, RecordsInvariant, PTL

\* What a commit takes out of the room, its session was told to.
LEMMA CommitKeeps ==
    ASSUME Careful, TypeInv, RecordsInv, NEW s \in Sessions, Commit(s),
           NEW x \in Named \ Named'
    PROVE  x \in dropped[s]
<1>0. PICK t : t = task[s]
  OBVIOUS
<1>1. t \in GoodTask /\ t.todo = <<>> /\ task[s] # NoTask /\ live[s] # NoWorld
  BY <1>0, TaskGood DEF Commit, Ready, RecordsInv, SoleInv
<1>2. PICK batch \in SUBSET Left(t) :
        /\ InOrder(t, t.done \cup batch) /\ \A w \in batch : Fits(w)
        /\ Apply(batch, Refs(t.world))
  BY <1>0 DEF Commit
<1>3. /\ Writing(t) /\ (t.wipes => Content \subseteq dropped[s])
      /\ Carrying(s) /\ Keeping(s)
  BY <1>0, <1>1 DEF RecordsInv, TaskInv, Working, WorldInv, KeptInv
<1>4. batch \in SUBSET Planned(t)
  BY DEF Left
<1>5. /\ t.world.opaque \subseteq records
      /\ Refs(t.world) = t.world.own \cup t.world.opaque
  <2>1. t.world \in Good
    BY <1>1, TaskParts
  <2>2. /\ t.world.opaque = live[s].opaque /\ t.world.own \subseteq Reads[s]
        /\ t.world.opaque \subseteq records \ Reads[s]
    BY <1>0, <1>1, <1>3 DEF Carrying, Carries
  <2> QED
    BY <2>1, <2>2, CarriedRefs
<1>6. CASE t.wipes
  BY <1>3, <1>6, NamedType
<1>7. CASE ~t.wipes /\ Hand(t) \in t.done \cup batch
  <2>1. manifest' = Refs(t.world) /\ Refs(t.world) \subseteq records'
    BY <1>1, <1>2, <1>3, <1>4, <1>5, <1>7, SaveLanding
  <2>2. Refs(t.world) \subseteq Content
    BY <1>1, TaskParts, RefsDistinct
  <2>3. Refs(t.world) \subseteq Named'
    BY <2>1, <2>2, NotNone DEF Named
  <2>4. x \in Refs(t.world) \cup dropped[s]
    BY <1>0, <1>1, <1>3 DEF Keeping
  <2> QED
    BY <2>3, <2>4
<1>8. CASE ~t.wipes /\ Hand(t) \notin t.done \cup batch
  <2>1. manifest' = manifest /\ records \subseteq records'
    BY <1>1, <1>2, <1>3, <1>4, <1>5, <1>8, SaveLanding
  <2>2. Named \subseteq Named'
    BY <2>1 DEF Named
  <2> QED
    BY <2>2
<1> QED
  BY <1>6, <1>7, <1>8

\* No other step changes what the manifest names or the repo holds.
LEMMA OnlyCommits ==
    ASSUME Next, \A s \in Sessions : ~Commit(s)
    PROVE  UNCHANGED repo
<1>1. ASSUME NEW c \in Clients, ReadManifest(c) \/ ReadList(c) \/ Install(c)
      PROVE  UNCHANGED repo
  BY <1>1 DEF ReadManifest, ReadList, Install
<1>2. ASSUME NEW s \in Sessions, NEW cause \in {"Decode", "Unreachable"},
             Recover(s, cause)
      PROVE  UNCHANGED repo
  BY <1>2 DEF Recover
<1>3. ASSUME NEW s \in Sessions, Person(s)
      PROVE  UNCHANGED repo
  BY <1>3 DEF Person, PutContent, TakeOut, TakeOutUnread, Load, Reset, Edit, Undo,
     StartSave, StartReset, Close
<1>4. ASSUME NEW s \in Sessions, LookUp(s) \/ Finish(s) \/ Fail(s)
      PROVE  UNCHANGED repo
  BY <1>4 DEF LookUp, Finish, Fail
<1> QED
  BY <1>1, <1>2, <1>3, <1>4 DEF Next

\* What a saved room holds leaves it only because somebody took it out, or
\* agreed to overwrite it.
THEOREM KeptCorrect == ASSUME Careful PROVE Spec => Kept
<1> DEFINE Told == \A x \in Named \ Named' : \E s \in Sessions : x \in dropped[s]
<1>1. ASSUME TypeInv, RecordsInv, Next PROVE Told
  <2>1. CASE \E s \in Sessions : Commit(s)
    BY <1>1, <2>1, CommitKeeps
  <2>2. CASE \A s \in Sessions : ~Commit(s)
    <3>1. Named' = Named
      BY <1>1, <2>2, OnlyCommits DEF repo, Named
    <3> QED
      BY <3>1
  <2> QED
    BY <2>1, <2>2
<1>2. TypeInv /\ RecordsInv /\ [Next]_vars => [Told]_vars
  BY <1>1
<1>3. Spec => [][Told]_vars
  BY <1>2, RecordsInvariant, PTL DEF Spec
<1> QED
  BY <1>3 DEF Kept


=============================================================================
