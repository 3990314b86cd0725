--------------------------- MODULE RoomSync_proofs ---------------------------
(***************************************************************************)
(* Proofs about RoomSync.                                                  *)
(***************************************************************************)
EXTENDS RoomSync, TLAPS

\* What the owner's client knows of its saves.  While a save is under way
\* the live record differs from stored, and stays so: an edit only moves it
\* further, and stored moves only when the save lands, to the record it wrote.
SaveInv ==
    /\ live \in Version /\ stored \in Nat /\ stored <= live
    /\ saving = NoSave \/ saving \in Save
    /\ saving # NoSave =>
          /\ stored < live
          /\ saving.record <= live
          /\ saving.written => pds = saving.record
    /\ CleanIsSaved

LEMMA SaveStep ==
    ASSUME SaveInv, [Next]_vars PROVE SaveInv'
<1> USE DEF SaveInv, CleanIsSaved
<1>0. NoSave \notin Save /\ MaxVersion \in Nat
  BY RoomNoneAssumption, RoomAssumption
<1>1. CASE UNCHANGED <<live, stored, saving, pds>>
  BY <1>1
<1>2. ASSUME NEW big \in BOOLEAN, Edit(big) PROVE SaveInv'
  BY <1>2, <1>0 DEF Edit, Save, Version
<1>3. CASE StartSave
  BY <1>3, <1>0 DEF StartSave, Save, Version
<1>4. CASE CommitSave
  <2>1. saving' \in Save /\ saving'.record = saving.record /\ saving' # NoSave
    BY <1>4, <1>0 DEF CommitSave, Save
  <2>2. stored < live /\ saving.record <= live /\ stored' < live'
    BY <1>4 DEF CommitSave
  <2> QED
    BY <2>1, <2>2, <1>4, <1>0 DEF CommitSave, Version
<1>5. CASE SaveLands
  BY <1>5, <1>0 DEF SaveLands, Save, Version
<1>6. CASE SaveFails
  BY <1>6, <1>0 DEF SaveFails
<1>7. CASE Broadcast \/ PushToNewcomers \/ EndFrame
  BY <1>7, <1>1 DEF Broadcast, PushToNewcomers, EndFrame, owner
<1>8. ASSUME NEW g \in Guests,
             Enter(g) \/ Connect(g) \/ Drop(g) \/ Leave(g) \/ Sweep(g)
      PROVE  SaveInv'
  BY <1>8, <1>1 DEF Enter, Connect, Drop, Leave, Cut, Sweep, owner
<1>9. ASSUME NEW g \in Guests, GuestNext(g) PROVE SaveInv'
  <2>1. CASE Adopt(g) \/ Hear(g) \/ Revive(g)
    BY <2>1, <1>1 DEF Adopt, Hear, Revive, Drain, owner
  <2>2. CASE \/ StartFetch(g) \/ ReadSaved(g) \/ FetchLands(g)
             \/ \E left \in BOOLEAN : FetchFails(g, left)
    BY <2>2, <1>1 DEF StartFetch, ReadSaved, FetchLands, FetchFails, owner
  <2> QED
    BY <1>9, <2>1, <2>2 DEF GuestNext
<1> QED
  BY <1>1, <1>2, <1>3, <1>4, <1>5, <1>6, <1>7, <1>8, <1>9
     DEF Next, OwnerNext, vars, owner

\* A world that reads as saved is the one its PDS holds.
THEOREM CleanCorrect == Spec => []CleanIsSaved
<1>1. Init => SaveInv
  BY RoomAssumption DEF Init, SaveInv, CleanIsSaved, Version
<1>2. SaveInv => CleanIsSaved
  BY DEF SaveInv
<1> QED
  BY <1>1, <1>2, SaveStep, PTL DEF Spec

-----------------------------------------------------------------------------
(* Type correctness.                                                       *)

LEMMA MessageTypes ==
    /\ \A v \in Version : State(v) \in Message
    /\ Notice \in Message
BY DEF State, Notice, Message

\* The last state of a batch of messages carries a version.
LEMMA LastStateType ==
    ASSUME NEW batch \in Seq(Message), LastState(batch) # {}
    PROVE  batch[CHOOSE i \in LastState(batch) : TRUE].record \in Version
<1>1. PICK i : i = CHOOSE j \in LastState(batch) : TRUE
  OBVIOUS
<1>2. i \in LastState(batch)
  BY <1>1
<1>3. i \in 1..Len(batch) /\ batch[i].kind = "state"
  BY <1>2 DEF LastState, Of
<1>4. batch[i] \in Message
  BY <1>3
<1>5. batch[i].record \in Version
  BY <1>3, <1>4 DEF Message
<1> QED
  BY <1>1, <1>5

LEMMA OvertakenType ==
    ASSUME NEW f \in Fetch \cup {NoFetch}
    PROVE  Overtaken(f) \in Fetch \cup {NoFetch}
BY DEF Overtaken, Fetch

LEMMA OwnerTypeStep ==
    ASSUME TypeOK, [Next]_vars PROVE OwnerTypeOK'
<1> USE DEF OwnerTypeOK
<1>0. TypeOK /\ NoSave \notin Save /\ MaxVersion \in Nat
  BY RoomNoneAssumption, RoomAssumption
<1>1. CASE UNCHANGED owner
  BY <1>1, <1>0 DEF TypeOK, owner
<1>2. ASSUME NEW big \in BOOLEAN, Edit(big) PROVE OwnerTypeOK'
  BY <1>2, <1>0 DEF Edit, Version, TypeOK
<1>3. CASE StartSave
  BY <1>3, <1>0 DEF StartSave, Save, TypeOK
<1>4. CASE CommitSave
  <2>1. saving \in Save
    BY <1>4, <1>0 DEF CommitSave, TypeOK
  <2>2. saving' \in Save /\ pds' \in Version
    BY <1>4, <2>1 DEF CommitSave, Save
  <2> QED
    BY <1>4, <1>0, <2>2 DEF CommitSave, TypeOK
<1>5. CASE SaveLands
  BY <1>5, <1>0 DEF SaveLands, Save, TypeOK
<1>6. CASE SaveFails
  BY <1>6, <1>0 DEF SaveFails, TypeOK
<1>7. CASE Broadcast \/ PushToNewcomers \/ EndFrame
  BY <1>7, <1>1 DEF Broadcast, PushToNewcomers, EndFrame
<1>8. ASSUME NEW g \in Guests,
             Enter(g) \/ Connect(g) \/ Drop(g) \/ Leave(g) \/ Sweep(g)
      PROVE  OwnerTypeOK'
  BY <1>8, <1>1 DEF Enter, Connect, Drop, Leave, Cut, Sweep
<1>9. ASSUME NEW g \in Guests, GuestNext(g) PROVE OwnerTypeOK'
  <2>1. CASE Adopt(g) \/ Hear(g) \/ Revive(g)
    BY <2>1, <1>1 DEF Adopt, Hear, Revive, Drain
  <2>2. CASE \/ StartFetch(g) \/ ReadSaved(g) \/ FetchLands(g)
             \/ \E left \in BOOLEAN : FetchFails(g, left)
    BY <2>2, <1>1 DEF StartFetch, ReadSaved, FetchLands, FetchFails
  <2> QED
    BY <1>9, <2>1, <2>2 DEF GuestNext
<1> QED
  BY <1>1, <1>2, <1>3, <1>4, <1>5, <1>6, <1>7, <1>8, <1>9
     DEF Next, OwnerNext, vars

LEMMA FrameTypeStep ==
    ASSUME TypeOK, [Next]_vars PROVE FrameTypeOK'
<1>0. FrameTypeOK /\ OwnerTypeOK
  BY DEF TypeOK
<1>1. CASE UNCHANGED frame
  BY <1>0, <1>1 DEF FrameTypeOK, frame
<1>2. CASE Broadcast
  BY <1>0, <1>2, MessageTypes DEF Broadcast, FrameTypeOK, OwnerTypeOK, Version
<1>3. CASE PushToNewcomers
  <2>1. \A g \in Guests : outTo'[g] \in Seq(Message)
    BY <1>0, <1>3, MessageTypes
       DEF PushToNewcomers, FrameTypeOK, OwnerTypeOK
  <2> QED
    BY <1>0, <1>3, <2>1 DEF PushToNewcomers, FrameTypeOK
<1>4. CASE SaveLands
  BY <1>0, <1>4, MessageTypes DEF SaveLands, FrameTypeOK
<1>5. CASE SaveFails
  BY <1>0, <1>5 DEF SaveFails, FrameTypeOK
<1>6. CASE EndFrame
  BY <1>0, <1>6 DEF EndFrame, FrameTypeOK
<1>7. CASE (\E big \in BOOLEAN : Edit(big)) \/ StartSave \/ CommitSave
  BY <1>7, <1>1 DEF Edit, StartSave, CommitSave
<1>8. ASSUME NEW g \in Guests,
             Enter(g) \/ Connect(g) \/ Drop(g) \/ Leave(g) \/ Sweep(g)
      PROVE  FrameTypeOK'
  <2>1. CASE Enter(g) \/ Sweep(g)
    BY <2>1, <1>1 DEF Enter, Sweep
  <2>2. CASE Connect(g)
    BY <1>0, <2>2 DEF Connect, FrameTypeOK
  <2>3. CASE Drop(g) \/ Leave(g)
    <3>0. <<>> \in Seq(Message)
      OBVIOUS
    <3>1. outTo' \in [Guests -> Seq(Message)]
      BY <1>0, <2>3, <3>0 DEF Drop, Leave, Cut, FrameTypeOK
    <3> QED
      BY <1>0, <2>3, <3>1 DEF Drop, Leave, Cut, FrameTypeOK
  <2> QED
    BY <1>8, <2>1, <2>2, <2>3
<1>9. ASSUME NEW g \in Guests, GuestNext(g) PROVE FrameTypeOK'
  <2>1. CASE Adopt(g) \/ Hear(g) \/ Revive(g)
    BY <2>1, <1>1 DEF Adopt, Hear, Revive, Drain
  <2>2. CASE \/ StartFetch(g) \/ ReadSaved(g) \/ FetchLands(g)
             \/ \E left \in BOOLEAN : FetchFails(g, left)
    BY <2>2, <1>1 DEF StartFetch, ReadSaved, FetchLands, FetchFails
  <2> QED
    BY <1>9, <2>1, <2>2 DEF GuestNext
<1> QED
  BY <1>1, <1>2, <1>3, <1>4, <1>5, <1>6, <1>7, <1>8, <1>9
     DEF Next, OwnerNext, vars
LEMMA LinkTypeStep ==
    ASSUME TypeOK, [Next]_vars PROVE LinkTypeOK'
<1>0. LinkTypeOK /\ FrameTypeOK
  BY DEF TypeOK
<1>1. CASE UNCHANGED <<link, wire, known, drops, sweeps>>
  BY <1>0, <1>1 DEF LinkTypeOK
<1>2. CASE EndFrame
  <2>1. \A g \in Guests : wire[g] \o outAll \o outTo[g] \in Seq(Message)
    BY <1>0 DEF LinkTypeOK, FrameTypeOK
  <2> QED
    BY <1>0, <1>2, <2>1 DEF EndFrame, LinkTypeOK, count
<1>3. ASSUME NEW g \in Guests, NEW k \in Nat, k <= Len(wire[g]), Drain(g, k)
      PROVE  /\ link' = link /\ drops' = drops /\ sweeps' = sweeps
             /\ wire' \in [Guests -> Seq(Message)]
  <2>1. SubSeq(wire[g], k + 1, Len(wire[g])) \in Seq(Message)
    BY <1>0, <1>3 DEF LinkTypeOK
  <2> QED
    BY <1>0, <1>3, <2>1 DEF Drain, LinkTypeOK, count
<1>4. ASSUME NEW g \in Guests, Hear(g) \/ Revive(g) PROVE LinkTypeOK'
  <2>1. Len(wire[g]) \in Nat
    BY <1>0 DEF LinkTypeOK
  <2>2. PICK k \in 0..Len(wire[g]) : Drain(g, k)
    BY <1>4, <2>1 DEF Hear, Revive
  <2>3. known' \in [Guests -> {"none", "peer", "owner", "swept"}]
    BY <1>0, <1>4 DEF Hear, Revive, LinkTypeOK
  <2> QED
    BY <1>0, <2>1, <2>2, <2>3, <1>3 DEF LinkTypeOK
<1>5. ASSUME NEW g \in Guests,
             \/ Adopt(g) \/ StartFetch(g) \/ ReadSaved(g) \/ FetchLands(g)
             \/ \E left \in BOOLEAN : FetchFails(g, left)
      PROVE  LinkTypeOK'
  BY <1>0, <1>5
     DEF Adopt, StartFetch, ReadSaved, FetchLands, FetchFails, LinkTypeOK, count
<1>6. ASSUME NEW g \in Guests,
             Enter(g) \/ Connect(g) \/ Drop(g) \/ Leave(g) \/ Sweep(g)
      PROVE  LinkTypeOK'
  <2>1. CASE Enter(g) \/ Connect(g)
    BY <1>0, <2>1 DEF Enter, Connect, LinkTypeOK, count
  <2>2. CASE Drop(g) \/ Leave(g)
    <3>0. <<>> \in Seq(Message)
      OBVIOUS
    <3>1. PICK to \in {"down", "away"} : Cut(g, to)
      BY <2>2 DEF Drop, Leave
    <3>2. wire' \in [Guests -> Seq(Message)]
      BY <1>0, <3>0, <3>1 DEF Cut, LinkTypeOK
    <3> QED
      BY <1>0, <3>1, <3>2 DEF Cut, LinkTypeOK
  <2>3. CASE Sweep(g)
    BY <1>0, <2>3 DEF Sweep, LinkTypeOK
  <2> QED
    BY <1>6, <2>1, <2>2, <2>3
<1>7. CASE \/ \E big \in BOOLEAN : Edit(big)
           \/ StartSave \/ CommitSave \/ SaveFails
           \/ Broadcast \/ PushToNewcomers \/ SaveLands
  BY <1>7, <1>1 DEF Edit, StartSave, CommitSave, SaveFails, Broadcast,
                    PushToNewcomers, SaveLands, count
<1> QED
  BY <1>1, <1>2, <1>4, <1>5, <1>6, <1>7
     DEF Next, OwnerNext, GuestNext, vars, count

LEMMA NoticeAfterType ==
    ASSUME NEW batch, NEW old \in (0..MaxAttempts - 1) \cup {NoNotice}
    PROVE  NoticeAfter(batch, old) \in (0..MaxAttempts - 1) \cup {NoNotice}
<1>1. 0 \in 0..MaxAttempts - 1
  BY RoomAssumption
<1> QED
  BY <1>1 DEF NoticeAfter

LEMMA RetryType ==
    ASSUME NEW g \in Guests, NEW left \in BOOLEAN, GuestTypeOK,
           fetch[g] # NoFetch
    PROVE  Retry(g, left) \in (0..MaxAttempts - 1) \cup {NoNotice}
<1>1. fetch[g].tries \in Nat
  BY DEF GuestTypeOK, Fetch
<1>2. notice[g] \in (0..MaxAttempts - 1) \cup {NoNotice}
  BY DEF GuestTypeOK
<1> QED
  BY <1>1, <1>2, RoomAssumption DEF Retry

LEMMA GuestTypeStep ==
    ASSUME TypeOK, [Next]_vars PROVE GuestTypeOK'
<1>0. GuestTypeOK /\ OwnerTypeOK /\ LinkTypeOK /\ MaxVersion \in Nat
  BY RoomAssumption DEF TypeOK
<1>1. CASE UNCHANGED guest
  BY <1>0, <1>1 DEF GuestTypeOK, guest
<1>2. ASSUME NEW g \in Guests, Enter(g) PROVE GuestTypeOK'
  <2>1. Overtaken(fetch[g]) \in Fetch \cup {NoFetch}
    BY <1>0, OvertakenType DEF GuestTypeOK
  <2> QED
    BY <1>0, <1>2, <2>1 DEF Enter, GuestTypeOK, OwnerTypeOK
<1>3. ASSUME NEW g \in Guests, NEW k \in Nat, k <= Len(wire[g]), Drain(g, k)
      PROVE  GuestTypeOK'
  <2> DEFINE batch == SubSeq(wire[g], 1, k)
  <2>1. batch \in Seq(Message)
    BY <1>0, <1>3 DEF LinkTypeOK
  <2>2. NoticeAfter(batch, notice[g]) \in (0..MaxAttempts - 1) \cup {NoNotice}
    BY <1>0, NoticeAfterType DEF GuestTypeOK
  <2>3. FetchAfter(batch, fetch[g]) \in Fetch \cup {NoFetch}
    BY <1>0, OvertakenType DEF GuestTypeOK, FetchAfter
  <2>4. LastState(batch) # {} =>
            batch[CHOOSE i \in LastState(batch) : TRUE].record \in Version
    BY <2>1, LastStateType
  <2>5. CASE known[g] = "owner"
    <3>1. copy' \in [Guests -> Version]
      BY <1>0, <1>3, <2>4, <2>5 DEF Drain, GuestTypeOK
    <3>2. notice' \in [Guests -> (0..MaxAttempts - 1) \cup {NoNotice}]
      BY <1>0, <1>3, <2>2, <2>5 DEF Drain, GuestTypeOK
    <3>3. fetch' \in [Guests -> Fetch \cup {NoFetch}]
      BY <1>0, <1>3, <2>3, <2>5 DEF Drain, GuestTypeOK
    <3>4. unheard' \subseteq Guests /\ gaveUp' \subseteq Guests
      BY <1>0, <1>3, <2>5 DEF Drain, GuestTypeOK
    <3> QED
      BY <3>1, <3>2, <3>3, <3>4 DEF GuestTypeOK
  <2>6. CASE known[g] # "owner"
    BY <1>0, <1>3, <2>6 DEF Drain, GuestTypeOK
  <2> QED
    BY <2>5, <2>6
<1>4. ASSUME NEW g \in Guests, Hear(g) \/ Revive(g) PROVE GuestTypeOK'
  <2>1. Len(wire[g]) \in Nat
    BY <1>0 DEF LinkTypeOK
  <2>2. PICK k \in 0..Len(wire[g]) : Drain(g, k)
    BY <1>4, <2>1 DEF Hear, Revive
  <2> QED
    BY <2>1, <2>2, <1>3
<1>5. ASSUME NEW g \in Guests, StartFetch(g) PROVE GuestTypeOK'
  <2>1. notice[g] \in Nat
    BY <1>0, <1>5, RoomAssumption DEF StartFetch, GuestTypeOK
  <2>2. [tries |-> notice[g], read |-> 0, overtaken |-> FALSE] \in Fetch
    BY <1>0, <2>1 DEF Fetch
  <2> QED
    BY <1>0, <1>5, <2>2 DEF StartFetch, GuestTypeOK
<1>6. ASSUME NEW g \in Guests, ReadSaved(g) PROVE GuestTypeOK'
  <2>1. [fetch[g] EXCEPT !.read = pds] \in Fetch
    BY <1>0, <1>6 DEF ReadSaved, GuestTypeOK, OwnerTypeOK, Fetch, Version
  <2> QED
    BY <1>0, <1>6, <2>1 DEF ReadSaved, GuestTypeOK
<1>7. ASSUME NEW g \in Guests, FetchLands(g) PROVE GuestTypeOK'
  <2>1. fetch[g].read \in Version
    BY <1>0, <1>7 DEF FetchLands, GuestTypeOK, Fetch, Version
  <2> QED
    BY <1>0, <1>7, <2>1 DEF FetchLands, GuestTypeOK
<1>8. ASSUME NEW g \in Guests, NEW left \in BOOLEAN, FetchFails(g, left)
      PROVE  GuestTypeOK'
  <2>1. Retry(g, left) \in (0..MaxAttempts - 1) \cup {NoNotice}
    BY <1>0, <1>8, RetryType DEF FetchFails
  <2> QED
    BY <1>0, <1>8, <2>1 DEF FetchFails, GuestTypeOK
<1>9. CASE \/ \E big \in BOOLEAN : Edit(big)
           \/ StartSave \/ CommitSave \/ SaveFails \/ OwnerNext
           \/ \E g \in Guests : \/ Connect(g) \/ Drop(g) \/ Leave(g)
                                \/ Sweep(g) \/ Adopt(g)
  BY <1>9, <1>1 DEF Edit, StartSave, CommitSave, SaveFails, OwnerNext, Broadcast,
                    PushToNewcomers, SaveLands, EndFrame, Connect, Drop, Leave,
                    Cut, Sweep, Adopt
<1>10. ASSUME NEW g \in Guests, GuestNext(g) PROVE GuestTypeOK'
  BY <1>10, <1>4, <1>5, <1>6, <1>7, <1>8, <1>9 DEF GuestNext
<1>11. CASE \E g \in Guests :
              Enter(g) \/ Connect(g) \/ Drop(g) \/ Leave(g) \/ Sweep(g)
  BY <1>11, <1>2, <1>9
<1>12. CASE vars' = vars
  BY <1>12, <1>1 DEF vars
<1> QED
  BY <1>9, <1>10, <1>11, <1>12 DEF Next

\* Every variable keeps its type, and a notice its bounded tries.
THEOREM TypeCorrect == Spec => []TypeOK
<1>1. Init => TypeOK
  <2> SUFFICES ASSUME Init PROVE TypeOK
    OBVIOUS
  <2>1. <<>> \in Seq(Message) /\ 1 \in Version /\ 0 \in 0..MaxVersion
    BY RoomAssumption DEF Version
  <2>2. OwnerTypeOK
    BY <2>1 DEF Init, OwnerTypeOK
  <2>3. FrameTypeOK
    BY <2>1 DEF Init, FrameTypeOK
  <2>4. LinkTypeOK
    BY <2>1 DEF Init, LinkTypeOK
  <2>5. GuestTypeOK
    BY <2>1 DEF Init, GuestTypeOK
  <2> QED
    BY <2>2, <2>3, <2>4, <2>5 DEF TypeOK
<1>2. TypeOK /\ [Next]_vars => TypeOK'
  BY OwnerTypeStep, FrameTypeStep, LinkTypeStep, GuestTypeStep DEF TypeOK
<1> QED
  BY <1>1, <1>2, PTL DEF Spec

-----------------------------------------------------------------------------
(* A guest at rest is up to date, of an owner whose frames are not edited  *)
(* half way, whose world stays on one side of the ceiling during a save,   *)
(* and whose saves take longer than the debounce.                          *)

Orderly == ~MidFrameEdits /\ ~CrossMidSave /\ ~FastSave

\* The versions in order.  A save under way is of a stretch of versions on one
\* side of the ceiling, and is written once the broadcaster has come to it; the
\* latch tells the side of a version no older than the last one broadcast.
OrderInv ==
    /\ stored <= pds /\ pds <= live /\ tried <= live /\ over \subseteq 1..live
    /\ saving # NoSave =>
          /\ pds <= saving.record
          /\ saving.written => saving.record <= tried
          /\ \A v \in saving.record..live : v \in over <=> live \in over
    /\ tried > 0 => \E w \in tried..live : paused <=> w \in over

Final(s) == s[Len(s)]

\* What a newcomer is sent.
Update == IF live \in over THEN Notice ELSE State(live)

\* What is queued is of this frame.
FrameInv ==
    /\ ran = {} => outAll = <<>> /\ \A g \in Guests : outTo[g] = <<>>
    /\ \A g \in Guests : outTo[g] # <<>> => Final(outTo[g]) = Update

\* Nobody is ahead of the owner.
Upto(s) == \A i \in DOMAIN s : s[i].kind = "state" => s[i].record <= live
UptoInv ==
    /\ Upto(outAll)
    /\ \A g \in Guests :
          /\ Upto(outTo[g]) /\ Upto(wire[g]) /\ copy[g] <= live
          /\ fetch[g] # NoFetch => fetch[g].read <= live

\* The owner has nothing under way to g; or its last word that is.
Silent(g) == outTo[g] = <<>> /\ outAll = <<>> /\ wire[g] = <<>>
LastWord(g) == IF outTo[g] # <<>> THEN Final(outTo[g])
               ELSE IF outAll # <<>> THEN Final(outAll) ELSE Final(wire[g])

\* The world has fit the wire since the last broadcast.
Fits == tried > 0 /\ \A v \in tried..live : v \notin over

\* A guest that has the last broadcast, and nothing that would undo it.
Current(g) == /\ copy[g] >= tried /\ notice[g] = NoNotice
              /\ fetch[g] = NoFetch \/ fetch[g].overtaken

\* A guest that has the last save, or will have read it.
Fresh(g) ==
    \/ notice[g] # NoNotice
    \/ /\ fetch[g] # NoFetch /\ ~fetch[g].overtaken
       /\ fetch[g].read = 0 \/ fetch[g].read >= stored
    \/ /\ copy[g] >= stored
       /\ fetch[g] = NoFetch \/ fetch[g].overtaken

Sent(g) == Fits =>
    IF Silent(g) THEN g \in unheard \cup gaveUp \/ Current(g)
    ELSE LastWord(g).kind = "state" /\ LastWord(g).record >= tried

Saved(g) ==
    IF Silent(g) THEN g \in unheard \cup gaveUp \/ Fresh(g)
    ELSE LastWord(g).kind = "state" => LastWord(g).record >= stored

LinkedInv == \A g \in Up \ joined : Sent(g) /\ Saved(g)

SettledInv == SaveInv /\ OrderInv /\ FrameInv /\ UptoInv /\ LinkedInv

\* The steps in which the owner's side stands still.
LEMMA GuestSteps ==
    ASSUME NEW g \in Guests,
           \/ Enter(g) \/ Connect(g) \/ Drop(g) \/ Leave(g) \/ Sweep(g) \/ GuestNext(g)
    PROVE  UNCHANGED <<live, over, stored, saving, pds, tried, paused, ran, outAll>>
<1>1. CASE Enter(g) \/ Connect(g) \/ Drop(g) \/ Leave(g) \/ Sweep(g)
  BY <1>1 DEF Enter, Connect, Drop, Leave, Cut, Sweep, owner, frame
<1>2. CASE Adopt(g) \/ Hear(g) \/ Revive(g)
  BY <1>2 DEF Adopt, Hear, Revive, Drain, owner, frame
<1>3. CASE \/ StartFetch(g) \/ ReadSaved(g) \/ FetchLands(g)
           \/ \E left \in BOOLEAN : FetchFails(g, left)
  BY <1>3 DEF StartFetch, ReadSaved, FetchLands, FetchFails, owner, frame
<1> QED
  BY <1>1, <1>2, <1>3 DEF GuestNext

LEMMA NatTypes ==
    ASSUME TypeOK
    PROVE  /\ live \in Nat /\ live >= 1 /\ stored \in Nat /\ pds \in Nat /\ tried \in Nat
           /\ saving # NoSave => saving \in Save /\ saving.record \in Nat /\ saving.record >= 1
           /\ MaxVersion \in Nat /\ NoSave \notin Save
BY RoomAssumption, RoomNoneAssumption
   DEF TypeOK, OwnerTypeOK, FrameTypeOK, Version, Save

LEMMA OrderStep ==
    ASSUME TypeOK, SaveInv, OrderInv, Orderly, [Next]_vars
    PROVE  OrderInv'
<1>0. /\ live \in Nat /\ live >= 1 /\ stored \in Nat /\ pds \in Nat /\ tried \in Nat
      /\ saving # NoSave => saving \in Save /\ saving.record \in Nat /\ saving.record >= 1
      /\ MaxVersion \in Nat /\ NoSave \notin Save
  BY NatTypes
<1>1. CASE UNCHANGED <<live, over, stored, saving, pds, tried, paused>>
  BY <1>1 DEF OrderInv
<1>2. ASSUME NEW big \in BOOLEAN, Edit(big) PROVE OrderInv'
  <2>1. /\ live' = live + 1 /\ UNCHANGED <<stored, saving, pds, tried, paused>>
        /\ over' = IF big THEN over \cup {live'} ELSE over
        /\ saving # NoSave => (big <=> live \in over)
    BY <1>2 DEF Edit, frame, Orderly
  <2>2. \A v \in 1..live : v \in over' <=> v \in over
    BY <1>0, <2>1
  <2>3. over' \subseteq 1..live'
    BY <1>0, <2>1 DEF OrderInv
  <2>4. live' \in over' <=> big
    BY <1>0, <2>1 DEF OrderInv
  <2>5. ASSUME saving # NoSave PROVE \A v \in saving.record..live' : v \in over' <=> live' \in over'
    BY <1>0, <2>1, <2>2, <2>4, <2>5 DEF OrderInv
  <2>6. ASSUME tried > 0 PROVE \E w \in tried..live' : paused <=> w \in over'
    <3>1. PICK w \in tried..live : paused <=> w \in over
      BY <2>6 DEF OrderInv
    <3>2. w \in tried..live' /\ w \in 1..live
      BY <1>0, <2>1, <2>6
    <3> QED
      BY <2>2, <3>1, <3>2
  <2> QED
    BY <1>0, <2>1, <2>3, <2>5, <2>6 DEF OrderInv
<1>3. CASE Broadcast
  <2>1. /\ UNCHANGED <<live, over, stored, saving, pds>> /\ tried' = live
        /\ paused' = (live \in over)
    BY <1>3 DEF Broadcast, owner
  <2>2. \E w \in tried'..live : paused' <=> w \in over
    <3>1. live \in tried'..live
      BY <1>0, <2>1
    <3> QED
      BY <2>1, <3>1, Zenon
  <2>3. saving # NoSave => (saving.written => saving.record <= tried')
    BY <1>0, <2>1 DEF SaveInv
  <2> QED
    BY <1>0, <2>1, <2>2, <2>3 DEF OrderInv
<1>4. CASE PushToNewcomers
  <2>1. /\ UNCHANGED <<live, over, stored, saving, pds, tried>>
        /\ paused' = (live \in over)
    BY <1>4 DEF PushToNewcomers, owner
  <2>2. \E w \in tried..live : paused' <=> w \in over
    <3>1. live \in tried..live
      BY <1>0 DEF OrderInv
    <3> QED
      BY <2>1, <3>1, Zenon
  <2> QED
    BY <2>1, <2>2 DEF OrderInv
<1>5. CASE StartSave
  <2>1. /\ UNCHANGED <<live, over, stored, pds, tried, paused>>
        /\ saving' = [record |-> live, written |-> FALSE]
    BY <1>5 DEF StartSave, frame
  <2>2. saving'.record = live /\ ~saving'.written
    BY <2>1
  <2>3. \A v \in live..live : v \in over <=> live \in over
    BY <1>0
  <2> QED
    BY <2>1, <2>2, <2>3 DEF OrderInv
<1>6. CASE CommitSave
  <2>1. /\ UNCHANGED <<live, over, stored, tried, paused>> /\ saving # NoSave
        /\ saving'.record = saving.record /\ pds' = saving.record
        /\ tried >= saving.record
    BY <1>0, <1>6 DEF CommitSave, frame, Orderly, Save
  <2> QED
    BY <1>0, <2>1 DEF OrderInv, SaveInv
<1>7. CASE SaveLands
  <2>1. /\ UNCHANGED <<live, over, pds, tried, paused>>
        /\ saving' = NoSave /\ stored' = pds
    BY <1>7 DEF SaveLands, SaveInv
  <2> QED
    BY <1>0, <2>1 DEF OrderInv
<1>8. CASE SaveFails
  BY <1>8 DEF SaveFails, OrderInv
<1>9. CASE EndFrame
  BY <1>1, <1>9 DEF EndFrame, owner
<1>10. ASSUME NEW g \in Guests,
              \/ Enter(g) \/ Connect(g) \/ Drop(g) \/ Leave(g) \/ Sweep(g) \/ GuestNext(g)
       PROVE  OrderInv'
  BY <1>1, <1>10, GuestSteps
<1>11. CASE UNCHANGED vars
  BY <1>1, <1>11 DEF vars, owner, frame
<1> QED
  BY <1>2, <1>3, <1>4, <1>5, <1>6, <1>7, <1>8, <1>9, <1>10, <1>11 DEF Next, OwnerNext

LEMMA FinalAppend ==
    ASSUME NEW S, NEW s \in Seq(S), NEW m \in S
    PROVE  Append(s, m) # <<>> /\ Final(Append(s, m)) = m
BY DEF Final

LEMMA FrameStep ==
    ASSUME TypeOK, FrameInv, Orderly, [Next]_vars
    PROVE  FrameInv'
<1>0. \A g \in Guests : outTo[g] \in Seq(Message)
  BY DEF TypeOK, FrameTypeOK
<1>1. CASE UNCHANGED <<live, over, ran, outAll, outTo>>
  BY <1>1 DEF FrameInv, Update
<1>2. ASSUME NEW big \in BOOLEAN, Edit(big) PROVE FrameInv'
  BY <1>2 DEF Edit, frame, Orderly, FrameInv
<1>3. CASE Broadcast \/ SaveLands \/ SaveFails
  <2>1. ran' # {} /\ UNCHANGED <<live, over, outTo>>
    BY <1>3 DEF Broadcast, SaveLands, SaveFails, owner
  <2> QED
    BY <2>1 DEF FrameInv, Update
<1>4. CASE PushToNewcomers
  <2>1. /\ ran' # {} /\ UNCHANGED <<live, over>>
        /\ outTo' = [g \in Guests |-> IF g \notin joined THEN outTo[g]
                                      ELSE Append(outTo[g], Update)]
    BY <1>4 DEF PushToNewcomers, owner, Update
  <2>2. Update \in Message
    BY MessageTypes DEF Update, TypeOK, OwnerTypeOK
  <2>3. ASSUME NEW g \in Guests, outTo'[g] # <<>> PROVE Final(outTo'[g]) = Update
    BY <1>0, <2>1, <2>2, <2>3, FinalAppend DEF FrameInv
  <2>4. Update' = Update
    BY <2>1 DEF Update
  <2> QED
    BY <2>1, <2>3, <2>4 DEF FrameInv
<1>5. CASE EndFrame
  BY <1>5 DEF EndFrame, FrameInv
<1>6. CASE StartSave \/ CommitSave
  BY <1>1, <1>6 DEF StartSave, CommitSave, frame
<1>7. ASSUME NEW g \in Guests, Drop(g) \/ Leave(g) PROVE FrameInv'
  <2>1. UNCHANGED <<live, over, ran, outAll>> /\ outTo' = [outTo EXCEPT ![g] = <<>>]
    BY <1>7 DEF Drop, Leave, Cut, owner
  <2> QED
    BY <2>1 DEF FrameInv, Update, TypeOK, FrameTypeOK
<1>8. ASSUME NEW g \in Guests, Enter(g) \/ Connect(g) \/ Sweep(g) \/ GuestNext(g)
      PROVE  FrameInv'
  <2>1. UNCHANGED outTo
    BY <1>8 DEF Enter, Connect, Sweep, GuestNext, Adopt, Hear, Revive, Drain,
         StartFetch, ReadSaved, FetchLands, FetchFails, frame
  <2> QED
    BY <1>1, <1>8, <2>1, GuestSteps
<1>9. CASE UNCHANGED vars
  BY <1>1, <1>9 DEF vars, owner, frame
<1> QED
  BY <1>2, <1>3, <1>4, <1>5, <1>6, <1>7, <1>8, <1>9 DEF Next, OwnerNext

LEMMA UptoParts ==
    ASSUME NEW s \in Seq(Message), NEW t \in Seq(Message), Upto(s), Upto(t)
    PROVE  Upto(s \o t)
BY DEF Upto

LEMMA UptoAppend ==
    ASSUME NEW s \in Seq(Message), NEW m \in Message, Upto(s),
           m.kind = "state" => m.record <= live
    PROVE  Upto(Append(s, m))
BY DEF Upto

LEMMA UptoRest ==
    ASSUME NEW s \in Seq(Message), NEW k \in Nat, k <= Len(s), Upto(s)
    PROVE  Upto(SubSeq(s, k + 1, Len(s)))
<1> DEFINE t == SubSeq(s, k + 1, Len(s))
<1>1. t \in Seq(Message) /\ Len(t) = Len(s) - k
  OBVIOUS
<1>2. \A i \in 1..Len(t) : t[i] = s[k + i] /\ k + i \in DOMAIN s
  BY <1>1
<1> QED
  BY <1>1, <1>2 DEF Upto

\* What a drain of k messages from an owner known for one leaves of a copy.
DrainedCopy(g, k) ==
    LET batch == SubSeq(wire[g], 1, k) IN
    IF LastState(batch) = {} THEN copy[g]
    ELSE batch[CHOOSE i \in LastState(batch) : TRUE].record

LEMMA DrainedUpto ==
    ASSUME TypeOK, UptoInv, NEW g \in Guests, NEW k \in Nat, k <= Len(wire[g])
    PROVE  DrainedCopy(g, k) <= live
<1> DEFINE batch == SubSeq(wire[g], 1, k)
<1>0. wire[g] \in Seq(Message)
  BY DEF TypeOK, LinkTypeOK
<1>1. CASE LastState(batch) = {}
  BY <1>1 DEF DrainedCopy, UptoInv
<1>2. CASE LastState(batch) # {}
  <2>1. PICK i : i = CHOOSE j \in LastState(batch) : TRUE
    OBVIOUS
  <2>2. i \in LastState(batch)
    BY <1>2, <2>1
  <2>3. i \in DOMAIN batch /\ batch[i].kind = "state"
    BY <2>2 DEF LastState, Of
  <2>4. i \in DOMAIN wire[g] /\ batch[i] = wire[g][i]
    BY <1>0, <2>3
  <2>5. batch[i].record <= live
    BY <2>3, <2>4 DEF UptoInv, Upto
  <2> QED
    BY <1>2, <2>1, <2>5 DEF DrainedCopy
<1> QED
  BY <1>1, <1>2

LEMMA OvertakenRead ==
    ASSUME NEW f \in Fetch \cup {NoFetch}
    PROVE  /\ Overtaken(f) # NoFetch => f # NoFetch /\ Overtaken(f).read = f.read
           /\ Overtaken(f) = NoFetch \/ Overtaken(f).overtaken
           /\ f # NoFetch /\ f.overtaken => Overtaken(f) = f
BY RoomNoneAssumption DEF Overtaken, Fetch

LEMMA UptoStep ==
    ASSUME TypeOK, TypeOK', OrderInv, UptoInv, [Next]_vars
    PROVE  UptoInv'
<1>0. /\ live \in Nat /\ pds \in Nat /\ pds <= live /\ outAll \in Seq(Message)
      /\ \A g \in Guests : /\ outTo[g] \in Seq(Message) /\ wire[g] \in Seq(Message)
                           /\ copy[g] \in Nat
                           /\ fetch[g] \in Fetch \cup {NoFetch}
                           /\ fetch[g] # NoFetch => fetch[g].read \in Nat
  BY RoomAssumption DEF TypeOK, OwnerTypeOK, FrameTypeOK, LinkTypeOK, GuestTypeOK, OrderInv, Version, Fetch
<1>1. CASE UNCHANGED <<live, outAll, outTo, wire, copy, fetch>>
  BY <1>1 DEF UptoInv, Upto
<1>2. ASSUME NEW big \in BOOLEAN, Edit(big) PROVE UptoInv'
  <2>1. live' = live + 1 /\ UNCHANGED <<outAll, outTo, wire, copy, fetch>>
    BY <1>2 DEF Edit, frame, guest
  <2>2. ASSUME NEW s \in Seq(Message), Upto(s)
        PROVE  \A i \in DOMAIN s : s[i].kind = "state" => s[i].record <= live + 1
    <3> SUFFICES ASSUME NEW i \in DOMAIN s, s[i].kind = "state"
                 PROVE  s[i].record <= live + 1
      OBVIOUS
    <3>1. s[i] \in Message /\ s[i].record <= live
      BY <2>2 DEF Upto
    <3>2. s[i].record \in Nat
      BY <3>1, RoomAssumption DEF Message, Version
    <3> QED
      BY <1>0, <3>1, <3>2
  <2>3. Upto(outAll)'
    BY <1>0, <2>1, <2>2 DEF UptoInv, Upto
  <2>4. ASSUME NEW g \in Guests
        PROVE  /\ Upto(outTo[g])' /\ Upto(wire[g])' /\ copy[g] <= live'
               /\ fetch[g] # NoFetch => fetch[g].read <= live'
    <3>1. Upto(outTo[g]) /\ Upto(wire[g]) /\ copy[g] <= live
          /\ (fetch[g] # NoFetch => fetch[g].read <= live)
      BY DEF UptoInv
    <3>2. Upto(outTo[g])' /\ Upto(wire[g])'
      BY <1>0, <2>1, <2>2, <3>1 DEF Upto
    <3> QED
      BY <1>0, <2>1, <3>1, <3>2
  <2> QED
    BY <2>1, <2>3, <2>4 DEF UptoInv
<1>3. CASE Broadcast \/ SaveLands
  <2>1. UNCHANGED <<live, outTo, wire, copy, fetch>>
    BY <1>3 DEF Broadcast, SaveLands, owner, guest
  <2>2. outAll' \in {outAll, Append(outAll, State(live)), Append(outAll, Notice)}
    BY <1>3 DEF Broadcast, SaveLands
  <2>3. State(live) \in Message /\ Notice \in Message
    BY MessageTypes DEF TypeOK, OwnerTypeOK
  <2>4. State(live).record = live /\ Notice.kind # "state"
    BY DEF State, Notice
  <2>5. Upto(outAll)
    BY DEF UptoInv
  <2>6. Upto(Append(outAll, State(live))) /\ Upto(Append(outAll, Notice))
    BY <1>0, <2>3, <2>4, <2>5, UptoAppend
  <2>7. Upto(outAll')
    BY <2>2, <2>5, <2>6
  <2> QED
    BY <2>1, <2>7 DEF UptoInv, Upto
<1>4. CASE PushToNewcomers
  <2>1. /\ UNCHANGED <<live, outAll, wire, copy, fetch>>
        /\ \A g \in Guests : outTo'[g] \in {outTo[g], Append(outTo[g], State(live)),
                                            Append(outTo[g], Notice)}
    BY <1>4 DEF PushToNewcomers, owner, guest
  <2>2. State(live) \in Message /\ Notice \in Message
    BY MessageTypes DEF TypeOK, OwnerTypeOK
  <2>3. State(live).record = live /\ Notice.kind # "state"
    BY DEF State, Notice
  <2>4. ASSUME NEW g \in Guests PROVE Upto(outTo'[g])
    <3>1. Upto(outTo[g])
      BY DEF UptoInv
    <3>2. Upto(Append(outTo[g], State(live))) /\ Upto(Append(outTo[g], Notice))
      BY <1>0, <2>2, <2>3, <3>1, UptoAppend
    <3> QED
      BY <2>1, <3>1, <3>2
  <2> QED
    BY <2>1, <2>4 DEF UptoInv, Upto
<1>5. CASE EndFrame
  <2>1. /\ UNCHANGED <<live, copy, fetch>> /\ outAll' = <<>>
        /\ \A g \in Guests : /\ outTo'[g] = <<>>
                             /\ wire'[g] \in {wire[g], wire[g] \o outAll \o outTo[g]}
    BY <1>5 DEF EndFrame, owner, guest
  <2>2. ASSUME NEW g \in Guests PROVE Upto(wire'[g])
    <3>1. Upto(wire[g]) /\ Upto(outAll) /\ Upto(outTo[g])
      BY DEF UptoInv
    <3>2. wire[g] \o outAll \in Seq(Message) /\ Upto(wire[g] \o outAll)
      BY <1>0, <3>1, UptoParts
    <3>3. Upto(wire[g] \o outAll \o outTo[g])
      BY <1>0, <3>1, <3>2, UptoParts
    <3> QED
      BY <2>1, <3>1, <3>3
  <2>3. Upto(<<>>)
    BY DEF Upto
  <2> QED
    BY <2>1, <2>2, <2>3 DEF UptoInv, Upto
<1>6. CASE StartSave \/ CommitSave \/ SaveFails
  BY <1>1, <1>6 DEF StartSave, CommitSave, SaveFails, frame, guest
<1>7. ASSUME NEW g \in Guests,
             UNCHANGED <<live, outAll>>, \A h \in Guests : outTo'[h] \in {outTo[h], <<>>},
             \A h \in Guests : wire'[h] \in {wire[h], <<>>},
             UNCHANGED <<copy, fetch>>
      PROVE  UptoInv'
  <2>1. Upto(<<>>)
    BY DEF Upto
  <2> QED
    BY <1>7, <2>1 DEF UptoInv, Upto
<1>8. ASSUME NEW g \in Guests, Enter(g) PROVE UptoInv'
  <2>1. /\ UNCHANGED <<live, outAll, outTo, wire>> /\ copy' = [copy EXCEPT ![g] = pds]
        /\ fetch' = [fetch EXCEPT ![g] = Overtaken(@)]
    BY <1>8 DEF Enter, owner, frame
  <2>2. \A h \in Guests : copy'[h] <= live
    BY <1>0, <2>1 DEF UptoInv, TypeOK, GuestTypeOK
  <2>3. \A h \in Guests : fetch'[h] # NoFetch => fetch'[h].read <= live
    BY <1>0, <2>1, OvertakenRead DEF UptoInv, TypeOK, GuestTypeOK
  <2> QED
    BY <2>1, <2>2, <2>3 DEF UptoInv, Upto
<1>9. ASSUME NEW g \in Guests, NEW k \in Nat, k <= Len(wire[g]), Drain(g, k)
      PROVE  UptoInv'
  <2>1. /\ UNCHANGED <<live, outAll, outTo>>
        /\ wire' = [wire EXCEPT ![g] = SubSeq(@, k + 1, Len(@))]
        /\ copy' = [copy EXCEPT ![g] = DrainedCopy(g, k)] \/ UNCHANGED copy
        /\ \/ fetch' = [fetch EXCEPT ![g] = FetchAfter(SubSeq(wire[g], 1, k), @)]
           \/ UNCHANGED fetch
    BY <1>9 DEF Drain, DrainedCopy, owner, frame
  <2>2. \A h \in Guests : copy'[h] <= live
    BY <1>9, <2>1, DrainedUpto DEF UptoInv, TypeOK, GuestTypeOK
  <2>3. \A h \in Guests : Upto(wire'[h])
    BY <1>0, <1>9, <2>1, UptoRest DEF UptoInv, TypeOK, LinkTypeOK
  <2>4. ASSUME NEW h \in Guests, fetch'[h] # NoFetch PROVE fetch'[h].read <= live
    <3>1. fetch'[h] = fetch[h] \/ fetch'[h] = Overtaken(fetch[h])
      BY <2>1 DEF TypeOK, GuestTypeOK, FetchAfter
    <3> QED
      BY <1>0, <2>4, <3>1, OvertakenRead DEF UptoInv
  <2> QED
    BY <2>1, <2>2, <2>3, <2>4 DEF UptoInv, Upto
<1>10. ASSUME NEW g \in Guests, GuestNext(g) PROVE UptoInv'
  <2>1. CASE Adopt(g) \/ \E left \in BOOLEAN : FetchFails(g, left)
    <3>1. UNCHANGED <<live, outAll, outTo, wire, copy>>
      BY <2>1 DEF Adopt, FetchFails, owner, frame, guest
    <3>2. \A h \in Guests : fetch'[h] # NoFetch => fetch'[h] = fetch[h]
      BY <2>1 DEF Adopt, FetchFails, guest, TypeOK, GuestTypeOK
    <3> QED
      BY <3>1, <3>2 DEF UptoInv, Upto
  <2>2. CASE Hear(g) \/ Revive(g)
    <3>1. Len(wire[g]) \in Nat
      BY <1>0
    <3>2. PICK k \in 0..Len(wire[g]) : Drain(g, k)
      BY <2>2, <3>1 DEF Hear, Revive
    <3> QED
      BY <1>9, <3>1, <3>2
  <2>3. CASE StartFetch(g)
    <3>1. UNCHANGED <<live, outAll, outTo, wire, copy>>
      BY <2>3 DEF StartFetch, owner, frame
    <3>2. \A h \in Guests : fetch'[h] # NoFetch => fetch'[h] = fetch[h] \/ fetch'[h].read = 0
      BY <2>3 DEF StartFetch, TypeOK, GuestTypeOK
    <3> QED
      BY <1>0, <3>1, <3>2 DEF UptoInv, Upto
  <2>4. CASE ReadSaved(g)
    <3>1. UNCHANGED <<live, outAll, outTo, wire, copy>> /\ fetch[g] # NoFetch
      BY <2>4 DEF ReadSaved, owner, frame
    <3>2. fetch' = [fetch EXCEPT ![g] = [fetch[g] EXCEPT !.read = pds]]
      BY <2>4 DEF ReadSaved
    <3>3. [fetch[g] EXCEPT !.read = pds].read = pds
      BY <1>0, <3>1 DEF Fetch
    <3>4. \A h \in Guests : fetch'[h] # NoFetch => fetch'[h] = fetch[h] \/ fetch'[h].read = pds
      BY <3>2, <3>3 DEF TypeOK, GuestTypeOK
    <3> QED
      BY <1>0, <3>1, <3>4 DEF UptoInv, Upto
  <2>5. CASE FetchLands(g)
    <3>1. UNCHANGED <<live, outAll, outTo, wire>> /\ fetch[g] # NoFetch
      BY <2>5 DEF FetchLands, owner, frame
    <3>2. \A h \in Guests : fetch'[h] # NoFetch => fetch'[h] = fetch[h]
      BY <2>5 DEF FetchLands, TypeOK, GuestTypeOK
    <3>3. \A h \in Guests : copy'[h] \in {copy[h], fetch[g].read} /\ (h # g => copy'[h] = copy[h])
      BY <2>5 DEF FetchLands, TypeOK, GuestTypeOK
    <3> QED
      BY <3>1, <3>2, <3>3 DEF UptoInv, Upto
  <2> QED
    BY <1>10, <2>1, <2>2, <2>3, <2>4, <2>5 DEF GuestNext
<1>11. ASSUME NEW g \in Guests, Drop(g) \/ Leave(g) PROVE UptoInv'
  <2>1. /\ UNCHANGED <<live, outAll, copy, fetch>>
        /\ outTo' = [outTo EXCEPT ![g] = <<>>] /\ wire' = [wire EXCEPT ![g] = <<>>]
    BY <1>11 DEF Drop, Leave, Cut, owner, guest
  <2> QED
    BY <1>7, <2>1 DEF TypeOK, FrameTypeOK, LinkTypeOK
<1>12. ASSUME NEW g \in Guests, Connect(g) \/ Sweep(g) PROVE UptoInv'
  BY <1>1, <1>12 DEF Connect, Sweep, owner, frame, guest
<1>13. CASE UNCHANGED vars
  BY <1>1, <1>13 DEF vars, owner, frame, guest
<1> QED
  BY <1>2, <1>3, <1>4, <1>5, <1>6, <1>8, <1>10, <1>11, <1>12, <1>13 DEF Next, OwnerNext


\* A step that leaves a guest, and all that is under way to it, alone.
LEMMA Untouched ==
    ASSUME NEW g \in Guests, Sent(g), Saved(g),
           outTo'[g] = outTo[g], outAll' = outAll, wire'[g] = wire[g],
           g \in unheard \cup gaveUp => g \in unheard' \cup gaveUp',
           copy'[g] = copy[g], notice'[g] = notice[g], fetch'[g] = fetch[g],
           stored' = stored, Fits' => Fits /\ tried' = tried
    PROVE  Sent(g)' /\ Saved(g)'
<1>1. Silent(g)' <=> Silent(g)
  BY DEF Silent
<1>2. LastWord(g)' = LastWord(g)
  BY DEF LastWord, Final
<1>3. Fresh(g) => Fresh(g)'
  BY DEF Fresh
<1>4. Current(g) /\ tried' = tried => Current(g)'
  BY DEF Current
<1>5. Sent(g)'
  BY <1>1, <1>2, <1>4 DEF Sent
<1>6. Saved(g)'
  BY <1>1, <1>2, <1>3 DEF Saved
<1> QED
  BY <1>5, <1>6

LEMMA EditLinked ==
    ASSUME TypeOK, OrderInv, LinkedInv, NEW big \in BOOLEAN, Edit(big)
    PROVE  LinkedInv'
<1>1. /\ live' = live + 1 /\ (over' = over \/ over' = over \cup {live'})
      /\ UNCHANGED <<stored, tried, outAll, outTo, joined, link, wire,
                     copy, notice, fetch, unheard, gaveUp>>
  BY DEF Edit, frame, guest
<1>2. Fits' => Fits
  <2>1. live \in Nat /\ tried \in Nat
    BY NatTypes
  <2> QED
    BY <1>1, <2>1 DEF Fits
<1>3. ASSUME NEW g \in (Up \ joined)' PROVE Sent(g)' /\ Saved(g)'
  <2>1. g \in Up \ joined /\ g \in Guests
    BY <1>1 DEF Up
  <2> QED
    BY <1>1, <1>2, <2>1, Untouched DEF LinkedInv
<1> QED
  BY <1>3 DEF LinkedInv

LEMMA BroadcastLinked ==
    ASSUME TypeOK, SaveInv, OrderInv, FrameInv, LinkedInv, Broadcast
    PROVE  LinkedInv'
<1>1. /\ UNCHANGED <<live, over, stored, outTo, joined, link, wire,
                     copy, notice, fetch, unheard, gaveUp>>
      /\ tried' = live
      /\ outAll' = IF live \in over THEN outAll ELSE Append(outAll, State(live))
  BY DEF Broadcast, owner, guest
<1>2. live \in Nat /\ outAll \in Seq(Message) /\ State(live) \in Message /\ stored <= live
  BY NatTypes, MessageTypes DEF TypeOK, OwnerTypeOK, FrameTypeOK, SaveInv
<1>3. ASSUME NEW g \in (Up \ joined)' PROVE Sent(g)' /\ Saved(g)'
  <2>1. g \in Guests /\ Sent(g) /\ Saved(g)
    BY <1>1, <1>3 DEF Up, LinkedInv
  <2>2. CASE live \in over
    <3>1. ~Fits'
      BY <1>1, <1>2, <2>2 DEF Fits
    <3> QED
      BY <1>1, <2>1, <2>2, <3>1, Untouched
  <2>3. CASE live \notin over
    <3>1. outAll' # <<>> /\ Final(outAll') = State(live)
      BY <1>1, <1>2, <2>3, FinalAppend
    <3>2. outTo[g] # <<>> => Final(outTo[g]) = State(live)
      BY <2>1, <2>3 DEF FrameInv, Update
    <3>3. ~Silent(g)' /\ LastWord(g)' = State(live)
      BY <1>1, <3>1, <3>2 DEF Silent, LastWord, Final
    <3>4. State(live).kind = "state" /\ State(live).record = live
      BY DEF State
    <3>5. Sent(g)'
      BY <1>1, <1>2, <3>3, <3>4 DEF Sent
    <3>6. Saved(g)'
      BY <1>1, <1>2, <3>3, <3>4 DEF Saved
    <3> QED
      BY <3>5, <3>6
  <2> QED
    BY <2>2, <2>3
<1> QED
  BY <1>3 DEF LinkedInv

LEMMA PushLinked ==
    ASSUME TypeOK, SaveInv, OrderInv, LinkedInv, PushToNewcomers
    PROVE  LinkedInv'
<1>1. /\ UNCHANGED <<live, over, stored, tried, outAll, link, wire,
                     copy, notice, fetch, unheard, gaveUp>>
      /\ outTo' = [g \in Guests |-> IF g \notin joined THEN outTo[g]
                                    ELSE Append(outTo[g], Update)]
  BY DEF PushToNewcomers, owner, guest, Update
<1>2. /\ live \in Nat /\ tried \in Nat /\ tried <= live /\ stored <= live
      /\ Update \in Message /\ \A g \in Guests : outTo[g] \in Seq(Message)
  BY NatTypes, MessageTypes DEF Update, TypeOK, OwnerTypeOK, FrameTypeOK, SaveInv, OrderInv
<1>3. Fits' => Fits
  BY <1>1 DEF Fits
<1>4. ASSUME NEW g \in (Up \ joined)' PROVE Sent(g)' /\ Saved(g)'
  <2>1. g \in Up /\ g \in Guests
    BY <1>1, <1>4 DEF Up
  <2>2. CASE g \notin joined
    BY <1>1, <1>3, <2>1, <2>2, Untouched DEF LinkedInv
  <2>3. CASE g \in joined
    <3>1. outTo'[g] # <<>> /\ Final(outTo'[g]) = Update
      BY <1>1, <1>2, <2>1, <2>3, FinalAppend
    <3>2. ~Silent(g)' /\ LastWord(g)' = Update
      BY <3>1 DEF Silent, LastWord, Final
    <3>3. Fits => Update = State(live)
      BY <1>2 DEF Fits, Update
    <3>4. State(live).kind = "state" /\ State(live).record = live /\ Notice.kind # "state"
      BY DEF State, Notice
    <3>5. Sent(g)'
      BY <1>1, <1>2, <1>3, <3>2, <3>3, <3>4 DEF Sent
    <3>6. Saved(g)'
      BY <1>1, <1>2, <3>2, <3>4 DEF Saved, Update
    <3> QED
      BY <3>5, <3>6
  <2> QED
    BY <2>2, <2>3
<1> QED
  BY <1>4 DEF LinkedInv


LEMMA LastWordType ==
    ASSUME TypeOK, NEW g \in Guests, ~Silent(g), LastWord(g).kind = "state"
    PROVE  LastWord(g).record \in Nat
<1>1. outAll \in Seq(Message) /\ outTo[g] \in Seq(Message) /\ wire[g] \in Seq(Message)
  BY DEF TypeOK, FrameTypeOK, LinkTypeOK
<1>2. \A s \in Seq(Message) : s # <<>> => Final(s) \in Message
  BY DEF Final
<1>3. LastWord(g) \in Message
  BY <1>1, <1>2 DEF LastWord, Silent
<1> QED
  BY <1>3, RoomAssumption DEF Message, Version

LEMMA SaveLandsLinked ==
    ASSUME TypeOK, SaveInv, OrderInv, FrameInv, LinkedInv, SaveLands
    PROVE  LinkedInv'
<1> DEFINE r == saving.record
<1>1. /\ UNCHANGED <<live, over, tried, outTo, joined, link, wire,
                     copy, notice, fetch, unheard, gaveUp>>
      /\ stored' = r
      /\ outAll' = IF paused THEN Append(outAll, Notice) ELSE outAll
  BY DEF SaveLands, NoticeDue, guest
<1>2. /\ live \in Nat /\ tried \in Nat /\ r \in Nat /\ r >= 1
      /\ r <= tried /\ tried <= live
      /\ \A v \in r..live : v \in over <=> live \in over
      /\ outAll \in Seq(Message) /\ Notice \in Message
  BY NatTypes, MessageTypes DEF SaveLands, TypeOK, OwnerTypeOK, FrameTypeOK, OrderInv
<1> HIDE DEF r
<1>3. paused <=> live \in over
  <2>1. tried > 0
    BY <1>2
  <2>2. PICK w \in tried..live : paused <=> w \in over
    BY <2>1 DEF OrderInv
  <2>3. w \in r..live
    BY <1>2
  <2>4. w \in over <=> live \in over
    BY <1>2, <2>3
  <2> QED
    BY <2>2, <2>4, Zenon
<1>4. ASSUME NEW g \in (Up \ joined)' PROVE Sent(g)' /\ Saved(g)'
  <2>1. g \in Guests /\ Sent(g) /\ Saved(g)
    BY <1>1, <1>4 DEF Up, LinkedInv
  <2>2. CASE live \in over
    <3>1. ~Fits'
      BY <1>1, <1>2, <2>2 DEF Fits
    <3>2. outAll' # <<>> /\ Final(outAll') = Notice
      BY <1>1, <1>2, <1>3, <2>2, FinalAppend
    <3>3. outTo[g] # <<>> => Final(outTo[g]) = Notice
      BY <2>1, <2>2 DEF FrameInv, Update
    <3>4. ~Silent(g)' /\ LastWord(g)' = Notice
      BY <1>1, <3>2, <3>3 DEF Silent, LastWord, Final
    <3> QED
      BY <3>1, <3>4 DEF Sent, Saved, Notice
  <2>3. CASE live \notin over
    <3>1. Fits
      BY <1>2, <2>3 DEF Fits
    <3>2. outAll' = outAll
      BY <1>1, <1>3, <2>3
    <3>3. (Silent(g)' <=> Silent(g)) /\ LastWord(g)' = LastWord(g) /\ Fits' = Fits
      BY <1>1, <3>2 DEF Silent, LastWord, Final, Fits
    <3>4. copy[g] \in Nat
      BY <2>1, RoomAssumption DEF TypeOK, GuestTypeOK, Version
    <3>5. Current(g) => Current(g)' /\ Fresh(g)'
      BY <1>1, <1>2, <3>4 DEF Current, Fresh
    <3>6. Sent(g)'
      BY <1>1, <2>1, <3>3, <3>5 DEF Sent
    <3>7. Saved(g)'
      BY <1>1, <1>2, <2>1, <3>1, <3>3, <3>5, LastWordType DEF Sent, Saved
    <3> QED
      BY <3>6, <3>7
  <2> QED
    BY <2>2, <2>3
<1> QED
  BY <1>4 DEF LinkedInv

LEMMA FinalConcat ==
    ASSUME NEW s \in Seq(Message), NEW t \in Seq(Message)
    PROVE  /\ s \o t = <<>> <=> s = <<>> /\ t = <<>>
           /\ s \o t \in Seq(Message)
           /\ t = <<>> => s \o t = s
           /\ t # <<>> => Final(s \o t) = Final(t)
BY DEF Final

LEMMA EndFrameLinked ==
    ASSUME TypeOK, LinkedInv, EndFrame
    PROVE  LinkedInv'
<1>1. /\ UNCHANGED <<live, over, stored, tried, joined, link,
                     copy, notice, fetch, unheard, gaveUp>>
      /\ joined = {} /\ outAll' = <<>>
      /\ \A g \in Guests : outTo'[g] = <<>>
      /\ \A g \in Up : wire'[g] = wire[g] \o outAll \o outTo[g]
  BY DEF EndFrame, owner, guest, Up
<1>2. ASSUME NEW g \in (Up \ joined)' PROVE Sent(g)' /\ Saved(g)'
  <2>1. g \in Guests /\ g \in Up /\ Sent(g) /\ Saved(g)
    BY <1>1, <1>2 DEF Up, LinkedInv
  <2>2. wire[g] \in Seq(Message) /\ outAll \in Seq(Message) /\ outTo[g] \in Seq(Message)
    BY <2>1 DEF TypeOK, FrameTypeOK, LinkTypeOK
  <2>3. outTo'[g] = <<>> /\ outAll' = <<>> /\ wire'[g] = wire[g] \o outAll \o outTo[g]
    BY <1>1, <2>1
  <2>4. wire[g] \o outAll \in Seq(Message)
    BY <2>2
  <2>5. Silent(g)' <=> Silent(g)
    BY <2>2, <2>3, <2>4, FinalConcat DEF Silent
  <2>6. LastWord(g)' = LastWord(g)
    <3>1. LastWord(g)' = Final(wire'[g])
      BY <2>3, Zenon DEF LastWord, Final
    <3>2. CASE outTo[g] # <<>>
      <4>1. LastWord(g) = Final(outTo[g])
        BY <3>2 DEF LastWord
      <4> DEFINE s == wire[g] \o outAll
      <4>2. s \in Seq(Message) /\ wire'[g] = s \o outTo[g]
        BY <2>3, <2>4
      <4> HIDE DEF s
      <4>3. Final(s \o outTo[g]) = Final(outTo[g])
        BY <2>2, <3>2, <4>2, FinalConcat
      <4> QED
        BY <3>1, <4>1, <4>2, <4>3
    <3>3. CASE outTo[g] = <<>>
      <4>1. wire'[g] = wire[g] \o outAll
        BY <2>2, <2>3, <2>4, <3>3, FinalConcat
      <4>2. LastWord(g) = IF outAll # <<>> THEN Final(outAll) ELSE Final(wire[g])
        BY <3>3 DEF LastWord
      <4>3. outAll # <<>> => Final(wire[g] \o outAll) = Final(outAll)
        BY <2>2, FinalConcat
      <4>4. outAll = <<>> => wire[g] \o outAll = wire[g]
        BY <2>2, FinalConcat
      <4> QED
        BY <3>1, <4>1, <4>2, <4>3, <4>4
    <3> QED
      BY <3>2, <3>3
  <2>7. Fits' = Fits /\ Current(g)' = Current(g) /\ Fresh(g)' = Fresh(g)
    BY <1>1 DEF Fits, Current, Fresh
  <2> QED
    BY <1>1, <2>1, <2>5, <2>6, <2>7 DEF Sent, Saved
<1> QED
  BY <1>2 DEF LinkedInv


\* A step of a guest that takes nothing off the wire.
LEMMA GuestLinked ==
    ASSUME NEW g \in Guests, Sent(g), Saved(g),
           outTo'[g] = outTo[g], wire'[g] = wire[g],
           UNCHANGED <<live, over, stored, tried, outAll>>,
           g \in unheard \cup gaveUp => g \in unheard' \cup gaveUp',
           Current(g) => g \in unheard' \cup gaveUp' \/ Current(g)',
           Fresh(g) => g \in unheard' \cup gaveUp' \/ Fresh(g)'
    PROVE  Sent(g)' /\ Saved(g)'
<1>1. Silent(g)' <=> Silent(g)
  BY DEF Silent
<1>2. LastWord(g)' = LastWord(g)
  BY DEF LastWord, Final
<1>3. Fits' <=> Fits
  BY DEF Fits
<1>4. Sent(g)'
  BY <1>1, <1>2, <1>3 DEF Sent
<1>5. Saved(g)'
  BY <1>1, <1>2 DEF Saved
<1> QED
  BY <1>4, <1>5

LEMMA FetchLinked ==
    ASSUME TypeOK, OrderInv, NEW g \in Guests, link[g] = "up", Sent(g), Saved(g),
           \/ StartFetch(g) \/ ReadSaved(g) \/ FetchLands(g)
           \/ \E left \in BOOLEAN : FetchFails(g, left)
    PROVE  Sent(g)' /\ Saved(g)'
<1>0. /\ fetch \in [Guests -> Fetch \cup {NoFetch}] /\ fetch[g] \in Fetch \cup {NoFetch}
      /\ notice \in [Guests -> (0..MaxAttempts - 1) \cup {NoNotice}]
      /\ copy \in [Guests -> Version]
      /\ stored \in Nat /\ pds \in Nat /\ stored <= pds /\ pds >= 1
      /\ NoFetch \notin Fetch
  BY NatTypes, RoomNoneAssumption DEF TypeOK, OwnerTypeOK, GuestTypeOK, OrderInv, Version
<1>1. CASE StartFetch(g)
  <2> DEFINE f == [tries |-> notice[g], read |-> 0, overtaken |-> FALSE]
  <2>1. f.read = 0 /\ ~f.overtaken /\ f \in Fetch
    <3>1. notice[g] \in Nat
      BY <1>0, <1>1, RoomAssumption DEF StartFetch
    <3> QED
      BY <3>1, RoomAssumption DEF Fetch
  <2>2. /\ UNCHANGED <<live, over, stored, tried, outAll, outTo, wire, unheard, gaveUp>>
        /\ fetch'[g] = f /\ notice[g] # NoNotice
    BY <1>0, <1>1 DEF StartFetch, owner, frame
  <2> HIDE DEF f
  <2>3. fetch'[g] # NoFetch /\ ~fetch'[g].overtaken /\ fetch'[g].read = 0
    BY <1>0, <2>1, <2>2
  <2>4. Fresh(g)'
    BY <2>3 DEF Fresh
  <2>5. ~Current(g)
    BY <2>2 DEF Current
  <2> QED
    BY <2>2, <2>4, <2>5, GuestLinked
<1>2. CASE ReadSaved(g)
  <2> DEFINE f == [fetch[g] EXCEPT !.read = pds]
  <2>1. /\ UNCHANGED <<live, over, stored, tried, outAll, outTo, wire, unheard, gaveUp>>
        /\ UNCHANGED <<copy, notice>> /\ fetch[g] # NoFetch /\ fetch'[g] = f
    BY <1>0, <1>2 DEF ReadSaved, owner, frame
  <2>2. f # NoFetch /\ f.read = pds /\ f.overtaken = fetch[g].overtaken
    <3>1. f \in Fetch
      BY <1>0, <2>1 DEF Fetch, TypeOK, OwnerTypeOK, Version
    <3> QED
      BY <1>0, <2>1, <3>1 DEF Fetch
  <2> HIDE DEF f
  <2>3. Current(g) => Current(g)'
    BY <2>1, <2>2 DEF Current
  <2>4. Fresh(g) => Fresh(g)'
    BY <1>0, <2>1, <2>2 DEF Fresh
  <2> QED
    BY <2>1, <2>3, <2>4, GuestLinked
<1>3. CASE FetchLands(g)
  <2>1. /\ UNCHANGED <<live, over, stored, tried, outAll, outTo, wire, unheard, gaveUp>>
        /\ UNCHANGED notice /\ fetch[g] # NoFetch /\ fetch[g].read # 0
        /\ fetch'[g] = NoFetch
        /\ copy'[g] = IF fetch[g].overtaken THEN copy[g] ELSE fetch[g].read
    BY <1>0, <1>3 DEF FetchLands, Lands, owner, frame
  <2>2. Current(g) => Current(g)'
    BY <2>1 DEF Current
  <2>3. Fresh(g) => Fresh(g)'
    BY <2>1 DEF Fresh
  <2> QED
    BY <2>1, <2>2, <2>3, GuestLinked
<1>4. ASSUME NEW left \in BOOLEAN, FetchFails(g, left) PROVE Sent(g)' /\ Saved(g)'
  <2>1. /\ UNCHANGED <<live, over, stored, tried, outAll, outTo, wire, unheard, copy>>
        /\ fetch[g] # NoFetch /\ fetch'[g] = NoFetch
        /\ fetch[g].overtaken => notice'[g] = notice[g] /\ gaveUp' = gaveUp
        /\ ~fetch[g].overtaken =>
              /\ notice'[g] = Retry(g, left)
              /\ gaveUp' = IF Retry(g, left) = NoNotice THEN gaveUp \cup {g} ELSE gaveUp
    BY <1>0, <1>4 DEF FetchFails, Lands, owner, frame
  <2>2. notice[g] # NoNotice => Retry(g, left) = notice[g]
    BY DEF Retry
  <2>3. Current(g) => Current(g)'
    BY <2>1 DEF Current
  <2>4. Fresh(g) => g \in gaveUp' \/ Fresh(g)'
    BY <2>1, <2>2 DEF Fresh
  <2> QED
    BY <2>1, <2>3, <2>4, GuestLinked
<1> QED
  BY <1>1, <1>2, <1>3, <1>4

\* What the last message of a drain decides.
LEMMA DrainDecides ==
    ASSUME NEW batch \in Seq(Message), batch # <<>>, NEW old, NEW f
    PROVE  /\ Final(batch).kind = "state" =>
                 /\ LastState(batch) = {Len(batch)}
                 /\ NoticeAfter(batch, old) = NoNotice
                 /\ FetchAfter(batch, f) = Overtaken(f)
           /\ Final(batch).kind # "state" => NoticeAfter(batch, old) = 0
<1>1. /\ Len(batch) \in Nat /\ Len(batch) \in DOMAIN batch /\ DOMAIN batch = 1..Len(batch)
      /\ Final(batch) = batch[Len(batch)] /\ batch[Len(batch)] \in Message
  BY DEF Final
<1>2. CASE Final(batch).kind = "state"
  <2>1. Len(batch) \in Of(batch, "state")
    BY <1>1, <1>2 DEF Of
  <2>2. Of(batch, "state") \subseteq 1..Len(batch) /\ Of(batch, "notice") \subseteq 1..Len(batch)
    BY <1>1 DEF Of
  <2>3. LastState(batch) = {Len(batch)}
    BY <1>1, <2>1, <2>2 DEF LastState
  <2>4. ~ \E i \in Of(batch, "notice") : \A j \in Of(batch, "state") : j < i
    BY <1>1, <2>1, <2>2
  <2> QED
    BY <1>2, <2>1, <2>3, <2>4 DEF NoticeAfter, FetchAfter
<1>3. CASE Final(batch).kind # "state"
  <2>1. Len(batch) \in Of(batch, "notice")
    BY <1>1, <1>3 DEF Of, Message
  <2>2. \A j \in Of(batch, "state") : j < Len(batch)
    BY <1>1, <1>3 DEF Of
  <2> QED
    BY <1>3, <2>1, <2>2 DEF NoticeAfter
<1> QED
  BY <1>2, <1>3


\* What is left on the wire after a drain.
LEMMA DrainRest ==
    ASSUME NEW s \in Seq(Message), NEW k \in 1..Len(s)
    PROVE  /\ SubSeq(s, k + 1, Len(s)) = <<>> => SubSeq(s, 1, k) = s
           /\ SubSeq(s, k + 1, Len(s)) # <<>> => Final(SubSeq(s, k + 1, Len(s))) = Final(s)
<1> DEFINE t == SubSeq(s, k + 1, Len(s))
<1>1. t \in Seq(Message) /\ Len(t) = Len(s) - k /\ k \in Nat /\ Len(s) \in Nat
  OBVIOUS
<1>2. \A i \in 1..Len(t) : t[i] = s[k + i]
  BY <1>1
<1> HIDE DEF t
<1>3. ASSUME t # <<>> PROVE Final(t) = Final(s)
  <2>1. Len(t) # 0
    BY <1>1, <1>3
  <2>2. Len(t) \in 1..Len(t) /\ k + Len(t) = Len(s)
    BY <1>1, <2>1
  <2>3. t[Len(t)] = s[Len(s)]
    BY <1>2, <2>2
  <2> QED
    BY <2>3 DEF Final
<1>4. ASSUME t = <<>> PROVE SubSeq(s, 1, k) = s
  <2>1. Len(s) = k
    BY <1>1, <1>4
  <2>2. SubSeq(s, 1, Len(s)) = s
    OBVIOUS
  <2> QED
    BY <2>1, <2>2
<1> QED
  BY <1>3, <1>4 DEF t

LEMMA DrainLinked ==
    ASSUME TypeOK, NEW g \in Guests, link[g] = "up", Sent(g), Saved(g),
           NEW k \in 0..Len(wire[g]), Drain(g, k), k = 0 => known[g] # "owner"
    PROVE  Sent(g)' /\ Saved(g)'
<1> DEFINE batch == SubSeq(wire[g], 1, k)
           rest  == SubSeq(wire[g], k + 1, Len(wire[g]))
<1>0. /\ wire \in [Guests -> Seq(Message)] /\ wire[g] \in Seq(Message)
      /\ outAll \in Seq(Message) /\ outTo[g] \in Seq(Message)
      /\ notice \in [Guests -> (0..MaxAttempts - 1) \cup {NoNotice}]
      /\ copy \in [Guests -> Version] /\ fetch \in [Guests -> Fetch \cup {NoFetch}]
      /\ stored \in Nat /\ tried \in Nat /\ k \in Nat /\ NoNotice # 0
  BY NatTypes, RoomNoneAssumption DEF TypeOK, FrameTypeOK, LinkTypeOK, GuestTypeOK
<1>1. /\ UNCHANGED <<live, over, stored, tried, outAll, outTo>>
      /\ wire'[g] = rest
  BY <1>0 DEF Drain, owner, frame
<1>2. CASE k = 0
  <2>1. UNCHANGED <<copy, notice, fetch, gaveUp, unheard>>
    BY <1>2 DEF Drain
  <2>2. rest = wire[g]
    BY <1>0, <1>2
  <2>3. Fits' <=> Fits
    BY <1>1 DEF Fits
  <2> QED
    BY <1>1, <2>1, <2>2, <2>3, Untouched
<1>3. CASE k > 0
  <2>0. k \in 1..Len(wire[g]) /\ wire[g] # <<>>
    BY <1>0, <1>3
  <2>1. ~Silent(g)
    BY <2>0 DEF Silent
  <2>2. (rest = <<>> => batch = wire[g]) /\ (rest # <<>> => Final(rest) = Final(wire[g]))
    BY <1>0, <2>0, DrainRest
  <2> HIDE DEF rest
  <2>3. Fits' <=> Fits
    BY <1>1 DEF Fits
  <2>4. CASE ~Silent(g)'
    <3>1. LastWord(g)' = LastWord(g)
      <4>1. CASE outTo[g] # <<>>
        BY <1>1, <4>1 DEF LastWord, Final
      <4>2. CASE outTo[g] = <<>> /\ outAll # <<>>
        BY <1>1, <4>2 DEF LastWord, Final
      <4>3. CASE outTo[g] = <<>> /\ outAll = <<>>
        <5>1. rest # <<>>
          BY <1>1, <2>4, <4>3 DEF Silent
        <5>2. LastWord(g)' = Final(wire'[g])
          BY <1>1, <4>3 DEF LastWord, Final
        <5>3. LastWord(g) = Final(wire[g])
          BY <4>3 DEF LastWord
        <5> QED
          BY <1>1, <2>2, <5>1, <5>2, <5>3
      <4> QED
        BY <4>1, <4>2, <4>3
    <3> QED
      BY <1>1, <2>1, <2>3, <2>4, <3>1 DEF Sent, Saved
  <2>5. CASE Silent(g)'
    <3>1. outTo[g] = <<>> /\ outAll = <<>> /\ batch = wire[g]
      BY <1>1, <2>2, <2>5 DEF Silent
    <3>2. LastWord(g) = Final(wire[g])
      BY <3>1 DEF LastWord
    <3>3. CASE known[g] # "owner"
      <4>1. g \in unheard'
        BY <1>3, <3>3 DEF Drain
      <4> QED
        BY <2>5, <4>1 DEF Sent, Saved
    <3>4. CASE known[g] = "owner"
      <4>1. /\ copy'[g] = IF LastState(batch) = {} THEN copy[g]
                          ELSE batch[CHOOSE i \in LastState(batch) : TRUE].record
            /\ notice'[g] = NoticeAfter(batch, notice[g])
            /\ fetch'[g] = FetchAfter(batch, fetch[g])
        BY <1>0, <3>4 DEF Drain
      <4> HIDE DEF batch
      <4>2. CASE Final(wire[g]).kind = "state"
        <5>1. /\ LastState(batch) = {Len(batch)} /\ notice'[g] = NoNotice
              /\ fetch'[g] = Overtaken(fetch[g])
          BY <1>0, <2>0, <3>1, <4>1, <4>2, DrainDecides
        <5>2. copy'[g] = Final(wire[g]).record
          BY <3>1, <4>1, <5>1 DEF Final
        <5>3. fetch'[g] = NoFetch \/ fetch'[g].overtaken
          BY <1>0, <5>1, OvertakenRead
        <5>4. Sent(g)'
          BY <1>1, <2>1, <2>3, <2>5, <3>2, <5>1, <5>2, <5>3 DEF Sent, Current
        <5>5. Saved(g)'
          BY <1>1, <2>1, <2>5, <3>2, <4>2, <5>1, <5>2, <5>3 DEF Saved, Fresh
        <5> QED
          BY <5>4, <5>5
      <4>3. CASE Final(wire[g]).kind # "state"
        <5>1. notice'[g] = 0
          BY <1>0, <2>0, <3>1, <4>1, <4>3, DrainDecides
        <5>2. Fresh(g)'
          BY <1>0, <5>1 DEF Fresh
        <5>3. ~Fits'
          BY <2>1, <2>3, <3>2, <4>3 DEF Sent
        <5> QED
          BY <2>5, <5>2, <5>3 DEF Sent, Saved
      <4> QED
        BY <4>2, <4>3
    <3> QED
      BY <3>3, <3>4
  <2> QED
    BY <2>4, <2>5
<1> QED
  BY <1>0, <1>2, <1>3


LEMMA LinkedStep ==
    ASSUME TypeOK, SaveInv, OrderInv, FrameInv, LinkedInv, [Next]_vars
    PROVE  LinkedInv'
<1>0. /\ link \in [Guests -> {"away", "down", "up"}]
      /\ outTo \in [Guests -> Seq(Message)] /\ wire \in [Guests -> Seq(Message)]
      /\ copy \in [Guests -> Version]
      /\ notice \in [Guests -> (0..MaxAttempts - 1) \cup {NoNotice}]
      /\ fetch \in [Guests -> Fetch \cup {NoFetch}]
  BY DEF TypeOK, FrameTypeOK, LinkTypeOK, GuestTypeOK
\* Whatever the step does, the guests it is not of keep what they have.
<1>1. ASSUME NEW h \in Guests, h \in Up, h \notin joined,
             UNCHANGED <<live, over, stored, tried, outAll>>,
             outTo'[h] = outTo[h], wire'[h] = wire[h],
             h \in unheard <=> h \in unheard', h \in gaveUp <=> h \in gaveUp',
             copy'[h] = copy[h], notice'[h] = notice[h], fetch'[h] = fetch[h]
      PROVE  Sent(h)' /\ Saved(h)'
  <2>1. Fits' <=> Fits
    BY <1>1 DEF Fits
  <2> QED
    BY <1>1, <2>1, Untouched DEF LinkedInv
<1>2. CASE StartSave \/ CommitSave \/ SaveFails
  <2>1. UNCHANGED <<live, over, stored, tried, outAll, outTo, joined, link, wire,
                    copy, notice, fetch, unheard, gaveUp>>
    BY <1>2 DEF StartSave, CommitSave, SaveFails, frame, guest
  <2> QED
    BY <1>1, <2>1 DEF LinkedInv, Up
<1>3. ASSUME NEW g \in Guests,
             Enter(g) \/ Connect(g) \/ Drop(g) \/ Leave(g) \/ Sweep(g) \/ Adopt(g)
      PROVE  LinkedInv'
  <2>1. UNCHANGED <<live, over, stored, tried, outAll>>
    BY <1>3, GuestSteps DEF GuestNext
  <2>2. ASSUME NEW h \in (Up \ joined)' PROVE Sent(h)' /\ Saved(h)'
    <3>1. CASE Enter(g)
      <4>1. h \in Guests /\ h # g /\ h \in Up /\ h \notin joined
        BY <1>0, <2>2, <3>1 DEF Enter, frame, Up
      <4> QED
        BY <1>0, <1>1, <2>1, <3>1, <4>1 DEF Enter, frame
    <3>2. CASE Connect(g)
      <4>1. h \in Guests /\ h # g /\ h \in Up /\ h \notin joined
        BY <1>0, <2>2, <3>2 DEF Connect, Up
      <4> QED
        BY <1>1, <2>1, <3>2, <4>1 DEF Connect, guest
    <3>3. CASE Drop(g) \/ Leave(g)
      <4>1. h \in Guests /\ h # g /\ h \in Up /\ h \notin joined
        BY <1>0, <2>2, <3>3 DEF Drop, Leave, Cut, Up
      <4>2. outTo'[h] = outTo[h] /\ wire'[h] = wire[h] /\ UNCHANGED guest
        BY <1>0, <3>3, <4>1 DEF Drop, Leave, Cut
      <4> QED
        BY <1>1, <2>1, <4>1, <4>2 DEF guest
    <3>4. CASE Sweep(g) \/ Adopt(g)
      <4>1. UNCHANGED <<outTo, wire, joined, link, guest>>
        BY <3>4 DEF Sweep, Adopt, frame
      <4> QED
        BY <1>1, <2>1, <2>2, <4>1 DEF Up, guest
    <3> QED
      BY <1>3, <3>1, <3>2, <3>3, <3>4
  <2> QED
    BY <2>2 DEF LinkedInv
<1>4. ASSUME NEW g \in Guests,
             \/ StartFetch(g) \/ ReadSaved(g) \/ FetchLands(g)
             \/ \E left \in BOOLEAN : FetchFails(g, left)
      PROVE  LinkedInv'
  <2>1. UNCHANGED <<live, over, stored, tried, outAll>>
    BY <1>4, GuestSteps DEF GuestNext
  <2>2. /\ UNCHANGED <<outTo, wire, joined, link, unheard>>
        /\ \A h \in Guests : h # g => /\ copy'[h] = copy[h] /\ notice'[h] = notice[h]
                                      /\ fetch'[h] = fetch[h] /\ (h \in gaveUp <=> h \in gaveUp')
    BY <1>0, <1>4 DEF StartFetch, ReadSaved, FetchLands, FetchFails, frame
  <2>3. ASSUME NEW h \in (Up \ joined)' PROVE Sent(h)' /\ Saved(h)'
    <3>1. h \in Guests /\ h \in Up /\ h \notin joined
      BY <2>2, <2>3 DEF Up
    <3>2. CASE h = g
      <4>1. link[g] = "up" /\ Sent(g) /\ Saved(g)
        BY <3>1, <3>2 DEF LinkedInv, Up
      <4> QED
        BY <1>4, <3>2, <4>1, FetchLinked
    <3>3. CASE h # g
      BY <1>1, <2>1, <2>2, <3>1, <3>3
    <3> QED
      BY <3>2, <3>3
  <2> QED
    BY <2>3 DEF LinkedInv
<1>5. ASSUME NEW g \in Guests, Hear(g) \/ Revive(g) PROVE LinkedInv'
  <2>1. PICK k \in 0..Len(wire[g]) : Drain(g, k) /\ (k = 0 => known[g] # "owner")
    <3>1. Len(wire[g]) \in Nat
      BY <1>0
    <3> QED
      BY <1>5, <3>1 DEF Hear, Revive
  <2>2. /\ UNCHANGED <<live, over, stored, tried, outAll, outTo, joined, link>>
        /\ \A h \in Guests : h # g =>
              /\ wire'[h] = wire[h] /\ copy'[h] = copy[h] /\ notice'[h] = notice[h]
              /\ fetch'[h] = fetch[h] /\ (h \in gaveUp <=> h \in gaveUp')
              /\ (h \in unheard <=> h \in unheard')
    BY <1>0, <2>1 DEF Drain, owner, frame
  <2>3. ASSUME NEW h \in (Up \ joined)' PROVE Sent(h)' /\ Saved(h)'
    <3>1. h \in Guests /\ h \in Up /\ h \notin joined
      BY <2>2, <2>3 DEF Up
    <3>2. CASE h = g
      <4>1. link[g] = "up" /\ Sent(g) /\ Saved(g)
        BY <3>1, <3>2 DEF LinkedInv, Up
      <4> QED
        BY <2>1, <3>2, <4>1, DrainLinked
    <3>3. CASE h # g
      BY <1>1, <2>2, <3>1, <3>3
    <3> QED
      BY <3>2, <3>3
  <2> QED
    BY <2>3 DEF LinkedInv
<1>6. CASE UNCHANGED vars
  <2>1. UNCHANGED <<live, over, stored, tried, outAll, outTo, joined, link, wire,
                    copy, notice, fetch, unheard, gaveUp>>
    BY <1>6 DEF vars, owner, frame, guest
  <2> QED
    BY <1>1, <2>1 DEF LinkedInv, Up
<1> QED
  BY <1>2, <1>3, <1>4, <1>5, <1>6, EditLinked, BroadcastLinked, PushLinked,
     SaveLandsLinked, EndFrameLinked DEF Next, OwnerNext, GuestNext

\* The last word a guest at rest was sent has left it up to date.
LEMMA RestIsUpToDate ==
    ASSUME TypeOK, SettledInv PROVE Settled
<1> SUFFICES ASSUME NEW g \in Guests, AtRest(g), g \notin unheard \cup gaveUp
             PROVE  UpToDate(g)
  BY DEF Settled
<1>1. /\ live \in Nat /\ live >= 1 /\ stored \in Nat /\ copy[g] \in Nat
  BY NatTypes, RoomAssumption DEF TypeOK, GuestTypeOK, Version
<1>2. /\ link[g] = "up" /\ g \notin joined /\ tried = live /\ ran = {} /\ wire[g] = <<>>
      /\ notice[g] = NoNotice /\ fetch[g] = NoFetch
  BY DEF AtRest
<1>3. Silent(g)
  BY <1>2 DEF Silent, SettledInv, FrameInv
<1>4. Sent(g) /\ Saved(g)
  BY <1>2 DEF SettledInv, LinkedInv, Up
<1>5. CASE live \in over
  <2>1. Fresh(g)
    BY <1>3, <1>4 DEF Saved
  <2>2. copy[g] >= stored
    BY <1>2, <2>1 DEF Fresh
  <2> QED
    BY <1>5, <2>2 DEF UpToDate
<1>6. CASE live \notin over
  <2>1. Fits
    BY <1>1, <1>2, <1>6 DEF Fits
  <2>2. copy[g] >= live
    BY <1>2, <1>3, <1>4, <2>1 DEF Sent, Current
  <2>3. copy[g] <= live
    BY DEF SettledInv, UptoInv
  <2> QED
    BY <1>1, <1>6, <2>2, <2>3 DEF UpToDate
<1> QED
  BY <1>5, <1>6

\* When nothing is under way between an orderly owner and a guest, the guest
\* has the live record, or past the ceiling nothing older than the last save.
THEOREM SettledCorrect == ASSUME Orderly PROVE Spec => []Settled
<1>1. Init => SettledInv
  <2> SUFFICES ASSUME Init PROVE SettledInv
    OBVIOUS
  <2>1. SaveInv
    BY RoomAssumption DEF Init, SaveInv, CleanIsSaved, Version
  <2>2. OrderInv
    BY DEF Init, OrderInv
  <2>3. FrameInv
    BY DEF Init, FrameInv
  <2>4. UptoInv
    BY RoomNoneAssumption DEF Init, UptoInv, Upto
  <2>5. LinkedInv
    BY DEF Init, LinkedInv, Up
  <2> QED
    BY <2>1, <2>2, <2>3, <2>4, <2>5 DEF SettledInv
<1>2. TypeOK /\ TypeOK' /\ SettledInv /\ [Next]_vars => SettledInv'
  BY SaveStep, OrderStep, FrameStep, UptoStep, LinkedStep DEF SettledInv
<1>3. TypeOK /\ SettledInv => Settled
  BY RestIsUpToDate
<1> QED
  BY <1>1, <1>2, <1>3, TypeCorrect, PTL DEF Spec

=============================================================================
