------------------------ MODULE OwnerSessions_proofs ------------------------
(***************************************************************************)
(* Proofs about OwnerSessions.                                             *)
(***************************************************************************)
EXTENDS OwnerSessions, SequenceTheorems, TLAPS

LEMMA MadeFacts == MaxVersion \in Nat /\ NoRecord \notin Version
BY SessionAssumption DEF Version

\* The records made so far are among those made later.
LEMMA MadeGrows ==
    ASSUME NEW m \in Nat, NEW n \in Nat, m <= n
    PROVE  /\ 1..m \subseteq 1..n
           /\ \A q \in Seq(1..m) : q \in Seq(1..n)
<1>1. 1..m \subseteq 1..n
  OBVIOUS
<1>2. ASSUME NEW q \in Seq(1..m) PROVE q \in Seq(1..n)
  <2>1. \A i \in 1..Len(q) : q[i] \in 1..n
    BY <1>1
  <2> QED
    BY <2>1
<1> QED
  BY <1>1, <1>2

\* A drain leaves a part of the channel, and takes a record made.
LEMMA DrainTypes ==
    ASSUME NEW D, NEW q \in Seq(D), NEW k \in 1..Len(q)
    PROVE  /\ q[k] \in D
           /\ SubSeq(q, k + 1, Len(q)) \in Seq(D)
<1>1. \A i \in 1..Len(q) : q[i] \in D
  OBVIOUS
<1>2. SubSeq(q, k + 1, Len(q)) \in Seq(D)
  BY <1>1
<1> QED
  BY <1>1, <1>2

\* A drain that leaves something leaves the last record.
LEMMA DrainLast ==
    ASSUME NEW D, NEW q \in Seq(D), NEW k \in 1..Len(q),
           NEW rest, rest = SubSeq(q, k + 1, Len(q))
    PROVE  /\ q[k] \in D /\ q # <<>>
           /\ rest # <<>> => rest[Len(rest)] = q[Len(q)]
           /\ rest = <<>> => k = Len(q)
<1>1. /\ q[k] \in D /\ q # <<>> /\ Len(q) \in Nat /\ k \in 1..Len(q)
      /\ \A i \in k + 1..Len(q) : q[i] \in D
  OBVIOUS
<1>2. /\ Len(rest) = IF k + 1 <= Len(q) THEN Len(q) - (k + 1) + 1 ELSE 0
      /\ \A i \in 1..Len(q) - (k + 1) + 1 : rest[i] = q[(k + 1) + i - 1]
      /\ rest \in Seq(D)
  BY <1>1, SubSeqProperties
<1>3. CASE k = Len(q)
  BY <1>1, <1>2, <1>3
<1>4. CASE k < Len(q)
  <2>1. Len(rest) = Len(q) - k /\ rest[Len(q) - k] = q[Len(q)]
    BY <1>1, <1>2, <1>4
  <2>2. rest # <<>>
    <3>1. Len(rest) # 0
      BY <1>1, <1>4, <2>1
    <3>2. QED  BY <3>1
  <2>3. QED  BY <1>1, <1>4, <2>1, <2>2
<1>5. k = Len(q) \/ k < Len(q)
  BY <1>1
<1>6. QED  BY <1>3, <1>4, <1>5, Zenon

\* What handle_room_state may change, whatever the record it is given.
LEMMA TakenTypes ==
    ASSUME TypeOK, NEW s \in Sessions, NEW r \in 1..made,
           Ignore(s, r) \/ Hold(s, r) \/ Apply(s, r)
    PROVE  /\ live' \in [Sessions -> 1..made]
           /\ dirty' \in [Sessions -> BOOLEAN]
           /\ parked' \in [Sessions -> 1..made \cup {NoRecord}]
           /\ unsaved' \in [Sessions -> BOOLEAN]
BY DEF TypeOK, Ignore, Hold, Apply

LEMMA TypeInit ==
    ASSUME Init PROVE TypeOK
<1>1. 1 \in Version /\ made = 1 /\ 1..made = {1}
  BY SessionAssumption DEF Init, Version
<1>2. <<>> \in Seq(1..made)
  OBVIOUS
<1>3. /\ here \subseteq Sessions /\ Opening \in here
      /\ by \in [Version -> Sessions \cup {NoRecord}]
      /\ wire \in [Sessions -> [Sessions -> Seq(1..made)]]
  BY <1>2, SessionAssumption DEF Init
<1> QED
  BY <1>1, <1>3 DEF Init, TypeOK

LEMMA TypeStep ==
    ASSUME TypeOK, [Next]_vars PROVE TypeOK'
<1> USE DEF TypeOK
<1>1. CASE UNCHANGED vars
  BY <1>1 DEF vars, world, save
<1>2. ASSUME NEW s \in Sessions, Join(s) PROVE TypeOK'
  <2>1. ASSUME NEW a \in Sessions, NEW b \in Sessions
        PROVE  /\ Append(wire[a][b], live[a]) \in Seq(1..made)
               /\ wire[a][b] \in Seq(1..made) /\ <<pds>> \in Seq(1..made)
    OBVIOUS
  <2>2. wire' \in [Sessions -> [Sessions -> Seq(1..made)]]
    BY <1>2, <2>1 DEF Join
  <2> QED
    BY <1>2, <2>2 DEF Join, world
<1>3. ASSUME NEW s \in Sessions, Edit(s) PROVE TypeOK'
  <2>1. made \in Nat /\ made' = made + 1 /\ made' \in Version
    BY <1>3, MadeFacts DEF Edit, Version
  <2>2. 1..made \subseteq 1..made' /\ \A q \in Seq(1..made) : q \in Seq(1..made')
    BY <2>1, MadeGrows
  <2>3. wire' \in [Sessions -> [Sessions -> Seq(1..made')]]
    BY <1>3, <2>2 DEF Edit
  <2>4. live' \in [Sessions -> 1..made'] /\ by' \in [Version -> Sessions \cup {NoRecord}]
    BY <1>3, <2>1, <2>2 DEF Edit, Version
  <2>5. /\ stored' \in [Sessions -> 1..made'] /\ pds' \in 1..made'
        /\ saving' \in [Sessions -> 1..made' \cup {NoRecord}]
        /\ parked' \in [Sessions -> 1..made' \cup {NoRecord}]
    BY <1>3, <2>2 DEF Edit, save
  <2> QED
    BY <1>3, <2>1, <2>3, <2>4, <2>5 DEF Edit
<1>4. ASSUME NEW s \in Sessions, Broadcast(s) PROVE TypeOK'
  <2>1. \A t \in Sessions : Append(wire[s][t], live[s]) \in Seq(1..made)
    OBVIOUS
  <2>2. [t \in Sessions |-> IF t \in here \ {s} THEN Append(wire[s][t], live[s])
                            ELSE wire[s][t]] \in [Sessions -> Seq(1..made)]
    BY <2>1
  <2>3. wire' \in [Sessions -> [Sessions -> Seq(1..made)]]
    BY <1>4, <2>2 DEF Broadcast
  <2> QED
    BY <1>4, <2>3 DEF Broadcast, world, save
<1>5. ASSUME NEW s \in Sessions, NEW t \in Sessions, Receive(s, t) PROVE TypeOK'
  <2>1. PICK k \in 1..Len(wire[t][s]) :
          /\ wire' = [wire EXCEPT ![t][s] = SubSeq(@, k + 1, Len(@))]
          /\ \/ Ignore(s, wire[t][s][k])
             \/ Hold(s, wire[t][s][k])
             \/ Apply(s, wire[t][s][k])
    BY <1>5 DEF Receive
  <2>2. /\ wire[t][s][k] \in 1..made
        /\ SubSeq(wire[t][s], k + 1, Len(wire[t][s])) \in Seq(1..made)
    BY DrainTypes
  <2>3. wire' \in [Sessions -> [Sessions -> Seq(1..made)]]
    BY <2>1, <2>2
  <2>4. /\ live' \in [Sessions -> 1..made]
        /\ dirty' \in [Sessions -> BOOLEAN]
        /\ parked' \in [Sessions -> 1..made \cup {NoRecord}]
        /\ unsaved' \in [Sessions -> BOOLEAN]
    BY <2>1, <2>2, TakenTypes
  <2> QED
    BY <1>5, <2>3, <2>4 DEF Receive, world, save
<1>6. ASSUME NEW s \in Sessions, KeepMine(s) PROVE TypeOK'
  BY <1>6 DEF KeepMine, world, save
<1>7. ASSUME NEW s \in Sessions, TakeTheirs(s) PROVE TypeOK'
  BY <1>7 DEF TakeTheirs, world, save, Chooses
<1>8. ASSUME NEW s \in Sessions, StartSave(s) PROVE TypeOK'
  BY <1>8 DEF StartSave, world, Chooses
<1>9. ASSUME NEW s \in Sessions, SaveLands(s) PROVE TypeOK'
  <2>1. unsaved' \in [Sessions -> BOOLEAN]
    BY <1>9, Zenon DEF SaveLands
  <2> QED
    BY <1>9, <2>1 DEF SaveLands, world
<1>10. ASSUME NEW s \in Sessions, SaveFails(s) PROVE TypeOK'
  BY <1>10 DEF SaveFails, world
<1> QED
  BY <1>1, <1>2, <1>3, <1>4, <1>5, <1>6, <1>7, <1>8, <1>9, <1>10 DEF Next

\* The sessions' state keeps its types: a record parked, applied, saved or
\* under way is one that some session made.
THEOREM TypeCorrect == Spec => []TypeOK
BY TypeInit, TypeStep, PTL DEF Spec

-----------------------------------------------------------------------------
(* No silent loss.  classify_same_owner_update never sees the edits as     *)
(* such: it compares the live record with stored.  What makes that a       *)
(* sufficient guard is that unsaved edits always show in the comparison,   *)
(* across a save that lands in the middle of them and across a sign-in.    *)

UnsavedShows == \A s \in Sessions : unsaved[s] => s \in here /\ Differs(s)

LossInv == TypeOK /\ UnsavedShows

LEMMA ReceiveShows ==
    ASSUME LossInv, NEW s \in Sessions, NEW t \in Sessions, Receive(s, t)
    PROVE  /\ UnsavedShows'
           /\ \A u \in Sessions : unsaved[u] => live'[u] = live[u]
<1>1. PICK r : Ignore(s, r) \/ Hold(s, r) \/ Apply(s, r)
  BY DEF Receive
<1>2. /\ here' = here /\ stored' = stored
      /\ live \in [Sessions -> 1..made] /\ unsaved \in [Sessions -> BOOLEAN]
  BY DEF Receive, save, LossInv, TypeOK
<1>3. CASE Ignore(s, r) \/ Hold(s, r)
  BY <1>2, <1>3 DEF Ignore, Hold, LossInv, UnsavedShows, Differs
<1>4. CASE Apply(s, r)
  <2>1. ~Differs(s)
    BY <1>4 DEF Apply, Classify
  <2>2. ~unsaved[s]
    BY <2>1 DEF LossInv, UnsavedShows
  <2>3. /\ live' = [live EXCEPT ![s] = r]
        /\ unsaved' = [unsaved EXCEPT ![s] = FALSE]
    BY <1>4 DEF Apply
  <2> QED
    BY <1>2, <2>2, <2>3 DEF LossInv, UnsavedShows, Differs
<1> QED
  BY <1>1, <1>3, <1>4

LEMMA ShowsStep ==
    ASSUME LossInv, [Next]_vars PROVE UnsavedShows'
<1> USE DEF LossInv, UnsavedShows, Differs
<1>0. /\ live \in [Sessions -> 1..made] /\ stored \in [Sessions -> 1..made]
      /\ unsaved \in [Sessions -> BOOLEAN] /\ made \in Nat
  BY MadeFacts DEF TypeOK, Version
<1>1. CASE UNCHANGED vars
  BY <1>1 DEF vars, save
<1>2. ASSUME NEW s \in Sessions, Join(s) PROVE UnsavedShows'
  BY <1>0, <1>2 DEF Join
<1>3. ASSUME NEW s \in Sessions, Edit(s) PROVE UnsavedShows'
  <2>1. /\ here' = here /\ stored' = stored /\ s \in here
        /\ live' = [live EXCEPT ![s] = made + 1]
        /\ unsaved' = [unsaved EXCEPT ![s] = TRUE]
    BY <1>3 DEF Edit, save
  <2>2. made + 1 # stored[s]
    BY <1>0
  <2> QED
    BY <1>0, <2>1, <2>2
<1>4. ASSUME NEW s \in Sessions, Broadcast(s) \/ KeepMine(s) PROVE UnsavedShows'
  BY <1>4 DEF Broadcast, KeepMine, save
<1>5. ASSUME NEW s \in Sessions, NEW t \in Sessions, Receive(s, t)
      PROVE  UnsavedShows'
  BY <1>5, ReceiveShows
<1>6. ASSUME NEW s \in Sessions, TakeTheirs(s) PROVE UnsavedShows'
  BY <1>0, <1>6 DEF TakeTheirs, save
<1>7. ASSUME NEW s \in Sessions, StartSave(s) \/ SaveFails(s) PROVE UnsavedShows'
  BY <1>7 DEF StartSave, SaveFails
<1>8. ASSUME NEW s \in Sessions, SaveLands(s) PROVE UnsavedShows'
  <2>1. /\ here' = here /\ live' = live
        /\ stored' = [stored EXCEPT ![s] = saving[s]]
    BY <1>8 DEF SaveLands
  <2>2. /\ unsaved'[s] => unsaved[s] /\ live[s] # saving[s]
        /\ \A u \in Sessions \ {s} : unsaved'[u] = unsaved[u]
    BY <1>0, <1>8, Zenon DEF SaveLands
  <2> QED
    BY <1>0, <2>1, <2>2
<1> QED
  BY <1>1, <1>2, <1>3, <1>4, <1>5, <1>6, <1>7, <1>8 DEF Next

LEMMA LossStep ==
    ASSUME LossInv, Next, NEW s \in Sessions, unsaved[s], live'[s] # live[s]
    PROVE  by'[live'[s]] = s \/ TakeTheirs(s)
<1> USE DEF LossInv
<1>0. live \in [Sessions -> 1..made] /\ by \in [Version -> Sessions \cup {NoRecord}]
  BY DEF TypeOK
<1>1. PICK a \in Sessions :
        \/ Join(a) \/ Edit(a) \/ Broadcast(a)
        \/ \E t \in Sessions : Receive(a, t)
        \/ KeepMine(a) \/ TakeTheirs(a)
        \/ StartSave(a) \/ SaveLands(a) \/ SaveFails(a)
  BY DEF Next
<1>2. CASE Join(a)
  <2>1. a # s
    BY <1>2 DEF Join, UnsavedShows
  <2> QED
    BY <1>0, <1>2, <2>1 DEF Join
<1>3. CASE Edit(a)
  <2>1. a = s
    BY <1>0, <1>3 DEF Edit
  <2>2. made' \in Version
    BY <1>3, MadeFacts DEF Edit, TypeOK, Version
  <2> QED
    BY <1>0, <1>3, <2>1, <2>2 DEF Edit
<1>4. CASE \/ Broadcast(a) \/ KeepMine(a)
           \/ StartSave(a) \/ SaveLands(a) \/ SaveFails(a)
  BY <1>4 DEF Broadcast, KeepMine, StartSave, SaveLands, SaveFails
<1>5. CASE \E t \in Sessions : Receive(a, t)
  BY <1>5, ReceiveShows
<1>6. CASE TakeTheirs(a)
  BY <1>0, <1>6 DEF TakeTheirs
<1> QED
  BY <1>1, <1>2, <1>3, <1>4, <1>5, <1>6

\* However many sessions are signed in and whatever they send each other, a
\* session's unsaved edits are replaced only by the owner's own answer.
THEOREM LossCorrect == Spec => NoSilentLoss
<1>1. Init => LossInv
  BY TypeInit DEF Init, LossInv, UnsavedShows
<1>2. LossInv /\ [Next]_vars => LossInv'
  BY TypeStep, ShowsStep DEF LossInv
<1>3. LossInv /\ [Next]_vars =>
        [\A s \in Sessions : unsaved[s] /\ live'[s] # live[s] =>
           by'[live'[s]] = s \/ TakeTheirs(s)]_vars
  BY LossStep
<1> QED
  BY <1>1, <1>2, <1>3, PTL DEF Spec, NoSilentLoss

-----------------------------------------------------------------------------
(* Agreement.  That nothing is under way says nothing of how it came to    *)
(* be so; the invariant speaks of every moment before: a session that has  *)
(* nothing left to broadcast has put its record last on every channel, and *)
(* two that differ have something on its way between them, or a question.  *)

\* What t has still to hear from s.
Pending(s, t) == dirty[s] \/ wire[s][t] # <<>>

\* The last record on its way from s is the one s holds, unless that is still
\* to be broadcast.
LastIsLive ==
    \A s, t \in here : s # t /\ ~dirty[s] /\ wire[s][t] # <<>> =>
        wire[s][t][Len(wire[s][t])] = live[s]

PartedShows ==
    ~kept => \A s, t \in here : live[s] # live[t] =>
        \/ Pending(s, t) \/ Pending(t, s)
        \/ parked[s] # NoRecord \/ parked[t] # NoRecord

AgreeInv == TypeOK /\ LastIsLive /\ PartedShows

LEMMA JoinAgrees ==
    ASSUME AgreeInv, NEW s \in Sessions, Join(s)
    PROVE  LastIsLive' /\ PartedShows'
<1>1. /\ s \notin here /\ here' = here \cup {s} /\ here \subseteq Sessions
      /\ kept' = kept /\ parked' = parked
      /\ live' = [live EXCEPT ![s] = pds] /\ dirty' = [dirty EXCEPT ![s] = TRUE]
      /\ live \in [Sessions -> 1..made] /\ dirty \in [Sessions -> BOOLEAN]
      /\ wire \in [Sessions -> [Sessions -> Seq(1..made)]]
  BY DEF Join, AgreeInv, TypeOK
<1>2. \A a, b \in here : wire'[a][b] = wire[a][b]
  BY <1>1 DEF Join
<1>3. \A a \in here : wire'[a][s] = Append(wire[a][s], live[a])
  BY <1>1 DEF Join
<1>4. dirty'[s] /\ \A a \in here : live'[a] = live[a] /\ dirty'[a] = dirty[a]
  BY <1>1
<1>5. LastIsLive'
  <2>1. SUFFICES ASSUME NEW a \in here', NEW b \in here', a # b,
                        ~dirty'[a], wire'[a][b] # <<>>
                 PROVE  wire'[a][b][Len(wire'[a][b])] = live'[a]
    BY DEF LastIsLive
  <2>2. a \in here
    BY <1>1, <1>4, <2>1
  <2>3. CASE b \in here
    BY <1>2, <1>4, <2>1, <2>2, <2>3 DEF AgreeInv, LastIsLive
  <2>4. CASE b = s
    <3>1. wire[a][s] \in Seq(1..made) /\ live[a] \in 1..made
      BY <1>1, <2>2
    <3>2. Append(wire[a][s], live[a])[Len(Append(wire[a][s], live[a]))] = live[a]
      BY <3>1
    <3>3. QED  BY <1>3, <1>4, <2>2, <2>4, <3>2
  <2>5. QED  BY <1>1, <2>3, <2>4
<1>6. PartedShows'
  <2>1. SUFFICES ASSUME ~kept, NEW a \in here', NEW b \in here', live'[a] # live'[b]
                 PROVE  \/ Pending(a, b)' \/ Pending(b, a)'
                        \/ parked[a] # NoRecord \/ parked[b] # NoRecord
    BY <1>1 DEF PartedShows
  <2>2. CASE a = s \/ b = s
    BY <1>4, <2>2 DEF Pending
  <2>3. CASE a \in here /\ b \in here
    BY <1>2, <1>4, <2>1, <2>3 DEF AgreeInv, PartedShows, Pending
  <2>4. QED  BY <1>1, <2>2, <2>3
<1>7. QED  BY <1>5, <1>6

LEMMA BroadcastAgrees ==
    ASSUME AgreeInv, NEW s \in Sessions, Broadcast(s)
    PROVE  LastIsLive' /\ PartedShows'
<1>1. /\ s \in here /\ here' = here /\ here \subseteq Sessions
      /\ kept' = kept /\ parked' = parked /\ live' = live
      /\ dirty' = [dirty EXCEPT ![s] = FALSE]
      /\ live \in [Sessions -> 1..made] /\ dirty \in [Sessions -> BOOLEAN]
      /\ wire \in [Sessions -> [Sessions -> Seq(1..made)]]
  BY DEF Broadcast, AgreeInv, TypeOK
<1>2. \A t \in here \ {s} : wire'[s][t] = Append(wire[s][t], live[s])
  BY <1>1 DEF Broadcast
<1>3. wire'[s][s] = wire[s][s] /\ \A a \in here \ {s} : wire'[a] = wire[a]
  BY <1>1 DEF Broadcast
<1>4. \A a \in here \ {s} : dirty'[a] = dirty[a]
  BY <1>1
<1>5. \A t \in here \ {s} : /\ wire'[s][t] # <<>>
                            /\ wire'[s][t][Len(wire'[s][t])] = live[s]
  <2>1. ASSUME NEW t \in here \ {s}
        PROVE  wire'[s][t] # <<>> /\ wire'[s][t][Len(wire'[s][t])] = live[s]
    <3>1. wire[s][t] \in Seq(1..made) /\ live[s] \in 1..made
      BY <1>1
    <3>2. /\ Append(wire[s][t], live[s]) # <<>>
          /\ Append(wire[s][t], live[s])[Len(Append(wire[s][t], live[s]))] = live[s]
      BY <3>1
    <3>3. QED  BY <1>2, <3>2
  <2>2. QED  BY <2>1
<1>6. LastIsLive'
  <2>1. SUFFICES ASSUME NEW a \in here, NEW b \in here, a # b,
                        ~dirty'[a], wire'[a][b] # <<>>
                 PROVE  wire'[a][b][Len(wire'[a][b])] = live[a]
    BY <1>1 DEF LastIsLive
  <2>2. CASE a = s
    BY <1>5, <2>1, <2>2
  <2>3. CASE a # s
    BY <1>3, <1>4, <2>1, <2>3 DEF AgreeInv, LastIsLive
  <2>4. QED  BY <2>2, <2>3
<1>7. PartedShows'
  <2>1. SUFFICES ASSUME ~kept, NEW a \in here, NEW b \in here, live[a] # live[b]
                 PROVE  \/ Pending(a, b)' \/ Pending(b, a)'
                        \/ parked[a] # NoRecord \/ parked[b] # NoRecord
    BY <1>1 DEF PartedShows
  <2>2. CASE a = s \/ b = s
    BY <1>5, <2>1, <2>2 DEF Pending
  <2>3. CASE a # s /\ b # s
    BY <1>3, <1>4, <2>1, <2>3 DEF AgreeInv, PartedShows, Pending
  <2>4. QED  BY <2>2, <2>3
<1>8. QED  BY <1>6, <1>7

\* A record is taken: the last of a channel is the sender's own unless it has
\* yet to broadcast, and one that is neither the receiver's own is installed,
\* and goes out in turn, or parked.
LEMMA ReceiveAgrees ==
    ASSUME AgreeInv, NEW s \in Sessions, NEW t \in Sessions, Receive(s, t)
    PROVE  LastIsLive' /\ PartedShows'
<1>1. /\ s \in here /\ here' = here /\ here \subseteq Sessions /\ kept' = kept
      /\ live \in [Sessions -> 1..made] /\ dirty \in [Sessions -> BOOLEAN]
      /\ parked \in [Sessions -> 1..made \cup {NoRecord}]
      /\ wire \in [Sessions -> [Sessions -> Seq(1..made)]]
  BY DEF Receive, AgreeInv, TypeOK
<1> DEFINE q == wire[t][s]
<1>2. PICK k \in 1..Len(q) :
        /\ wire' = [wire EXCEPT ![t][s] = SubSeq(q, k + 1, Len(q))]
        /\ Ignore(s, q[k]) \/ Hold(s, q[k]) \/ Apply(s, q[k])
  BY DEF Receive
<1> DEFINE r == q[k]
           rest == SubSeq(q, k + 1, Len(q))
<1>3. /\ wire'[t][s] = rest
      /\ \A a, b \in Sessions : a # t \/ b # s => wire'[a][b] = wire[a][b]
  BY <1>1, <1>2
<1>4. q \in Seq(1..made) /\ Len(q) \in Nat /\ k \in 1..Len(q)
  BY <1>1
<1>5. /\ r \in 1..made /\ q # <<>>
      /\ rest # <<>> => rest[Len(rest)] = q[Len(q)]
      /\ rest = <<>> => k = Len(q)
  <2> HIDE DEF q
  <2>1. QED  BY <1>4, DrainLast
<1>6. r \in 1..made /\ NoRecord # r
  <2>1. made \in 1..MaxVersion /\ r \in 1..made
    BY <1>5 DEF AgreeInv, TypeOK, Version
  <2> HIDE DEF r
  <2>2. r \in Version
    BY <2>1, MadeFacts DEF Version
  <2>3. QED  BY <2>1, <2>2, MadeFacts
<1> HIDE DEF rest
<1>7. /\ \A a \in Sessions : ~dirty'[a] => live'[a] = live[a] /\ ~dirty[a]
      /\ \A a \in Sessions : parked[a] # NoRecord => parked'[a] # NoRecord
      /\ live'[s] = r \/ dirty'[s] \/ parked'[s] # NoRecord
  <2> HIDE DEF r
  <2>1. CASE Ignore(s, r)
    BY <2>1 DEF Ignore, Classify
  <2>2. CASE Hold(s, r)
    BY <1>1, <1>6, <2>2 DEF Hold
  <2>3. CASE Apply(s, r)
    BY <1>1, <2>3 DEF Apply
  <2>4. QED  BY <1>2, <2>1, <2>2, <2>3 DEF r
<1>8. LastIsLive'
  <2>1. SUFFICES ASSUME NEW a \in here, NEW b \in here, a # b,
                        ~dirty'[a], wire'[a][b] # <<>>
                 PROVE  wire'[a][b][Len(wire'[a][b])] = live'[a]
    BY <1>1 DEF LastIsLive
  <2>2. wire[a][b] # <<>> /\ wire'[a][b][Len(wire'[a][b])] = wire[a][b][Len(wire[a][b])]
    BY <1>1, <1>3, <1>5, <2>1
  <2>3. live'[a] = live[a] /\ ~dirty[a]
    BY <1>1, <1>7, <2>1
  <2>4. QED  BY <2>1, <2>2, <2>3 DEF AgreeInv, LastIsLive
<1>9. PartedShows'
  <2>1. SUFFICES ASSUME ~kept, NEW a \in here, NEW b \in here, live'[a] # live'[b],
                        ~Pending(a, b)', ~Pending(b, a)',
                        parked'[a] = NoRecord, parked'[b] = NoRecord
                 PROVE  FALSE
    BY <1>1 DEF PartedShows
  <2>2. /\ ~dirty[a] /\ ~dirty[b] /\ live[a] # live[b]
        /\ parked[a] = NoRecord /\ parked[b] = NoRecord
        /\ live'[a] = live[a] /\ live'[b] = live[b]
        /\ wire'[a][b] = <<>> /\ wire'[b][a] = <<>>
    BY <1>1, <1>7, <2>1 DEF Pending
  <2>3. wire[a][b] # <<>> \/ wire[b][a] # <<>>
    BY <2>1, <2>2 DEF AgreeInv, PartedShows, Pending
  <2>4. \/ a = t /\ b = s
        \/ b = t /\ a = s
    BY <1>1, <1>3, <2>2, <2>3
  <2>5. rest = <<>> /\ r = q[Len(q)]
    BY <1>3, <1>5, <2>2, <2>4
  <2>6. r = live[t]
    BY <1>5, <2>1, <2>2, <2>4, <2>5 DEF AgreeInv, LastIsLive
  <2>7. live'[s] = r
    BY <1>7, <2>1, <2>4 DEF Pending
  <2>8. QED  BY <2>2, <2>4, <2>6, <2>7
<1>10. QED  BY <1>8, <1>9

LEMMA AgreeStep ==
    ASSUME AgreeInv, [Next]_vars PROVE AgreeInv'
<1>1. /\ live \in [Sessions -> 1..made] /\ dirty \in [Sessions -> BOOLEAN]
      /\ here \subseteq Sessions
  BY DEF AgreeInv, TypeOK
<1>2. ASSUME UNCHANGED <<here, live, dirty, wire, kept, parked>>
      PROVE  LastIsLive' /\ PartedShows'
  BY <1>2 DEF AgreeInv, LastIsLive, PartedShows, Pending
<1>3. ASSUME NEW s \in Sessions, Join(s) PROVE LastIsLive' /\ PartedShows'
  BY <1>3, JoinAgrees
<1>4. ASSUME NEW s \in Sessions, Edit(s) \/ TakeTheirs(s)
      PROVE  LastIsLive' /\ PartedShows'
  <2>1. /\ here' = here /\ wire' = wire /\ kept' = kept
        /\ dirty'[s] /\ \A a \in Sessions \ {s} :
             live'[a] = live[a] /\ dirty'[a] = dirty[a] /\ parked'[a] = parked[a]
    BY <1>1, <1>4 DEF Edit, TakeTheirs, AgreeInv, TypeOK
  <2>2. LastIsLive'
    BY <1>1, <2>1 DEF AgreeInv, LastIsLive
  <2>3. PartedShows'
    BY <1>1, <2>1 DEF AgreeInv, PartedShows, Pending
  <2>4. QED  BY <2>2, <2>3
<1>5. ASSUME NEW s \in Sessions, Broadcast(s) PROVE LastIsLive' /\ PartedShows'
  BY <1>5, BroadcastAgrees
<1>6. ASSUME NEW s \in Sessions, NEW t \in Sessions, Receive(s, t)
      PROVE  LastIsLive' /\ PartedShows'
  BY <1>6, ReceiveAgrees
<1>7. ASSUME NEW s \in Sessions, KeepMine(s) PROVE LastIsLive' /\ PartedShows'
  BY <1>7 DEF KeepMine, AgreeInv, LastIsLive, PartedShows
<1>8. ASSUME NEW s \in Sessions, StartSave(s) \/ SaveLands(s) \/ SaveFails(s)
      PROVE  LastIsLive' /\ PartedShows'
  BY <1>2, <1>8 DEF StartSave, SaveLands, SaveFails
<1>9. LastIsLive' /\ PartedShows'
  BY <1>2, <1>3, <1>4, <1>5, <1>6, <1>7, <1>8 DEF Next, vars
<1>10. QED  BY <1>9, TypeStep DEF AgreeInv

\* Any number of sessions, however their records cross: once nothing is on
\* its way, no question is open and none was answered by keeping one's own
\* copy, they all hold the same record.
THEOREM AgreementCorrect == Spec => []Agreement
<1>1. Init => AgreeInv
  <2>1. ASSUME Init PROVE LastIsLive /\ PartedShows
    BY <2>1, SessionAssumption DEF Init, LastIsLive, PartedShows
  <2>2. QED  BY <2>1, TypeInit DEF AgreeInv
<1>2. AgreeInv /\ [Next]_vars => AgreeInv'
  BY AgreeStep
<1>3. AgreeInv => Agreement
  BY DEF AgreeInv, TypeOK, PartedShows, Pending, Agreement, AtRest
<1>4. QED  BY <1>1, <1>2, <1>3, PTL DEF Spec

=============================================================================
