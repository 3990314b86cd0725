------------------------------- MODULE Chunks --------------------------------
(***************************************************************************)
(* Large reliable messages: split into fragments by their senders, put     *)
(* together by one receiver under three budgets - partial messages per     *)
(* peer, in all, and bytes - and an age past which a partial message is    *)
(* given up.                                                               *)
(*                                                                         *)
(* A message is the number its sender gives it, for the history, and the   *)
(* length it serialises to.  A peer is seen through its connection: the    *)
(* transport names each connection by a new peer id.  A link is reliable   *)
(* and ordered and is lost whole.  The receiver drains all links of a      *)
(* frame at one reading of its clock; one Ingest is one fragment of such a *)
(* drain.  Partial messages opened in one frame are of one age, and which  *)
(* of them counts as the oldest is up to the map's order.                  *)
(***************************************************************************)
EXTENDS Integers, Sequences, FiniteSets, FiniteSetsExt

CONSTANTS
    Peers,
    Lengths,       \* the lengths messages may have
    ChunkBytes,    \* RELIABLE_CHUNK_DATA_BYTES
    MaxPayload,    \* the receiver's MAX_RELIABLE_PAYLOAD_BYTES
    Ceiling,       \* Ceiling[p]: that of the build p runs
    SlotBytes,     \* REASSEMBLY_SLOT_OVERHEAD_BYTES
    BaseBytes,     \* REASSEMBLY_PARTIAL_OVERHEAD_BYTES
    Budget,        \* MAX_REASSEMBLY_BUFFER_BYTES
    PerPeer,       \* MAX_REASSEMBLIES_PER_PEER
    Total,         \* MAX_REASSEMBLIES_TOTAL
    MaxAge,        \* MAX_REASSEMBLY_AGE_SECS
    SweepEvery,    \* REASSEMBLY_SWEEP_INTERVAL_SECS
    Garbage,       \* what fragments of different messages decode to
    MaxSent, MaxTime, MaxCuts    \* bounds

ASSUME ChunkAssumption ==
    /\ Lengths \subseteq Nat \ {0} /\ ChunkBytes \in Nat \ {0}
    /\ MaxPayload \in Nat /\ Ceiling \in [Peers -> Nat]
    /\ SlotBytes \in Nat /\ BaseBytes \in Nat /\ Budget \in Nat
    /\ PerPeer \in Nat \ {0} /\ Total \in Nat \ {0}
    /\ MaxAge \in Nat /\ SweepEvery \in Nat
    /\ MaxSent \in Nat /\ MaxTime \in Nat /\ MaxCuts \in Nat
    /\ Garbage \notin Nat

VARIABLES
    now,          \* the receiver's clock
    nextId,       \* nextId[p]: OutboundChunkSeq of p's program
    sent,         \* sent[p]: the messages p has made
    conn,         \* conn[p]: p's connection
    link,         \* link[p]: what it carries
    partials,     \* ChunkReassembly::partials
    totalBytes,   \* ChunkReassembly::total_bytes
    nextSweep,    \* ChunkReassembly::next_sweep_at
    received,     \* received[p]: history, the messages handed on
    lost,         \* history: <<p, n>>, messages refused, cut off, rejected or
                  \* evicted
    cuts          \* history: for the bound

links  == <<nextId, sent, conn, link, cuts>>
buffer == <<partials, totalBytes, nextSweep>>
vars   == <<now, links, buffer, received, lost>>

-----------------------------------------------------------------------------
(* Sending.                                                                *)

Chunks(len) == (len + ChunkBytes - 1) \div ChunkBytes

\* The fragments of message n under one id; the last one carries the rest.
Fragment(n, id, len, seq) ==
    [msg |-> n, id |-> id, seq |-> seq, total |-> Chunks(len),
     size |-> IF seq < Chunks(len) - 1 THEN ChunkBytes
              ELSE len - ChunkBytes * (Chunks(len) - 1)]

Whole(n) == [msg |-> n, id |-> 0, seq |-> 0, total |-> 0, size |-> 0]

\* send_chunked: refused, whole, or in fragments under a fresh id.
Send(p, len) ==
    /\ sent[p] < MaxSent
    /\ sent' = [sent EXCEPT ![p] = @ + 1]
    /\ LET n == sent[p] + 1 IN
       \/ /\ len > Ceiling[p]
          /\ lost' = lost \cup {<<p, n>>}
          /\ UNCHANGED <<link, nextId>>
       \/ /\ len <= Ceiling[p] /\ len <= ChunkBytes
          /\ link' = [link EXCEPT ![p] = Append(@, Whole(n))]
          /\ UNCHANGED <<nextId, lost>>
       \/ /\ len <= Ceiling[p] /\ len > ChunkBytes
          /\ link' = [link EXCEPT ![p] = @ \o
                        [i \in 1..Chunks(len) |-> Fragment(n, nextId[p], len, i - 1)]]
          /\ nextId' = [nextId EXCEPT ![p] = @ + 1]
          /\ UNCHANGED lost
    /\ UNCHANGED <<now, conn, cuts, buffer, received>>

\* A connection goes down and comes back under another peer id; p's program
\* may have been started again meanwhile.  Nothing is evicted on a disconnect.
Cut(p) ==
    /\ cuts < MaxCuts
    /\ cuts' = cuts + 1
    /\ conn' = [conn EXCEPT ![p] = @ + 1]
    /\ link' = [link EXCEPT ![p] = <<>>]
    /\ \E id \in {0, nextId[p]} : nextId' = [nextId EXCEPT ![p] = id]
    /\ lost' = lost \cup {<<p, link[p][i].msg>> : i \in DOMAIN link[p]}
    /\ UNCHANGED <<now, sent, buffer, received>>

-----------------------------------------------------------------------------
(* The buffer.                                                             *)

\* Mutant: a partial message is known by its sender and id, not by the
\* connection it came on.
KeyOfSender(p, f) == [peer |-> p, conn |-> 0, id |-> f.id]

\* The key of a partial message: the peer id and the message id.
KeyOf(p, f) == [peer |-> p, conn |-> conn[p], id |-> f.id]

Overhead(total) == total * SlotBytes + BaseBytes

Payload(x) == MapThenSumSet(LAMBDA s : x.parts[s].size, DOMAIN x.parts)

Footprint(x) == Payload(x) + Overhead(x.total)

\* saturating_sub
Less(a, b) == IF a > b THEN a - b ELSE 0

\* Mutant: what a partial message was charged for its slots is not given back.
PayloadReleased(charged, out) == Less(charged, MapThenSumSet(Payload, out))

\* What is charged once the partial messages of out are removed.
Released(charged, out) == Less(charged, MapThenSumSet(Footprint, out))

\* Q is what evictions of the oldest of W leave of P.
Leaves(P, W, Q) ==
    /\ Q \subseteq P /\ P \ Q \subseteq W
    /\ \A out \in P \ Q, in \in Q \cap W : out.first <= in.first

Of(P, key) == {x \in P : x.key.peer = key.peer /\ x.key.conn = key.conn}

\* Evictions of the oldest of W while there are bound of them or more.
Fewer(P, W, Q, bound) ==
    Leaves(P, W, Q) /\ Cardinality(Q \cap W) = Min({Cardinality(W), bound - 1})

\* make_room_for_new_partial: the peer's own oldest, then anybody's.
RoomFor(P, key) ==
    {R \in SUBSET P : \E Q \in SUBSET P :
        Fewer(P, Of(P, key), Q, PerPeer) /\ Fewer(Q, Q, R, Total)}

\* enforce_budget: the oldest go until the bytes charged fit.
WithinBudget(P, charged) ==
    {Q \in SUBSET P :
        /\ Leaves(P, P, Q)
        /\ Q = {} \/ Released(charged, P \ Q) <= Budget
        /\ Q # P => \E final \in P \ Q :
              /\ \A out \in P \ Q : out.first <= final.first
              /\ Released(charged, (P \ Q) \ {final}) > Budget}

\* evict_stale, on its timer.
Fresh == IF now >= nextSweep THEN {x \in partials : now - x.first <= MaxAge}
         ELSE partials

SweepTimer == nextSweep' = IF now >= nextSweep THEN now + SweepEvery ELSE nextSweep

Opened(key, total) == [key |-> key, total |-> total, parts |-> <<>>, first |-> now]

\* Mutant: slots counted from one.
FilledFromOne(x, f) ==
    [x EXCEPT !.parts = [s \in DOMAIN x.parts \cup {f.seq + 1} |->
                            IF s \in DOMAIN x.parts THEN x.parts[s]
                            ELSE [msg |-> f.msg, seq |-> f.seq, size |-> f.size]]]

\* The partial message with fragment f in it; a slot once filled stays.
Filled(x, f) ==
    [x EXCEPT !.parts = [s \in DOMAIN x.parts \cup {f.seq} |->
                            IF s \in DOMAIN x.parts THEN x.parts[s]
                            ELSE [msg |-> f.msg, seq |-> f.seq, size |-> f.size]]]

\* Mutant: a message counts as complete when it has the bytes of full slots.
FullBytes(x) == Payload(x) = x.total * ChunkBytes

\* Mutant: a message counts as complete when its last slot is filled.
LastSlotFilled(x) == x.total - 1 \in DOMAIN x.parts

Complete(x) == Cardinality(DOMAIN x.parts) = x.total

\* from_chunk_bytes on the slots in their order.
Decode(x) ==
    LET n == x.parts[x.total - 1].msg
    IN  IF \A s \in 0..x.total - 1 : /\ s \in DOMAIN x.parts
                                     /\ x.parts[s].msg = n /\ x.parts[s].seq = s
        THEN n ELSE Garbage

Messages(P) == UNION {{<<x.key.peer, x.parts[s].msg>> : s \in DOMAIN x.parts} : x \in P}

-----------------------------------------------------------------------------
(* Receiving.                                                              *)

IsChunk(f) == f.total > 0

Malformed(f) == f.seq >= f.total \/ f.total > Chunks(MaxPayload) \/ f.size > ChunkBytes

TakeWhole(p) ==
    /\ link[p] # <<>> /\ ~ IsChunk(Head(link[p]))
    /\ link' = [link EXCEPT ![p] = Tail(@)]
    /\ received' = [received EXCEPT ![p] = Append(@, Head(link[p]).msg)]
    /\ UNCHANGED <<now, nextId, sent, conn, cuts, buffer, lost>>

\* ingest on a fragment that no message of this build can have.
Reject(p) ==
    /\ link[p] # <<>> /\ IsChunk(Head(link[p])) /\ Malformed(Head(link[p]))
    /\ link' = [link EXCEPT ![p] = Tail(@)]
    /\ SweepTimer
    /\ partials' = Fresh
    /\ totalBytes' = Released(totalBytes, partials \ Fresh)
    /\ lost' = lost \cup Messages(partials \ Fresh) \cup {<<p, Head(link[p]).msg>>}
    /\ UNCHANGED <<now, nextId, sent, conn, cuts, received>>

\* The partial message of fragment f, opened if need be.
Partial(P, p, f) ==
    IF \E x \in P : x.key = KeyOf(p, f)
    THEN CHOOSE x \in P : x.key = KeyOf(p, f)
    ELSE Opened(KeyOf(p, f), f.total)

\* ingest: the sweep, room for a partial message that is opened, the
\* fragment, the budget, and the message handed on once it is complete.  A
\* fragment that declares another length than its partial message, which
\* would drop both, does not occur (FragmentsFit).
Ingest(p) ==
    /\ link[p] # <<>> /\ IsChunk(Head(link[p])) /\ ~ Malformed(Head(link[p]))
    /\ link' = [link EXCEPT ![p] = Tail(@)]
    /\ SweepTimer
    /\ LET f    == Head(link[p])
           old  == Partial(Fresh, p, f)
           new  == Filled(old, f)
           open == old \in Fresh
       IN
       \E room \in IF open THEN {Fresh} ELSE RoomFor(Fresh, KeyOf(p, f)) :
       LET filled  == (room \ {old}) \cup {new}
           charged == Released(totalBytes, partials \ room)
                        + (IF open THEN 0 ELSE Overhead(f.total))
                        + (IF f.seq \in DOMAIN old.parts THEN 0 ELSE f.size)
       IN
       \E kept \in WithinBudget(filled, charged) :
       LET done == IF Complete(new) THEN kept \cap {new} ELSE {}
       IN
       /\ partials' = kept \ done
       /\ totalBytes' = Released(charged, (filled \ kept) \cup done)
       /\ received' = IF done = {} THEN received
                      ELSE [received EXCEPT ![p] = Append(@, Decode(new))]
       /\ lost' = lost \cup Messages((partials \ room) \cup (filled \ kept))
    /\ UNCHANGED <<now, nextId, sent, conn, cuts>>

Tick ==
    /\ now < MaxTime
    /\ now' = now + 1
    /\ UNCHANGED <<links, buffer, received, lost>>

-----------------------------------------------------------------------------

Init ==
    /\ now = 0
    /\ nextId = [p \in Peers |-> 0]
    /\ sent = [p \in Peers |-> 0]
    /\ conn = [p \in Peers |-> 0]
    /\ link = [p \in Peers |-> <<>>]
    /\ partials = {} /\ totalBytes = 0 /\ nextSweep = 0
    /\ received = [p \in Peers |-> <<>>]
    /\ lost = {} /\ cuts = 0

Next ==
    \/ Tick
    \/ \E p \in Peers :
        \/ \E len \in Lengths : Send(p, len)
        \/ Cut(p) \/ TakeWhole(p) \/ Reject(p) \/ Ingest(p)

Spec == Init /\ [][Next]_vars

-----------------------------------------------------------------------------
(* Properties.                                                             *)

Fragments == [msg : Nat, id : Nat, seq : Nat, total : Nat, size : Nat]
Keys      == [peer : Peers, conn : Nat, id : Nat]

\* The type invariant: the fields of the state, and the map's two facts that a
\* key names one partial message and a slot is one of those declared.
TypeOK ==
    /\ now \in 0..MaxTime /\ cuts \in 0..MaxCuts
    /\ nextId \in [Peers -> Nat] /\ sent \in [Peers -> 0..MaxSent]
    /\ conn \in [Peers -> 0..MaxCuts]
    /\ link \in [Peers -> Seq(Fragments)]
    /\ totalBytes \in Nat /\ nextSweep \in Nat
    /\ \A x \in partials : /\ x.key \in Keys /\ x.first \in Nat
                           /\ DOMAIN x.parts \subseteq 0..x.total - 1
    /\ \A x, y \in partials : x.key = y.key => x = y

\* The running total is what the partial messages cost, to the byte, and never
\* more than the budget; nor are there more partial messages than the two
\* counts allow.  A total that drifts up would evict for nothing until the
\* program ends, one that drifts down would let the buffer grow.
WithinBounds ==
    /\ totalBytes = MapThenSumSet(Footprint, partials)
    /\ totalBytes <= Budget
    /\ Cardinality(partials) <= Total
    /\ \A x \in partials : Cardinality(Of(partials, x.key)) <= PerPeer

\* A fragment that meets an open partial message is of the same message,
\* declares the same length and finds its slot empty, across evictions,
\* reconnections and restarts of the sender: ingest's two guards against
\* mismatched and repeated fragments are only ever that.
FragmentsFit ==
    \A p \in Peers : \A i \in DOMAIN link[p] : \A x \in partials :
        LET f == link[p][i] IN
        IsChunk(f) /\ x.key = KeyOf(p, f) =>
            /\ x.total = f.total
            /\ f.seq \notin DOMAIN x.parts
            /\ \A s \in DOMAIN x.parts : x.parts[s].msg = f.msg /\ x.parts[s].seq = s

Final(f) == ~ IsChunk(f) \/ f.seq = f.total - 1

\* The messages that may still arrive: those whose last fragment is to come.
Transit == [p \in Peers |-> {link[p][i].msg : i \in {j \in DOMAIN link[p] : Final(link[p][j])}}]

\* Fragments and their reassembly are a channel of whole messages: at most
\* once, in order, and nothing that was not sent.
Ch == INSTANCE Channel WITH transit <- Transit
ChannelSpec == Ch!Spec

Handed(p) == {received[p][i] : i \in DOMAIN received[p]}

\* No message goes missing but for a cause: refused by its sender, on a link
\* that went down, too large for this build, or evicted before its end; and
\* one that was evicted is not handed on by what came after.
LossHasCause ==
    \A p \in Peers : \A n \in 1..sent[p] :
        IF <<p, n>> \in lost THEN n \notin Handed(p)
        ELSE n \in Handed(p) \cup Transit[p]
=============================================================================
