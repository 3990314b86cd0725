---------------------------- MODULE Chunks_proofs -----------------------------
(***************************************************************************)
(* Proofs about Chunks: a fragment that meets an open partial message      *)
(* continues it; fragments and their reassembly implement Channel; no      *)
(* message is missing but for a cause; and the bytes charged are the cost  *)
(* of what is there, within the budgets.  Ids are given out once on a      *)
(* connection and a link keeps its order, so what is still on the link     *)
(* comes after what was put together, whatever is evicted meanwhile.       *)
(***************************************************************************)
EXTENDS Chunks, FiniteSetTheorems, WellFoundedInduction, TLAPS

-----------------------------------------------------------------------------
(* The invariants.                                                         *)

\* The senders' side is well typed, and a partial message has its four fields.
FieldsInv ==
    /\ nextId \in [Peers -> Nat] /\ sent \in [Peers -> Nat] /\ conn \in [Peers -> Nat]
    /\ link \in [Peers -> Seq(Fragments)]
    /\ \A x \in partials :
         x = [key |-> x.key, total |-> x.total, parts |-> x.parts, first |-> x.first]

\* The fragments a link carries under one id are those of one message, in
\* their order, and the id has been given out.
LinkInv ==
    \A p \in Peers : \A i \in DOMAIN link[p] : IsChunk(link[p][i]) =>
        /\ link[p][i].id < nextId[p]
        /\ \A j \in DOMAIN link[p] :
             i < j /\ IsChunk(link[p][j]) /\ link[p][j].id = link[p][i].id =>
               /\ link[p][j].msg = link[p][i].msg /\ link[p][j].total = link[p][i].total
               /\ link[p][i].seq < link[p][j].seq

\* A partial message is of a connection there has been, and on the present one
\* its id has been given out.
KeyInv ==
    \A x \in partials : \A p \in Peers : x.key.peer = p =>
        /\ x.key.conn \in Nat /\ x.key.id \in Nat /\ x.key.conn <= conn[p]
        /\ x.key.conn = conn[p] => x.key.id < nextId[p]

\* Fragment f continues partial message x.
Continues(f, x) ==
    /\ x.total = f.total
    /\ \A s \in DOMAIN x.parts : s \in Nat /\ s < f.seq /\ x.parts[s].msg = f.msg
                                 /\ x.parts[s].seq = s

\* A fragment comes after all those of its message that were put together.
FitInv ==
    \A p \in Peers : \A i \in DOMAIN link[p] : \A x \in partials :
        IsChunk(link[p][i]) /\ x.key = KeyOf(p, link[p][i]) => Continues(link[p][i], x)

Inv == FieldsInv /\ LinkInv /\ KeyInv /\ FitInv

-----------------------------------------------------------------------------
(* The data.                                                               *)

LEMMA ChunksType ==
    ASSUME NEW len \in Nat, len > ChunkBytes
    PROVE  Chunks(len) \in Nat /\ Chunks(len) > 0
<1>1. ChunkBytes \in Nat /\ ChunkBytes > 0
  BY ChunkAssumption
<1>2. len + ChunkBytes - 1 \in Nat /\ len + ChunkBytes - 1 >= ChunkBytes
  BY <1>1
<1>3. \A a, b \in Nat : b > 0 /\ a >= b => a \div b \in Nat /\ a \div b > 0
  BY SMT
<1>4. QED  BY <1>1, <1>2, <1>3 DEF Chunks

\* The fragments of a message that goes out in several.
LEMMA FragmentFacts ==
    ASSUME NEW n \in Nat, NEW id \in Nat, NEW len \in Lengths, len > ChunkBytes,
           NEW i \in 1..Chunks(len)
    PROVE  /\ Fragment(n, id, len, i - 1) \in Fragments
           /\ Fragment(n, id, len, i - 1).msg = n /\ Fragment(n, id, len, i - 1).id = id
           /\ Fragment(n, id, len, i - 1).seq = i - 1
           /\ Fragment(n, id, len, i - 1).total = Chunks(len)
<1>1. Chunks(len) \in Nat /\ len \in Nat /\ ChunkBytes \in Nat
  BY ChunksType, ChunkAssumption
<1>2. i - 1 \in Nat
  BY <1>1
<1>3. len - ChunkBytes * (Chunks(len) - 1) \in Nat
  <2>1. len > 0 /\ ChunkBytes > 0 /\ len + ChunkBytes - 1 \in Nat
    BY <1>1, ChunkAssumption
  <2>2. \A a, b \in Nat : b > 0 => b * (a \div b) <= a
    OBVIOUS
  <2>3. ChunkBytes * Chunks(len) <= len + ChunkBytes - 1
    BY <1>1, <2>1, <2>2 DEF Chunks
  <2>4. ChunkBytes * (Chunks(len) - 1) = ChunkBytes * Chunks(len) - ChunkBytes
    BY <1>1
  <2>5. ChunkBytes * Chunks(len) \in Nat
    BY <1>1
  <2>6. QED  BY <1>1, <2>1, <2>3, <2>4, <2>5
<1>4. QED  BY <1>1, <1>2, <1>3 DEF Fragment, Fragments

LEMMA FilledFacts ==
    ASSUME NEW x, NEW f,
           x = [key |-> x.key, total |-> x.total, parts |-> x.parts, first |-> x.first]
    PROVE  /\ Filled(x, f) = [key |-> x.key, total |-> x.total,
                              parts |-> Filled(x, f).parts, first |-> x.first]
           /\ Filled(x, f).key = x.key /\ Filled(x, f).total = x.total
           /\ DOMAIN Filled(x, f).parts = DOMAIN x.parts \cup {f.seq}
           /\ \A s \in DOMAIN x.parts : Filled(x, f).parts[s] = x.parts[s]
           /\ f.seq \notin DOMAIN x.parts =>
                /\ Filled(x, f).parts[f.seq].msg = f.msg
                /\ Filled(x, f).parts[f.seq].seq = f.seq
                /\ Filled(x, f).parts[f.seq].size = f.size
<1> DEFINE parts == [s \in DOMAIN x.parts \cup {f.seq} |->
                        IF s \in DOMAIN x.parts THEN x.parts[s]
                        ELSE [msg |-> f.msg, seq |-> f.seq, size |-> f.size]]
<1>1. Filled(x, f) = [x EXCEPT !.parts = parts]
  BY DEF Filled
<1>2. /\ DOMAIN parts = DOMAIN x.parts \cup {f.seq}
      /\ \A s \in DOMAIN x.parts : parts[s] = x.parts[s]
      /\ f.seq \notin DOMAIN x.parts => parts[f.seq].msg = f.msg /\ parts[f.seq].seq = f.seq
                                       /\ parts[f.seq].size = f.size
  OBVIOUS
<1> HIDE DEF parts
<1>3. [x EXCEPT !.parts = parts]
        = [key |-> x.key, total |-> x.total, parts |-> parts, first |-> x.first]
  OBVIOUS
<1>4. QED  BY <1>1, <1>2, <1>3

\* What is left of the partial messages, whatever is evicted, with at most one
\* that has been added to.
LEMMA IngestFacts ==
    ASSUME NEW p \in Peers, Ingest(p)
    PROVE  LET f == Head(link[p]) IN
           \E old \in partials \cup {Opened(KeyOf(p, f), f.total)} :
             /\ old.key = KeyOf(p, f)
             /\ partials' \subseteq partials \cup {Filled(old, f)}
<1> DEFINE f == Head(link[p])
           old == Partial(Fresh, p, f)
<1>1. Fresh \subseteq partials
  BY DEF Fresh
<1>2. old \in Fresh \cup {Opened(KeyOf(p, f), f.total)} /\ old.key = KeyOf(p, f)
  <2>1. CASE \E x \in Fresh : x.key = KeyOf(p, f)
    <3>1. PICK x \in Fresh : x.key = KeyOf(p, f)
      BY <2>1
    <3>2. old = CHOOSE y \in Fresh : y.key = KeyOf(p, f)
      BY <2>1 DEF Partial
    <3>3. QED  BY <3>1, <3>2
  <2>2. CASE ~ \E x \in Fresh : x.key = KeyOf(p, f)
    <3>1. old = Opened(KeyOf(p, f), f.total)
      BY <2>2 DEF Partial
    <3>2. QED  BY <3>1 DEF Opened
  <2>3. QED  BY <2>1, <2>2
<1>3. PICK room \in (IF old \in Fresh THEN {Fresh} ELSE RoomFor(Fresh, KeyOf(p, f))) :
        \E charged : \E kept \in WithinBudget((room \ {old}) \cup {Filled(old, f)}, charged) :
          partials' \subseteq kept
  BY DEF Ingest
<1> HIDE DEF old
<1>4. room \subseteq Fresh
  BY <1>3 DEF RoomFor
<1>5. PICK charged, kept : /\ kept \in WithinBudget((room \ {old}) \cup {Filled(old, f)}, charged)
                           /\ partials' \subseteq kept
  BY <1>3
<1>6. kept \subseteq (room \ {old}) \cup {Filled(old, f)}
  BY <1>5 DEF WithinBudget
<1>7. partials' \subseteq partials \cup {Filled(old, f)}
  BY <1>1, <1>4, <1>5, <1>6
<1>8. QED  BY <1>1, <1>2, <1>7

-----------------------------------------------------------------------------
(* The steps on the senders' side.                                         *)

\* What a send appends to the link of p: nothing, the message being refused;
\* the whole message; or its fragments under an id that was not given out
\* before.
Appends(p, new) ==
    /\ link' = [link EXCEPT ![p] = @ \o new]
    /\ new \in Seq(Fragments)
    /\ \A i \in DOMAIN new : new[i].msg = sent[p] + 1
    /\ lost' = IF Len(new) = 0 THEN lost \cup {<<p, sent[p] + 1>>} ELSE lost
    /\ \/ /\ nextId' = nextId /\ Len(new) <= 1
          /\ \A i \in DOMAIN new : ~ IsChunk(new[i])
       \/ /\ nextId' = [nextId EXCEPT ![p] = @ + 1]
          /\ Len(new) > 0
          /\ \A i \in DOMAIN new : /\ new[i].id = nextId[p] /\ new[i].seq = i - 1
                                   /\ new[i].total = Len(new)

LEMMA SendAppends ==
    ASSUME Inv, NEW p \in Peers, NEW len \in Lengths, Send(p, len)
    PROVE  \E new : Appends(p, new)
<1> DEFINE n == sent[p] + 1
<1>1. /\ n \in Nat /\ nextId[p] \in Nat /\ len \in Nat /\ ChunkBytes \in Nat
      /\ nextId \in [Peers -> Nat] /\ link \in [Peers -> Seq(Fragments)]
      /\ link[p] \in Seq(Fragments)
  BY ChunkAssumption DEF Inv, FieldsInv
<1>2. CASE UNCHANGED <<link, nextId>> /\ lost' = lost \cup {<<p, n>>}
  <2>1. link' = [link EXCEPT ![p] = link[p] \o <<>>]
    BY <1>1, <1>2
  <2> DEFINE none == <<>>
  <2>2. none \in Seq(Fragments) /\ DOMAIN none = {} /\ Len(none) = 0
    OBVIOUS
  <2>3. link' = [link EXCEPT ![p] = link[p] \o none]
    BY <2>1
  <2>4. lost' = IF Len(none) = 0 THEN lost \cup {<<p, sent[p] + 1>>} ELSE lost
    BY <1>2, <2>2
  <2> HIDE DEF none
  <2>5. Len(none) <= 1 /\ nextId' = nextId
    BY <1>2, <2>2
  <2>6. Appends(p, none)
    BY <2>2, <2>3, <2>4, <2>5, Zenon DEF Appends
  <2>7. QED  BY <2>6
<1>3. CASE /\ link' = [link EXCEPT ![p] = Append(@, Whole(n))] /\ nextId' = nextId
           /\ lost' = lost
  <2>1. Whole(n) \in Fragments /\ ~ IsChunk(Whole(n)) /\ Whole(n).msg = sent[p] + 1
    BY <1>1 DEF Whole, Fragments, IsChunk
  <2> DEFINE w == Whole(n)
  <2> HIDE DEF w, n
  <2>2. Append(link[p], w) = link[p] \o <<w>>
    BY <1>1, <2>1
  <2>3. <<w>> \in Seq(Fragments) /\ DOMAIN <<w>> = {1} /\ <<w>>[1] = w /\ Len(<<w>>) = 1
    BY <2>1 DEF w
  <2>4. Appends(p, <<w>>)
    BY <1>1, <1>3, <2>1, <2>2, <2>3 DEF Appends, w
  <2>5. QED  BY <2>4
<1>4. CASE /\ len > ChunkBytes
           /\ link' = [link EXCEPT ![p] = @ \o
                         [i \in 1..Chunks(len) |-> Fragment(n, nextId[p], len, i - 1)]]
           /\ nextId' = [nextId EXCEPT ![p] = @ + 1]
           /\ lost' = lost
  <2> DEFINE new == [i \in 1..Chunks(len) |-> Fragment(n, nextId[p], len, i - 1)]
  <2>1. Chunks(len) \in Nat /\ Chunks(len) > 0
    BY <1>1, <1>4, ChunksType
  <2>0. n = sent[p] + 1
    OBVIOUS
  <2> HIDE DEF n
  <2>2. \A i \in 1..Chunks(len) :
          /\ new[i] \in Fragments /\ new[i].msg = n /\ new[i].id = nextId[p]
          /\ new[i].seq = i - 1 /\ new[i].total = Chunks(len)
    BY <1>1, <1>4, FragmentFacts
  <2>3. DOMAIN new = 1..Chunks(len)
    OBVIOUS
  <2>4. link' = [link EXCEPT ![p] = @ \o new]
    BY <1>4 DEF n
  <2>5. new = [i \in 1..Chunks(len) |-> new[i]]
    OBVIOUS
  <2> HIDE DEF new
  <2>6. new \in Seq(Fragments)
    BY <2>1, <2>2, <2>5
  <2>7. Len(new) = Chunks(len)
    BY <2>1, <2>3, <2>6
  <2>8. lost' = IF Len(new) = 0 THEN lost \cup {<<p, sent[p] + 1>>} ELSE lost
    BY <1>4, <2>1, <2>7
  <2>9. /\ \A i \in DOMAIN new : new[i].msg = sent[p] + 1
        /\ Len(new) > 0
        /\ \A i \in DOMAIN new : /\ new[i].id = nextId[p] /\ new[i].seq = i - 1
                                 /\ new[i].total = Len(new)
    BY <2>0, <2>1, <2>2, <2>3, <2>7
  <2>10. Appends(p, new)
    BY <1>4, <2>4, <2>6, <2>8, <2>9, Zenon DEF Appends
  <2>11. QED  BY <2>10
<1>5. QED  BY <1>2, <1>3, <1>4 DEF Send

LEMMA SendStep ==
    ASSUME Inv, NEW p \in Peers, NEW len \in Lengths, Send(p, len)
    PROVE  Inv'
<1>1. PICK new : Appends(p, new)
  BY SendAppends
<1>2. /\ UNCHANGED <<conn, partials>>
      /\ sent' = [sent EXCEPT ![p] = @ + 1]
  BY DEF Send, buffer
<1>3. /\ link \in [Peers -> Seq(Fragments)] /\ link[p] \in Seq(Fragments)
      /\ new \in Seq(Fragments)
      /\ nextId \in [Peers -> Nat] /\ sent \in [Peers -> Nat]
  BY <1>1 DEF Inv, FieldsInv, Appends
<1> DEFINE queue == link[p] \o new
<1>4. /\ queue \in Seq(Fragments)
      /\ Len(queue) = Len(link[p]) + Len(new)
      /\ DOMAIN queue = 1..Len(queue) /\ DOMAIN link[p] = 1..Len(link[p])
      /\ DOMAIN new = 1..Len(new)
      /\ Len(link[p]) \in Nat /\ Len(new) \in Nat
  BY <1>3
<1>5. \A i \in DOMAIN queue :
        \/ i \in DOMAIN link[p] /\ queue[i] = link[p][i]
        \/ /\ i \notin DOMAIN link[p] /\ i - Len(link[p]) \in DOMAIN new
           /\ queue[i] = new[i - Len(link[p])]
  BY <1>3, <1>4
<1> HIDE DEF queue
<1>6. /\ link' = [link EXCEPT ![p] = queue]
      /\ link'[p] = queue /\ \A q \in Peers : q # p => link'[q] = link[q]
  BY <1>1, <1>3 DEF Appends, queue
<1>7. /\ nextId' \in [Peers -> Nat]
      /\ nextId[p] <= nextId'[p] /\ \A q \in Peers : q # p => nextId'[q] = nextId[q]
      /\ nextId[p] \in Nat /\ nextId'[p] \in Nat
  <2>1. CASE nextId' = nextId
    BY <1>3, <2>1
  <2>2. CASE nextId' = [nextId EXCEPT ![p] = @ + 1]
    BY <1>3, <2>2
  <2>3. QED  BY <1>1, <2>1, <2>2 DEF Appends
<1>8. \A i \in DOMAIN new : IsChunk(new[i]) =>
        /\ new[i].id = nextId[p] /\ new[i].id < nextId'[p] /\ new[i].seq = i - 1
        /\ \A j \in DOMAIN new :
             new[j].id = nextId[p] /\ new[j].seq = j - 1
             /\ new[i].msg = new[j].msg /\ new[i].total = new[j].total
  BY <1>1, <1>3 DEF Appends
<1>9. FieldsInv'
  <2>1. link' \in [Peers -> Seq(Fragments)]
    BY <1>3, <1>4, <1>6
  <2>2. sent' \in [Peers -> Nat] /\ conn' \in [Peers -> Nat]
    BY <1>2, <1>3 DEF Inv, FieldsInv
  <2>3. \A x \in partials' :
          x = [key |-> x.key, total |-> x.total, parts |-> x.parts, first |-> x.first]
    BY <1>2 DEF Inv, FieldsInv
  <2>4. QED  BY <1>7, <2>1, <2>2, <2>3 DEF FieldsInv
<1>10. LinkInv'
  <2>1. SUFFICES ASSUME NEW q \in Peers, NEW i \in DOMAIN link'[q], IsChunk(link'[q][i])
                 PROVE  /\ link'[q][i].id < nextId'[q]
                        /\ \A j \in DOMAIN link'[q] :
                             i < j /\ IsChunk(link'[q][j]) /\ link'[q][j].id = link'[q][i].id =>
                               /\ link'[q][j].msg = link'[q][i].msg
                               /\ link'[q][j].total = link'[q][i].total
                               /\ link'[q][i].seq < link'[q][j].seq
    BY DEF LinkInv, IsChunk
  <2>2. CASE q # p
    BY <1>6, <1>7, <2>1, <2>2 DEF Inv, LinkInv
  <2>3. CASE q = p
    <3>1. queue[i].id < nextId'[p]
      <4>1. CASE i \in DOMAIN link[p] /\ queue[i] = link[p][i]
        <5>1. queue[i] \in Fragments
          BY <1>3, <4>1
        <5>2. queue[i].id < nextId[p] /\ queue[i].id \in Nat
          BY <1>6, <2>1, <2>3, <4>1, <5>1 DEF Inv, LinkInv, Fragments
        <5>3. QED  BY <1>7, <5>2
      <4>2. QED  BY <1>5, <1>6, <1>8, <2>1, <2>3, <4>1
    <3>2. ASSUME NEW j \in DOMAIN queue, i < j, IsChunk(queue[j]), queue[j].id = queue[i].id
          PROVE  /\ queue[j].msg = queue[i].msg /\ queue[j].total = queue[i].total
                 /\ queue[i].seq < queue[j].seq
      <4>1. i \in DOMAIN queue /\ IsChunk(queue[i])
        BY <1>6, <2>1, <2>3
      <4>2. CASE j \in DOMAIN link[p]
        BY <1>4, <1>5, <3>2, <4>1, <4>2 DEF Inv, LinkInv
      <4>3. CASE j \notin DOMAIN link[p] /\ i \in DOMAIN link[p]
        <5>1. queue[j].id = nextId[p]
          BY <1>5, <1>8, <3>2, <4>3
        <5>2. queue[i].id < nextId[p]
          BY <1>5, <4>1, <4>3 DEF Inv, LinkInv
        <5>3. QED  BY <1>7, <3>2, <5>1, <5>2
      <4>4. CASE j \notin DOMAIN link[p] /\ i \notin DOMAIN link[p]
        <5>1. /\ queue[i] = new[i - Len(link[p])] /\ i - Len(link[p]) \in DOMAIN new
              /\ queue[j] = new[j - Len(link[p])] /\ j - Len(link[p]) \in DOMAIN new
          BY <1>5, <4>1, <4>4
        <5>2. /\ queue[i].seq = i - Len(link[p]) - 1 /\ queue[j].seq = j - Len(link[p]) - 1
              /\ queue[j].msg = queue[i].msg /\ queue[j].total = queue[i].total
          BY <1>8, <4>1, <5>1
        <5>3. QED  BY <1>4, <3>2, <4>1, <5>2
      <4>5. QED  BY <4>2, <4>3, <4>4
    <3>3. QED  BY <1>6, <2>3, <3>1, <3>2
  <2>4. QED  BY <2>2, <2>3
<1>11. KeyInv'
  <2>1. SUFFICES ASSUME NEW x \in partials, NEW q \in Peers, x.key.peer = q
                 PROVE  /\ x.key.conn \in Nat /\ x.key.id \in Nat /\ x.key.conn <= conn[q]
                        /\ x.key.conn = conn[q] => x.key.id < nextId'[q]
    BY <1>2 DEF KeyInv
  <2>2. /\ x.key.conn \in Nat /\ x.key.id \in Nat /\ x.key.conn <= conn[q]
        /\ x.key.conn = conn[q] => x.key.id < nextId[q]
    BY <2>1 DEF Inv, KeyInv
  <2>3. nextId[q] \in Nat /\ nextId'[q] \in Nat /\ nextId[q] <= nextId'[q]
    <3>1. q = p \/ nextId'[q] = nextId[q]
      BY <1>7
    <3>2. nextId[q] \in Nat
      BY <1>3
    <3>3. QED  BY <1>7, <3>1, <3>2
  <2>4. QED  BY <2>2, <2>3
<1>12. FitInv'
  <2>1. SUFFICES ASSUME NEW q \in Peers, NEW i \in DOMAIN link'[q], NEW x \in partials,
                        IsChunk(link'[q][i]), x.key = KeyOf(q, link'[q][i])
                 PROVE  Continues(link'[q][i], x)
    BY <1>2 DEF FitInv, Continues, IsChunk, KeyOf
  <2>2. CASE q # p
    BY <1>6, <2>1, <2>2 DEF Inv, FitInv
  <2>3. CASE q = p /\ i \in DOMAIN link[p]
    BY <1>5, <1>6, <2>1, <2>3 DEF Inv, FitInv
  <2>4. CASE q = p /\ i \notin DOMAIN link[p]
    <3>1. link'[p][i].id = nextId[p]
      BY <1>5, <1>6, <1>8, <2>1, <2>4
    <3>2. x.key.peer = p /\ x.key.conn = conn[p] /\ x.key.id = nextId[p]
      BY <2>1, <2>4, <3>1 DEF KeyOf
    <3>3. QED  BY <1>7, <3>2 DEF Inv, KeyInv
  <2>5. QED  BY <2>2, <2>3, <2>4
<1>13. QED  BY <1>9, <1>10, <1>11, <1>12 DEF Inv

\* A connection that comes back carries nothing yet, and no partial message is
\* of it.
LEMMA CutStep ==
    ASSUME Inv, NEW p \in Peers, Cut(p)
    PROVE  Inv'
<1>1. UNCHANGED <<sent, partials>>
  BY DEF Cut, buffer
<1>2. /\ nextId \in [Peers -> Nat] /\ conn \in [Peers -> Nat]
      /\ link \in [Peers -> Seq(Fragments)]
  BY DEF Inv, FieldsInv
<1>3. /\ conn' = [conn EXCEPT ![p] = @ + 1]
      /\ conn'[p] = conn[p] + 1 /\ conn[p] \in Nat
      /\ \A q \in Peers : q # p => conn'[q] = conn[q]
  BY <1>2 DEF Cut
<1>4. /\ link' = [link EXCEPT ![p] = <<>>]
      /\ DOMAIN link'[p] = {} /\ \A q \in Peers : q # p => link'[q] = link[q]
  BY <1>2 DEF Cut
<1>5. PICK id \in {0, nextId[p]} : nextId' = [nextId EXCEPT ![p] = id]
  BY DEF Cut
<1>6. nextId' \in [Peers -> Nat] /\ \A q \in Peers : q # p => nextId'[q] = nextId[q]
  BY <1>2, <1>5
<1>7. FieldsInv'
  <2>1. link' \in [Peers -> Seq(Fragments)]
    BY <1>2, <1>4
  <2>2. sent' \in [Peers -> Nat] /\ conn' \in [Peers -> Nat]
    BY <1>1, <1>2, <1>3 DEF Inv, FieldsInv
  <2>3. \A x \in partials' :
          x = [key |-> x.key, total |-> x.total, parts |-> x.parts, first |-> x.first]
    BY <1>1 DEF Inv, FieldsInv
  <2>4. QED  BY <1>6, <2>1, <2>2, <2>3 DEF FieldsInv
<1>8. LinkInv'
  <2>1. \A q \in Peers : q = p \/ (link'[q] = link[q] /\ nextId'[q] = nextId[q])
    BY <1>4, <1>6
  <2>2. QED  BY <1>4, <2>1 DEF Inv, LinkInv, IsChunk
<1>9. KeyInv'
  <2>1. SUFFICES ASSUME NEW x \in partials, NEW q \in Peers, x.key.peer = q
                 PROVE  /\ x.key.conn \in Nat /\ x.key.id \in Nat
                        /\ x.key.conn <= conn'[q]
                        /\ x.key.conn = conn'[q] => x.key.id < nextId'[q]
    BY <1>1 DEF KeyInv
  <2>2. /\ x.key.conn \in Nat /\ x.key.id \in Nat /\ x.key.conn <= conn[q]
        /\ x.key.conn = conn[q] => x.key.id < nextId[q]
    BY <2>1 DEF Inv, KeyInv
  <2>3. CASE q # p
    BY <1>3, <1>6, <2>2, <2>3
  <2>4. CASE q = p
    BY <1>3, <2>2, <2>4
  <2>5. QED  BY <2>3, <2>4
<1>10. FitInv'
  <2>1. SUFFICES ASSUME NEW q \in Peers, NEW i \in DOMAIN link'[q], NEW x \in partials,
                        link'[q][i].total > 0,
                        x.key = [peer |-> q, conn |-> conn'[q], id |-> link'[q][i].id]
                 PROVE  Continues(link'[q][i], x)
    BY <1>1 DEF FitInv, Continues, IsChunk, KeyOf
  <2>2. q # p
    BY <1>4, <2>1
  <2>3. link'[q] = link[q] /\ conn'[q] = conn[q]
    BY <1>3, <1>4, <2>2
  <2>4. QED  BY <2>1, <2>3 DEF Inv, FitInv, IsChunk, KeyOf
<1>11. QED  BY <1>7, <1>8, <1>9, <1>10 DEF Inv

-----------------------------------------------------------------------------
(* The steps of the receiver.                                              *)

\* The head of the link of p is taken.
LEMMA TakenFacts ==
    ASSUME Inv, NEW p \in Peers, link[p] # <<>>, link' = [link EXCEPT ![p] = Tail(@)]
    PROVE  /\ link' \in [Peers -> Seq(Fragments)]
           /\ Head(link[p]) = link[p][1] /\ 1 \in DOMAIN link[p]
           /\ Head(link[p]) \in Fragments
           /\ \A q \in Peers : \A i \in DOMAIN link'[q] :
                IF q = p THEN i + 1 \in DOMAIN link[p] /\ link'[q][i] = link[p][i + 1]
                              /\ 1 < i + 1 /\ i \in Int
                ELSE i \in DOMAIN link[q] /\ link'[q][i] = link[q][i]
<1>1. link \in [Peers -> Seq(Fragments)] /\ link[p] \in Seq(Fragments)
  BY DEF Inv, FieldsInv
<1>2. Tail(link[p]) \in Seq(Fragments)
  BY <1>1
<1>3. link'[p] = Tail(link[p]) /\ \A q \in Peers : q # p => link'[q] = link[q]
  BY <1>1
<1>4. \A i \in DOMAIN Tail(link[p]) :
        i + 1 \in DOMAIN link[p] /\ Tail(link[p])[i] = link[p][i + 1] /\ 1 < i + 1 /\ i \in Int
  BY <1>1
<1>5. link' \in [Peers -> Seq(Fragments)]
  BY <1>1, <1>2
<1>6. Head(link[p]) = link[p][1] /\ 1 \in DOMAIN link[p] /\ Head(link[p]) \in Fragments
  BY <1>1
<1>7. QED  BY <1>3, <1>4, <1>5, <1>6

\* Taking the head of a link leaves its order.
LEMMA TakenLink ==
    ASSUME Inv, NEW p \in Peers, link[p] # <<>>, link' = [link EXCEPT ![p] = Tail(@)],
           UNCHANGED <<nextId, sent, conn>>
    PROVE  LinkInv'
<1>1. SUFFICES ASSUME NEW q \in Peers, NEW i \in DOMAIN link'[q], IsChunk(link'[q][i])
               PROVE  /\ link'[q][i].id < nextId[q]
                      /\ \A j \in DOMAIN link'[q] :
                           i < j /\ IsChunk(link'[q][j]) /\ link'[q][j].id = link'[q][i].id =>
                             /\ link'[q][j].msg = link'[q][i].msg
                             /\ link'[q][j].total = link'[q][i].total
                             /\ link'[q][i].seq < link'[q][j].seq
  BY DEF LinkInv, IsChunk
<1>2. CASE q # p
  BY <1>1, <1>2, TakenFacts DEF Inv, LinkInv
<1>3. CASE q = p
  <2>1. /\ i + 1 \in DOMAIN link[p] /\ link'[p][i] = link[p][i + 1] /\ i \in Int
        /\ \A j \in DOMAIN link'[p] :
             j + 1 \in DOMAIN link[p] /\ link'[p][j] = link[p][j + 1] /\ j \in Int
    BY <1>1, <1>3, TakenFacts
  <2>2. link'[p][i].id < nextId[p]
    BY <1>1, <1>3, <2>1 DEF Inv, LinkInv
  <2>3. ASSUME NEW j \in DOMAIN link'[p], i < j, IsChunk(link'[p][j]),
               link'[p][j].id = link'[p][i].id
        PROVE  /\ link'[p][j].msg = link'[p][i].msg
               /\ link'[p][j].total = link'[p][i].total
               /\ link'[p][i].seq < link'[p][j].seq
    <3>1. i + 1 < j + 1
      BY <2>1, <2>3
    <3>2. QED  BY <1>1, <1>3, <2>1, <2>3, <3>1 DEF Inv, LinkInv
  <2>4. QED  BY <1>3, <2>2, <2>3
<1>4. QED  BY <1>2, <1>3

\* Nothing that was put together is new: the message taken was whole, or the
\* fragment taken was refused.
LEMMA DropStep ==
    ASSUME Inv, NEW p \in Peers, link[p] # <<>>, link' = [link EXCEPT ![p] = Tail(@)],
           UNCHANGED <<nextId, sent, conn>>, partials' \subseteq partials
    PROVE  Inv'
<1>1. FieldsInv'
  BY TakenFacts DEF Inv, FieldsInv
<1>2. LinkInv'
  BY TakenLink
<1>3. KeyInv'
  BY DEF Inv, KeyInv
<1>4. FitInv'
  <2>1. SUFFICES ASSUME NEW q \in Peers, NEW i \in DOMAIN link'[q], NEW x \in partials,
                        IsChunk(link'[q][i]), x.key = KeyOf(q, link'[q][i])
                 PROVE  Continues(link'[q][i], x)
    BY DEF FitInv, Continues, IsChunk, KeyOf
  <2>2. \E k \in DOMAIN link[q] : link'[q][i] = link[q][k]
    <3>1. CASE q = p
      <4>1. link'[p] = Tail(link[p]) /\ link[p] \in Seq(Fragments)
        BY DEF Inv, FieldsInv
      <4>2. i \in DOMAIN Tail(link[p])
        BY <2>1, <3>1, <4>1
      <4>3. \A k \in DOMAIN Tail(link[p]) :
              k + 1 \in DOMAIN link[p] /\ Tail(link[p])[k] = link[p][k + 1]
        BY <4>1
      <4>4. QED  BY <3>1, <4>1, <4>2, <4>3
    <3>2. CASE q # p
      BY <2>1, <3>2, TakenFacts
    <3>3. QED  BY <3>1, <3>2
  <2>3. QED  BY <2>1, <2>2 DEF Inv, FitInv
<1>5. QED  BY <1>1, <1>2, <1>3, <1>4 DEF Inv

\* A fragment put where it belongs: what follows it on its link continues the
\* partial message it went into.
LEMMA IngestStep ==
    ASSUME Inv, NEW p \in Peers, Ingest(p)
    PROVE  Inv'
<1> DEFINE f == Head(link[p])
<1>1. /\ link[p] # <<>> /\ link' = [link EXCEPT ![p] = Tail(@)]
      /\ UNCHANGED <<nextId, sent, conn>> /\ IsChunk(f)
  BY DEF Ingest
<1>2. /\ f = link[p][1] /\ 1 \in DOMAIN link[p] /\ f \in Fragments
  BY <1>1, TakenFacts
<1>3. PICK old \in partials \cup {Opened(KeyOf(p, f), f.total)} :
        old.key = KeyOf(p, f) /\ partials' \subseteq partials \cup {Filled(old, f)}
  BY IngestFacts
<1>4. /\ old = [key |-> old.key, total |-> old.total, parts |-> old.parts,
                 first |-> old.first]
      /\ Continues(f, old)
  <2>1. CASE old \in partials
    BY <1>1, <1>2, <1>3, <2>1 DEF Inv, FieldsInv, FitInv
  <2>2. CASE old = Opened(KeyOf(p, f), f.total)
    BY <2>2 DEF Opened, Continues
  <2>3. QED  BY <2>1, <2>2
<1> DEFINE new == Filled(old, f)
<1>5. /\ new = [key |-> old.key, total |-> old.total, parts |-> new.parts,
                 first |-> old.first]
      /\ new.key = KeyOf(p, f) /\ new.total = f.total
      /\ DOMAIN new.parts = DOMAIN old.parts \cup {f.seq}
      /\ \A s \in DOMAIN old.parts : new.parts[s] = old.parts[s]
      /\ f.seq \notin DOMAIN old.parts =>
           new.parts[f.seq].msg = f.msg /\ new.parts[f.seq].seq = f.seq
  BY <1>3, <1>4, FilledFacts DEF Continues
<1>6. f.seq \in Nat /\ f.id \in Nat
  BY <1>2 DEF Fragments
<1>7. f.seq \notin DOMAIN old.parts
  BY <1>4, <1>6 DEF Continues
<1>8. \A s \in DOMAIN new.parts :
        s \in Nat /\ s <= f.seq /\ new.parts[s].msg = f.msg /\ new.parts[s].seq = s
  BY <1>4, <1>5, <1>6, <1>7 DEF Continues
<1>9. partials' \subseteq partials \cup {new}
  BY <1>3
<1> HIDE DEF new
<1>10. FieldsInv'
  <2>1. new = [key |-> new.key, total |-> new.total, parts |-> new.parts, first |-> new.first]
    BY <1>5
  <2>2. \A x \in partials' :
          x = [key |-> x.key, total |-> x.total, parts |-> x.parts, first |-> x.first]
    BY <1>9, <2>1 DEF Inv, FieldsInv
  <2>3. QED  BY <1>1, <2>2, TakenFacts DEF Inv, FieldsInv
<1>11. LinkInv'
  BY <1>1, TakenLink
<1>12. KeyInv'
  <2>1. f.id < nextId[p]
    BY <1>1, <1>2 DEF Inv, LinkInv
  <2>2. /\ new.key.peer = p /\ new.key.conn = conn[p] /\ new.key.id = f.id
        /\ conn[p] \in Nat
    BY <1>5 DEF KeyOf, Inv, FieldsInv
  <2>3. QED  BY <1>1, <1>6, <1>9, <2>1, <2>2 DEF Inv, KeyInv
<1>13. FitInv'
  <2>1. SUFFICES ASSUME NEW q \in Peers, NEW i \in DOMAIN link'[q],
                        NEW x \in partials \cup {new},
                        IsChunk(link'[q][i]), x.key = KeyOf(q, link'[q][i])
                 PROVE  Continues(link'[q][i], x)
    <3>1. \A q \in Peers : \A i \in DOMAIN link'[q] : \A x \in partials \cup {new} :
            IsChunk(link'[q][i]) /\ x.key = KeyOf(q, link'[q][i]) => Continues(link'[q][i], x)
      BY <2>1
    <3>2. conn' = conn
      BY <1>1
    <3>3. QED  BY <1>9, <3>1, <3>2 DEF FitInv, Continues, IsChunk, KeyOf
  <2>2. CASE x \in partials
    <3>1. \E k \in DOMAIN link[q] : link'[q][i] = link[q][k]
      <4>1. CASE q = p
        BY <1>1, <2>1, <4>1, TakenFacts
      <4>2. CASE q # p
        BY <1>1, <2>1, <4>2, TakenFacts
      <4>3. QED  BY <4>1, <4>2
    <3>2. QED  BY <2>1, <2>2, <3>1 DEF Inv, FitInv
  <2>3. CASE x = new
    <3>1. q = p /\ link'[q][i].id = f.id
      BY <1>5, <2>1, <2>3 DEF KeyOf
    <3>2. PICK k \in DOMAIN link[p] : link'[p][i] = link[p][k] /\ 1 < k
      BY <1>1, <2>1, <3>1, TakenFacts
    <3>3. /\ link[p][k].msg = f.msg /\ link[p][k].total = f.total
          /\ f.seq < link[p][k].seq
      BY <1>1, <1>2, <2>1, <3>1, <3>2 DEF Inv, LinkInv
    <3>4. link[p][k].seq \in Nat
      <4>1. link[p] \in Seq(Fragments)
        BY DEF Inv, FieldsInv
      <4>2. link[p][k] \in Fragments
        BY <3>2, <4>1
      <4>3. QED  BY <4>2 DEF Fragments
    <3>5. \A s \in DOMAIN new.parts : s < link[p][k].seq
      BY <1>6, <1>8, <3>3, <3>4
    <3>6. Continues(link[p][k], new)
      BY <1>5, <1>8, <3>3, <3>5 DEF Continues
    <3>7. QED  BY <2>3, <3>1, <3>2, <3>6
  <2>4. QED  BY <2>1, <2>2, <2>3
<1>14. QED  BY <1>10, <1>11, <1>12, <1>13 DEF Inv

-----------------------------------------------------------------------------
(* The theorem.                                                            *)

LEMMA InitInv == Init => Inv
<1>1. SUFFICES ASSUME Init PROVE Inv
  OBVIOUS
<1>2. FieldsInv
  BY <1>1 DEF Init, FieldsInv
<1>3. \A p \in Peers : DOMAIN link[p] = {}
  BY <1>1 DEF Init
<1>4. LinkInv /\ KeyInv /\ FitInv
  BY <1>1, <1>3 DEF Init, LinkInv, KeyInv, FitInv
<1>5. QED  BY <1>2, <1>4 DEF Inv

LEMMA NextInv == Inv /\ [Next]_vars => Inv'
<1>1. SUFFICES ASSUME Inv, [Next]_vars PROVE Inv'
  OBVIOUS
<1>2. ASSUME NEW p \in Peers, NEW len \in Lengths, Send(p, len) PROVE Inv'
  BY <1>1, <1>2, SendStep
<1>3. ASSUME NEW p \in Peers, Cut(p) PROVE Inv'
  BY <1>1, <1>3, CutStep
<1>4. ASSUME NEW p \in Peers, TakeWhole(p) PROVE Inv'
  BY <1>1, <1>4, DropStep DEF TakeWhole, buffer
<1>5. ASSUME NEW p \in Peers, Reject(p) PROVE Inv'
  <2>1. partials' \subseteq partials
    BY <1>5 DEF Reject, Fresh
  <2>2. QED  BY <1>1, <1>5, <2>1, DropStep DEF Reject
<1>6. ASSUME NEW p \in Peers, Ingest(p) PROVE Inv'
  BY <1>1, <1>6, IngestStep
<1>7. CASE UNCHANGED <<links, buffer>>
  <2>1. UNCHANGED <<nextId, sent, conn, link, partials>>
    BY <1>7 DEF links, buffer
  <2>2. FieldsInv' /\ LinkInv' /\ KeyInv' /\ FitInv'
    BY <1>1, <2>1 DEF Inv, FieldsInv, LinkInv, KeyInv, FitInv, KeyOf
  <2>3. QED  BY <2>2 DEF Inv
<1>8. QED  BY <1>1, <1>2, <1>3, <1>4, <1>5, <1>6, <1>7 DEF Next, Tick, vars

\* A fragment that meets an open partial message always continues it: same
\* message, same length, a slot not filled yet.  The guards of ingest against
\* mismatched and repeated fragments never fire on what this build sends,
\* whatever the budgets, the age and the number of peers.
THEOREM FragmentsFitCorrect == Spec => []FragmentsFit
<1>1. Inv => FragmentsFit
  <2>1. SUFFICES ASSUME Inv, NEW p \in Peers, NEW i \in DOMAIN link[p], NEW x \in partials,
                        IsChunk(link[p][i]), x.key = KeyOf(p, link[p][i])
                 PROVE  /\ x.total = link[p][i].total
                        /\ link[p][i].seq \notin DOMAIN x.parts
                        /\ \A s \in DOMAIN x.parts :
                             x.parts[s].msg = link[p][i].msg /\ x.parts[s].seq = s
    BY DEF FragmentsFit
  <2>2. Continues(link[p][i], x)
    BY <2>1 DEF Inv, FitInv
  <2>3. QED  BY <2>2 DEF Continues
<1>2. QED  BY <1>1, InitInv, NextInv, PTL DEF Spec

-----------------------------------------------------------------------------
(* The channel: fragments and their reassembly, seen as whole messages.    *)

\* A link carries messages in the order they were sent, and nothing of a later
\* one before the last fragment of an earlier one.
OrderInv ==
    \A p \in Peers : \A i \in DOMAIN link[p] :
        /\ link[p][i].msg > 0 /\ link[p][i].msg <= sent[p]
        /\ \A j \in DOMAIN link[p] : i < j =>
              /\ link[p][i].msg <= link[p][j].msg
              /\ Final(link[p][i]) => link[p][i].msg < link[p][j].msg

\* What a send leaves on its link.
LEMMA SentFacts ==
    ASSUME Inv, NEW p \in Peers, NEW new, Appends(p, new)
    PROVE  /\ link[p] \in Seq(Fragments) /\ new \in Seq(Fragments)
           /\ link'[p] = link[p] \o new /\ \A q \in Peers : q # p => link'[q] = link[q]
           /\ DOMAIN link[p] = 1..Len(link[p]) /\ DOMAIN new = 1..Len(new)
           /\ DOMAIN link'[p] = 1..(Len(link[p]) + Len(new))
           /\ Len(link[p]) \in Nat /\ Len(new) \in Nat
           /\ \A i \in DOMAIN link'[p] :
                \/ i \in DOMAIN link[p] /\ link'[p][i] = link[p][i]
                \/ /\ i > Len(link[p]) /\ i - Len(link[p]) \in DOMAIN new
                   /\ link'[p][i] = new[i - Len(link[p])]
<1>1. /\ link \in [Peers -> Seq(Fragments)] /\ link[p] \in Seq(Fragments)
      /\ new \in Seq(Fragments)
  BY DEF Inv, FieldsInv, Appends
<1>2. link'[p] = link[p] \o new /\ \A q \in Peers : q # p => link'[q] = link[q]
  BY <1>1 DEF Appends
<1> DEFINE queue == link[p] \o new
<1>3. /\ queue \in Seq(Fragments)
      /\ Len(queue) = Len(link[p]) + Len(new)
      /\ DOMAIN queue = 1..Len(queue) /\ DOMAIN link[p] = 1..Len(link[p])
      /\ DOMAIN new = 1..Len(new)
      /\ Len(link[p]) \in Nat /\ Len(new) \in Nat
  BY <1>1
<1>4. \A i \in DOMAIN queue :
        \/ i \in DOMAIN link[p] /\ queue[i] = link[p][i]
        \/ /\ i > Len(link[p]) /\ i - Len(link[p]) \in DOMAIN new
           /\ queue[i] = new[i - Len(link[p])]
  BY <1>1, <1>3
<1> HIDE DEF queue
<1>5. link'[p] = queue
  BY <1>2 DEF queue
<1>6. QED  BY <1>1, <1>2, <1>3, <1>4, <1>5

LEMMA SendOrder ==
    ASSUME Inv, OrderInv, NEW p \in Peers, NEW len \in Lengths, Send(p, len)
    PROVE  OrderInv'
<1>1. PICK new : Appends(p, new)
  BY SendAppends
<1>2. /\ sent'[p] = sent[p] + 1 /\ sent[p] \in Nat
      /\ \A q \in Peers : q # p => sent'[q] = sent[q]
  BY DEF Send, Inv, FieldsInv
<1>3. /\ \A q \in Peers : q # p => link'[q] = link[q]
      /\ DOMAIN new = 1..Len(new) /\ Len(link[p]) \in Nat /\ Len(new) \in Nat
      /\ DOMAIN link[p] = 1..Len(link[p]) /\ link[p] \in Seq(Fragments)
      /\ DOMAIN link'[p] = 1..(Len(link[p]) + Len(new))
      /\ \A i \in DOMAIN link'[p] :
                \/ i \in DOMAIN link[p] /\ link'[p][i] = link[p][i]
                \/ /\ i > Len(link[p]) /\ i - Len(link[p]) \in DOMAIN new
                   /\ link'[p][i] = new[i - Len(link[p])]
  BY <1>1, SentFacts
<1>4. \A i \in DOMAIN new : new[i].msg = sent[p] + 1
  BY <1>1 DEF Appends
<1>5. \A i, j \in DOMAIN new : i < j => ~ Final(new[i])
  BY <1>1, <1>3 DEF Appends, Final, IsChunk
<1>6. \A i \in DOMAIN link[p] : link[p][i].msg > 0 /\ link[p][i].msg <= sent[p]
                                /\ link[p][i].msg \in Nat
  <2>1. \A i \in DOMAIN link[p] : link[p][i] \in Fragments
    BY <1>3
  <2>2. \A i \in DOMAIN link[p] : link[p][i].msg \in Nat
    BY <2>1 DEF Fragments
  <2>3. QED  BY <2>2 DEF OrderInv
<1>7. SUFFICES ASSUME NEW q \in Peers, NEW i \in DOMAIN link'[q]
               PROVE  /\ link'[q][i].msg > 0 /\ link'[q][i].msg <= sent'[q]
                      /\ \A j \in DOMAIN link'[q] : i < j =>
                            /\ link'[q][i].msg <= link'[q][j].msg
                            /\ Final(link'[q][i]) => link'[q][i].msg < link'[q][j].msg
  BY DEF OrderInv, Final, IsChunk
<1>8. CASE q # p
  BY <1>2, <1>3, <1>7, <1>8 DEF OrderInv
<1>9. CASE q = p
  <2>1. link'[p][i].msg > 0 /\ link'[p][i].msg <= sent'[p]
    <3>1. link'[p][i].msg \in Nat /\ link'[p][i].msg > 0 /\ link'[p][i].msg <= sent[p] + 1
      <4>1. CASE i \in DOMAIN link[p] /\ link'[p][i] = link[p][i]
        BY <1>2, <1>6, <4>1
      <4>2. CASE i - Len(link[p]) \in DOMAIN new /\ link'[p][i] = new[i - Len(link[p])]
        BY <1>2, <1>4, <4>2
      <4>3. QED  BY <1>3, <1>7, <1>9, <4>1, <4>2
    <3>2. QED  BY <1>2, <3>1
  <2>2. ASSUME NEW j \in DOMAIN link'[p], i < j
        PROVE  /\ link'[p][i].msg <= link'[p][j].msg
               /\ Final(link'[p][i]) => link'[p][i].msg < link'[p][j].msg
    <3>1. CASE i \in DOMAIN link[p] /\ j \in DOMAIN link[p]
      BY <1>3, <1>7, <1>9, <2>2, <3>1 DEF OrderInv
    <3>2. CASE i \in DOMAIN link[p] /\ j \notin DOMAIN link[p]
      <4>1. link'[p][j].msg = sent[p] + 1
        BY <1>3, <1>4, <3>2
      <4>2. link'[p][i] = link[p][i]
        BY <1>3, <1>7, <1>9, <3>2
      <4>3. QED  BY <1>2, <1>6, <3>2, <4>1, <4>2
    <3>3. CASE i \notin DOMAIN link[p]
      <4>1. j \notin DOMAIN link[p] /\ i \in Int /\ j \in Int
        BY <1>3, <1>7, <1>9, <2>2, <3>3
      <4>2. /\ i - Len(link[p]) \in DOMAIN new /\ link'[p][i] = new[i - Len(link[p])]
            /\ j - Len(link[p]) \in DOMAIN new /\ link'[p][j] = new[j - Len(link[p])]
        BY <1>3, <1>7, <1>9, <3>3, <4>1
      <4>3. ~ Final(link'[p][i])
        BY <1>3, <1>5, <2>2, <4>1, <4>2
      <4>4. link'[p][i].msg = link'[p][j].msg /\ link'[p][i].msg = sent[p] + 1
        BY <1>4, <4>2
      <4>5. QED  BY <1>2, <4>3, <4>4
    <3>4. QED  BY <3>1, <3>2, <3>3
  <2>3. QED  BY <1>9, <2>1, <2>2
<1>10. QED  BY <1>8, <1>9

LEMMA CutOrder ==
    ASSUME Inv, OrderInv, NEW p \in Peers, Cut(p)
    PROVE  OrderInv'
<1>1. UNCHANGED sent
  BY DEF Cut
<1>2. DOMAIN link'[p] = {} /\ \A q \in Peers : q # p => link'[q] = link[q]
  BY DEF Cut, Inv, FieldsInv
<1>3. QED  BY <1>1, <1>2 DEF OrderInv, Final, IsChunk

LEMMA TakenOrder ==
    ASSUME Inv, OrderInv, NEW p \in Peers, link[p] # <<>>,
           link' = [link EXCEPT ![p] = Tail(@)], UNCHANGED sent
    PROVE  OrderInv'
<1>1. SUFFICES ASSUME NEW q \in Peers, NEW i \in DOMAIN link'[q]
               PROVE  /\ link'[q][i].msg > 0 /\ link'[q][i].msg <= sent[q]
                      /\ \A j \in DOMAIN link'[q] : i < j =>
                            /\ link'[q][i].msg <= link'[q][j].msg
                            /\ Final(link'[q][i]) => link'[q][i].msg < link'[q][j].msg
  BY DEF OrderInv, Final, IsChunk
<1>2. CASE q # p
  BY <1>1, <1>2, TakenFacts DEF OrderInv
<1>3. CASE q = p
  <2>1. /\ i + 1 \in DOMAIN link[p] /\ link'[p][i] = link[p][i + 1] /\ i \in Int
        /\ \A j \in DOMAIN link'[p] :
             j + 1 \in DOMAIN link[p] /\ link'[p][j] = link[p][j + 1] /\ j \in Int
    BY <1>1, <1>3, TakenFacts
  <2>2. \A j \in DOMAIN link'[p] : i < j => i + 1 < j + 1
    BY <2>1
  <2>3. QED  BY <1>3, <2>1, <2>2 DEF OrderInv
<1>4. QED  BY <1>2, <1>3

\* The messages whose last fragment a queue carries.
Due(queue) == {queue[i].msg : i \in {j \in DOMAIN queue : Final(queue[j])}}

LEMMA DueJoins ==
    ASSUME NEW a \in Seq(Fragments), NEW b \in Seq(Fragments)
    PROVE  Due(a \o b) = Due(a) \cup Due(b)
<1> DEFINE c == a \o b
<1>1. /\ DOMAIN c = 1..(Len(a) + Len(b)) /\ DOMAIN a = 1..Len(a) /\ DOMAIN b = 1..Len(b)
      /\ Len(a) \in Nat /\ Len(b) \in Nat
      /\ \A i \in DOMAIN a : i \in DOMAIN c /\ c[i] = a[i]
      /\ \A i \in DOMAIN b : i + Len(a) \in DOMAIN c /\ c[i + Len(a)] = b[i]
  OBVIOUS
<1>2. \A i \in DOMAIN c : \/ i \in DOMAIN a /\ c[i] = a[i]
                          \/ i - Len(a) \in DOMAIN b /\ c[i] = b[i - Len(a)]
  OBVIOUS
<1> HIDE DEF c
<1>3. ASSUME NEW n \in Due(c) PROVE n \in Due(a) \cup Due(b)
  BY <1>2 DEF Due
<1>4. ASSUME NEW n \in Due(a) \cup Due(b) PROVE n \in Due(c)
  BY <1>1 DEF Due
<1>5. Due(c) = Due(a) \cup Due(b)
  BY <1>3, <1>4
<1>6. QED  BY <1>5 DEF c

LEMMA DueTaken ==
    ASSUME NEW l \in Seq(Fragments), l # <<>>
    PROVE  /\ Final(Head(l)) => Due(l) = {Head(l).msg} \cup Due(Tail(l))
           /\ ~ Final(Head(l)) => Due(l) = Due(Tail(l))
<1>1. /\ 1 \in DOMAIN l /\ Head(l) = l[1]
      /\ \A i \in DOMAIN l : i = 1 \/ (i - 1 \in DOMAIN Tail(l) /\ l[i] = Tail(l)[i - 1])
      /\ \A i \in DOMAIN Tail(l) : i + 1 \in DOMAIN l /\ l[i + 1] = Tail(l)[i]
  OBVIOUS
<1>2. ASSUME NEW n \in Due(l) PROVE n \in Due(Tail(l)) \/ (Final(l[1]) /\ n = l[1].msg)
  <2>1. PICK i \in DOMAIN l : Final(l[i]) /\ n = l[i].msg
    BY DEF Due
  <2>2. CASE i = 1
    BY <2>1, <2>2
  <2>3. CASE i # 1
    <3>1. i - 1 \in DOMAIN Tail(l) /\ l[i] = Tail(l)[i - 1]
      BY <1>1, <2>3
    <3>2. QED  BY <2>1, <3>1 DEF Due
  <2>4. QED  BY <2>2, <2>3
<1>3. Due(Tail(l)) \subseteq Due(l)
  BY <1>1 DEF Due
<1>4. Final(l[1]) => l[1].msg \in Due(l)
  BY <1>1 DEF Due
<1>5. QED  BY <1>1, <1>2, <1>3, <1>4

\* A step on one link leaves what is due on the others.
LEMMA TransitStep ==
    ASSUME NEW p \in Peers, \A q \in Peers : q # p => link'[q] = link[q]
    PROVE  /\ Transit = [q \in Peers |-> Due(link[q])]
           /\ Transit' = [Transit EXCEPT ![p] = Due(link'[p])]
<1>1. Transit = [q \in Peers |-> Due(link[q])]
  BY DEF Transit, Due
<1>2. Transit' = [q \in Peers |-> Due(link'[q])]
  BY DEF Transit, Due, Final, IsChunk
<1>3. QED  BY <1>1, <1>2

LEMMA SendChannel ==
    ASSUME Inv, NEW p \in Peers, NEW len \in Lengths, Send(p, len)
    PROVE  Ch!Send(p)
<1>1. PICK new : Appends(p, new)
  BY SendAppends
<1>2. /\ link[p] \in Seq(Fragments) /\ new \in Seq(Fragments)
      /\ link'[p] = link[p] \o new /\ \A q \in Peers : q # p => link'[q] = link[q]
  BY <1>1, SentFacts
<1>3. /\ Transit = [q \in Peers |-> Due(link[q])]
      /\ Transit' = [Transit EXCEPT ![p] = Due(link[p]) \cup Due(new)]
  BY <1>2, TransitStep, DueJoins
<1>4. Due(new) \subseteq {sent[p] + 1}
  BY <1>1 DEF Appends, Due
<1>5. Due(new) = {} \/ Due(new) = {sent[p] + 1}
  BY <1>4
<1> HIDE DEF Transit
<1>6. \/ Transit' = [Transit EXCEPT ![p] = Transit[p] \cup {sent[p] + 1}]
      \/ Transit' = Transit
  BY <1>3, <1>5
<1>7. sent' = [sent EXCEPT ![p] = @ + 1] /\ received' = received
  BY DEF Send
<1>8. QED  BY <1>6, <1>7 DEF Ch!Send

LEMMA CutChannel ==
    ASSUME Inv, NEW p \in Peers, Cut(p)
    PROVE  Ch!Cut(p)
<1>1. DOMAIN link'[p] = {} /\ \A q \in Peers : q # p => link'[q] = link[q]
  BY DEF Cut, Inv, FieldsInv
<1>2. Due(link'[p]) = {}
  BY <1>1 DEF Due
<1>3. Transit' = [Transit EXCEPT ![p] = {}]
  BY <1>1, <1>2, TransitStep
<1>4. sent' = sent /\ received' = received
  BY DEF Cut
<1>5. QED  BY <1>3, <1>4 DEF Ch!Cut

\* The head of a link is taken: its message has passed if that was the last of
\* it.
LEMMA TakenTransit ==
    ASSUME Inv, OrderInv, NEW p \in Peers, link[p] # <<>>,
           link' = [link EXCEPT ![p] = Tail(@)]
    PROVE  /\ ~ Final(Head(link[p])) => Transit' = Transit
           /\ Final(Head(link[p])) =>
                /\ Head(link[p]).msg \in Transit[p]
                /\ Transit' = [Transit EXCEPT ![p] = {k \in @ : k > Head(link[p]).msg}]
<1>1. /\ link \in [Peers -> Seq(Fragments)] /\ link[p] \in Seq(Fragments)
      /\ link'[p] = Tail(link[p]) /\ \A q \in Peers : q # p => link'[q] = link[q]
  BY DEF Inv, FieldsInv
<1>2. /\ Transit = [q \in Peers |-> Due(link[q])]
      /\ Transit' = [Transit EXCEPT ![p] = Due(Tail(link[p]))]
  BY <1>1, TransitStep
<1> HIDE DEF Transit
<1>3. CASE ~ Final(Head(link[p]))
  BY <1>1, <1>2, <1>3, DueTaken
<1>4. CASE Final(Head(link[p]))
  <2> DEFINE n == Head(link[p]).msg
  <2>1. Due(link[p]) = {n} \cup Due(Tail(link[p]))
    BY <1>1, <1>4, DueTaken
  <2>2. n \in Nat
    BY TakenFacts DEF Fragments
  <2>3. ASSUME NEW k \in Due(Tail(link[p])) PROVE k > n
    <3>1. PICK i \in DOMAIN Tail(link[p]) : k = Tail(link[p])[i].msg
      BY <2>3 DEF Due
    <3>2. /\ i + 1 \in DOMAIN link[p] /\ Tail(link[p])[i] = link[p][i + 1] /\ 1 < i + 1
          /\ 1 \in DOMAIN link[p] /\ Head(link[p]) = link[p][1]
          /\ link[p][i + 1] \in Fragments
      BY <1>1, <3>1
    <3>3. link[p][1].msg < link[p][i + 1].msg
      BY <1>4, <3>2 DEF OrderInv
    <3>4. QED  BY <2>2, <3>1, <3>2, <3>3 DEF Fragments
  <2>4. ~ (n > n)
    BY <2>2
  <2> HIDE DEF n
  <2>5. Due(Tail(link[p])) = {k \in Due(link[p]) : k > n}
    BY <2>1, <2>3, <2>4
  <2>6. n \in Transit[p] /\ Transit' = [Transit EXCEPT ![p] = {k \in Transit[p] : k > n}]
    BY <1>2, <2>1, <2>5
  <2>7. QED  BY <1>4, <2>6 DEF n
<1>5. QED  BY <1>3, <1>4

\* What an ingest of fragment f does, but for the bytes: old is the partial
\* message it is for, room what is left to make room for it, kept what the
\* budget leaves.
Done(new, kept) == IF Complete(new) THEN kept \cap {new} ELSE {}

Ingests(p, f, old, new, room, kept) ==
    /\ old.key = KeyOf(p, f) /\ new = Filled(old, f)
    /\ \/ old \in Fresh /\ room = Fresh
       \/ /\ old = Opened(KeyOf(p, f), f.total) /\ room \subseteq Fresh
          /\ \A x \in Fresh : x.key # KeyOf(p, f)
    /\ kept \subseteq (room \ {old}) \cup {new}
    /\ partials' = kept \ Done(new, kept)
    /\ received' = IF Done(new, kept) = {} THEN received
                   ELSE [received EXCEPT ![p] = Append(@, Decode(new))]
    /\ lost' = lost \cup Messages((partials \ room) \cup (((room \ {old}) \cup {new}) \ kept))

\* And for the bytes.
Charges(p, f, old, new, room, kept, charged) ==
    /\ old \in Fresh \/ room \in RoomFor(Fresh, KeyOf(p, f))
    /\ charged = Released(totalBytes, partials \ room)
                   + (IF old \in Fresh THEN 0 ELSE Overhead(f.total))
                   + (IF f.seq \in DOMAIN old.parts THEN 0 ELSE f.size)
    /\ kept \in WithinBudget((room \ {old}) \cup {new}, charged)
    /\ totalBytes' = Released(charged, (((room \ {old}) \cup {new}) \ kept) \cup Done(new, kept))

LEMMA IngestShape ==
    ASSUME NEW p \in Peers, Ingest(p), NEW f, f = Head(link[p])
    PROVE  \E old, new, room, kept, charged :
              /\ Ingests(p, f, old, new, room, kept)
              /\ Charges(p, f, old, new, room, kept, charged)
<1> DEFINE old == Partial(Fresh, p, f)
           new == Filled(old, f)
<1>1. /\ old.key = KeyOf(p, f)
      /\ \/ old \in Fresh
         \/ old = Opened(KeyOf(p, f), f.total) /\ \A x \in Fresh : x.key # KeyOf(p, f)
  <2>1. CASE \E x \in Fresh : x.key = KeyOf(p, f)
    <3>1. PICK x \in Fresh : x.key = KeyOf(p, f)
      BY <2>1
    <3>2. old = CHOOSE y \in Fresh : y.key = KeyOf(p, f)
      BY <2>1 DEF Partial
    <3>3. QED  BY <3>1, <3>2
  <2>2. CASE ~ \E x \in Fresh : x.key = KeyOf(p, f)
    <3>1. old = Opened(KeyOf(p, f), f.total)
      BY <2>2 DEF Partial
    <3>2. QED  BY <2>2, <3>1 DEF Opened
  <2>3. QED  BY <2>1, <2>2
<1>2. PICK room \in (IF old \in Fresh THEN {Fresh} ELSE RoomFor(Fresh, KeyOf(p, f))) :
        \E charged : \E kept \in WithinBudget((room \ {old}) \cup {new}, charged) :
          /\ charged = Released(totalBytes, partials \ room)
                         + (IF old \in Fresh THEN 0 ELSE Overhead(f.total))
                         + (IF f.seq \in DOMAIN old.parts THEN 0 ELSE f.size)
          /\ partials' = kept \ Done(new, kept)
          /\ totalBytes' = Released(charged, (((room \ {old}) \cup {new}) \ kept)
                                            \cup Done(new, kept))
          /\ received' = IF Done(new, kept) = {} THEN received
                         ELSE [received EXCEPT ![p] = Append(@, Decode(new))]
          /\ lost' = lost \cup Messages((partials \ room)
                                        \cup (((room \ {old}) \cup {new}) \ kept))
  BY DEF Ingest, Done
<1> HIDE DEF old, new
<1>3. PICK charged, kept :
        /\ kept \in WithinBudget((room \ {old}) \cup {new}, charged)
        /\ charged = Released(totalBytes, partials \ room)
                       + (IF old \in Fresh THEN 0 ELSE Overhead(f.total))
                       + (IF f.seq \in DOMAIN old.parts THEN 0 ELSE f.size)
        /\ partials' = kept \ Done(new, kept)
        /\ totalBytes' = Released(charged, (((room \ {old}) \cup {new}) \ kept)
                                          \cup Done(new, kept))
        /\ received' = IF Done(new, kept) = {} THEN received
                       ELSE [received EXCEPT ![p] = Append(@, Decode(new))]
        /\ lost' = lost \cup Messages((partials \ room)
                                      \cup (((room \ {old}) \cup {new}) \ kept))
  BY <1>2
<1>4. kept \subseteq (room \ {old}) \cup {new}
  BY <1>3 DEF WithinBudget
<1>5. \/ old \in Fresh /\ room = Fresh
      \/ /\ old = Opened(KeyOf(p, f), f.total) /\ room \subseteq Fresh
         /\ \A x \in Fresh : x.key # KeyOf(p, f)
  BY <1>1, <1>2 DEF RoomFor
<1>6. new = Filled(old, f)
  BY DEF new
<1>7. Ingests(p, f, old, new, room, kept)
  BY <1>1, <1>3, <1>4, <1>5, <1>6, Zenon DEF Ingests
<1>8. old \in Fresh \/ room \in RoomFor(Fresh, KeyOf(p, f))
  BY <1>2
<1>9. Charges(p, f, old, new, room, kept, charged)
  BY <1>3, <1>8, Zenon DEF Charges
<1>10. QED  BY <1>7, <1>9

\* The fragment that is taken is put where it belongs: it comes after all that
\* its partial message held.
Continued(p, f, old, new) ==
    /\ f \in Fragments /\ f.seq \in Nat /\ f.total \in Nat /\ f.msg \in Nat
    /\ IsChunk(f) /\ f.seq < f.total /\ Continues(f, old)
    /\ new.key = KeyOf(p, f) /\ new.total = f.total
    /\ DOMAIN new.parts = DOMAIN old.parts \cup {f.seq}
    /\ \A s \in DOMAIN new.parts :
         s \in Nat /\ s <= f.seq /\ new.parts[s].msg = f.msg /\ new.parts[s].seq = s

LEMMA IngestNew ==
    ASSUME Inv, NEW p \in Peers, Ingest(p), NEW f, f = Head(link[p]),
           NEW old, NEW new, NEW room, NEW kept, Ingests(p, f, old, new, room, kept)
    PROVE  Continued(p, f, old, new)
<1>1. /\ link[p] # <<>> /\ IsChunk(f) /\ ~ Malformed(f)
      /\ link' = [link EXCEPT ![p] = Tail(@)]
  BY DEF Ingest
<1>2. f = link[p][1] /\ 1 \in DOMAIN link[p] /\ f \in Fragments
  BY <1>1, TakenFacts
<1>3. f.seq \in Nat /\ f.total \in Nat /\ f.msg \in Nat
  BY <1>2 DEF Fragments
<1>4. f.seq < f.total
  BY <1>1, <1>3 DEF Malformed
<1>5. old.key = KeyOf(p, f) /\ new = Filled(old, f)
  BY DEF Ingests
<1>6. /\ old = [key |-> old.key, total |-> old.total, parts |-> old.parts,
                 first |-> old.first]
      /\ Continues(f, old)
  <2>1. CASE old \in partials
    BY <1>1, <1>2, <1>5, <2>1 DEF Inv, FieldsInv, FitInv
  <2>2. CASE old = Opened(KeyOf(p, f), f.total)
    BY <2>2 DEF Opened, Continues
  <2>3. QED  BY <2>1, <2>2 DEF Ingests, Fresh
<1>7. /\ new = [key |-> old.key, total |-> old.total, parts |-> new.parts,
                 first |-> old.first]
      /\ new.key = KeyOf(p, f) /\ new.total = f.total
      /\ DOMAIN new.parts = DOMAIN old.parts \cup {f.seq}
      /\ \A s \in DOMAIN old.parts : new.parts[s] = old.parts[s]
      /\ f.seq \notin DOMAIN old.parts =>
           new.parts[f.seq].msg = f.msg /\ new.parts[f.seq].seq = f.seq
  BY <1>5, <1>6, FilledFacts DEF Continues
<1>8. f.seq \notin DOMAIN old.parts
  BY <1>3, <1>6 DEF Continues
<1>9. \A s \in DOMAIN new.parts :
        s \in Nat /\ s <= f.seq /\ new.parts[s].msg = f.msg /\ new.parts[s].seq = s
  BY <1>3, <1>6, <1>7, <1>8 DEF Continues
<1>10. QED  BY <1>1, <1>2, <1>3, <1>4, <1>6, <1>7, <1>9 DEF Continued

\* A message is complete when it has all of its slots, so with its last
\* fragment, and it is then the message that was sent.
LEMMA CompleteFacts ==
    ASSUME NEW f, NEW new, f.seq \in Nat, f.total \in Nat, f.seq < f.total,
           new.total = f.total, f.seq \in DOMAIN new.parts,
           \A s \in DOMAIN new.parts :
              s \in Nat /\ s <= f.seq /\ new.parts[s].msg = f.msg /\ new.parts[s].seq = s
    PROVE  /\ Complete(new) <=> DOMAIN new.parts = 0..f.total - 1
           /\ Complete(new) => f.seq = f.total - 1 /\ Decode(new) = f.msg
<1> DEFINE slots == DOMAIN new.parts
<1>1. slots \subseteq 0..f.total - 1
  OBVIOUS
<1>2. IsFiniteSet(0..f.total - 1) /\ Cardinality(0..f.total - 1) = f.total
  <2>1. PICK b \in Int : b = f.total - 1 /\ b >= 0 /\ f.total = b - 0 + 1
    OBVIOUS
  <2>2. IsFiniteSet(0..b) /\ Cardinality(0..b) = IF 0 > b THEN 0 ELSE b - 0 + 1
    BY 0 \in Int, FS_Interval, Zenon
  <2>3. QED  BY <2>1, <2>2
<1>3. Complete(new) <=> slots = 0..f.total - 1
  BY <1>1, <1>2, FS_Subset DEF Complete
<1>4. ASSUME slots = 0..f.total - 1
      PROVE  f.seq = f.total - 1 /\ Decode(new) = f.msg
  <2>1. f.total - 1 \in slots
    BY <1>4
  <2>2. f.seq = f.total - 1
    BY <2>1
  <2>3. \A s \in 0..new.total - 1 : s \in slots /\ new.parts[s].msg = f.msg /\ new.parts[s].seq = s
    BY <1>4
  <2>4. new.parts[new.total - 1].msg = f.msg
    BY <2>1
  <2>5. QED  BY <2>2, <2>3, <2>4 DEF Decode
<1>5. QED  BY <1>3, <1>4

LEMMA IngestChannel ==
    ASSUME Inv, OrderInv, NEW p \in Peers, Ingest(p)
    PROVE  Ch!Next \/ UNCHANGED Ch!vars
<1>1. PICK f : f = Head(link[p])
  OBVIOUS
<1>2. /\ link[p] # <<>> /\ link' = [link EXCEPT ![p] = Tail(@)] /\ sent' = sent
  BY DEF Ingest
<1>3. PICK old, new, room, kept : Ingests(p, f, old, new, room, kept)
  BY <1>1, IngestShape
<1>4. Complete(new) => Final(f) /\ Decode(new) = f.msg
  <2>0. Continued(p, f, old, new)
    BY <1>1, <1>3, IngestNew
  <2>1. /\ f.seq \in Nat /\ f.total \in Nat /\ f.seq < f.total /\ new.total = f.total
        /\ DOMAIN new.parts = DOMAIN old.parts \cup {f.seq}
        /\ \A s \in DOMAIN new.parts :
              s \in Nat /\ s <= f.seq /\ new.parts[s].msg = f.msg /\ new.parts[s].seq = s
    BY <2>0 DEF Continued
  <2>2. Complete(new) => f.seq = f.total - 1 /\ Decode(new) = f.msg
    BY <2>1, CompleteFacts
  <2>3. QED  BY <2>2 DEF Final
<1>5. \/ received' = received
      \/ Final(f) /\ received' = [received EXCEPT ![p] = Append(@, f.msg)]
  BY <1>3, <1>4 DEF Ingests, Done
<1>6. CASE ~ Final(f)
  BY <1>1, <1>2, <1>5, <1>6, TakenTransit DEF Ch!vars
<1>7. CASE Final(f)
  <2>1. /\ f.msg \in Transit[p]
        /\ Transit' = [Transit EXCEPT ![p] = {k \in @ : k > f.msg}]
    BY <1>1, <1>2, <1>7, TakenTransit
  <2>2. Ch!Pass(p, f.msg)
    BY <1>2, <1>5, <2>1 DEF Ch!Pass
  <2>3. QED  BY <2>1, <2>2 DEF Ch!Next
<1>8. QED  BY <1>6, <1>7

LEMMA TakeChannel ==
    ASSUME Inv, OrderInv, NEW p \in Peers, TakeWhole(p) \/ Reject(p)
    PROVE  Ch!Next \/ UNCHANGED Ch!vars
<1>1. PICK f : f = Head(link[p])
  OBVIOUS
<1>2. /\ link[p] # <<>> /\ link' = [link EXCEPT ![p] = Tail(@)] /\ sent' = sent
      /\ \/ received' = received
         \/ Final(f) /\ received' = [received EXCEPT ![p] = Append(@, f.msg)]
  BY <1>1 DEF TakeWhole, Reject, Final
<1>3. CASE ~ Final(f)
  BY <1>1, <1>2, <1>3, TakenTransit DEF Ch!vars
<1>4. CASE Final(f)
  <2>1. /\ f.msg \in Transit[p]
        /\ Transit' = [Transit EXCEPT ![p] = {k \in @ : k > f.msg}]
    BY <1>1, <1>2, <1>4, TakenTransit
  <2>2. Ch!Pass(p, f.msg)
    BY <1>2, <2>1 DEF Ch!Pass
  <2>3. QED  BY <2>1, <2>2 DEF Ch!Next
<1>5. QED  BY <1>3, <1>4

LEMMA OrderStep == Inv /\ OrderInv /\ [Next]_vars => OrderInv'
<1>1. SUFFICES ASSUME Inv, OrderInv, [Next]_vars PROVE OrderInv'
  OBVIOUS
<1>2. ASSUME NEW p \in Peers, NEW len \in Lengths, Send(p, len) PROVE OrderInv'
  BY <1>1, <1>2, SendOrder
<1>3. ASSUME NEW p \in Peers, Cut(p) PROVE OrderInv'
  BY <1>1, <1>3, CutOrder
<1>4. ASSUME NEW p \in Peers, TakeWhole(p) \/ Reject(p) \/ Ingest(p) PROVE OrderInv'
  BY <1>1, <1>4, TakenOrder DEF TakeWhole, Reject, Ingest
<1>5. CASE UNCHANGED links
  BY <1>1, <1>5 DEF links, OrderInv, Final, IsChunk
<1>6. QED  BY <1>1, <1>2, <1>3, <1>4, <1>5 DEF Next, Tick, vars

LEMMA ChannelInit == Init => OrderInv /\ Ch!Init
<1>1. SUFFICES ASSUME Init PROVE OrderInv /\ Ch!Init
  OBVIOUS
<1>2. \A p \in Peers : DOMAIN link[p] = {}
  BY <1>1 DEF Init
<1>3. OrderInv
  BY <1>2 DEF OrderInv
<1>4. Transit = [p \in Peers |-> {}]
  BY <1>2 DEF Transit
<1>5. QED  BY <1>1, <1>3, <1>4 DEF Init, Ch!Init

LEMMA ChannelNext == Inv /\ OrderInv /\ [Next]_vars => [Ch!Next]_Ch!vars
<1>1. SUFFICES ASSUME Inv, OrderInv, [Next]_vars PROVE Ch!Next \/ UNCHANGED Ch!vars
  OBVIOUS
<1>2. ASSUME NEW p \in Peers, NEW len \in Lengths, Send(p, len) PROVE Ch!Next
  BY <1>1, <1>2, SendChannel DEF Ch!Next
<1>3. ASSUME NEW p \in Peers, Cut(p) PROVE Ch!Next
  BY <1>1, <1>3, CutChannel DEF Ch!Next
<1>4. ASSUME NEW p \in Peers, TakeWhole(p) \/ Reject(p) \/ Ingest(p)
      PROVE  Ch!Next \/ UNCHANGED Ch!vars
  BY <1>1, <1>4, TakeChannel, IngestChannel
<1>5. CASE UNCHANGED <<links, received>>
  <2>1. UNCHANGED <<link, sent, received>>
    BY <1>5 DEF links
  <2>2. Transit' = Transit
    BY <2>1 DEF Transit, Final, IsChunk
  <2>3. QED  BY <2>1, <2>2 DEF Ch!vars
<1>6. QED  BY <1>1, <1>2, <1>3, <1>4, <1>5 DEF Next, Tick, vars

\* Chunks implements Channel: whatever the budgets evict, however often a
\* connection goes down or a sender is started again, the messages handed on are
\* those that were sent, each at most once and in their order.
THEOREM ChannelCorrect == Spec => ChannelSpec
<1>1. Inv /\ OrderInv /\ [Next]_vars => (Inv /\ OrderInv)' /\ [Ch!Next]_Ch!vars
  BY NextInv, OrderStep, ChannelNext
<1>2. QED  BY <1>1, InitInv, ChannelInit, PTL DEF Spec, ChannelSpec, Ch!Spec

-----------------------------------------------------------------------------
(* What goes missing.                                                      *)

\* A partial message is one of its key, and its slots hold what was sent.
PartsInv ==
    /\ \A x, y \in partials : x.key = y.key => x = y
    /\ \A x \in partials :
         /\ x.key.peer \in Peers
         /\ \A s \in DOMAIN x.parts :
              /\ s \in Nat /\ s < x.total
              /\ x.parts[s].msg \in Nat /\ x.parts[s].msg <= sent[x.key.peer]

\* Partial message x holds some of message n of p.
Holds(x, p, n) == x.key.peer = p /\ \E s \in DOMAIN x.parts : x.parts[s].msg = n

\* A message is under one id of one connection, on its link and put together.
OneInv ==
    /\ \A p \in Peers : \A i, j \in DOMAIN link[p] :
         i # j /\ link[p][i].msg = link[p][j].msg =>
            IsChunk(link[p][i]) /\ link[p][i].id = link[p][j].id
    /\ \A p \in Peers : \A i \in DOMAIN link[p] : \A x \in partials :
         Holds(x, p, link[p][i].msg) => IsChunk(link[p][i]) /\ x.key = KeyOf(p, link[p][i])
    /\ \A p \in Peers : \A x, y \in partials : \A n \in Nat :
         Holds(x, p, n) /\ Holds(y, p, n) => x = y

\* A fragment but the first comes right after the one before it.
Follows(g, f) ==
    IsChunk(f) /\ g.id = f.id /\ g.msg = f.msg /\ g.total = f.total /\ g.seq = f.seq + 1

RunInv ==
    \A p \in Peers : \A i \in DOMAIN link[p] : IsChunk(link[p][i]) =>
        /\ link[p][i].seq < link[p][i].total
        /\ i > 1 /\ link[p][i].seq > 0 => Follows(link[p][i], link[p][i - 1])

\* What was handed on is neither lost nor anywhere else.
HandInv ==
    /\ received \in [Peers -> Seq(Nat)]
    /\ \A p \in Peers : \A n \in Handed(p) :
         /\ n > 0 /\ n <= sent[p] /\ <<p, n>> \notin lost
         /\ \A i \in DOMAIN link[p] : n # link[p][i].msg
         /\ \A x \in partials : ~ Holds(x, p, n)

\* Slot k of message n of p is missing, and will be: what is left of the
\* message on the link comes after it.
Broken(p, n, k) ==
    /\ \A x \in partials : Holds(x, p, n) => k \notin DOMAIN x.parts /\ k < x.total
    /\ \A i \in DOMAIN link[p] :
         link[p][i].msg = n => IsChunk(link[p][i]) /\ k < link[p][i].seq

LostInv ==
    \A p \in Peers : \A n \in Nat : <<p, n>> \in lost =>
        n <= sent[p] /\ \E k \in Nat : Broken(p, n, k)

\* Of a message that is not lost, all that is off the link is put together.
HeadInv ==
    \A p \in Peers :
        link[p] # <<>> /\ IsChunk(link[p][1]) /\ link[p][1].seq > 0
          /\ <<p, link[p][1].msg>> \notin lost =>
        \E x \in partials : /\ x.key = KeyOf(p, link[p][1])
                            /\ DOMAIN x.parts = 0..link[p][1].seq - 1

HereInv ==
    \A p \in Peers : \A n \in 1..sent[p] :
        <<p, n>> \in lost \/ n \in Handed(p) \/ n \in Due(link[p])

LossInv == PartsInv /\ OneInv /\ RunInv /\ HandInv /\ LostInv /\ HeadInv /\ HereInv

LEMMA SendParts ==
    ASSUME Inv, LossInv, NEW p \in Peers, NEW len \in Lengths, Send(p, len)
    PROVE  PartsInv'
<1>1. partials' = partials /\ sent' = [sent EXCEPT ![p] = @ + 1] /\ sent \in [Peers -> Nat]
  BY DEF Send, buffer, Inv, FieldsInv
<1>2. \A q \in Peers : sent[q] \in Nat /\ sent'[q] \in Nat /\ sent[q] <= sent'[q]
  BY <1>1
<1>3. \A x, y \in partials' : x.key = y.key => x = y
  BY <1>1 DEF LossInv, PartsInv
<1>4. ASSUME NEW x \in partials
      PROVE  /\ x.key.peer \in Peers
             /\ \A s \in DOMAIN x.parts :
                  /\ s \in Nat /\ s < x.total
                  /\ x.parts[s].msg \in Nat /\ x.parts[s].msg <= sent'[x.key.peer]
  <2>1. /\ x.key.peer \in Peers
        /\ \A s \in DOMAIN x.parts :
             /\ s \in Nat /\ s < x.total
             /\ x.parts[s].msg \in Nat /\ x.parts[s].msg <= sent[x.key.peer]
    BY DEF LossInv, PartsInv
  <2>2. sent[x.key.peer] \in Nat /\ sent'[x.key.peer] \in Nat
        /\ sent[x.key.peer] <= sent'[x.key.peer]
    BY <1>2, <2>1
  <2>3. QED  BY <2>1, <2>2
<1>5. QED  BY <1>1, <1>3, <1>4 DEF PartsInv

\* The message that is sent is nowhere yet.
LEMMA SendFresh ==
    ASSUME Inv, OrderInv, LossInv, NEW p \in Peers
    PROVE  /\ sent[p] \in Nat
           /\ \A i \in DOMAIN link[p] : link[p][i].msg \in Nat /\ link[p][i].msg <= sent[p]
           /\ \A x \in partials : ~ Holds(x, p, sent[p] + 1)
           /\ <<p, sent[p] + 1>> \notin lost
           /\ sent[p] + 1 \notin Handed(p)
<1>1. sent[p] \in Nat /\ link[p] \in Seq(Fragments)
  BY DEF Inv, FieldsInv
<1>2. \A i \in DOMAIN link[p] : link[p][i] \in Fragments
  BY <1>1
<1>3. \A i \in DOMAIN link[p] : link[p][i].msg \in Nat /\ link[p][i].msg <= sent[p]
  BY <1>2 DEF OrderInv, Fragments
<1>4. ASSUME NEW x \in partials, Holds(x, p, sent[p] + 1) PROVE FALSE
  <2>1. PICK s \in DOMAIN x.parts : x.key.peer = p /\ x.parts[s].msg = sent[p] + 1
    BY <1>4 DEF Holds
  <2>2. x.parts[s].msg <= sent[p]
    BY <2>1 DEF LossInv, PartsInv
  <2>3. QED  BY <1>1, <2>1, <2>2
<1>5. <<p, sent[p] + 1>> \notin lost
  <2>1. SUFFICES ASSUME <<p, sent[p] + 1>> \in lost PROVE FALSE
    OBVIOUS
  <2>2. PICK n \in Nat : n = sent[p] + 1
    BY <1>1
  <2>3. n <= sent[p]
    BY <2>1, <2>2 DEF LossInv, LostInv
  <2>4. QED  BY <1>1, <2>2, <2>3
<1>6. sent[p] + 1 \notin Handed(p)
  <2>1. SUFFICES ASSUME NEW n \in Handed(p), n = sent[p] + 1 PROVE FALSE
    OBVIOUS
  <2>2. n <= sent[p]
    BY DEF LossInv, HandInv
  <2>3. QED  BY <1>1, <2>1, <2>2
<1>7. QED  BY <1>1, <1>3, <1>4, <1>5, <1>6

\* What a send does, and where what it appends stands on the link.
Sending(p, new) ==
    /\ UNCHANGED <<conn, partials, received>>
    /\ sent'[p] = sent[p] + 1 /\ \A q \in Peers : q # p => sent'[q] = sent[q]
    /\ sent[p] \in Nat
    /\ lost' = IF Len(new) = 0 THEN lost \cup {<<p, sent[p] + 1>>} ELSE lost
    /\ link[p] \in Seq(Fragments) /\ new \in Seq(Fragments) /\ link'[p] = link[p] \o new
    /\ \A q \in Peers : q # p => link'[q] = link[q]
    /\ DOMAIN link[p] = 1..Len(link[p]) /\ DOMAIN new = 1..Len(new)
    /\ DOMAIN link'[p] = 1..(Len(link[p]) + Len(new))
    /\ Len(link[p]) \in Nat /\ Len(new) \in Nat
    /\ \A i \in DOMAIN link'[p] :
         \/ i \in DOMAIN link[p] /\ link'[p][i] = link[p][i]
         \/ /\ i > Len(link[p]) /\ i - Len(link[p]) \in DOMAIN new
            /\ link'[p][i] = new[i - Len(link[p])]
    /\ \A i \in DOMAIN new : new[i].msg = sent[p] + 1
    /\ \/ Len(new) <= 1 /\ \A i \in DOMAIN new : ~ IsChunk(new[i])
       \/ /\ Len(new) > 0
          /\ \A i \in DOMAIN new : /\ new[i].id = nextId[p] /\ new[i].seq = i - 1
                                   /\ new[i].total = Len(new) /\ IsChunk(new[i])

LEMMA SendSends ==
    ASSUME Inv, NEW p \in Peers, NEW len \in Lengths, Send(p, len)
    PROVE  \E new : Sending(p, new)
<1>1. PICK new : Appends(p, new)
  BY SendAppends
<1>2. /\ link[p] \in Seq(Fragments) /\ new \in Seq(Fragments)
      /\ link'[p] = link[p] \o new /\ \A q \in Peers : q # p => link'[q] = link[q]
      /\ DOMAIN link[p] = 1..Len(link[p]) /\ DOMAIN new = 1..Len(new)
      /\ DOMAIN link'[p] = 1..(Len(link[p]) + Len(new))
      /\ Len(link[p]) \in Nat /\ Len(new) \in Nat
      /\ \A i \in DOMAIN link'[p] :
                \/ i \in DOMAIN link[p] /\ link'[p][i] = link[p][i]
                \/ /\ i > Len(link[p]) /\ i - Len(link[p]) \in DOMAIN new
                   /\ link'[p][i] = new[i - Len(link[p])]
  BY <1>1, SentFacts
<1>3. /\ UNCHANGED <<conn, partials, received>>
      /\ sent'[p] = sent[p] + 1 /\ sent[p] \in Nat
      /\ \A q \in Peers : q # p => sent'[q] = sent[q]
  BY DEF Send, buffer, Inv, FieldsInv
<1>4. \/ Len(new) <= 1 /\ \A i \in DOMAIN new : ~ IsChunk(new[i])
      \/ /\ Len(new) > 0
         /\ \A i \in DOMAIN new : /\ new[i].id = nextId[p] /\ new[i].seq = i - 1
                                  /\ new[i].total = Len(new) /\ IsChunk(new[i])
  BY <1>1, <1>2 DEF Appends, IsChunk
<1>5. Sending(p, new)
  BY <1>1, <1>2, <1>3, <1>4 DEF Sending, Appends
<1>6. QED  BY <1>5

LEMMA SendOne ==
    ASSUME Inv, OrderInv, LossInv, NEW p \in Peers, NEW new, Sending(p, new)
    PROVE  OneInv'
<1>1. /\ sent[p] \in Nat
      /\ \A i \in DOMAIN link[p] : link[p][i].msg \in Nat /\ link[p][i].msg <= sent[p]
      /\ \A x \in partials : ~ Holds(x, p, sent[p] + 1)
  BY SendFresh
<1>2. /\ conn' = conn /\ partials' = partials
      /\ \A q \in Peers : q # p => link'[q] = link[q]
      /\ \A i \in DOMAIN link'[p] :
         \/ i \in DOMAIN link[p] /\ link'[p][i] = link[p][i]
         \/ /\ i > Len(link[p]) /\ i - Len(link[p]) \in DOMAIN new
            /\ link'[p][i] = new[i - Len(link[p])]
      /\ DOMAIN link'[p] = 1..(Len(link[p]) + Len(new)) /\ DOMAIN new = 1..Len(new)
      /\ Len(link[p]) \in Nat /\ Len(new) \in Nat
      /\ \A i \in DOMAIN new : new[i].msg = sent[p] + 1
      /\ \A i, j \in DOMAIN new : i # j => IsChunk(new[i]) /\ new[i].id = new[j].id
  BY DEF Sending
<1>3. ASSUME NEW q \in Peers, NEW i \in DOMAIN link'[q], NEW j \in DOMAIN link'[q],
             i # j, link'[q][i].msg = link'[q][j].msg
      PROVE  IsChunk(link'[q][i]) /\ link'[q][i].id = link'[q][j].id
  <2>1. CASE q # p
    BY <1>2, <1>3, <2>1 DEF LossInv, OneInv
  <2>2. CASE q = p
    <3>1. CASE i \in DOMAIN link[p] /\ link'[p][i] = link[p][i]
               /\ j \in DOMAIN link[p] /\ link'[p][j] = link[p][j]
      BY <1>3, <2>2, <3>1 DEF LossInv, OneInv
    <3>2. CASE /\ i - Len(link[p]) \in DOMAIN new /\ link'[p][i] = new[i - Len(link[p])]
               /\ j - Len(link[p]) \in DOMAIN new /\ link'[p][j] = new[j - Len(link[p])]
      <4>1. i - Len(link[p]) # j - Len(link[p])
        BY <1>2, <1>3, <2>2
      <4>2. QED  BY <1>2, <2>2, <3>2, <4>1
    <3>3. CASE /\ i \in DOMAIN link[p] /\ link'[p][i] = link[p][i]
               /\ j - Len(link[p]) \in DOMAIN new /\ link'[p][j] = new[j - Len(link[p])]
      <4>1. link[p][i].msg \in Nat /\ link[p][i].msg <= sent[p] /\ link'[p][j].msg = sent[p] + 1
        BY <1>1, <1>2, <3>3
      <4>2. QED  BY <1>1, <1>3, <2>2, <3>3, <4>1
    <3>4. CASE /\ j \in DOMAIN link[p] /\ link'[p][j] = link[p][j]
               /\ i - Len(link[p]) \in DOMAIN new /\ link'[p][i] = new[i - Len(link[p])]
      <4>1. link[p][j].msg \in Nat /\ link[p][j].msg <= sent[p] /\ link'[p][i].msg = sent[p] + 1
        BY <1>1, <1>2, <3>4
      <4>2. QED  BY <1>1, <1>3, <2>2, <3>4, <4>1
    <3>5. QED  BY <1>2, <1>3, <2>2, <3>1, <3>2, <3>3, <3>4
  <2>3. QED  BY <2>1, <2>2
<1>4. ASSUME NEW q \in Peers, NEW i \in DOMAIN link'[q], NEW x \in partials,
             Holds(x, q, link'[q][i].msg)
      PROVE  IsChunk(link'[q][i]) /\ x.key = KeyOf(q, link'[q][i])
  <2>1. CASE q # p
    BY <1>2, <1>4, <2>1 DEF LossInv, OneInv
  <2>2. CASE q = p /\ i \in DOMAIN link[p] /\ link'[p][i] = link[p][i]
    BY <1>4, <2>2 DEF LossInv, OneInv
  <2>3. CASE q = p /\ i - Len(link[p]) \in DOMAIN new /\ link'[p][i] = new[i - Len(link[p])]
    BY <1>1, <1>2, <1>4, <2>3
  <2>4. QED  BY <1>2, <1>4, <2>1, <2>2, <2>3
<1>5. \A q \in Peers : \A x, y \in partials' : \A n \in Nat :
         Holds(x, q, n) /\ Holds(y, q, n) => x = y
  BY <1>2 DEF LossInv, OneInv
<1>6. \A q \in Peers : \A i, j \in DOMAIN link'[q] :
        i # j /\ link'[q][i].msg = link'[q][j].msg =>
           link'[q][i].total > 0 /\ link'[q][i].id = link'[q][j].id
  BY <1>3 DEF IsChunk
<1>7. \A q \in Peers : \A i \in DOMAIN link'[q] : \A x \in partials' :
        x.key.peer = q /\ (\E s \in DOMAIN x.parts : x.parts[s].msg = link'[q][i].msg) =>
          /\ link'[q][i].total > 0
          /\ x.key = [peer |-> q, conn |-> conn'[q], id |-> link'[q][i].id]
  BY <1>2, <1>4 DEF IsChunk, Holds, KeyOf
<1>8. QED  BY <1>5, <1>6, <1>7 DEF OneInv, IsChunk, KeyOf, Holds

LEMMA SendRun ==
    ASSUME Inv, LossInv, NEW p \in Peers, NEW new, Sending(p, new)
    PROVE  RunInv'
<1>1. /\ \A q \in Peers : q # p => link'[q] = link[q]
      /\ \A i \in DOMAIN link'[p] :
         \/ i \in DOMAIN link[p] /\ link'[p][i] = link[p][i]
         \/ /\ i > Len(link[p]) /\ i - Len(link[p]) \in DOMAIN new
            /\ link'[p][i] = new[i - Len(link[p])]
      /\ DOMAIN link'[p] = 1..(Len(link[p]) + Len(new)) /\ DOMAIN new = 1..Len(new)
      /\ DOMAIN link[p] = 1..Len(link[p])
      /\ Len(link[p]) \in Nat /\ Len(new) \in Nat
      /\ \A i \in DOMAIN new : IsChunk(new[i]) =>
           new[i].seq = i - 1 /\ new[i].total = Len(new)
      /\ \A i, j \in DOMAIN new : i # j => Follows(new[i], new[j]) \/ new[i].seq # new[j].seq + 1
  BY DEF Sending, Follows
<1>2. SUFFICES ASSUME NEW q \in Peers, NEW i \in DOMAIN link'[q], IsChunk(link'[q][i])
               PROVE  /\ link'[q][i].seq < link'[q][i].total
                      /\ i > 1 /\ link'[q][i].seq > 0 => Follows(link'[q][i], link'[q][i - 1])
  BY DEF RunInv, Follows, IsChunk
<1>3. CASE q # p
  BY <1>1, <1>2, <1>3 DEF LossInv, RunInv
<1>4. CASE q = p /\ i \in DOMAIN link[p] /\ link'[p][i] = link[p][i]
  <2>1. i > 1 => i - 1 \in DOMAIN link[p] /\ link'[p][i - 1] = link[p][i - 1]
    BY <1>1, <1>4
  <2>2. QED  BY <1>2, <1>4, <2>1 DEF LossInv, RunInv
<1>5. CASE q = p /\ i > Len(link[p]) /\ i - Len(link[p]) \in DOMAIN new
             /\ link'[p][i] = new[i - Len(link[p])]
  <2>1. PICK k \in DOMAIN new : k = i - Len(link[p]) /\ link'[p][i] = new[k]
    BY <1>5
  <2>2. k \in Nat /\ i = Len(link[p]) + k /\ k <= Len(new)
    BY <1>1, <1>2, <1>5, <2>1
  <2>3. new[k].seq = k - 1 /\ new[k].total = Len(new)
    BY <1>1, <1>2, <1>5, <2>1
  <2>4. ASSUME new[k].seq > 0 PROVE Follows(link'[p][i], link'[p][i - 1])
    <3>1. k - 1 \in DOMAIN new /\ i - 1 \in DOMAIN link'[p] /\ i - 1 \notin DOMAIN link[p]
          /\ (i - 1) - Len(link[p]) = k - 1
      BY <1>1, <2>2, <2>3, <2>4
    <3>2. link'[p][i - 1] = new[k - 1]
      BY <1>1, <3>1
    <3>3. Follows(new[k], new[k - 1])
      BY <2>2, <3>1, <2>4, <2>3 DEF Sending, Follows
    <3>4. QED  BY <2>1, <3>2, <3>3
  <2>5. QED  BY <1>1, <1>5, <2>1, <2>2, <2>3, <2>4
<1>6. QED  BY <1>1, <1>2, <1>3, <1>4, <1>5

LEMMA SendHand ==
    ASSUME Inv, OrderInv, LossInv, NEW p \in Peers, NEW new, Sending(p, new)
    PROVE  HandInv'
<1>1. /\ sent[p] \in Nat /\ sent[p] + 1 \notin Handed(p)
  BY SendFresh
<1>2. /\ received' = received /\ partials' = partials
      /\ sent'[p] = sent[p] + 1 /\ \A q \in Peers : q # p => sent'[q] = sent[q]
      /\ lost' \subseteq lost \cup {<<p, sent[p] + 1>>}
      /\ \A q \in Peers : q # p => link'[q] = link[q]
      /\ \A i \in DOMAIN link'[p] : \/ i \in DOMAIN link[p] /\ link'[p][i] = link[p][i]
                                    \/ link'[p][i].msg = sent[p] + 1
  BY DEF Sending
<1>3. \A q \in Peers : Handed(q)' = Handed(q)
  BY <1>2 DEF Handed
<1>4. SUFFICES ASSUME NEW q \in Peers, NEW n \in Handed(q)
               PROVE  /\ n > 0 /\ n <= sent'[q] /\ <<q, n>> \notin lost'
                      /\ \A i \in DOMAIN link'[q] : n # link'[q][i].msg
                      /\ \A x \in partials : ~ Holds(x, q, n)
  BY <1>2, <1>3 DEF HandInv, Holds, LossInv
<1>5. /\ n > 0 /\ n <= sent[q] /\ <<q, n>> \notin lost /\ n \in Nat
      /\ \A i \in DOMAIN link[q] : n # link[q][i].msg
      /\ \A x \in partials : ~ Holds(x, q, n)
  BY DEF LossInv, HandInv, Handed
<1>6. q = p => n # sent[p] + 1
  BY <1>1
<1>7. n <= sent'[q]
  BY <1>1, <1>2, <1>5
<1>8. <<q, n>> \notin lost'
  BY <1>2, <1>5, <1>6
<1>9. \A i \in DOMAIN link'[q] : n # link'[q][i].msg
  BY <1>2, <1>5, <1>6
<1>10. QED  BY <1>5, <1>7, <1>8, <1>9

LEMMA SendLost ==
    ASSUME Inv, OrderInv, LossInv, NEW p \in Peers, NEW new, Sending(p, new)
    PROVE  LostInv'
<1>1. /\ sent[p] \in Nat /\ <<p, sent[p] + 1>> \notin lost
      /\ \A i \in DOMAIN link[p] : link[p][i].msg \in Nat /\ link[p][i].msg <= sent[p]
      /\ \A x \in partials : ~ Holds(x, p, sent[p] + 1)
  BY SendFresh
<1>2. /\ partials' = partials
      /\ sent'[p] = sent[p] + 1 /\ \A q \in Peers : q # p => sent'[q] = sent[q]
      /\ lost' = IF Len(new) = 0 THEN lost \cup {<<p, sent[p] + 1>>} ELSE lost
      /\ \A q \in Peers : q # p => link'[q] = link[q]
      /\ \A i \in DOMAIN link'[p] : \/ i \in DOMAIN link[p] /\ link'[p][i] = link[p][i]
                                    \/ link'[p][i].msg = sent[p] + 1
  BY DEF Sending
<1>3. SUFFICES ASSUME NEW q \in Peers, NEW n \in Nat, <<q, n>> \in lost'
               PROVE  n <= sent'[q] /\ \E k \in Nat : Broken(q, n, k)'
  BY DEF LostInv
<1>4. CASE <<q, n>> \in lost
  <2>1. n <= sent[q] /\ sent[q] \in Nat
    BY <1>4 DEF LossInv, LostInv, Inv, FieldsInv
  <2>2. PICK k \in Nat : Broken(q, n, k)
    BY <1>4 DEF LossInv, LostInv
  <2>3. n <= sent'[q]
    BY <1>1, <1>2, <2>1
  <2>4. q = p => n # sent[p] + 1
    BY <1>1, <1>4
  <2>5. \A i \in DOMAIN link'[q] :
          link'[q][i].msg = n => link'[q][i].total > 0 /\ k < link'[q][i].seq
    BY <1>2, <2>2, <2>4 DEF Broken, IsChunk
  <2>6. Broken(q, n, k)'
    BY <1>2, <2>2, <2>5 DEF Broken, Holds, IsChunk
  <2>7. QED  BY <2>3, <2>6
<1>5. CASE q = p /\ n = sent[p] + 1 /\ Len(new) = 0
  <2>1. link'[p] = link[p]
    BY <1>5 DEF Sending
  <2>2. \A i \in DOMAIN link[p] : link[p][i].msg # n
    BY <1>1, <1>5
  <2>3. Broken(p, n, 0)'
    BY <1>1, <1>2, <1>5, <2>1, <2>2 DEF Broken, Holds, IsChunk
  <2>4. QED  BY <1>2, <1>5, <2>3, <1>1
<1>6. QED  BY <1>2, <1>3, <1>4, <1>5

LEMMA SendHead ==
    ASSUME Inv, LossInv, NEW p \in Peers, NEW new, Sending(p, new)
    PROVE  HeadInv'
<1>1. /\ conn' = conn /\ partials' = partials /\ lost \subseteq lost'
      /\ \A q \in Peers : q # p => link'[q] = link[q]
      /\ link[p] \in Seq(Fragments) /\ new \in Seq(Fragments) /\ link'[p] = link[p] \o new
      /\ \A i \in DOMAIN new : IsChunk(new[i]) => new[i].seq = i - 1
  BY DEF Sending
<1>2. SUFFICES ASSUME NEW q \in Peers, link'[q] # <<>>, IsChunk(link'[q][1]),
                      link'[q][1].seq > 0, <<q, link'[q][1].msg>> \notin lost'
               PROVE  \E x \in partials : /\ x.key = KeyOf(q, link'[q][1])
                                          /\ DOMAIN x.parts = 0..link'[q][1].seq - 1
  BY <1>1 DEF HeadInv, IsChunk, KeyOf
<1>3. CASE link[q] # <<>>
  <2>1. link'[q][1] = link[q][1]
    <3>1. CASE q = p
      BY <1>1, <1>3, <3>1
    <3>2. CASE q # p
      BY <1>1, <3>2
    <3>3. QED  BY <3>1, <3>2
  <2>2. QED  BY <1>1, <1>2, <1>3, <2>1 DEF LossInv, HeadInv
<1>4. CASE link[q] = <<>>
  <2>1. q = p
    BY <1>1, <1>2, <1>4
  <2>2. link'[p] = new /\ new # <<>>
    BY <1>1, <1>2, <1>4, <2>1
  <2>3. 1 \in DOMAIN new
    BY <1>1, <2>2
  <2>4. QED  BY <1>1, <1>2, <2>1, <2>2, <2>3
<1>5. QED  BY <1>3, <1>4

LEMMA SendHere ==
    ASSUME Inv, LossInv, NEW p \in Peers, NEW new, Sending(p, new)
    PROVE  HereInv'
<1>1. /\ received' = received /\ lost \subseteq lost'
      /\ Len(new) = 0 => <<p, sent[p] + 1>> \in lost'
      /\ sent'[p] = sent[p] + 1 /\ \A q \in Peers : q # p => sent'[q] = sent[q]
      /\ sent[p] \in Nat
      /\ \A q \in Peers : q # p => link'[q] = link[q]
      /\ link[p] \in Seq(Fragments) /\ new \in Seq(Fragments) /\ link'[p] = link[p] \o new
      /\ DOMAIN new = 1..Len(new) /\ Len(new) \in Nat
      /\ \A i \in DOMAIN new : new[i].msg = sent[p] + 1
  BY DEF Sending
<1>2. Due(link'[p]) = Due(link[p]) \cup Due(new)
  BY <1>1, DueJoins
<1>3. Len(new) # 0 => sent[p] + 1 \in Due(new)
  <2>1. SUFFICES ASSUME Len(new) # 0 PROVE sent[p] + 1 \in Due(new)
    OBVIOUS
  <2>2. Len(new) \in DOMAIN new
    BY <1>1, <2>1
  <2>3. Final(new[Len(new)])
    BY <2>1, <2>2 DEF Sending, Final
  <2>4. QED  BY <1>1, <2>2, <2>3 DEF Due
<1>4. SUFFICES ASSUME NEW q \in Peers, NEW n \in 1..sent'[q]
               PROVE  <<q, n>> \in lost' \/ n \in Handed(q) \/ n \in Due(link'[q])
  BY <1>1 DEF HereInv, Handed, Due, Final, IsChunk
<1>5. CASE q = p /\ n = sent[p] + 1
  BY <1>1, <1>2, <1>3, <1>5
<1>6. CASE n \in 1..sent[q]
  <2>1. <<q, n>> \in lost \/ n \in Handed(q) \/ n \in Due(link[q])
    BY <1>6 DEF LossInv, HereInv
  <2>2. QED  BY <1>1, <1>2, <2>1
<1>7. QED  BY <1>1, <1>4, <1>5, <1>6

LEMMA SendLoss ==
    ASSUME Inv, OrderInv, LossInv, NEW p \in Peers, NEW len \in Lengths, Send(p, len)
    PROVE  LossInv'
<1>1. PICK new : Sending(p, new)
  BY SendSends
<1>2. PartsInv'
  BY SendParts
<1>3. QED  BY <1>1, <1>2, SendOne, SendRun, SendHand, SendLost, SendHead, SendHere DEF LossInv

-----------------------------------------------------------------------------

\* Where a link carries some of a message that is partly put together.
LEMMA OnLink ==
    ASSUME Inv, LossInv, NEW p \in Peers, NEW i \in DOMAIN link[p], NEW x \in partials,
           Holds(x, p, link[p][i].msg)
    PROVE  /\ IsChunk(link[p][i]) /\ x.key = KeyOf(p, link[p][i])
           /\ link[p][i].seq < link[p][i].total /\ x.total = link[p][i].total
           /\ \A s \in DOMAIN x.parts : s < link[p][i].seq /\ x.parts[s].msg = link[p][i].msg
           /\ link[p][i] \in Fragments /\ link[p][i].seq \in Nat /\ link[p][i].seq > 0
           /\ link[p][i].seq \notin DOMAIN x.parts /\ 0 < link[p][i].seq
<1>1. IsChunk(link[p][i]) /\ x.key = KeyOf(p, link[p][i])
  BY DEF LossInv, OneInv
<1>2. link[p][i].seq < link[p][i].total
  BY <1>1 DEF LossInv, RunInv
<1>3. Continues(link[p][i], x)
  BY <1>1 DEF Inv, FitInv
<1>4. link[p][i] \in Fragments
  <2>1. link[p] \in Seq(Fragments)
    BY DEF Inv, FieldsInv
  <2>2. QED  BY <2>1
<1>5. link[p][i].seq \in Nat
  BY <1>4 DEF Fragments
<1>6. PICK s \in DOMAIN x.parts : x.parts[s].msg = link[p][i].msg
  BY DEF Holds
<1>7. s \in Nat /\ s < link[p][i].seq
  BY <1>3 DEF Continues
<1>8. link[p][i].seq > 0
  BY <1>5, <1>7
<1>9. link[p][i].seq \notin DOMAIN x.parts
  BY <1>3, <1>5 DEF Continues
<1>10. QED  BY <1>1, <1>2, <1>3, <1>4, <1>5, <1>8, <1>9 DEF Continues

LEMMA CutLoss ==
    ASSUME Inv, OrderInv, LossInv, NEW p \in Peers, Cut(p)
    PROVE  LossInv'
<1>1. /\ sent' = sent /\ partials' = partials /\ received' = received
      /\ lost' = lost \cup {<<p, link[p][i].msg>> : i \in DOMAIN link[p]}
      /\ DOMAIN link'[p] = {} /\ link'[p] = <<>>
      /\ \A q \in Peers : q # p => link'[q] = link[q] /\ conn'[q] = conn[q]
  BY DEF Cut, buffer, Inv, FieldsInv
<1>2. PartsInv'
  BY <1>1 DEF LossInv, PartsInv
<1>3. OneInv'
  <2>1. \A q \in Peers : \A i, j \in DOMAIN link'[q] :
          i # j /\ link'[q][i].msg = link'[q][j].msg =>
             link'[q][i].total > 0 /\ link'[q][i].id = link'[q][j].id
    BY <1>1 DEF LossInv, OneInv, IsChunk
  <2>2. \A q \in Peers : \A i \in DOMAIN link'[q] : \A x \in partials' :
          x.key.peer = q /\ (\E s \in DOMAIN x.parts : x.parts[s].msg = link'[q][i].msg) =>
            /\ link'[q][i].total > 0
            /\ x.key = [peer |-> q, conn |-> conn'[q], id |-> link'[q][i].id]
    BY <1>1 DEF LossInv, OneInv, IsChunk, Holds, KeyOf
  <2>3. \A q \in Peers : \A x, y \in partials' : \A n \in Nat :
           Holds(x, q, n) /\ Holds(y, q, n) => x = y
    BY <1>1 DEF LossInv, OneInv
  <2>4. QED  BY <2>1, <2>2, <2>3 DEF OneInv, IsChunk, KeyOf, Holds
<1>4. RunInv'
  BY <1>1 DEF LossInv, RunInv, Follows, IsChunk
<1>5. HandInv'
  <2>1. \A q \in Peers : Handed(q)' = Handed(q)
    BY <1>1 DEF Handed
  <2>2. \A q \in Peers : \A n \in Handed(q) :
          /\ n > 0 /\ n <= sent[q] /\ <<q, n>> \notin lost
          /\ \A i \in DOMAIN link[q] : n # link[q][i].msg
          /\ \A x \in partials : ~ Holds(x, q, n)
    BY DEF LossInv, HandInv
  <2>3. \A q \in Peers : \A n \in Handed(q) :
          /\ <<q, n>> \notin lost' /\ \A i \in DOMAIN link'[q] : n # link'[q][i].msg
    BY <1>1, <2>2
  <2>4. QED  BY <1>1, <2>1, <2>2, <2>3 DEF LossInv, HandInv, Holds
<1>6. LostInv'
  <2>1. SUFFICES ASSUME NEW q \in Peers, NEW n \in Nat, <<q, n>> \in lost'
                 PROVE  n <= sent[q] /\ \E k \in Nat : Broken(q, n, k)'
    BY <1>1 DEF LostInv
  <2>2. CASE <<q, n>> \in lost
    <3>1. PICK k \in Nat : n <= sent[q] /\ Broken(q, n, k)
      BY <2>2 DEF LossInv, LostInv
    <3>2. Broken(q, n, k)'
      BY <1>1, <3>1 DEF Broken, Holds, IsChunk
    <3>3. QED  BY <3>1, <3>2
  <2>3. CASE \E i \in DOMAIN link[p] : q = p /\ n = link[p][i].msg
    <3>1. PICK i \in DOMAIN link[p] : q = p /\ n = link[p][i].msg
      BY <2>3
    <3>2. n <= sent[p]
      BY <3>1 DEF OrderInv
    <3>3. PICK k \in Nat : \A x \in partials : Holds(x, p, n) => k \notin DOMAIN x.parts /\ k < x.total
      <4>1. CASE \A x \in partials : ~ Holds(x, p, n)
        BY <4>1
      <4>2. CASE \E x \in partials : Holds(x, p, n)
        <5>1. /\ link[p][i].seq \in Nat
              /\ \A x \in partials : Holds(x, p, n) =>
                   link[p][i].seq \notin DOMAIN x.parts /\ link[p][i].seq < x.total
          BY <3>1, <4>2, OnLink
        <5>2. QED  BY <5>1
      <4>3. QED  BY <4>1, <4>2
    <3>4. Broken(p, n, k)'
      BY <1>1, <3>3 DEF Broken, Holds
    <3>5. QED  BY <3>1, <3>2, <3>4
  <2>4. QED  BY <1>1, <2>1, <2>2, <2>3
<1>7. HeadInv'
  BY <1>1 DEF LossInv, HeadInv, IsChunk, KeyOf
<1>8. HereInv'
  <2>1. SUFFICES ASSUME NEW q \in Peers, NEW n \in 1..sent[q]
                 PROVE  <<q, n>> \in lost' \/ n \in Handed(q) \/ n \in Due(link'[q])
    BY <1>1 DEF HereInv, Handed, Due, Final, IsChunk
  <2>2. <<q, n>> \in lost \/ n \in Handed(q) \/ n \in Due(link[q])
    BY DEF LossInv, HereInv
  <2>3. q = p /\ n \in Due(link[q]) => <<q, n>> \in lost'
    BY <1>1 DEF Due
  <2>4. QED  BY <1>1, <2>2, <2>3
<1>9. QED  BY <1>2, <1>3, <1>4, <1>5, <1>6, <1>7, <1>8 DEF LossInv

-----------------------------------------------------------------------------

\* The head of the link of p is taken, and f is it.
Takes(p, f) ==
    /\ link[p] # <<>> /\ link' = [link EXCEPT ![p] = Tail(@)] /\ f = Head(link[p])
    /\ UNCHANGED <<nextId, sent, conn>>

Behind(p, f) ==
    /\ f = link[p][1] /\ 1 \in DOMAIN link[p] /\ f \in Fragments
    /\ f.msg > 0 /\ f.msg <= sent[p] /\ f.msg \in Nat /\ f.seq \in Nat
    /\ \A q \in Peers : q # p => link'[q] = link[q]
    /\ \A i \in DOMAIN link'[p] :
         /\ i \in Nat /\ i > 0 /\ i + 1 \in DOMAIN link[p] /\ link'[p][i] = link[p][i + 1]
         /\ i > 1 => i - 1 \in DOMAIN link'[p] /\ link'[p][i - 1] = link[p][i]
    /\ Final(f) => \A i \in DOMAIN link'[p] : f.msg # link'[p][i].msg
    /\ Due(link'[p]) \subseteq Due(link[p])
    /\ Due(link[p]) \subseteq Due(link'[p]) \cup {f.msg}
    /\ ~ Final(f) => Due(link[p]) = Due(link'[p])

LEMMA TakesBehind ==
    ASSUME Inv, OrderInv, NEW p \in Peers, NEW f, Takes(p, f)
    PROVE  Behind(p, f)
<1>1. /\ link \in [Peers -> Seq(Fragments)] /\ link[p] \in Seq(Fragments) /\ link[p] # <<>>
      /\ link'[p] = Tail(link[p]) /\ \A q \in Peers : q # p => link'[q] = link[q]
      /\ f = Head(link[p])
  BY DEF Inv, FieldsInv, Takes
<1>2. f = link[p][1] /\ 1 \in DOMAIN link[p] /\ f \in Fragments
  BY <1>1
<1>3. f.msg > 0 /\ f.msg <= sent[p] /\ f.msg \in Nat /\ f.seq \in Nat
  BY <1>2 DEF OrderInv, Fragments
<1> DEFINE tail == Tail(link[p])
<1>4. \A i \in DOMAIN tail :
        /\ i \in Nat /\ i > 0 /\ i + 1 \in DOMAIN link[p] /\ tail[i] = link[p][i + 1]
        /\ i > 1 => i - 1 \in DOMAIN tail /\ tail[i - 1] = link[p][i]
        /\ link[p][i + 1] \in Fragments
  BY <1>1
<1>5. Due(tail) \subseteq Due(link[p]) /\ Due(link[p]) \subseteq Due(tail) \cup {f.msg}
      /\ (~ Final(f) => Due(link[p]) = Due(tail))
  BY <1>1, DueTaken
<1>6. ASSUME Final(f), NEW i \in DOMAIN tail PROVE f.msg # tail[i].msg
  <2>1. link[p][1].msg < link[p][i + 1].msg /\ link[p][i + 1].msg \in Nat
    BY <1>2, <1>4, <1>6 DEF OrderInv, Fragments
  <2>2. QED  BY <1>2, <1>3, <1>4, <2>1
<1> HIDE DEF tail
<1>7. link'[p] = tail
  BY <1>1 DEF tail
<1>8. QED  BY <1>1, <1>2, <1>3, <1>4, <1>5, <1>6, <1>7 DEF Behind

LEMMA TakenRun ==
    ASSUME Inv, OrderInv, LossInv, NEW p \in Peers, NEW f, Takes(p, f)
    PROVE  RunInv'
<1>1. Behind(p, f)
  BY TakesBehind
<1>2. SUFFICES ASSUME NEW q \in Peers, NEW i \in DOMAIN link'[q], IsChunk(link'[q][i])
               PROVE  /\ link'[q][i].seq < link'[q][i].total
                      /\ i > 1 /\ link'[q][i].seq > 0 => Follows(link'[q][i], link'[q][i - 1])
  BY DEF RunInv, Follows, IsChunk
<1>3. CASE q # p
  BY <1>1, <1>2, <1>3 DEF LossInv, RunInv, Behind
<1>4. CASE q = p
  <2>1. /\ i \in Nat /\ i > 0 /\ i + 1 \in DOMAIN link[p] /\ link'[p][i] = link[p][i + 1]
        /\ i > 1 => link'[p][i - 1] = link[p][i]
    BY <1>1, <1>4 DEF Behind
  <2>2. i + 1 > 1 /\ (i + 1) - 1 = i
    BY <2>1
  <2>3. QED  BY <1>2, <1>4, <2>1, <2>2 DEF LossInv, RunInv
<1>5. QED  BY <1>3, <1>4

\* What is under one id stays so as links get shorter, and as partial messages go.
LEMMA TakenOne ==
    ASSUME Inv, OrderInv, LossInv, NEW p \in Peers, NEW f, Takes(p, f)
    PROVE  /\ \A q \in Peers : \A i, j \in DOMAIN link'[q] :
                i # j /\ link'[q][i].msg = link'[q][j].msg =>
                  link'[q][i].total > 0 /\ link'[q][i].id = link'[q][j].id
           /\ \A q \in Peers : \A i \in DOMAIN link'[q] : \A x \in partials :
                Holds(x, q, link'[q][i].msg) =>
                  /\ link'[q][i].total > 0
                  /\ x.key = [peer |-> q, conn |-> conn'[q], id |-> link'[q][i].id]
           /\ \A i \in DOMAIN link'[p] : link'[p][i].msg = f.msg =>
                /\ IsChunk(f) /\ link'[p][i].total > 0 /\ link'[p][i].id = f.id
                /\ link'[p][i].seq > f.seq
<1>1. Behind(p, f) /\ conn' = conn
  BY TakesBehind DEF Takes
<1>2. \A q \in Peers : q # p => link'[q] = link[q]
  BY <1>1 DEF Behind
<1>3. \A i \in DOMAIN link'[p] :
        i \in Nat /\ i > 0 /\ i + 1 \in DOMAIN link[p] /\ link'[p][i] = link[p][i + 1]
  BY <1>1 DEF Behind
<1>4. ASSUME NEW q \in Peers, NEW i \in DOMAIN link'[q], NEW j \in DOMAIN link'[q],
             i # j, link'[q][i].msg = link'[q][j].msg
      PROVE  link'[q][i].total > 0 /\ link'[q][i].id = link'[q][j].id
  <2>1. CASE q # p
    BY <1>2, <1>4, <2>1 DEF LossInv, OneInv, IsChunk
  <2>2. CASE q = p
    <3>1. i + 1 # j + 1
      BY <1>3, <1>4, <2>2
    <3>2. QED  BY <1>3, <1>4, <2>2, <3>1 DEF LossInv, OneInv, IsChunk
  <2>3. QED  BY <2>1, <2>2
<1>5. ASSUME NEW q \in Peers, NEW i \in DOMAIN link'[q], NEW x \in partials,
             Holds(x, q, link'[q][i].msg)
      PROVE  /\ link'[q][i].total > 0
             /\ x.key = [peer |-> q, conn |-> conn'[q], id |-> link'[q][i].id]
  <2>1. PICK k \in DOMAIN link[q] : link'[q][i] = link[q][k]
    BY <1>2, <1>3, <1>5
  <2>2. IsChunk(link[q][k]) /\ x.key = KeyOf(q, link[q][k])
    BY <1>5, <2>1 DEF LossInv, OneInv
  <2>3. QED  BY <1>1, <2>1, <2>2 DEF IsChunk, KeyOf
<1>6. ASSUME NEW i \in DOMAIN link'[p], link'[p][i].msg = f.msg
      PROVE  /\ IsChunk(f) /\ link'[p][i].total > 0 /\ link'[p][i].id = f.id
             /\ link'[p][i].seq > f.seq
  <2>1. /\ i + 1 \in DOMAIN link[p] /\ link'[p][i] = link[p][i + 1]
        /\ 1 \in DOMAIN link[p] /\ f = link[p][1] /\ i + 1 # 1 /\ 1 < i + 1
    BY <1>1, <1>3 DEF Behind
  <2>2. IsChunk(f) /\ IsChunk(link[p][i + 1]) /\ link[p][i + 1].id = f.id
    BY <1>6, <2>1 DEF LossInv, OneInv
  <2>3. f.seq < link[p][i + 1].seq
    BY <2>1, <2>2 DEF Inv, LinkInv
  <2>4. /\ link[p][i + 1] \in Fragments /\ f \in Fragments
    <3>1. link[p] \in Seq(Fragments)
      BY DEF Inv, FieldsInv
    <3>2. QED  BY <2>1, <3>1
  <2>5. QED  BY <2>1, <2>2, <2>3, <2>4 DEF IsChunk, Fragments
<1>7. QED  BY <1>4, <1>5, <1>6

\* Whatever is taken, what is lost already stays broken.
LEMMA TakenBroken ==
    ASSUME Inv, OrderInv, LossInv, NEW p \in Peers, NEW f, Takes(p, f),
           NEW q \in Peers, NEW n \in Nat, NEW k \in Nat, Broken(q, n, k)
    PROVE  \A i \in DOMAIN link'[q] :
              link'[q][i].msg = n => link'[q][i].total > 0 /\ k < link'[q][i].seq
<1>1. Behind(p, f)
  BY TakesBehind
<1>2. ASSUME NEW i \in DOMAIN link'[q] PROVE \E j \in DOMAIN link[q] : link'[q][i] = link[q][j]
  BY <1>1 DEF Behind
<1>3. QED  BY <1>2 DEF Broken, IsChunk

LEMMA AppendedSet ==
    ASSUME NEW l \in Seq(Nat), NEW n \in Nat
    PROVE  {Append(l, n)[i] : i \in DOMAIN Append(l, n)} = {l[i] : i \in DOMAIN l} \cup {n}
<1> DEFINE a == Append(l, n)
<1>1. /\ DOMAIN l = 1..Len(l) /\ DOMAIN a = 1..Len(l) + 1 /\ Len(l) \in Nat
      /\ a[Len(l) + 1] = n
  OBVIOUS
<1>2. \A i \in DOMAIN l : i \in DOMAIN a /\ a[i] = l[i]
  OBVIOUS
<1>3. Len(l) + 1 \in DOMAIN a /\ \A i \in DOMAIN a : i \in DOMAIN l \/ i = Len(l) + 1
  BY <1>1
<1> HIDE DEF a
<1>4. {a[i] : i \in DOMAIN a} \subseteq {l[i] : i \in DOMAIN l} \cup {n}
  BY <1>1, <1>2, <1>3
<1>5. {l[i] : i \in DOMAIN l} \cup {n} \subseteq {a[i] : i \in DOMAIN a}
  BY <1>1, <1>2, <1>3
<1>6. QED  BY <1>4, <1>5 DEF a

LEMMA TakeWholeLoss ==
    ASSUME Inv, OrderInv, LossInv, NEW p \in Peers, TakeWhole(p)
    PROVE  LossInv'
<1>1. PICK f : f = Head(link[p])
  OBVIOUS
<1>2. /\ Takes(p, f) /\ ~ IsChunk(f) /\ UNCHANGED <<partials, lost, sent, conn>>
      /\ received' = [received EXCEPT ![p] = Append(@, f.msg)]
  BY <1>1 DEF TakeWhole, Takes, buffer
<1>3. Behind(p, f) /\ Final(f)
  BY <1>2, TakesBehind DEF Final
<1>4. PartsInv'
  BY <1>2 DEF LossInv, PartsInv
<1>5. OneInv'
  <2>1. \A q \in Peers : \A x, y \in partials : \A n \in Nat :
           Holds(x, q, n) /\ Holds(y, q, n) => x = y
    BY DEF LossInv, OneInv
  <2>2. QED  BY <1>2, <2>1, TakenOne DEF OneInv, IsChunk, KeyOf, Holds
<1>6. RunInv'
  BY <1>2, TakenRun
<1>7. /\ received \in [Peers -> Seq(Nat)] /\ received' \in [Peers -> Seq(Nat)]
      /\ Handed(p)' = Handed(p) \cup {f.msg} /\ \A q \in Peers : q # p => Handed(q)' = Handed(q)
  <2>1. received \in [Peers -> Seq(Nat)] /\ received[p] \in Seq(Nat) /\ f.msg \in Nat
    BY <1>3 DEF LossInv, HandInv, Behind
  <2>2. Append(received[p], f.msg) \in Seq(Nat)
    BY <2>1
  <2>3. /\ received'[p] = Append(received[p], f.msg)
        /\ \A q \in Peers : q # p => received'[q] = received[q]
        /\ received' \in [Peers -> Seq(Nat)]
    BY <1>2, <2>1, <2>2
  <2>4. {Append(received[p], f.msg)[i] : i \in DOMAIN Append(received[p], f.msg)}
          = {received[p][i] : i \in DOMAIN received[p]} \cup {f.msg}
    BY <2>1, AppendedSet
  <2>5. QED  BY <2>1, <2>3, <2>4 DEF Handed
<1>8. f.msg \in Nat /\ <<p, f.msg>> \notin lost
  <2>1. f.msg \in Nat /\ f = link[p][1] /\ 1 \in DOMAIN link[p]
    BY <1>3 DEF Behind
  <2>2. QED  BY <1>2, <2>1 DEF LossInv, LostInv, Broken
<1>9. HandInv'
  <2>1. SUFFICES ASSUME NEW q \in Peers, NEW n \in Handed(q)'
                 PROVE  /\ n > 0 /\ n <= sent[q] /\ <<q, n>> \notin lost
                        /\ \A i \in DOMAIN link'[q] : n # link'[q][i].msg
                        /\ \A x \in partials : ~ Holds(x, q, n)
    BY <1>2, <1>7 DEF HandInv, Holds
  <2>2. CASE n \in Handed(q)
    <3>1. /\ n > 0 /\ n <= sent[q] /\ <<q, n>> \notin lost
          /\ \A i \in DOMAIN link[q] : n # link[q][i].msg
          /\ \A x \in partials : ~ Holds(x, q, n)
      BY <2>2 DEF LossInv, HandInv
    <3>2. \A i \in DOMAIN link'[q] : \E j \in DOMAIN link[q] : link'[q][i] = link[q][j]
      BY <1>3 DEF Behind
    <3>3. QED  BY <3>1, <3>2
  <2>3. CASE q = p /\ n = f.msg
    <3>1. n > 0 /\ n <= sent[q] /\ f = link[p][1] /\ 1 \in DOMAIN link[p]
      BY <1>3, <2>3 DEF Behind
    <3>2. \A i \in DOMAIN link'[q] : n # link'[q][i].msg
      BY <1>3, <2>3 DEF Behind
    <3>3. \A x \in partials : ~ Holds(x, q, n)
      BY <1>2, <2>3, <3>1 DEF LossInv, OneInv
    <3>4. QED  BY <1>8, <2>3, <3>1, <3>2, <3>3
  <2>4. QED  BY <1>7, <2>1, <2>2, <2>3
<1>10. LostInv'
  <2>1. SUFFICES ASSUME NEW q \in Peers, NEW n \in Nat, <<q, n>> \in lost
                 PROVE  n <= sent[q] /\ \E k \in Nat : Broken(q, n, k)'
    BY <1>2 DEF LostInv
  <2>2. PICK k \in Nat : n <= sent[q] /\ Broken(q, n, k)
    BY <2>1 DEF LossInv, LostInv
  <2>3. Broken(q, n, k)'
    BY <1>2, <2>2, TakenBroken DEF Broken, Holds, IsChunk
  <2>4. QED  BY <2>2, <2>3
<1>11. HeadInv'
  <2>1. SUFFICES ASSUME NEW q \in Peers, link'[q] # <<>>, IsChunk(link'[q][1]),
                        link'[q][1].seq > 0, <<q, link'[q][1].msg>> \notin lost
                 PROVE  \E x \in partials : /\ x.key = KeyOf(q, link'[q][1])
                                            /\ DOMAIN x.parts = 0..link'[q][1].seq - 1
    BY <1>2 DEF HeadInv, IsChunk, KeyOf
  <2>2. CASE q # p
    BY <1>3, <2>1, <2>2 DEF Behind, LossInv, HeadInv
  <2>3. CASE q = p
    <3>1. 1 \in DOMAIN link'[p]
      BY <2>1, <2>3, <1>2, TakenFacts DEF Takes
    <3>2. link'[p][1] = link[p][2] /\ 2 \in DOMAIN link[p] /\ f = link[p][1]
      BY <1>3, <3>1 DEF Behind
    <3>3. Follows(link[p][2], link[p][1])
      BY <2>1, <2>3, <3>2 DEF LossInv, RunInv
    <3>4. QED  BY <1>2, <3>2, <3>3 DEF Follows
  <2>4. QED  BY <2>2, <2>3
<1>12. HereInv'
  <2>1. SUFFICES ASSUME NEW q \in Peers, NEW n \in 1..sent[q]
                 PROVE  <<q, n>> \in lost \/ n \in Handed(q)' \/ n \in Due(link'[q])
    BY <1>2 DEF HereInv, Due, Final, IsChunk
  <2>2. <<q, n>> \in lost \/ n \in Handed(q) \/ n \in Due(link[q])
    BY DEF LossInv, HereInv
  <2>3. QED  BY <1>3, <1>7, <2>2 DEF Behind
<1>13. QED  BY <1>4, <1>5, <1>6, <1>9, <1>10, <1>11, <1>12 DEF LossInv

LEMMA MessagesHeld ==
    ASSUME NEW P, NEW q, NEW n
    PROVE  <<q, n>> \in Messages(P) <=> \E x \in P : Holds(x, q, n)
BY DEF Messages, Holds

\* A partial message that goes takes with it the first of the message, which no
\* other holds and nothing on the link brings again.
LEMMA GoneBroken ==
    ASSUME Inv, OrderInv, LossInv, NEW p \in Peers, NEW f, Takes(p, f),
           NEW q \in Peers, NEW n \in Nat, NEW x \in partials, Holds(x, q, n)
    PROVE  /\ n <= sent[q]
           /\ \A y \in partials \ {x} : ~ Holds(y, q, n)
           /\ \A i \in DOMAIN link'[q] :
                link'[q][i].msg = n => link'[q][i].total > 0 /\ 0 < link'[q][i].seq
<1>1. Behind(p, f)
  BY TakesBehind
<1>2. n <= sent[q]
  BY DEF Holds, LossInv, PartsInv
<1>3. \A y \in partials \ {x} : ~ Holds(y, q, n)
  BY DEF LossInv, OneInv
<1>4. ASSUME NEW i \in DOMAIN link'[q], link'[q][i].msg = n
      PROVE  link'[q][i].total > 0 /\ 0 < link'[q][i].seq
  <2>1. PICK j \in DOMAIN link[q] : link'[q][i] = link[q][j]
    BY <1>1 DEF Behind
  <2>2. IsChunk(link[q][j]) /\ 0 < link[q][j].seq
    BY <1>4, <2>1, OnLink
  <2>3. QED  BY <2>1, <2>2 DEF IsChunk
<1>5. QED  BY <1>2, <1>3, <1>4

\* The partial message of an unlost message that a link goes on with.
LEMMA HeadHeld ==
    ASSUME Inv, LossInv, NEW q \in Peers, link[q] # <<>>, IsChunk(link[q][1]),
           link[q][1].seq > 0, <<q, link[q][1].msg>> \notin lost
    PROVE  \E x \in partials : /\ x.key = KeyOf(q, link[q][1])
                               /\ DOMAIN x.parts = 0..link[q][1].seq - 1
                               /\ Holds(x, q, link[q][1].msg)
<1>1. PICK x \in partials : /\ x.key = KeyOf(q, link[q][1])
                            /\ DOMAIN x.parts = 0..link[q][1].seq - 1
  BY DEF LossInv, HeadInv
<1>2. 1 \in DOMAIN link[q] /\ link[q][1] \in Fragments
  <2>1. link[q] \in Seq(Fragments) /\ link[q] # <<>>
    BY DEF Inv, FieldsInv
  <2>2. QED  BY <2>1
<1>3. Continues(link[q][1], x)
  BY <1>1, <1>2 DEF Inv, FitInv
<1>4. 0 \in DOMAIN x.parts
  BY <1>1, <1>2 DEF Fragments
<1>5. Holds(x, q, link[q][1].msg)
  BY <1>1, <1>3, <1>4 DEF Holds, Continues, KeyOf
<1>6. QED  BY <1>1, <1>5

LEMMA RejectLoss ==
    ASSUME Inv, OrderInv, LossInv, NEW p \in Peers, Reject(p)
    PROVE  LossInv'
<1>1. PICK f : f = Head(link[p])
  OBVIOUS
<1>2. /\ Takes(p, f) /\ IsChunk(f) /\ UNCHANGED <<received, sent, conn>>
      /\ partials' \subseteq partials
      /\ lost' = lost \cup Messages(partials \ partials') \cup {<<p, f.msg>>}
  BY <1>1 DEF Reject, Takes, Fresh
<1>3. Behind(p, f)
  BY <1>2, TakesBehind
<1>4. PartsInv'
  BY <1>2 DEF LossInv, PartsInv
<1>5. OneInv'
  <2>1. \A q \in Peers : \A x, y \in partials' : \A n \in Nat :
           Holds(x, q, n) /\ Holds(y, q, n) => x = y
    BY <1>2 DEF LossInv, OneInv
  <2>2. QED  BY <1>2, <2>1, TakenOne DEF OneInv, IsChunk, KeyOf, Holds
<1>6. RunInv'
  BY <1>2, TakenRun
<1>7. f = link[p][1] /\ 1 \in DOMAIN link[p] /\ f.msg \in Nat /\ f.seq \in Nat /\ f.msg <= sent[p]
  BY <1>3 DEF Behind
<1>8. \A q : Handed(q)' = Handed(q)
  BY <1>2 DEF Handed
<1>9. HandInv'
  <2>1. SUFFICES ASSUME NEW q \in Peers, NEW n \in Handed(q)
                 PROVE  /\ n > 0 /\ n <= sent[q] /\ <<q, n>> \notin lost'
                        /\ \A i \in DOMAIN link'[q] : n # link'[q][i].msg
                        /\ \A x \in partials' : ~ Holds(x, q, n)
    BY <1>2, <1>8 DEF HandInv, Holds, LossInv
  <2>2. /\ n > 0 /\ n <= sent[q] /\ <<q, n>> \notin lost
        /\ \A i \in DOMAIN link[q] : n # link[q][i].msg
        /\ \A x \in partials : ~ Holds(x, q, n)
    BY DEF LossInv, HandInv
  <2>3. \A i \in DOMAIN link'[q] : \E j \in DOMAIN link[q] : link'[q][i] = link[q][j]
    BY <1>3 DEF Behind
  <2>4. <<q, n>> \notin Messages(partials \ partials') /\ <<q, n>> # <<p, f.msg>>
    BY <1>7, <2>2, MessagesHeld
  <2>5. QED  BY <1>2, <2>2, <2>3, <2>4
<1>10. LostInv'
  <2>1. SUFFICES ASSUME NEW q \in Peers, NEW n \in Nat, <<q, n>> \in lost'
                 PROVE  n <= sent[q] /\ \E k \in Nat : Broken(q, n, k)'
    BY <1>2 DEF LostInv
  <2>2. CASE <<q, n>> \in lost
    <3>1. PICK k \in Nat : n <= sent[q] /\ Broken(q, n, k)
      BY <2>2 DEF LossInv, LostInv
    <3>2. Broken(q, n, k)'
      BY <1>2, <3>1, TakenBroken DEF Broken, Holds, IsChunk
    <3>3. QED  BY <3>1, <3>2
  <2>3. CASE \E x \in partials \ partials' : Holds(x, q, n)
    <3>1. PICK x \in partials : x \notin partials' /\ Holds(x, q, n)
      BY <2>3
    <3>2. /\ n <= sent[q]
          /\ \A y \in partials \ {x} : ~ Holds(y, q, n)
          /\ \A i \in DOMAIN link'[q] :
               link'[q][i].msg = n => link'[q][i].total > 0 /\ 0 < link'[q][i].seq
      BY <1>2, <3>1, GoneBroken
    <3>3. \A y \in partials' : ~ Holds(y, q, n)
      BY <1>2, <3>1, <3>2
    <3>4. Broken(q, n, 0)'
      BY <3>2, <3>3 DEF Broken, Holds, IsChunk
    <3>5. QED  BY <3>2, <3>4
  <2>4. CASE q = p /\ n = f.msg
    <3>1. \A x \in partials : Holds(x, p, n) => f.seq \notin DOMAIN x.parts /\ f.seq < x.total
      BY <1>7, <2>4, OnLink
    <3>2. \A i \in DOMAIN link'[p] : link'[p][i].msg = n =>
             link'[p][i].total > 0 /\ f.seq < link'[p][i].seq
      <4>1. \A i \in DOMAIN link'[p] : link'[p][i].msg = n =>
               link'[p][i].total > 0 /\ link'[p][i].seq > f.seq
        BY <1>2, <2>4, TakenOne
      <4>2. QED  BY <4>1
    <3>3. Broken(p, n, f.seq)'
      BY <1>2, <3>1, <3>2 DEF Broken, Holds, IsChunk
    <3>4. QED  BY <1>7, <2>4, <3>3
  <2>5. QED  BY <1>2, <2>1, <2>2, <2>3, <2>4, MessagesHeld
<1>11. HeadInv'
  <2>1. SUFFICES ASSUME NEW q \in Peers, link'[q] # <<>>, IsChunk(link'[q][1]),
                        link'[q][1].seq > 0, <<q, link'[q][1].msg>> \notin lost'
                 PROVE  \E x \in partials' : /\ x.key = KeyOf(q, link'[q][1])
                                             /\ DOMAIN x.parts = 0..link'[q][1].seq - 1
    BY <1>2 DEF HeadInv, IsChunk, KeyOf
  <2>2. CASE q # p
    <3>1. link'[q] = link[q] /\ <<q, link'[q][1].msg>> \notin lost
      BY <1>2, <1>3, <2>1, <2>2 DEF Behind
    <3>2. PICK x \in partials : /\ x.key = KeyOf(q, link[q][1])
                                /\ DOMAIN x.parts = 0..link[q][1].seq - 1
                                /\ Holds(x, q, link[q][1].msg)
      BY <2>1, <3>1, HeadHeld
    <3>3. x \in partials'
      BY <1>2, <2>1, <3>1, <3>2, MessagesHeld
    <3>4. QED  BY <3>1, <3>2, <3>3
  <2>3. CASE q = p
    <3>1. 1 \in DOMAIN link'[p]
      BY <2>1, <2>3, <1>2, TakenFacts DEF Takes
    <3>2. link'[p][1] = link[p][2] /\ 2 \in DOMAIN link[p] /\ f = link[p][1]
      BY <1>3, <3>1 DEF Behind
    <3>3. Follows(link[p][2], link[p][1])
      BY <2>1, <2>3, <3>2 DEF LossInv, RunInv
    <3>4. QED  BY <1>2, <2>1, <2>3, <3>2, <3>3 DEF Follows
  <2>4. QED  BY <2>2, <2>3
<1>12. HereInv'
  <2>1. SUFFICES ASSUME NEW q \in Peers, NEW n \in 1..sent[q]
                 PROVE  <<q, n>> \in lost' \/ n \in Handed(q) \/ n \in Due(link'[q])
    BY <1>2, <1>8 DEF HereInv, Due, Final, IsChunk
  <2>2. <<q, n>> \in lost \/ n \in Handed(q) \/ n \in Due(link[q])
    BY DEF LossInv, HereInv
  <2>3. QED  BY <1>2, <1>3, <2>2 DEF Behind
<1>13. QED  BY <1>4, <1>5, <1>6, <1>9, <1>10, <1>11, <1>12 DEF LossInv

-----------------------------------------------------------------------------

\* Ingest(p), for the messages: what stays of the others, and what goes.
Ingesting(p, f, old, new, room, kept) ==
    /\ Takes(p, f) /\ Behind(p, f) /\ Continued(p, f, old, new)
    /\ old.key = KeyOf(p, f) /\ room \subseteq partials
    /\ \/ old \in partials /\ old \in room
       \/ DOMAIN old.parts = {}
    /\ \A y \in room \ {old} : y # new /\ y.key # KeyOf(p, f) /\ ~ Holds(y, p, f.msg)
    /\ \A x \in partials \ room : x.key = KeyOf(p, f) => DOMAIN old.parts = {}
    /\ kept \subseteq (room \ {old}) \cup {new}
    /\ partials' = kept \ Done(new, kept)
    /\ received' = IF Done(new, kept) = {} THEN received
                   ELSE [received EXCEPT ![p] = Append(@, f.msg)]
    /\ Done(new, kept) # {} => /\ Done(new, kept) = {new} /\ new \in kept /\ Final(f)
                               /\ DOMAIN new.parts = 0..f.total - 1
    /\ DOMAIN new.parts = 0..f.total - 1 /\ new \in kept => Done(new, kept) = {new}
    /\ \A q, n : Holds(new, q, n) <=> q = p /\ n = f.msg
    /\ \A q, n : <<q, n>> \in lost' <=>
         \/ <<q, n>> \in lost
         \/ \E x \in partials \ room : Holds(x, q, n)
         \/ \E x \in (room \ {old}) \ kept : Holds(x, q, n)
         \/ new \notin kept /\ q = p /\ n = f.msg

LEMMA IngestIngests ==
    ASSUME Inv, OrderInv, LossInv, NEW p \in Peers, Ingest(p)
    PROVE  \E f, old, new, room, kept : Ingesting(p, f, old, new, room, kept)
<1>1. PICK f : f = Head(link[p])
  OBVIOUS
<1>2. PICK old, new, room, kept : Ingests(p, f, old, new, room, kept)
  BY <1>1, IngestShape
<1>3. Takes(p, f)
  BY <1>1 DEF Ingest, Takes
<1>4. Behind(p, f)
  BY <1>3, TakesBehind
<1>5. Continued(p, f, old, new)
  BY <1>1, <1>2, IngestNew
<1>6. /\ old.key = KeyOf(p, f) /\ Fresh \subseteq partials /\ room \subseteq Fresh
      /\ kept \subseteq (room \ {old}) \cup {new}
      /\ partials' = kept \ Done(new, kept)
      /\ lost' = lost \cup Messages((partials \ room) \cup (((room \ {old}) \cup {new}) \ kept))
      /\ \/ old \in Fresh /\ room = Fresh
         \/ DOMAIN old.parts = {} /\ \A x \in Fresh : x.key # KeyOf(p, f)
  BY <1>2 DEF Ingests, Fresh, Opened
<1>7. f = link[p][1] /\ 1 \in DOMAIN link[p]
  BY <1>4 DEF Behind
<1>8. new.key = KeyOf(p, f)
  BY <1>5 DEF Continued
<1>9. \A x, y \in partials : x.key = y.key => x = y
  BY DEF LossInv, PartsInv
<1>10. ASSUME NEW y \in room \ {old}
       PROVE  y # new /\ y.key # KeyOf(p, f) /\ ~ Holds(y, p, f.msg)
  <2>1. y.key # KeyOf(p, f)
    BY <1>6, <1>9
  <2>2. ~ Holds(y, p, f.msg)
    BY <1>6, <1>7, <2>1 DEF LossInv, OneInv
  <2>3. QED  BY <1>8, <2>1, <2>2
<1>11. ASSUME NEW x \in partials \ room, x.key = KeyOf(p, f)
       PROVE  DOMAIN old.parts = {}
  BY <1>6, <1>9, <1>11
<1>12. /\ f.seq \in Nat /\ f.total \in Nat /\ f.seq < f.total /\ new.total = f.total
       /\ DOMAIN new.parts = DOMAIN old.parts \cup {f.seq}
       /\ \A s \in DOMAIN new.parts :
              s \in Nat /\ s <= f.seq /\ new.parts[s].msg = f.msg /\ new.parts[s].seq = s
  BY <1>5 DEF Continued
<1>13. /\ Complete(new) <=> DOMAIN new.parts = 0..f.total - 1
       /\ Complete(new) => f.seq = f.total - 1 /\ Decode(new) = f.msg
  <2>1. f.seq \in DOMAIN new.parts
    BY <1>12
  <2>2. QED  BY <1>12, <2>1, CompleteFacts
<1>14. /\ Done(new, kept) # {} => /\ Done(new, kept) = {new} /\ new \in kept /\ Final(f)
                                  /\ DOMAIN new.parts = 0..f.total - 1
       /\ DOMAIN new.parts = 0..f.total - 1 /\ new \in kept => Done(new, kept) = {new}
       /\ Done(new, kept) # {} => Decode(new) = f.msg
  BY <1>13 DEF Done, Final
<1>15. received' = IF Done(new, kept) = {} THEN received
                   ELSE [received EXCEPT ![p] = Append(@, f.msg)]
  BY <1>2, <1>14 DEF Ingests
<1>16. \A q, n : Holds(new, q, n) <=> q = p /\ n = f.msg
  BY <1>8, <1>12 DEF Holds, KeyOf
<1>17. ASSUME NEW q, NEW n
       PROVE  <<q, n>> \in lost' <=>
                \/ <<q, n>> \in lost
                \/ \E x \in partials \ room : Holds(x, q, n)
                \/ \E x \in (room \ {old}) \ kept : Holds(x, q, n)
                \/ new \notin kept /\ q = p /\ n = f.msg
  <2> DEFINE gone == (partials \ room) \cup (((room \ {old}) \cup {new}) \ kept)
  <2>1. <<q, n>> \in lost' <=> <<q, n>> \in lost \/ \E x \in gone : Holds(x, q, n)
    BY <1>6, MessagesHeld
  <2>2. (\E x \in gone : Holds(x, q, n)) <=>
           \/ \E x \in partials \ room : Holds(x, q, n)
           \/ \E x \in (room \ {old}) \ kept : Holds(x, q, n)
           \/ new \notin kept /\ Holds(new, q, n)
    OBVIOUS
  <2>3. QED  BY <1>16, <2>1, <2>2
<1>18. (old \in partials /\ old \in room) \/ DOMAIN old.parts = {}
  BY <1>6
<1>19. Ingesting(p, f, old, new, room, kept)
  BY <1>3, <1>4, <1>5, <1>6, <1>10, <1>11, <1>14, <1>15, <1>16, <1>17, <1>18 DEF Ingesting
<1>20. QED  BY <1>19

\* What an ingest leaves: partial messages of before, and the one of its fragment.
Leaving(p, f, old, new, room, kept) ==
    /\ \A x \in partials' : x = new \/ (x \in partials /\ x \in room \ {old} /\ x \in kept)
    /\ f \in Fragments /\ IsChunk(f) /\ f.seq \in Nat /\ f.total \in Nat /\ f.msg \in Nat
    /\ f.seq < f.total /\ f.msg > 0 /\ f.msg <= sent[p]
    /\ f = link[p][1] /\ 1 \in DOMAIN link[p] /\ link[p] # <<>>
    /\ conn' = conn /\ sent' = sent
    /\ new.key = [peer |-> p, conn |-> conn[p], id |-> f.id] /\ new.total = f.total
    /\ DOMAIN new.parts = DOMAIN old.parts \cup {f.seq}
    /\ \A s \in DOMAIN new.parts : s \in Nat /\ s <= f.seq /\ new.parts[s].msg = f.msg
    /\ \A s \in DOMAIN old.parts : s \in Nat /\ s < f.seq

LEMMA IngestLeaves ==
    ASSUME NEW p \in Peers, NEW f, NEW old, NEW new, NEW room, NEW kept,
           Ingesting(p, f, old, new, room, kept)
    PROVE  Leaving(p, f, old, new, room, kept)
BY DEF Ingesting, Takes, Behind, Continued, Continues, KeyOf, Leaving

\* The message of a fragment that is not lost by it is whole so far.
LEMMA IngestWhole ==
    ASSUME Inv, OrderInv, LossInv, NEW p \in Peers, NEW f, NEW old, NEW new, NEW room,
           NEW kept, Ingesting(p, f, old, new, room, kept), <<p, f.msg>> \notin lost'
    PROVE  new \in kept /\ DOMAIN new.parts = 0..f.seq
<1>0. Leaving(p, f, old, new, room, kept)
  BY IngestLeaves
<1>1. /\ new \in kept /\ <<p, f.msg>> \notin lost
      /\ \A x \in partials \ room : ~ Holds(x, p, f.msg)
      /\ \A y \in room \ {old} : y.key # KeyOf(p, f)
  BY DEF Ingesting
<1>2. /\ f = link[p][1] /\ link[p] # <<>> /\ IsChunk(f) /\ f.seq \in Nat
      /\ DOMAIN new.parts = DOMAIN old.parts \cup {f.seq}
      /\ \A s \in DOMAIN old.parts : s \in Nat /\ s < f.seq
  BY <1>0 DEF Leaving
<1>3. DOMAIN old.parts = 0..f.seq - 1
  <2>1. CASE f.seq = 0
    BY <1>2, <2>1
  <2>2. CASE f.seq > 0
    <3>1. PICK x \in partials : /\ x.key = KeyOf(p, f) /\ DOMAIN x.parts = 0..f.seq - 1
                                /\ Holds(x, p, f.msg)
      BY <1>1, <1>2, <2>2, HeadHeld
    <3>2. x = old
      BY <1>1, <3>1
    <3>3. QED  BY <3>1, <3>2
  <2>3. QED  BY <1>2, <2>1, <2>2
<1>4. QED  BY <1>1, <1>2, <1>3

LEMMA IngestParts ==
    ASSUME Inv, OrderInv, LossInv, NEW p \in Peers, NEW f, NEW old, NEW new, NEW room,
           NEW kept, Ingesting(p, f, old, new, room, kept)
    PROVE  PartsInv'
<1>0. Leaving(p, f, old, new, room, kept)
  BY IngestLeaves
<1>1. \A x \in partials' : x = new \/ (x \in partials /\ x \in room \ {old})
  BY <1>0 DEF Leaving
<1>2. new.key = KeyOf(p, f) /\ \A y \in room \ {old} : y.key # KeyOf(p, f)
  BY DEF Ingesting, Continued
<1>3. \A x, y \in partials' : x.key = y.key => x = y
  BY <1>1, <1>2 DEF LossInv, PartsInv
<1>4. ASSUME NEW x \in partials'
      PROVE  /\ x.key.peer \in Peers
             /\ \A s \in DOMAIN x.parts : /\ s \in Nat /\ s < x.total
                    /\ x.parts[s].msg \in Nat /\ x.parts[s].msg <= sent'[x.key.peer]
  <2>1. CASE x = new
    <3>1. /\ x.key.peer = p /\ x.total = f.total /\ f.seq \in Nat /\ f.total \in Nat
          /\ f.seq < f.total /\ f.msg \in Nat /\ f.msg <= sent'[p]
      BY <2>1, <1>0 DEF Leaving
    <3>2. \A s \in DOMAIN x.parts : s \in Nat /\ s <= f.seq /\ x.parts[s].msg = f.msg
      BY <2>1, <1>0 DEF Leaving
    <3>3. QED  BY <3>1, <3>2
  <2>2. CASE x \in partials
    BY <2>2, <1>0 DEF Leaving, LossInv, PartsInv
  <2>3. QED  BY <1>1, <2>1, <2>2
<1>5. QED  BY <1>3, <1>4 DEF PartsInv

LEMMA IngestOne ==
    ASSUME Inv, OrderInv, LossInv, NEW p \in Peers, NEW f, NEW old, NEW new, NEW room,
           NEW kept, Ingesting(p, f, old, new, room, kept)
    PROVE  OneInv'
<1>0. Leaving(p, f, old, new, room, kept)
  BY IngestLeaves
<1>1. Takes(p, f) /\ conn' = conn
  BY DEF Ingesting, Takes
<1>2. \A x \in partials' : x = new \/ (x \in partials /\ x \in room \ {old})
  BY <1>0 DEF Leaving
<1>3. new.key = [peer |-> p, conn |-> conn[p], id |-> f.id]
  BY <1>0 DEF Leaving
<1>4. \A q, n : Holds(new, q, n) <=> q = p /\ n = f.msg
  BY DEF Ingesting
<1>5. \A y \in room \ {old} : ~ Holds(y, p, f.msg)
  BY DEF Ingesting
<1>6. \A q \in Peers : \A i, j \in DOMAIN link'[q] :
         i # j /\ link'[q][i].msg = link'[q][j].msg =>
           link'[q][i].total > 0 /\ link'[q][i].id = link'[q][j].id
  BY <1>1, TakenOne
<1>7. ASSUME NEW q \in Peers, NEW i \in DOMAIN link'[q], NEW x \in partials',
             Holds(x, q, link'[q][i].msg)
      PROVE  /\ link'[q][i].total > 0
             /\ x.key = [peer |-> q, conn |-> conn'[q], id |-> link'[q][i].id]
  <2>1. CASE x = new
    <3>1. q = p /\ link'[p][i].msg = f.msg
      BY <1>4, <1>7, <2>1
    <3>2. link'[p][i].total > 0 /\ link'[p][i].id = f.id
      BY <1>1, <1>7, <3>1, TakenOne
    <3>3. QED  BY <1>1, <1>3, <2>1, <3>1, <3>2
  <2>2. CASE x \in partials
    BY <1>1, <1>7, <2>2, TakenOne
  <2>3. QED  BY <1>2, <2>1, <2>2
<1>8. ASSUME NEW q \in Peers, NEW x \in partials', NEW y \in partials', NEW n \in Nat,
             Holds(x, q, n), Holds(y, q, n)
      PROVE  x = y
  <2>1. CASE x = new
    BY <1>2, <1>4, <1>5, <1>8, <2>1
  <2>2. CASE y = new
    BY <1>2, <1>4, <1>5, <1>8, <2>2
  <2>3. CASE x \in partials /\ y \in partials
    BY <1>8, <2>3 DEF LossInv, OneInv
  <2>4. QED  BY <1>2, <2>1, <2>2, <2>3
<1>9. QED  BY <1>6, <1>7, <1>8 DEF OneInv, IsChunk, KeyOf, Holds

\* What is handed on by it.
LEMMA IngestHanded ==
    ASSUME Inv, OrderInv, LossInv, NEW p \in Peers, NEW f, NEW old, NEW new, NEW room,
           NEW kept, Ingesting(p, f, old, new, room, kept)
    PROVE  /\ received' \in [Peers -> Seq(Nat)]
           /\ Done(new, kept) = {} => \A q \in Peers : Handed(q)' = Handed(q)
           /\ Done(new, kept) # {} => /\ \A q \in Peers : q # p => Handed(q)' = Handed(q)
                                      /\ Handed(p)' = Handed(p) \cup {f.msg}
<1>0. Leaving(p, f, old, new, room, kept)
  BY IngestLeaves
<1>1. f.msg \in Nat /\ received \in [Peers -> Seq(Nat)]
  BY <1>0 DEF Leaving, LossInv, HandInv
<1>2. received' = IF Done(new, kept) = {} THEN received
                  ELSE [received EXCEPT ![p] = Append(@, f.msg)]
  BY DEF Ingesting
<1>3. CASE Done(new, kept) = {}
  BY <1>1, <1>2, <1>3 DEF Handed
<1>4. CASE Done(new, kept) # {}
  <2>1. /\ received[p] \in Seq(Nat) /\ received'[p] = Append(received[p], f.msg)
        /\ \A q \in Peers : q # p => received'[q] = received[q]
        /\ received' \in [Peers -> Seq(Nat)]
    BY <1>1, <1>2, <1>4
  <2>2. {Append(received[p], f.msg)[i] : i \in DOMAIN Append(received[p], f.msg)}
          = {received[p][i] : i \in DOMAIN received[p]} \cup {f.msg}
    BY <1>1, <2>1, AppendedSet
  <2>3. QED  BY <1>4, <2>1, <2>2 DEF Handed
<1>5. QED  BY <1>3, <1>4

LEMMA IngestHand ==
    ASSUME Inv, OrderInv, LossInv, NEW p \in Peers, NEW f, NEW old, NEW new, NEW room,
           NEW kept, Ingesting(p, f, old, new, room, kept)
    PROVE  HandInv'
<1>0. Leaving(p, f, old, new, room, kept)
  BY IngestLeaves
<1>1. /\ Takes(p, f) /\ Behind(p, f) /\ room \subseteq partials
      /\ old \in partials \/ DOMAIN old.parts = {}
      /\ \A y \in room \ {old} : ~ Holds(y, p, f.msg)
      /\ \A x \in partials \ room : x.key = KeyOf(p, f) => DOMAIN old.parts = {}
      /\ partials' = kept \ Done(new, kept)
      /\ Done(new, kept) # {} => /\ Done(new, kept) = {new} /\ new \in kept /\ Final(f)
                                 /\ DOMAIN new.parts = 0..f.total - 1
  BY DEF Ingesting
<1>2. \A q, n : Holds(new, q, n) <=> q = p /\ n = f.msg
  BY DEF Ingesting
<1>3. /\ \A x \in partials' : x = new \/ (x \in partials /\ x \in room \ {old})
      /\ sent' = sent /\ f = link[p][1] /\ 1 \in DOMAIN link[p] /\ IsChunk(f)
      /\ f.msg \in Nat /\ f.msg > 0 /\ f.msg <= sent[p]
      /\ f.seq \in Nat /\ f.total \in Nat /\ f.seq < f.total
      /\ DOMAIN new.parts = DOMAIN old.parts \cup {f.seq}
      /\ \A s \in DOMAIN old.parts : s \in Nat /\ s < f.seq
  BY <1>0 DEF Leaving
<1>4. \A q, n : <<q, n>> \in lost' =>
         \/ <<q, n>> \in lost
         \/ \E x \in partials \ room : Holds(x, q, n)
         \/ \E x \in (room \ {old}) \ kept : Holds(x, q, n)
         \/ new \notin kept /\ q = p /\ n = f.msg
  BY DEF Ingesting
<1>5. \A q \in Peers : \A i \in DOMAIN link'[q] : \E j \in DOMAIN link[q] : link'[q][i] = link[q][j]
  BY <1>1 DEF Behind
<1>6. ASSUME NEW q \in Peers, NEW n \in Handed(q)
      PROVE  /\ n > 0 /\ n <= sent[q] /\ <<q, n>> \notin lost'
             /\ \A i \in DOMAIN link'[q] : n # link'[q][i].msg
             /\ \A x \in partials' : ~ Holds(x, q, n)
  <2>1. /\ n > 0 /\ n <= sent[q] /\ <<q, n>> \notin lost
        /\ \A i \in DOMAIN link[q] : n # link[q][i].msg
        /\ \A x \in partials : ~ Holds(x, q, n)
    BY DEF LossInv, HandInv
  <2>2. ~ (q = p /\ n = f.msg)
    BY <1>3, <2>1
  <2>3. <<q, n>> \notin lost'
    BY <1>1, <1>4, <2>1, <2>2
  <2>4. \A x \in partials' : ~ Holds(x, q, n)
    BY <1>2, <1>3, <2>1, <2>2
  <2>5. \A i \in DOMAIN link'[q] : n # link'[q][i].msg
    BY <1>5, <2>1
  <2>6. QED  BY <2>1, <2>3, <2>4, <2>5
<1>7. ASSUME Done(new, kept) # {}
      PROVE  /\ <<p, f.msg>> \notin lost'
             /\ \A i \in DOMAIN link'[p] : f.msg # link'[p][i].msg
             /\ \A x \in partials' : ~ Holds(x, p, f.msg)
  <2>1. new \in kept /\ Final(f) /\ DOMAIN new.parts = 0..f.total - 1 /\ new \notin partials'
    BY <1>1, <1>7
  <2>2. \A i \in DOMAIN link'[p] : f.msg # link'[p][i].msg
    BY <1>1, <2>1 DEF Behind
  <2>3. \A x \in partials' : ~ Holds(x, p, f.msg)
    BY <1>1, <1>3, <2>1
  <2>4. <<p, f.msg>> \notin lost
    <3>1. SUFFICES ASSUME <<p, f.msg>> \in lost PROVE FALSE
      OBVIOUS
    <3>2. PICK k \in Nat : Broken(p, f.msg, k)
      BY <1>3, <3>1 DEF LossInv, LostInv
    <3>3. k < f.seq
      BY <1>3, <3>2 DEF Broken
    <3>4. k \in 0..f.total - 1
      BY <1>3, <3>3
    <3>5. k \in DOMAIN old.parts
      BY <1>3, <2>1, <3>3, <3>4
    <3>6. old \in partials
      BY <1>1, <3>5
    <3>7. Holds(old, p, f.msg)
      <4>1. old.key.peer = p /\ Continues(f, old)
        BY DEF Ingesting, Continued, KeyOf
      <4>2. QED  BY <3>5, <4>1 DEF Holds, Continues
    <3>8. QED  BY <3>2, <3>5, <3>6, <3>7 DEF Broken
  <2>5. ASSUME NEW x \in partials \ room, Holds(x, p, f.msg) PROVE FALSE
    <3>1. x.key = KeyOf(p, f) /\ f.seq > 0
      BY <1>3, <2>5, OnLink
    <3>2. DOMAIN new.parts = {f.seq}
      BY <1>1, <1>3, <3>1
    <3>3. 0 \in 0..f.total - 1
      BY <1>3
    <3>4. 0 \in DOMAIN new.parts
      BY <2>1, <3>3
    <3>5. 0 = f.seq
      BY <3>2, <3>4
    <3>6. QED  BY <1>3, <3>1, <3>5
  <2>6. <<p, f.msg>> \notin lost'
    BY <1>1, <1>4, <2>1, <2>4, <2>5
  <2>7. QED  BY <2>2, <2>3, <2>6
<1>8. /\ received' \in [Peers -> Seq(Nat)]
      /\ Done(new, kept) = {} => \A q \in Peers : Handed(q)' = Handed(q)
      /\ Done(new, kept) # {} => /\ \A q \in Peers : q # p => Handed(q)' = Handed(q)
                                 /\ Handed(p)' = Handed(p) \cup {f.msg}
  BY IngestHanded
<1>9. ASSUME NEW q \in Peers, NEW n \in Handed(q)'
      PROVE  /\ n > 0 /\ n <= sent'[q] /\ <<q, n>> \notin lost'
             /\ \A i \in DOMAIN link'[q] : n # link'[q][i].msg
             /\ \A x \in partials' : ~ Holds(x, q, n)
  <2>1. CASE n \in Handed(q)
    BY <1>3, <1>6, <2>1
  <2>2. CASE q = p /\ n = f.msg /\ Done(new, kept) # {}
    BY <1>3, <1>7, <2>2
  <2>3. QED  BY <1>8, <1>9, <2>1, <2>2
<1>10. QED  BY <1>8, <1>9 DEF HandInv, Holds

LEMMA IngestLost ==
    ASSUME Inv, OrderInv, LossInv, NEW p \in Peers, NEW f, NEW old, NEW new, NEW room,
           NEW kept, Ingesting(p, f, old, new, room, kept)
    PROVE  LostInv'
<1>0. Leaving(p, f, old, new, room, kept)
  BY IngestLeaves
<1>1. /\ Takes(p, f) /\ room \subseteq partials
      /\ old \in partials \/ DOMAIN old.parts = {}
      /\ \A y \in room \ {old} : ~ Holds(y, p, f.msg)
      /\ \A x \in partials \ room : x.key = KeyOf(p, f) => DOMAIN old.parts = {}
      /\ partials' = kept \ Done(new, kept)
  BY DEF Ingesting
<1>2. \A q, n : Holds(new, q, n) <=> q = p /\ n = f.msg
  BY DEF Ingesting
<1>3. /\ \A x \in partials' : x = new \/ (x \in partials /\ x \in room \ {old} /\ x \in kept)
      /\ sent' = sent /\ f = link[p][1] /\ 1 \in DOMAIN link[p] /\ IsChunk(f)
      /\ f.msg \in Nat /\ f.msg <= sent[p]
      /\ f.seq \in Nat /\ f.total \in Nat /\ f.seq < f.total /\ new.total = f.total
      /\ DOMAIN new.parts = DOMAIN old.parts \cup {f.seq}
  BY <1>0 DEF Leaving
<1>4. \A q, n : <<q, n>> \in lost' =>
         \/ <<q, n>> \in lost
         \/ \E x \in partials \ room : Holds(x, q, n)
         \/ \E x \in (room \ {old}) \ kept : Holds(x, q, n)
         \/ new \notin kept /\ q = p /\ n = f.msg
  BY DEF Ingesting
<1>5. SUFFICES ASSUME NEW q \in Peers, NEW n \in Nat, <<q, n>> \in lost'
               PROVE  n <= sent[q] /\ \E k \in Nat : Broken(q, n, k)'
  BY <1>3 DEF LostInv
<1>6. CASE <<q, n>> \in lost
  <2>1. PICK k \in Nat : n <= sent[q] /\ Broken(q, n, k)
    BY <1>6 DEF LossInv, LostInv
  <2>2. \A i \in DOMAIN link'[q] :
          link'[q][i].msg = n => link'[q][i].total > 0 /\ k < link'[q][i].seq
    BY <1>1, <2>1, TakenBroken
  <2>3. ASSUME NEW x \in partials', Holds(x, q, n) PROVE k \notin DOMAIN x.parts /\ k < x.total
    <3>1. CASE x = new
      <4>1. q = p /\ n = f.msg
        BY <1>2, <2>3, <3>1
      <4>2. k < f.seq
        BY <1>3, <2>1, <4>1 DEF Broken
      <4>3. k \notin DOMAIN old.parts
        <5>1. SUFFICES ASSUME k \in DOMAIN old.parts PROVE FALSE
          OBVIOUS
        <5>2. old \in partials /\ old.key.peer = p /\ Continues(f, old)
          BY <1>1, <5>1 DEF Ingesting, Continued, KeyOf
        <5>3. Holds(old, p, f.msg)
          BY <5>1, <5>2 DEF Holds, Continues
        <5>4. QED  BY <2>1, <4>1, <5>1, <5>2, <5>3 DEF Broken
      <4>4. QED  BY <1>3, <3>1, <4>2, <4>3
    <3>2. CASE x \in partials
      BY <2>1, <2>3, <3>2 DEF Broken
    <3>3. QED  BY <1>3, <3>1, <3>2
  <2>4. QED  BY <2>1, <2>2, <2>3 DEF Broken, Holds, IsChunk
<1>7. CASE \E x \in (partials \ room) \cup ((room \ {old}) \ kept) : Holds(x, q, n)
  <2>1. PICK x \in partials : /\ x \notin room \/ (x \in room \ {old} /\ x \notin kept)
                              /\ Holds(x, q, n)
    BY <1>1, <1>7
  <2>2. /\ n <= sent[q]
        /\ \A y \in partials \ {x} : ~ Holds(y, q, n)
        /\ \A i \in DOMAIN link'[q] :
             link'[q][i].msg = n => link'[q][i].total > 0 /\ 0 < link'[q][i].seq
    BY <1>1, <2>1, GoneBroken
  <2>3. ASSUME NEW y \in partials', Holds(y, q, n) PROVE 0 \notin DOMAIN y.parts /\ 0 < y.total
    <3>1. y = new
      BY <1>3, <2>1, <2>2, <2>3
    <3>2. q = p /\ n = f.msg
      BY <1>2, <2>3, <3>1
    <3>3. x.key = KeyOf(p, f) /\ f.seq > 0 /\ x \notin room
      BY <1>1, <1>3, <2>1, <3>2, OnLink
    <3>4. DOMAIN old.parts = {}
      BY <1>1, <3>3
    <3>5. QED  BY <1>3, <3>1, <3>3, <3>4
  <2>4. Broken(q, n, 0)'
    BY <2>2, <2>3 DEF Broken, Holds, IsChunk
  <2>5. QED  BY <2>2, <2>4
<1>8. CASE /\ new \notin kept /\ q = p /\ n = f.msg
           /\ ~ \E x \in (partials \ room) \cup ((room \ {old}) \ kept) : Holds(x, q, n)
  <2>1. \A y \in partials' : ~ Holds(y, p, f.msg)
    BY <1>1, <1>3, <1>8
  <2>2. \A i \in DOMAIN link'[p] : link'[p][i].msg = f.msg =>
          link'[p][i].total > 0 /\ f.seq < link'[p][i].seq
    <3>1. \A i \in DOMAIN link'[p] : link'[p][i].msg = f.msg =>
             link'[p][i].total > 0 /\ link'[p][i].seq > f.seq
      BY <1>1, TakenOne
    <3>2. QED  BY <3>1
  <2>3. Broken(p, f.msg, f.seq)'
    BY <2>1, <2>2 DEF Broken, Holds, IsChunk
  <2>4. QED  BY <1>3, <1>8, <2>3
<1>9. QED  BY <1>4, <1>5, <1>6, <1>7, <1>8

LEMMA IngestHead ==
    ASSUME Inv, OrderInv, LossInv, NEW p \in Peers, NEW f, NEW old, NEW new, NEW room,
           NEW kept, Ingesting(p, f, old, new, room, kept)
    PROVE  HeadInv'
<1>0. Leaving(p, f, old, new, room, kept)
  BY IngestLeaves
<1>1. /\ Takes(p, f) /\ Behind(p, f) /\ conn' = conn
      /\ partials' = kept \ Done(new, kept)
      /\ Done(new, kept) # {} => Done(new, kept) = {new} /\ DOMAIN new.parts = 0..f.total - 1
      /\ old.key = KeyOf(p, f)
  BY DEF Ingesting, Takes
<1>2. /\ f = link[p][1] /\ f.seq \in Nat /\ f.total \in Nat /\ f.seq < f.total
      /\ new.key = [peer |-> p, conn |-> conn[p], id |-> f.id]
  BY <1>0 DEF Leaving
<1>3. \A q, n : <<q, n>> \notin lost' =>
         /\ <<q, n>> \notin lost
         /\ \A x \in partials \ room : ~ Holds(x, q, n)
         /\ \A x \in (room \ {old}) \ kept : ~ Holds(x, q, n)
  BY DEF Ingesting
<1>4. ASSUME NEW q \in Peers, link'[q] # <<>>, IsChunk(link'[q][1]),
             link'[q][1].seq > 0, <<q, link'[q][1].msg>> \notin lost'
      PROVE  \E x \in partials' :
                /\ x.key = [peer |-> q, conn |-> conn[q], id |-> link'[q][1].id]
                /\ DOMAIN x.parts = 0..link'[q][1].seq - 1
  <2>2. CASE q # p
    <3>1. link'[q] = link[q] /\ <<q, link[q][1].msg>> \notin lost
      BY <1>1, <1>3, <1>4, <2>2 DEF Behind
    <3>2. PICK x \in partials : /\ x.key = KeyOf(q, link[q][1])
                                /\ DOMAIN x.parts = 0..link[q][1].seq - 1
                                /\ Holds(x, q, link[q][1].msg)
      BY <1>4, <3>1, HeadHeld
    <3>3. x.key.peer = q /\ x # old /\ x # new
      BY <1>1, <1>2, <2>2, <3>2 DEF KeyOf
    <3>4. x \in kept
      BY <1>3, <1>4, <3>1, <3>2, <3>3
    <3>5. x \in partials'
      BY <1>1, <3>3, <3>4
    <3>6. QED  BY <3>1, <3>2, <3>5 DEF KeyOf
  <2>3. CASE q = p
    <3>1. 1 \in DOMAIN link'[p]
      <4>1. link[p] # <<>> /\ link' = [link EXCEPT ![p] = Tail(@)]
        BY <1>1 DEF Takes
      <4>2. link' \in [Peers -> Seq(Fragments)]
        BY <4>1, TakenFacts
      <4>3. link'[p] \in Seq(Fragments) /\ link'[p] # <<>>
        BY <1>4, <2>3, <4>2
      <4>4. QED  BY <4>3
    <3>2. link'[p][1] = link[p][2] /\ 2 \in DOMAIN link[p]
      BY <1>1, <3>1 DEF Behind
    <3>3. Follows(link[p][2], link[p][1]) /\ link[p][2].seq < link[p][2].total
      BY <1>4, <2>3, <3>2 DEF LossInv, RunInv
    <3>4. /\ link'[p][1].id = f.id /\ link'[p][1].msg = f.msg
          /\ link'[p][1].seq = f.seq + 1 /\ f.seq + 1 < f.total
      BY <1>2, <3>2, <3>3 DEF Follows
    <3>5. new \in kept /\ DOMAIN new.parts = 0..f.seq
      BY <1>4, <2>3, <3>4, IngestWhole
    <3>6. f.seq + 1 \in 0..f.total - 1 /\ f.seq + 1 \notin 0..f.seq
      BY <1>2, <3>4
    <3>7. Done(new, kept) = {}
      BY <1>1, <3>5, <3>6
    <3>8. new \in partials' /\ 0..link'[p][1].seq - 1 = 0..f.seq
      BY <1>1, <1>2, <3>4, <3>5, <3>7
    <3>9. QED  BY <1>2, <2>3, <3>4, <3>5, <3>8
  <2>4. QED  BY <2>2, <2>3
<1>5. QED  BY <1>1, <1>4 DEF HeadInv, IsChunk, KeyOf

LEMMA IngestHere ==
    ASSUME Inv, OrderInv, LossInv, NEW p \in Peers, NEW f, NEW old, NEW new, NEW room,
           NEW kept, Ingesting(p, f, old, new, room, kept)
    PROVE  HereInv'
<1>0. Leaving(p, f, old, new, room, kept)
  BY IngestLeaves
<1>1. /\ Behind(p, f) /\ sent' = sent
      /\ DOMAIN new.parts = 0..f.total - 1 /\ new \in kept => Done(new, kept) = {new}
      /\ \A q, n : <<q, n>> \in lost => <<q, n>> \in lost'
  BY DEF Ingesting, Takes
<1>2. f.seq \in Nat /\ f.total \in Nat /\ IsChunk(f)
  BY <1>0 DEF Leaving
<1>3. /\ Done(new, kept) = {} => \A q \in Peers : Handed(q)' = Handed(q)
      /\ Done(new, kept) # {} => /\ \A q \in Peers : q # p => Handed(q)' = Handed(q)
                                 /\ Handed(p)' = Handed(p) \cup {f.msg}
  BY IngestHanded
<1>4. SUFFICES ASSUME NEW q \in Peers, NEW n \in 1..sent[q]
               PROVE  <<q, n>> \in lost' \/ n \in Handed(q)' \/ n \in Due(link'[q])
  BY <1>1 DEF HereInv, Due, Final, IsChunk
<1>5. <<q, n>> \in lost \/ n \in Handed(q) \/ n \in Due(link[q])
  BY DEF LossInv, HereInv
<1>6. n \in Handed(q) => n \in Handed(q)'
  BY <1>3
<1>7. CASE q = p /\ n = f.msg /\ Final(f) /\ <<q, n>> \notin lost'
  <2>1. new \in kept /\ DOMAIN new.parts = 0..f.seq
    BY <1>7, IngestWhole
  <2>2. f.seq = f.total - 1
    BY <1>2, <1>7 DEF Final
  <2>3. Done(new, kept) = {new}
    BY <1>1, <2>1, <2>2
  <2>4. QED  BY <1>3, <1>7, <2>3
<1>8. n \in Due(link[q]) => n \in Due(link'[q]) \/ (q = p /\ n = f.msg /\ Final(f))
  BY <1>1 DEF Behind
<1>9. QED  BY <1>1, <1>5, <1>6, <1>7, <1>8

LEMMA IngestLoss ==
    ASSUME Inv, OrderInv, LossInv, NEW p \in Peers, Ingest(p)
    PROVE  LossInv'
<1>1. PICK f, old, new, room, kept : Ingesting(p, f, old, new, room, kept)
  BY IngestIngests
<1>2. RunInv'
  <2>1. Takes(p, f)
    BY <1>1 DEF Ingesting
  <2>2. QED  BY <2>1, TakenRun
<1>3. PartsInv' /\ OneInv'
  BY <1>1, IngestParts, IngestOne
<1>4. HandInv' /\ LostInv'
  BY <1>1, IngestHand, IngestLost
<1>5. HeadInv' /\ HereInv'
  BY <1>1, IngestHead, IngestHere
<1>6. QED  BY <1>2, <1>3, <1>4, <1>5 DEF LossInv

LEMMA LossInit == Init => LossInv
<1>1. SUFFICES ASSUME Init PROVE LossInv
  OBVIOUS
<1>2. PartsInv /\ OneInv /\ RunInv /\ HeadInv
  BY <1>1 DEF Init, PartsInv, OneInv, RunInv, HeadInv
<1>3. HandInv
  <2>1. received \in [Peers -> Seq(Nat)] /\ \A p \in Peers : Handed(p) = {}
    BY <1>1 DEF Init, Handed
  <2>2. QED  BY <2>1 DEF HandInv
<1>4. LostInv
  BY <1>1 DEF Init, LostInv
<1>5. HereInv
  BY <1>1 DEF Init, HereInv
<1>6. QED  BY <1>2, <1>3, <1>4, <1>5 DEF LossInv

LEMMA LossStep == Inv /\ OrderInv /\ LossInv /\ [Next]_vars => LossInv'
<1>1. SUFFICES ASSUME Inv, OrderInv, LossInv, [Next]_vars PROVE LossInv'
  OBVIOUS
<1>2. CASE UNCHANGED <<links, buffer, received, lost>>
  <2>1. /\ link' = link /\ conn' = conn /\ sent' = sent /\ partials' = partials
        /\ received' = received /\ lost' = lost
    BY <1>1, <1>2 DEF links, buffer
  <2>2. /\ \A q : Handed(q)' = Handed(q)
        /\ \A q, n, k : Broken(q, n, k)' <=> Broken(q, n, k)
        /\ \A x, q, n : Holds(x, q, n)' <=> Holds(x, q, n)
    BY <2>1 DEF Handed, Broken, Holds, IsChunk
  <2>3. QED  BY <1>1, <2>1, <2>2 DEF LossInv, PartsInv, OneInv, RunInv, HandInv, LostInv, HeadInv,
                              HereInv, IsChunk, KeyOf, Follows, Due, Final
<1>3. CASE \E p \in Peers : \E len \in Lengths : Send(p, len)
  BY <1>1, <1>3, SendLoss
<1>4. CASE \E p \in Peers : Cut(p)
  BY <1>1, <1>4, CutLoss
<1>5. CASE \E p \in Peers : TakeWhole(p)
  BY <1>1, <1>5, TakeWholeLoss
<1>6. CASE \E p \in Peers : Reject(p)
  BY <1>1, <1>6, RejectLoss
<1>7. CASE \E p \in Peers : Ingest(p)
  BY <1>1, <1>7, IngestLoss
<1>8. QED  BY <1>1, <1>2, <1>3, <1>4, <1>5, <1>6, <1>7 DEF Next, vars, Tick

\* LossHasCause: for any budgets, whatever is evicted, refused or cut off and
\* whenever, a message that has a cause to be missing is never handed on, and any
\* other has been or still may be.
THEOREM LossHasCauseCorrect == Spec => []LossHasCause
<1>1. Init => Inv /\ OrderInv /\ LossInv
  BY InitInv, ChannelInit, LossInit
<1>2. Inv /\ OrderInv /\ LossInv /\ [Next]_vars => (Inv /\ OrderInv /\ LossInv)'
  BY NextInv, OrderStep, LossStep
<1>3. LossInv => LossHasCause
  <2>1. SUFFICES ASSUME LossInv, NEW p \in Peers, NEW n \in 1..sent[p]
                 PROVE  IF <<p, n>> \in lost THEN n \notin Handed(p)
                        ELSE n \in Handed(p) \cup Transit[p]
    BY DEF LossHasCause
  <2>2. Transit[p] = Due(link[p])
    BY DEF Transit, Due
  <2>3. QED  BY <2>1, <2>2 DEF LossInv, HandInv, HereInv
<1>4. QED  BY <1>1, <1>2, <1>3, PTL DEF Spec

-----------------------------------------------------------------------------
(* Sums over finite sets, as the folds of the library compute them.       *)

\* A family of subsets of a finite set has a smallest member.  The sums below
\* are folds over data; this stands in for an induction on the set.
LEMMA SetMin ==
    ASSUME NEW S, IsFiniteSet(S), NEW T, T \subseteq SUBSET S, T # {}
    PROVE  \E t \in T : \A u \in T : u \subseteq t => u = t
<1>1. T \subseteq FiniteSubsetsOf(S)
  BY FS_Subset DEF FiniteSubsetsOf
<1>2. PICK t \in T : \A u \in T : ~ (<<u, t>> \in StrictSubsetOrdering(S))
  BY <1>1, FS_StrictSubsetOrderingWellFounded, WFMin
<1>3. \A u \in T : u \subseteq t => u = t
  BY <1>2 DEF StrictSubsetOrdering
<1>4. QED  BY <1>3

\* One of the elements of s, the one the sums take first.
Pick(s) == CHOOSE x \in s : TRUE

\* g is the sum of the weights w over each of the sets of D.
Sums(w, D, g) ==
    /\ g = [s \in D |-> g[s]]
    /\ \A s \in D : /\ s = {} => g[s] = 0
                    /\ s # {} => s \ {Pick(s)} \in D /\ g[s] = w[Pick(s)] + g[s \ {Pick(s)}]

\* Every finite set has its sums: a set none is defined on yet, all of whose
\* proper subsets have one, gets one.
LEMMA SumsExist ==
    ASSUME NEW S, IsFiniteSet(S), NEW w
    PROVE  \E g : Sums(w, SUBSET S, g)
<1> DEFINE Open == {C \in SUBSET (SUBSET S) : \E g : Sums(w, (SUBSET S) \ C, g)}
<1>1. SUBSET S \in Open
  <2> DEFINE g == [s \in {} |-> 0]
  <2>1. Sums(w, (SUBSET S) \ (SUBSET S), g)
    BY DEF Sums
  <2>2. QED  BY <2>1
<1>2. IsFiniteSet(SUBSET S)
  BY FS_SUBSET
<1>3. PICK C \in Open : \A E \in Open : E \subseteq C => E = C
  <2>1. Open \subseteq SUBSET (SUBSET S) /\ Open # {}
    BY <1>1
  <2> HIDE DEF Open
  <2>2. QED  BY <1>2, <2>1, SetMin
<1>4. PICK g : Sums(w, (SUBSET S) \ C, g)
  BY <1>3
<1>5. C = {}
  <2>1. SUFFICES ASSUME C # {} PROVE FALSE
    OBVIOUS
  <2>2. C \subseteq SUBSET S
    OBVIOUS
  <2>3. PICK u \in C : \A v \in C : v \subseteq u => v = u
    BY <2>1, <2>2, SetMin
  <2> DEFINE rest == u \ {Pick(u)}
             D == (SUBSET S) \ C
             h == [s \in D \cup {u} |->
                     IF s = u THEN IF u = {} THEN 0 ELSE w[Pick(u)] + g[rest] ELSE g[s]]
  <2>4. u # {} => Pick(u) \in u
    BY DEF Pick
  <2>5. u # {} => rest \in D /\ rest # u
    BY <2>2, <2>3, <2>4
  <2>6. /\ h = [s \in D \cup {u} |-> h[s]] /\ u \notin D
        /\ \A s \in D : h[s] = g[s]
        /\ u = {} => h[u] = 0
        /\ u # {} => h[u] = w[Pick(u)] + g[rest]
    OBVIOUS
  <2> HIDE DEF h
  <2>7. Sums(w, D \cup {u}, h)
    <3>1. ASSUME NEW s \in D PROVE s = {} => h[s] = 0
      BY <1>4, <2>6 DEF Sums
    <3>2. ASSUME NEW s \in D, s # {}
          PROVE  s \ {Pick(s)} \in D /\ h[s] = w[Pick(s)] + h[s \ {Pick(s)}]
      BY <1>4, <2>6, <3>2 DEF Sums
    <3>3. QED  BY <2>5, <2>6, <3>1, <3>2 DEF Sums
  <2>8. D \cup {u} = (SUBSET S) \ (C \ {u})
    BY <2>2
  <2>9. C \ {u} \in Open
    BY <2>2, <2>7, <2>8
  <2> HIDE DEF Open
  <2>10. QED  BY <1>3, <2>9
<1>6. QED  BY <1>4, <1>5

\* Two sums agree where they are of the same weights.
LEMMA SumsUnique ==
    ASSUME NEW S, IsFiniteSet(S), NEW v, NEW w, NEW D, NEW E, NEW g, NEW h,
           Sums(v, D, g), Sums(w, E, h), S \in D, S \in E, \A x \in S : v[x] = w[x]
    PROVE  g[S] = h[S]
<1> DEFINE Differ == {s \in SUBSET S : s \in D /\ s \in E /\ g[s] # h[s]}
<1>1. SUFFICES ASSUME Differ # {} PROVE FALSE
  OBVIOUS
<1>2. PICK s \in Differ : \A u \in Differ : u \subseteq s => u = s
  <2>1. Differ \subseteq SUBSET S
    OBVIOUS
  <2> HIDE DEF Differ
  <2>2. QED  BY <1>1, <2>1, SetMin
<1>3. s # {}
  BY <1>2 DEF Sums
<1>4. Pick(s) \in s
  BY <1>3 DEF Pick
<1> DEFINE rest == s \ {Pick(s)}
<1>5. /\ rest \in D /\ g[s] = v[Pick(s)] + g[rest]
      /\ rest \in E /\ h[s] = w[Pick(s)] + h[rest]
  BY <1>2, <1>3 DEF Sums
<1>6. g[rest] = h[rest]
  BY <1>2, <1>4, <1>5
<1>7. v[Pick(s)] = w[Pick(s)]
  BY <1>2, <1>4
<1> HIDE DEF rest
<1>8. g[s] = h[s]
  BY <1>5, <1>6, <1>7
<1>9. QED  BY <1>2, <1>8

\* A sum of natural numbers is one, and whichever is taken off first.
LEMMA SumsTake ==
    ASSUME NEW S, IsFiniteSet(S), NEW w, \A x \in S : w[x] \in Nat,
           NEW g, Sums(w, SUBSET S, g)
    PROVE  \A s \in SUBSET S : g[s] \in Nat /\ \A x \in s : g[s] = w[x] + g[s \ {x}]
<1> DEFINE Good(s) == g[s] \in Nat /\ \A x \in s : g[s] = w[x] + g[s \ {x}]
           Bad == {s \in SUBSET S : ~ Good(s)}
<1>1. SUFFICES ASSUME Bad # {} PROVE FALSE
  OBVIOUS
<1>2. PICK s \in Bad : \A u \in Bad : u \subseteq s => u = s
  <2>1. Bad \subseteq SUBSET S
    OBVIOUS
  <2> HIDE DEF Bad
  <2>2. QED  BY <1>1, <2>1, SetMin
<1>3. \A u \in SUBSET s : u # s => Good(u)
  BY <1>2
<1>4. s \in SUBSET S
  OBVIOUS
<1> HIDE DEF Bad
<1>5. CASE s = {}
  <2>1. g[s] = 0
    BY <1>4, <1>5 DEF Sums
  <2>2. Good(s)
    BY <1>5, <2>1
  <2>3. QED  BY <1>2, <2>2 DEF Bad
<1>6. CASE s # {}
  <2> DEFINE c == Pick(s)
             rest == s \ {c}
  <2>1. c \in s /\ c \in S
    BY <1>4, <1>6 DEF Pick
  <2>2. g[s] = w[c] + g[rest] /\ rest \in SUBSET s /\ rest # s
    BY <1>4, <1>6, <2>1 DEF Sums
  <2> HIDE DEF c
  <2>3. Good(rest)
    BY <1>3, <2>2
  <2>4. w[c] \in Nat /\ g[rest] \in Nat
    BY <2>1, <2>3
  <2>5. g[s] \in Nat
    BY <2>2, <2>4
  <2>6. ASSUME NEW x \in s PROVE g[s] = w[x] + g[s \ {x}]
    <3>1. CASE x = c
      BY <2>2, <3>1
    <3>2. CASE x # c
      <4> DEFINE less == rest \ {x}
                 others == s \ {x}
      <4>1. g[rest] = w[x] + g[less]
        BY <2>3, <3>2
      <4>2. others \in SUBSET s /\ others # s /\ c \in others /\ others \ {c} = less
        BY <2>1, <3>2
      <4>3. Good(others)
        BY <1>3, <4>2
      <4>4. g[others] = w[c] + g[less]
        BY <4>2, <4>3
      <4>5. less \in SUBSET s /\ less # s
        BY <2>1
      <4>6. g[less] \in Nat
        BY <1>3, <4>5
      <4>7. w[x] \in Nat
        BY <1>4
      <4> HIDE DEF less, others, rest
      <4>8. g[s] = w[x] + g[others]
        BY <2>2, <2>4, <4>1, <4>4, <4>6, <4>7
      <4>9. QED  BY <4>8 DEF others
    <3>3. QED  BY <3>1, <3>2
  <2>7. QED  BY <1>2, <2>5, <2>6 DEF Bad
<1>7. QED  BY <1>5, <1>6

\* The sum of weights w over S.
SumOf(w, S) == (CHOOSE g : Sums(w, SUBSET S, g))[S]

\* Any member may be taken off first.
LEMMA SumFacts ==
    ASSUME NEW S, IsFiniteSet(S), NEW w, \A x \in S : w[x] \in Nat
    PROVE  /\ SumOf(w, S) \in Nat
           /\ S = {} => SumOf(w, S) = 0
           /\ \A x \in S : SumOf(w, S) = w[x] + SumOf(w, S \ {x})
<1>1. PICK g : g = (CHOOSE h : Sums(w, SUBSET S, h))
  OBVIOUS
<1>2. Sums(w, SUBSET S, g)
  BY <1>1, SumsExist
<1>3. SumOf(w, S) = g[S]
  BY <1>1 DEF SumOf
<1>4. g[S] \in Nat /\ \A x \in S : g[S] = w[x] + g[S \ {x}]
  BY <1>2, SumsTake
<1>5. S = {} => g[S] = 0
  BY <1>2 DEF Sums
<1>6. ASSUME NEW x \in S PROVE g[S \ {x}] = SumOf(w, S \ {x})
  <2> DEFINE rest == S \ {x}
  <2>1. IsFiniteSet(rest) /\ rest \in SUBSET S /\ rest \in SUBSET rest
    BY FS_Subset
  <2> HIDE DEF rest
  <2>2. PICK h : h = (CHOOSE k : Sums(w, SUBSET rest, k))
    OBVIOUS
  <2>3. Sums(w, SUBSET rest, h)
    BY <2>1, <2>2, SumsExist
  <2>4. h[rest] = g[rest]
    BY <1>2, <2>1, <2>3, SumsUnique
  <2>5. SumOf(w, rest) = h[rest]
    BY <2>2 DEF SumOf
  <2>6. QED  BY <2>4, <2>5 DEF rest
<1>7. QED  BY <1>3, <1>4, <1>5, <1>6

\* A part may be summed apart.
LEMMA SumSplits ==
    ASSUME NEW P, IsFiniteSet(P), NEW w, \A x \in P : w[x] \in Nat, NEW R \in SUBSET P
    PROVE  SumOf(w, P) = SumOf(w, P \ R) + SumOf(w, R)
<1> DEFINE Bad == {T \in SUBSET P : SumOf(w, P) # SumOf(w, P \ T) + SumOf(w, T)}
<1>1. SUFFICES ASSUME Bad # {} PROVE FALSE
  OBVIOUS
<1>2. PICK T \in Bad : \A U \in Bad : U \subseteq T => U = T
  <2>1. Bad \subseteq SUBSET P
    OBVIOUS
  <2> HIDE DEF Bad
  <2>2. QED  BY <1>1, <2>1, SetMin
<1>3. T \in SUBSET P /\ SumOf(w, P) # SumOf(w, P \ T) + SumOf(w, T)
  OBVIOUS
<1>4. \A U \in SUBSET T : U # T => SumOf(w, P) = SumOf(w, P \ U) + SumOf(w, U)
  BY <1>2
<1> HIDE DEF Bad
<1>5. CASE T = {}
  <2>1. SumOf(w, T) = 0 /\ SumOf(w, P) \in Nat /\ P \ T = P
    BY <1>5, SumFacts, FS_EmptySet
  <2>2. QED  BY <1>3, <2>1
<1>6. CASE T # {}
  <2>1. PICK x : x \in T
    BY <1>6
  <2> DEFINE U == T \ {x}
             without == P \ T
             with == P \ U
  <2>2. /\ IsFiniteSet(T) /\ IsFiniteSet(U) /\ IsFiniteSet(with) /\ IsFiniteSet(without)
        /\ \A y \in T : w[y] \in Nat
        /\ \A y \in U : w[y] \in Nat
        /\ \A y \in with : w[y] \in Nat
        /\ \A y \in without : w[y] \in Nat
    BY <1>3, FS_Subset
  <2>3. x \in with /\ with \ {x} = without /\ U \in SUBSET T /\ U # T
    BY <1>3, <2>1
  <2>4. SumOf(w, P) = SumOf(w, with) + SumOf(w, U)
    BY <1>4, <2>3
  <2> HIDE DEF with, without
  <2>5. SumOf(w, T) = w[x] + SumOf(w, U)
    BY <2>1, <2>2, SumFacts
  <2>6. SumOf(w, with) = w[x] + SumOf(w, without)
    BY <2>2, <2>3, SumFacts
  <2>7. SumOf(w, U) \in Nat /\ SumOf(w, without) \in Nat /\ w[x] \in Nat
    <3> HIDE DEF U
    <3>1. QED  BY <2>1, <2>2, SumFacts
  <2> HIDE DEF U
  <2>8. SumOf(w, P) = SumOf(w, without) + SumOf(w, T)
    BY <2>4, <2>5, <2>6, <2>7
  <2>9. QED  BY <1>3, <2>8 DEF without
<1>7. QED  BY <1>5, <1>6

\* What the partial messages of a set are charged.
Charge(P) == MapThenSumSet(Footprint, P)

\* The folds of the model are such sums.
LEMMA ChargeIsSum ==
    ASSUME NEW P, IsFiniteSet(P), NEW w, \A x \in P : w[x] = Footprint(x)
    PROVE  Charge(P) = SumOf(w, P)
<1> DEFINE Rec(g) == g = [s \in SUBSET P |->
                            IF s = {} THEN 0
                            ELSE Footprint(CHOOSE x \in s : TRUE) + g[s \ {CHOOSE x \in s : TRUE}]]
<1>1. Charge(P) = (CHOOSE g : Rec(g))[P]
  BY DEF Charge, MapThenSumSet, MapThenFoldSet
<1>2. PICK g : Sums(w, SUBSET P, g)
  BY SumsExist
<1>3. Rec(g)
  <2>0. g = [s \in SUBSET P |-> g[s]]
    BY <1>2 DEF Sums
  <2>1. SUFFICES ASSUME NEW s \in SUBSET P
                 PROVE  g[s] = IF s = {} THEN 0
                               ELSE Footprint(Pick(s)) + g[s \ {Pick(s)}]
    BY <2>0 DEF Pick
  <2>2. s # {} => Pick(s) \in P
    BY DEF Pick
  <2>3. QED  BY <1>2, <2>2 DEF Sums
<1>4. PICK h : h = (CHOOSE k : Rec(k))
  OBVIOUS
<1> HIDE DEF Rec
<1>5. Rec(h)
  BY <1>3, <1>4
<1>6. Sums(w, SUBSET P, h)
  <2>1. h = [s \in SUBSET P |-> h[s]]
    BY <1>5 DEF Rec
  <2>2. \A s \in SUBSET P : h[s] = IF s = {} THEN 0 ELSE Footprint(Pick(s)) + h[s \ {Pick(s)}]
    BY <1>5 DEF Rec, Pick
  <2>3. \A s \in SUBSET P : s # {} => Pick(s) \in P
    BY DEF Pick
  <2>4. QED  BY <2>1, <2>2, <2>3 DEF Sums
<1>7. PICK k : k = (CHOOSE j : Sums(w, SUBSET P, j))
  OBVIOUS
<1>8. Sums(w, SUBSET P, k) /\ P \in SUBSET P
  BY <1>2, <1>7
<1>9. h[P] = k[P]
  BY <1>6, <1>8, SumsUnique
<1>10. QED  BY <1>1, <1>4, <1>7, <1>9 DEF SumOf

LEMMA PayloadIsSum ==
    ASSUME NEW x, IsFiniteSet(DOMAIN x.parts), NEW w,
           \A s \in DOMAIN x.parts : w[s] = x.parts[s].size
    PROVE  Payload(x) = SumOf(w, DOMAIN x.parts)
<1> DEFINE P == DOMAIN x.parts
           Rec(g) == g = [s \in SUBSET P |->
                            IF s = {} THEN 0
                            ELSE x.parts[CHOOSE y \in s : TRUE].size
                                 + g[s \ {CHOOSE y \in s : TRUE}]]
<1>1. Payload(x) = (CHOOSE g : Rec(g))[P]
  BY DEF Payload, MapThenSumSet, MapThenFoldSet
<1>0. PICK sizes : sizes = P
  OBVIOUS
<1>2. PICK g : Sums(w, SUBSET P, g)
  BY SumsExist
<1>3. Rec(g)
  <2>0. g = [s \in SUBSET P |-> g[s]]
    BY <1>2 DEF Sums
  <2>1. SUFFICES ASSUME NEW s \in SUBSET P
                 PROVE  g[s] = IF s = {} THEN 0
                               ELSE x.parts[Pick(s)].size + g[s \ {Pick(s)}]
    BY <2>0 DEF Pick
  <2>2. s # {} => Pick(s) \in P
    BY DEF Pick
  <2>3. QED  BY <1>2, <2>2 DEF Sums
<1>4. PICK h : h = (CHOOSE k : Rec(k))
  OBVIOUS
<1> HIDE DEF Rec
<1>5. Rec(h)
  BY <1>3, <1>4
<1>6. Sums(w, SUBSET P, h)
  <2>1. h = [s \in SUBSET P |-> h[s]]
    BY <1>5 DEF Rec
  <2>2. \A s \in SUBSET P : h[s] = IF s = {} THEN 0 ELSE x.parts[Pick(s)].size + h[s \ {Pick(s)}]
    BY <1>5 DEF Rec, Pick
  <2>3. \A s \in SUBSET P : s # {} => Pick(s) \in P
    BY DEF Pick
  <2>4. QED  BY <2>1, <2>2, <2>3 DEF Sums
<1>7. PICK k : k = (CHOOSE j : Sums(w, SUBSET P, j))
  OBVIOUS
<1>8. Sums(w, SUBSET P, k) /\ P \in SUBSET P
  BY <1>2, <1>7
<1>9. h[P] = k[P]
  BY <1>6, <1>8, SumsUnique
<1>10. QED  BY <1>1, <1>4, <1>7, <1>9 DEF SumOf

-----------------------------------------------------------------------------
(* The bytes.                                                              *)

\* A partial message of a finite size.
Sized(x) ==
    /\ x.total \in Nat /\ IsFiniteSet(DOMAIN x.parts)
    /\ \A s \in DOMAIN x.parts : x.parts[s].size \in Nat

LEMMA OverheadNat ==
    ASSUME NEW n \in Nat
    PROVE  Overhead(n) \in Nat
<1>1. SlotBytes \in Nat /\ BaseBytes \in Nat
  BY ChunkAssumption
<1>2. n * SlotBytes \in Nat
  BY <1>1
<1>3. QED  BY <1>1, <1>2 DEF Overhead

LEMMA SizedNat ==
    ASSUME NEW x, Sized(x)
    PROVE  Payload(x) \in Nat /\ Footprint(x) \in Nat
<1> DEFINE w == [s \in DOMAIN x.parts |-> x.parts[s].size]
<1>1. \A s \in DOMAIN x.parts : w[s] = x.parts[s].size /\ w[s] \in Nat
  BY DEF Sized
<1>2. IsFiniteSet(DOMAIN x.parts) /\ Overhead(x.total) \in Nat
  BY OverheadNat DEF Sized
<1> HIDE DEF w
<1>3. Payload(x) = SumOf(w, DOMAIN x.parts)
  BY <1>1, <1>2, PayloadIsSum
<1>4. SumOf(w, DOMAIN x.parts) \in Nat
  BY <1>1, <1>2, SumFacts
<1>5. QED  BY <1>2, <1>3, <1>4 DEF Footprint

LEMMA OpenedSized ==
    ASSUME NEW key, NEW total \in Nat
    PROVE  /\ Sized(Opened(key, total))
           /\ Footprint(Opened(key, total)) = Overhead(total)
<1>1. PICK x : x = Opened(key, total)
  OBVIOUS
<1>2. x.total = total /\ DOMAIN x.parts = {}
  BY <1>1 DEF Opened
<1>3. Sized(x)
  BY <1>2, FS_EmptySet DEF Sized
<1>4. PICK w : w = [s \in {} |-> 0]
  OBVIOUS
<1>5. Payload(x) = SumOf(w, {})
  BY <1>2, FS_EmptySet, PayloadIsSum
<1>6. SumOf(w, {}) = 0
  BY FS_EmptySet, SumFacts
<1>7. Overhead(total) \in Nat
  BY OverheadNat
<1>8. Footprint(x) = Overhead(total)
  BY <1>2, <1>5, <1>6, <1>7 DEF Footprint
<1>9. QED  BY <1>1, <1>3, <1>8

\* A fragment in an empty slot costs its bytes.
LEMMA FilledSized ==
    ASSUME NEW x, NEW f, Sized(x), f.size \in Nat, f.seq \notin DOMAIN x.parts,
           x = [key |-> x.key, total |-> x.total, parts |-> x.parts, first |-> x.first]
    PROVE  Sized(Filled(x, f)) /\ Footprint(Filled(x, f)) = Footprint(x) + f.size
<1>1. PICK y : y = Filled(x, f)
  OBVIOUS
<1>2. /\ y.total = x.total /\ DOMAIN y.parts = DOMAIN x.parts \cup {f.seq}
      /\ \A s \in DOMAIN x.parts : y.parts[s] = x.parts[s]
      /\ y.parts[f.seq].size = f.size
  BY <1>1, FilledFacts
<1>3. Sized(y)
  <2>1. IsFiniteSet(DOMAIN x.parts \cup {f.seq})
    BY FS_AddElement DEF Sized
  <2>2. QED  BY <1>2, <2>1 DEF Sized
<1>4. PICK w : w = [s \in DOMAIN y.parts |-> y.parts[s].size]
  OBVIOUS
<1>5. /\ \A s \in DOMAIN y.parts : w[s] = y.parts[s].size /\ w[s] \in Nat
      /\ \A s \in DOMAIN x.parts : w[s] = x.parts[s].size
      /\ w[f.seq] = f.size
  BY <1>2, <1>3, <1>4 DEF Sized
<1>6. Payload(y) = SumOf(w, DOMAIN y.parts)
  BY <1>3, <1>5, PayloadIsSum DEF Sized
<1>7. Payload(x) = SumOf(w, DOMAIN x.parts)
  BY <1>5, PayloadIsSum DEF Sized
<1>8. f.seq \in DOMAIN y.parts /\ DOMAIN y.parts \ {f.seq} = DOMAIN x.parts
  BY <1>2
<1>9. SumOf(w, DOMAIN y.parts) = w[f.seq] + SumOf(w, DOMAIN y.parts \ {f.seq})
  <2>1. IsFiniteSet(DOMAIN y.parts) /\ \A s \in DOMAIN y.parts : w[s] \in Nat
    BY <1>3, <1>5 DEF Sized
  <2>2. QED  BY <1>8, <2>1, SumFacts
<1>10. Payload(y) = f.size + Payload(x)
  BY <1>5, <1>6, <1>7, <1>8, <1>9
<1>11. Payload(x) \in Nat /\ Overhead(x.total) \in Nat
  BY SizedNat, OverheadNat DEF Sized
<1>12. Footprint(y) = Footprint(x) + f.size
  BY <1>2, <1>10, <1>11 DEF Footprint
<1>13. QED  BY <1>1, <1>3, <1>12

\* Partial messages are charged one by one, and given back whole.
LEMMA ChargeFacts ==
    ASSUME NEW P, IsFiniteSet(P), \A x \in P : Sized(x), NEW Q \in SUBSET P
    PROVE  /\ Charge(P) \in Nat /\ Charge(Q) \in Nat /\ Charge(P \ Q) \in Nat
           /\ Charge(P) = Charge(P \ Q) + Charge(Q)
           /\ Released(Charge(P), Q) = Charge(P \ Q)
<1>1. PICK w : w = [x \in P |-> Footprint(x)]
  OBVIOUS
<1>2. \A x \in P : w[x] = Footprint(x) /\ w[x] \in Nat
  BY <1>1, SizedNat
<1>3. PICK R : R = P \ Q
  OBVIOUS
<1>4. IsFiniteSet(Q) /\ IsFiniteSet(R) /\ R \subseteq P
  BY <1>3, FS_Subset
<1>5. /\ Charge(P) = SumOf(w, P) /\ Charge(Q) = SumOf(w, Q) /\ Charge(R) = SumOf(w, R)
  <2>1. Charge(P) = SumOf(w, P)
    BY <1>2, ChargeIsSum
  <2>2. Charge(Q) = SumOf(w, Q)
    BY <1>2, <1>4, ChargeIsSum
  <2>3. Charge(R) = SumOf(w, R)
    BY <1>2, <1>4, ChargeIsSum
  <2>4. QED  BY <2>1, <2>2, <2>3
<1>6. SumOf(w, P) \in Nat /\ SumOf(w, Q) \in Nat /\ SumOf(w, R) \in Nat
  <2>1. SumOf(w, P) \in Nat
    BY <1>2, SumFacts
  <2>2. SumOf(w, Q) \in Nat
    BY <1>2, <1>4, SumFacts
  <2>3. SumOf(w, R) \in Nat
    BY <1>2, <1>4, SumFacts
  <2>4. QED  BY <2>1, <2>2, <2>3
<1>7. SumOf(w, P) = SumOf(w, R) + SumOf(w, Q)
  BY <1>2, <1>3, SumSplits
<1>8. Charge(P) = Charge(R) + Charge(Q)
  BY <1>5, <1>7
<1>9. Released(Charge(P), Q) = Less(Charge(P), Charge(Q))
  BY DEF Released, Charge
<1>10. Less(Charge(P), Charge(Q)) = Charge(R)
  BY <1>5, <1>6, <1>8 DEF Less
<1>11. QED  BY <1>3, <1>5, <1>6, <1>8, <1>9, <1>10

LEMMA ChargeNone == Charge({}) = 0
<1>1. PICK w : w = [y \in {} |-> 0]
  OBVIOUS
<1>2. IsFiniteSet({})
  BY FS_EmptySet
<1>3. Charge({}) = SumOf(w, {})
  BY <1>2, ChargeIsSum
<1>4. SumOf(w, {}) = 0
  BY <1>2, SumFacts
<1>5. QED  BY <1>3, <1>4

LEMMA ChargeOne ==
    ASSUME NEW x, Sized(x)
    PROVE  Charge({x}) = Footprint(x)
<1>1. PICK w : w = [y \in {x} |-> Footprint(y)]
  OBVIOUS
<1>2. w[x] = Footprint(x) /\ w[x] \in Nat /\ IsFiniteSet({x})
  BY <1>1, SizedNat, FS_Singleton
<1>3. Charge({x}) = SumOf(w, {x})
  BY <1>2, ChargeIsSum
<1>4. SumOf(w, {}) = 0
  BY FS_EmptySet, SumFacts
<1>5. SumOf(w, {x}) = w[x] + SumOf(w, {x} \ {x})
  BY <1>2, SumFacts
<1>6. SumOf(w, {x} \ {x}) = 0
  <2>1. {x} \ {x} = {}
    OBVIOUS
  <2>2. QED  BY <1>4, <2>1
<1>7. QED  BY <1>2, <1>3, <1>5, <1>6

-----------------------------------------------------------------------------
(* The budgets.                                                            *)

\* The counts the two limits allow.
Bounded(P) ==
    /\ IsFiniteSet(P) /\ \A x \in P : Sized(x)
    /\ Cardinality(P) <= Total
    /\ \A x \in P : Cardinality(Of(P, x.key)) <= PerPeer

BoundsInv ==
    Bounded(partials) /\ totalBytes = Charge(partials) /\ totalBytes <= Budget

\* Giving up partial messages keeps the counts.
LEMMA BoundedSubset ==
    ASSUME NEW P, Bounded(P), NEW Q \in SUBSET P
    PROVE  Bounded(Q)
<1>1. IsFiniteSet(P)
  BY DEF Bounded
<1>2. IsFiniteSet(Q) /\ Cardinality(Q) <= Cardinality(P)
  BY <1>1, FS_Subset
<1>3. Cardinality(Q) \in Nat /\ Cardinality(P) \in Nat /\ Total \in Nat /\ PerPeer \in Nat
  BY <1>1, <1>2, FS_CardinalityType, ChunkAssumption
<1>4. Cardinality(P) <= Total /\ \A x \in P : Sized(x)
  BY DEF Bounded
<1>5. Cardinality(Q) <= Total
  BY <1>2, <1>3, <1>4
<1>6. ASSUME NEW x \in Q PROVE Cardinality(Of(Q, x.key)) <= PerPeer
  <2>1. PICK a, b : a = Of(Q, x.key) /\ b = Of(P, x.key)
    OBVIOUS
  <2>2. a \subseteq b /\ b \subseteq P
    BY <2>1 DEF Of
  <2>3. IsFiniteSet(b)
    BY <1>1, <2>2, FS_Subset
  <2>4. IsFiniteSet(a) /\ Cardinality(a) <= Cardinality(b)
    BY <2>2, <2>3, FS_Subset
  <2>5. Cardinality(b) <= PerPeer
    BY <2>1 DEF Bounded
  <2>6. Cardinality(a) \in Nat /\ Cardinality(b) \in Nat
    BY <2>3, <2>4, FS_CardinalityType
  <2>7. Cardinality(a) <= PerPeer
    BY <1>3, <2>4, <2>5, <2>6
  <2>8. QED  BY <2>1, <2>7
<1>7. QED  BY <1>2, <1>4, <1>5, <1>6 DEF Bounded

\* Partial messages given up, and their bytes with them.
LEMMA BoundsShrink ==
    ASSUME BoundsInv, NEW Q \in SUBSET partials,
           partials' = Q, totalBytes' = Released(totalBytes, partials \ Q)
    PROVE  BoundsInv'
<1>1. Bounded(Q)
  BY BoundedSubset DEF BoundsInv
<1>2. PICK out : out = partials \ Q
  OBVIOUS
<1>3. out \in SUBSET partials /\ partials \ out = Q
  BY <1>2
<1>4. IsFiniteSet(partials) /\ \A x \in partials : Sized(x)
  BY DEF BoundsInv, Bounded
<1>5. /\ Charge(partials) \in Nat /\ Charge(out) \in Nat /\ Charge(Q) \in Nat
      /\ Charge(partials) = Charge(Q) + Charge(out)
      /\ Released(Charge(partials), out) = Charge(Q)
  BY <1>3, <1>4, ChargeFacts
<1>6. totalBytes = Charge(partials) /\ totalBytes <= Budget /\ Budget \in Nat
  BY ChunkAssumption DEF BoundsInv
<1>7. totalBytes' = Charge(Q)
  BY <1>2, <1>5, <1>6
<1>8. Charge(Q) <= Budget
  BY <1>5, <1>6
<1>9. Bounded(partials)' /\ Charge(partials)' = Charge(Q)
  <2>1. Bounded(partials)' <=> Bounded(Q)
    BY DEF Bounded, Sized, Of
  <2>2. Charge(partials)' = Charge(Q)
    BY DEF Charge
  <2>3. QED  BY <1>1, <2>1, <2>2
<1>10. QED  BY <1>7, <1>8, <1>9 DEF BoundsInv

LEMMA FewerFacts ==
    ASSUME NEW P, NEW W, NEW Q, NEW bound \in Nat \ {0}, Fewer(P, W, Q, bound),
           IsFiniteSet(W)
    PROVE  Q \subseteq P /\ Cardinality(Q \cap W) <= bound - 1
<1>1. Q \subseteq P
  BY DEF Fewer, Leaves
<1>2. PICK a : a = Cardinality(W)
  OBVIOUS
<1>3. a \in Nat
  BY <1>2, FS_CardinalityType
<1>4. PICK b : b = bound - 1
  OBVIOUS
<1>5. b \in Nat
  BY <1>4
<1>6. Cardinality(Q \cap W) = Min({a, b})
  BY <1>2, <1>4 DEF Fewer
<1>7. Min({a, b}) <= b
  <2>1. \E m \in {a, b} : \A n \in {a, b} : m <= n
    BY <1>3, <1>5
  <2>2. Min({a, b}) = CHOOSE m \in {a, b} : \A n \in {a, b} : m <= n
    BY DEF Min
  <2>3. PICK m : m = Min({a, b})
    OBVIOUS
  <2>4. \A n \in {a, b} : m <= n
    BY <2>1, <2>2, <2>3
  <2>5. QED  BY <2>3, <2>4
<1>8. QED  BY <1>1, <1>4, <1>6, <1>7

\* There is room for one more, of the peer and in all.
LEMMA RoomFacts ==
    ASSUME NEW P, IsFiniteSet(P), NEW key, NEW R \in RoomFor(P, key)
    PROVE  /\ R \subseteq P /\ IsFiniteSet(R)
           /\ Cardinality(R) <= Total - 1
           /\ Cardinality(Of(R, key)) <= PerPeer - 1
<1>1. PICK Q \in SUBSET P : Fewer(P, Of(P, key), Q, PerPeer) /\ Fewer(Q, Q, R, Total)
  BY DEF RoomFor
<1>2. PICK W : W = Of(P, key)
  OBVIOUS
<1>3. W \subseteq P /\ Of(Q, key) = Q \cap W
  BY <1>2 DEF Of
<1>4. IsFiniteSet(Q) /\ IsFiniteSet(W)
  BY <1>3, FS_Subset
<1>5. PerPeer \in Nat \ {0} /\ Total \in Nat \ {0}
  BY ChunkAssumption
<1>6. Cardinality(Q \cap W) <= PerPeer - 1
  BY <1>1, <1>2, <1>4, <1>5, FewerFacts
<1>7. R \subseteq Q /\ Cardinality(R \cap Q) <= Total - 1
  BY <1>1, <1>4, <1>5, FewerFacts
<1>8. R \cap Q = R
  BY <1>7
<1>9. IsFiniteSet(R) /\ Cardinality(R) <= Total - 1
  BY <1>4, <1>7, <1>8, FS_Subset
<1>10. PICK mine : mine = Of(R, key)
  OBVIOUS
<1>11. mine \subseteq Q \cap W
  BY <1>3, <1>7, <1>10 DEF Of
<1>12. IsFiniteSet(Q \cap W)
  BY <1>4, FS_Intersection
<1>13. IsFiniteSet(mine) /\ Cardinality(mine) <= Cardinality(Q \cap W)
  BY <1>11, <1>12, FS_Subset
<1>14. Cardinality(mine) \in Nat /\ Cardinality(Q \cap W) \in Nat
  BY <1>12, <1>13, FS_CardinalityType
<1>15. Cardinality(mine) <= PerPeer - 1
  BY <1>5, <1>6, <1>13, <1>14
<1>16. QED  BY <1>7, <1>9, <1>10, <1>15

\* One member put for another, or added.
LEMMA Replaced ==
    ASSUME NEW P, IsFiniteSet(P), NEW x \in P, NEW y
    PROVE  /\ IsFiniteSet((P \ {x}) \cup {y})
           /\ Cardinality((P \ {x}) \cup {y}) <= Cardinality(P)
<1>1. PICK R : R = P \ {x}
  OBVIOUS
<1>2. IsFiniteSet(R) /\ Cardinality(R) = Cardinality(P) - 1
  BY <1>1, FS_RemoveElement
<1>3. /\ IsFiniteSet(R \cup {y})
      /\ Cardinality(R \cup {y}) = IF y \in R THEN Cardinality(R) ELSE Cardinality(R) + 1
  BY <1>2, FS_AddElement
<1>4. Cardinality(R) \in Nat /\ Cardinality(P) \in Nat
  BY <1>2, FS_CardinalityType
<1>5. Cardinality(R \cup {y}) <= Cardinality(P)
  BY <1>2, <1>3, <1>4
<1>6. QED  BY <1>1, <1>3, <1>5

LEMMA Added ==
    ASSUME NEW P, IsFiniteSet(P), NEW y, NEW b \in Nat, Cardinality(P) <= b - 1
    PROVE  IsFiniteSet(P \cup {y}) /\ Cardinality(P \cup {y}) <= b
<1>1. /\ IsFiniteSet(P \cup {y})
      /\ Cardinality(P \cup {y}) = IF y \in P THEN Cardinality(P) ELSE Cardinality(P) + 1
  BY FS_AddElement
<1>2. Cardinality(P) \in Nat
  BY FS_CardinalityType
<1>3. QED  BY <1>1, <1>2

\* The partial messages with the fragment in one of them, and their charge.
LEMMA FilledBounds ==
    ASSUME Inv, LossInv, BoundsInv, NEW p \in Peers, NEW f, NEW old, NEW new, NEW room, NEW kept,
           NEW charged, Ingests(p, f, old, new, room, kept),
           Charges(p, f, old, new, room, kept, charged),
           f \in Fragments, f.seq \notin DOMAIN old.parts
    PROVE  /\ Bounded((room \ {old}) \cup {new})
           /\ charged = Charge((room \ {old}) \cup {new})
<1>1. PICK filled, stay : stay = room \ {old} /\ filled = stay \cup {new}
  OBVIOUS
<1>2. PICK key : key = KeyOf(p, f)
  OBVIOUS
<1>3. /\ old.key = key /\ new = Filled(old, f) /\ Fresh \subseteq partials
      /\ \/ old \in Fresh /\ room = Fresh
         \/ /\ old = Opened(key, f.total) /\ room \subseteq Fresh
            /\ \A x \in Fresh : x.key # key
      /\ old \in Fresh \/ room \in RoomFor(Fresh, key)
  BY <1>2 DEF Ingests, Charges, Fresh
<1>4. room \subseteq partials /\ Bounded(partials) /\ IsFiniteSet(partials)
      /\ IsFiniteSet(Fresh) /\ \A x \in partials : Sized(x)
  <2>1. IsFiniteSet(partials) /\ \A x \in partials : Sized(x)
    BY DEF BoundsInv, Bounded
  <2>2. QED  BY <1>3, <2>1, FS_Subset DEF BoundsInv
<1>5. Bounded(room)
  BY <1>4, BoundedSubset
<1>6. f.total \in Nat /\ f.size \in Nat
  BY DEF Fragments
<1>7. /\ Sized(old)
      /\ old = [key |-> old.key, total |-> old.total, parts |-> old.parts, first |-> old.first]
  <2>1. CASE old \in Fresh
    BY <1>3, <1>4, <2>1 DEF Inv, FieldsInv
  <2>2. CASE old = Opened(key, f.total)
    <3>1. Sized(old)
      BY <1>6, <2>2, OpenedSized
    <3>2. QED  BY <2>2, <3>1 DEF Opened
  <2>3. QED  BY <1>3, <2>1, <2>2
<1>8. /\ Sized(new) /\ Footprint(new) = Footprint(old) + f.size /\ new.key = key
  BY <1>3, <1>6, <1>7, FilledSized, FilledFacts
<1>9. \A x \in stay : x.key # key
  BY <1>1, <1>3 DEF LossInv, PartsInv
<1>10. new \notin stay
  BY <1>8, <1>9
<1>11. stay \subseteq room /\ IsFiniteSet(room) /\ IsFiniteSet(stay) /\ IsFiniteSet(filled)
       /\ \A x \in filled : Sized(x)
  <2>1. IsFiniteSet(room)
    BY <1>4, FS_Subset
  <2>2. IsFiniteSet(stay)
    BY <1>1, <2>1, FS_Subset
  <2>3. IsFiniteSet(filled)
    BY <1>1, <2>2, FS_AddElement
  <2>4. QED  BY <1>1, <1>4, <1>8, <2>1, <2>2, <2>3
<1>12. Charge(filled) = Charge(stay) + Footprint(new) /\ Charge(stay) \in Nat
  <2>1. PICK one : one = {new}
    OBVIOUS
  <2>2. one \in SUBSET filled /\ filled \ one = stay
    BY <1>1, <1>10, <2>1
  <2>3. Charge(filled) = Charge(stay) + Charge(one) /\ Charge(stay) \in Nat
    BY <1>11, <2>2, ChargeFacts
  <2>4. Charge(one) = Footprint(new)
    BY <1>8, <2>1, ChargeOne
  <2>5. QED  BY <2>3, <2>4
<1>13. Released(totalBytes, partials \ room) = Charge(room)
  <2>1. PICK out : out = partials \ room
    OBVIOUS
  <2>2. out \in SUBSET partials /\ partials \ out = room
    BY <1>4, <2>1
  <2>3. Released(Charge(partials), out) = Charge(room)
    BY <1>4, <2>2, ChargeFacts
  <2>4. QED  BY <2>1, <2>3 DEF BoundsInv
<1>14. charged = Charge(room) + (IF old \in Fresh THEN 0 ELSE Overhead(f.total)) + f.size
  BY <1>13 DEF Charges
<1>15. Footprint(old) \in Nat
  BY <1>7, SizedNat
<1>16. CASE old \in Fresh
  <2>1. old \in room /\ room = Fresh
    BY <1>3, <1>16
  <2>2. charged = Charge(filled)
    <3>1. PICK one : one = {old}
      OBVIOUS
    <3>2. one \in SUBSET room /\ room \ one = stay
      BY <1>1, <2>1, <3>1
    <3>3. Charge(room) = Charge(stay) + Charge(one)
      BY <1>4, <1>11, <3>2, ChargeFacts
    <3>4. Charge(one) = Footprint(old)
      BY <1>7, <3>1, ChargeOne
    <3>5. charged = Charge(stay) + Footprint(old) + f.size
      BY <1>6, <1>12, <1>14, <1>15, <1>16, <3>3, <3>4
    <3>6. QED  BY <1>6, <1>8, <1>12, <1>15, <3>5
  <2>3. Cardinality(filled) <= Total
    <3>1. Cardinality(filled) <= Cardinality(room)
      BY <1>1, <1>11, <2>1, Replaced
    <3>2. Cardinality(room) <= Total
      BY <1>5 DEF Bounded
    <3>3. Cardinality(filled) \in Nat /\ Cardinality(room) \in Nat /\ Total \in Nat
      BY <1>11, FS_CardinalityType, ChunkAssumption
    <3>4. QED  BY <3>1, <3>2, <3>3
  <2>4. ASSUME NEW x \in filled PROVE Cardinality(Of(filled, x.key)) <= PerPeer
    <3>1. PICK like \in room : like.key.peer = x.key.peer /\ like.key.conn = x.key.conn
      BY <1>1, <1>3, <1>8, <1>11, <2>1
    <3>2. PICK mine, were : mine = Of(filled, x.key) /\ were = Of(room, like.key)
      OBVIOUS
    <3>3. Cardinality(were) <= PerPeer
      BY <1>5, <3>2 DEF Bounded
    <3>4. IsFiniteSet(were) /\ IsFiniteSet(mine)
      <4>1. were \subseteq room /\ mine \subseteq filled
        BY <3>2 DEF Of
      <4>2. QED  BY <1>11, <4>1, FS_Subset
    <3>5. Cardinality(mine) <= Cardinality(were)
      <4>1. CASE old \in were
        <5>1. mine \subseteq (were \ {old}) \cup {new}
          BY <1>1, <3>1, <3>2 DEF Of
        <5>2. /\ IsFiniteSet((were \ {old}) \cup {new})
              /\ Cardinality((were \ {old}) \cup {new}) <= Cardinality(were)
          BY <3>4, <4>1, Replaced
        <5>3. Cardinality(mine) <= Cardinality((were \ {old}) \cup {new})
          BY <5>1, <5>2, FS_Subset
        <5>4. /\ Cardinality(mine) \in Nat /\ Cardinality(were) \in Nat
              /\ Cardinality((were \ {old}) \cup {new}) \in Nat
          BY <3>4, <5>2, FS_CardinalityType
        <5>5. QED  BY <5>2, <5>3, <5>4
      <4>2. CASE old \notin were
        <5>1. new \notin mine
          BY <1>3, <1>8, <2>1, <3>1, <3>2, <4>2 DEF Of
        <5>2. mine \subseteq were
          BY <1>1, <3>1, <3>2, <5>1 DEF Of
        <5>3. QED  BY <3>4, <5>2, FS_Subset
      <4>3. QED  BY <4>1, <4>2
    <3>6. Cardinality(mine) \in Nat /\ Cardinality(were) \in Nat /\ PerPeer \in Nat
      BY <3>4, FS_CardinalityType, ChunkAssumption
    <3>7. Cardinality(mine) <= PerPeer
      BY <3>3, <3>5, <3>6
    <3>8. QED  BY <3>2, <3>7
  <2>5. QED  BY <1>1, <1>11, <2>2, <2>3, <2>4 DEF Bounded
<1>17. CASE old \notin Fresh
  <2>1. old = Opened(key, f.total) /\ room \in RoomFor(Fresh, key) /\ stay = room
    BY <1>1, <1>3, <1>17
  <2>2. charged = Charge(filled)
    <3>1. Footprint(old) = Overhead(f.total)
      BY <1>6, <2>1, OpenedSized
    <3>2. charged = Charge(stay) + Footprint(old) + f.size
      BY <1>14, <1>17, <2>1, <3>1
    <3>3. QED  BY <1>6, <1>8, <1>12, <1>15, <3>2
  <2>3. Cardinality(room) <= Total - 1 /\ Cardinality(Of(room, key)) <= PerPeer - 1
    BY <1>4, <2>1, RoomFacts
  <2>4. Total \in Nat /\ PerPeer \in Nat
    BY ChunkAssumption
  <2>5. Cardinality(filled) <= Total
    BY <1>1, <1>11, <2>1, <2>3, <2>4, Added
  <2>6. ASSUME NEW x \in filled PROVE Cardinality(Of(filled, x.key)) <= PerPeer
    <3>1. PICK mine : mine = Of(filled, x.key)
      OBVIOUS
    <3>2. CASE x.key.peer = key.peer /\ x.key.conn = key.conn
      <4>1. PICK were : were = Of(room, key)
        OBVIOUS
      <4>2. mine \subseteq were \cup {new} /\ were \subseteq room
        BY <1>1, <2>1, <3>1, <3>2, <4>1 DEF Of
      <4>3. IsFiniteSet(were)
        BY <1>11, <4>2, FS_Subset
      <4>4. IsFiniteSet(were \cup {new}) /\ Cardinality(were \cup {new}) <= PerPeer
        BY <2>3, <2>4, <4>1, <4>3, Added
      <4>5. IsFiniteSet(mine) /\ Cardinality(mine) <= Cardinality(were \cup {new})
        BY <4>2, <4>4, FS_Subset
      <4>6. Cardinality(mine) \in Nat /\ Cardinality(were \cup {new}) \in Nat
        BY <4>4, <4>5, FS_CardinalityType
      <4>7. Cardinality(mine) <= PerPeer
        BY <2>4, <4>4, <4>5, <4>6
      <4>8. QED  BY <3>1, <4>7
    <3>3. CASE ~ (x.key.peer = key.peer /\ x.key.conn = key.conn)
      <4>1. x \in room
        BY <1>1, <1>8, <2>1, <3>3
      <4>2. mine = Of(room, x.key)
        BY <1>1, <1>8, <2>1, <3>1, <3>3 DEF Of
      <4>3. QED  BY <1>5, <3>1, <4>1, <4>2 DEF Bounded
    <3>4. QED  BY <3>2, <3>3
  <2>7. QED  BY <1>1, <1>11, <2>2, <2>5, <2>6 DEF Bounded
<1>18. QED  BY <1>16, <1>17

\* The sweep, the room made, the fragment, the budget and the hand-over, in one
\* step: what is charged at each stage is the cost of what is there.
LEMMA IngestBounds ==
    ASSUME Inv, LossInv, BoundsInv, NEW p \in Peers, Ingest(p)
    PROVE  BoundsInv'
<1>1. PICK f : f = Head(link[p])
  OBVIOUS
<1>2. PICK old, new, room, kept, charged :
         /\ Ingests(p, f, old, new, room, kept)
         /\ Charges(p, f, old, new, room, kept, charged)
  BY <1>1, IngestShape
<1>3. Continued(p, f, old, new)
  BY <1>1, <1>2, IngestNew
<1>4. f \in Fragments /\ f.seq \notin DOMAIN old.parts
  <2>1. link[p] \in Seq(Fragments) /\ link[p] # <<>>
    BY DEF Inv, FieldsInv, Ingest
  <2>2. f \in Fragments
    BY <1>1, <2>1
  <2>3. \A s \in DOMAIN old.parts : s \in Nat /\ s < f.seq
    BY <1>3 DEF Continued, Continues
  <2>4. f.seq \in Nat
    BY <2>2 DEF Fragments
  <2>5. QED  BY <2>2, <2>3, <2>4
<1>5. PICK filled : filled = (room \ {old}) \cup {new}
  OBVIOUS
<1>6. Bounded(filled) /\ charged = Charge(filled)
  BY <1>2, <1>4, <1>5, FilledBounds
<1>7. PICK done : done = Done(new, kept)
  OBVIOUS
<1>8. /\ kept \in WithinBudget(filled, charged)
      /\ totalBytes' = Released(charged, (filled \ kept) \cup done)
      /\ partials' = kept \ done /\ kept \subseteq filled /\ done \subseteq kept
  BY <1>2, <1>5, <1>7 DEF Ingests, Charges, Done
<1>9. IsFiniteSet(filled) /\ \A x \in filled : Sized(x)
  BY <1>6 DEF Bounded
<1>10. PICK out, gone, left : /\ out = filled \ kept /\ gone = out \cup done
                              /\ left = kept \ done
  OBVIOUS
<1>11. /\ out \in SUBSET filled /\ filled \ out = kept
       /\ gone \in SUBSET filled /\ filled \ gone = left
       /\ left \in SUBSET filled /\ left \in SUBSET kept
  BY <1>8, <1>10
<1>12. totalBytes' = Charge(left)
  <2>1. Released(Charge(filled), gone) = Charge(left)
    BY <1>9, <1>11, ChargeFacts
  <2>2. QED  BY <1>6, <1>8, <1>10, <2>1
<1>13. IsFiniteSet(kept) /\ \A x \in kept : Sized(x)
  BY <1>8, <1>9, FS_Subset
<1>14. Charge(left) \in Nat /\ Charge(kept) \in Nat /\ Charge(left) <= Charge(kept)
  <2>1. /\ Charge(kept) = Charge(kept \ left) + Charge(left)
        /\ Charge(left) \in Nat /\ Charge(kept \ left) \in Nat /\ Charge(kept) \in Nat
    BY <1>11, <1>13, ChargeFacts
  <2>2. QED  BY <2>1
<1>15. Charge(left) <= Budget
  <2>1. Budget \in Nat
    BY ChunkAssumption
  <2>2. kept = {} \/ Released(charged, out) <= Budget
    BY <1>8, <1>10 DEF WithinBudget
  <2>3. CASE kept = {}
    <3>1. left = {}
      BY <1>11, <2>3
    <3>2. Charge({}) = 0
      BY ChargeNone
    <3>3. QED  BY <2>1, <3>1, <3>2
  <2>4. CASE Released(charged, out) <= Budget
    <3>1. Released(Charge(filled), out) = Charge(kept)
      BY <1>9, <1>11, ChargeFacts
    <3>2. Charge(kept) <= Budget
      BY <1>6, <2>4, <3>1
    <3>3. QED  BY <1>14, <2>1, <3>2
  <2>5. QED  BY <2>2, <2>3, <2>4
<1>16. Bounded(left)
  BY <1>6, <1>11, BoundedSubset
<1>17. Bounded(partials)' /\ Charge(partials)' = Charge(left)
  <2>1. partials' = left
    BY <1>8, <1>10
  <2>2. Bounded(partials)' <=> Bounded(left)
    BY <2>1 DEF Bounded, Sized, Of
  <2>3. Charge(partials)' = Charge(left)
    BY <2>1 DEF Charge
  <2>4. QED  BY <1>16, <2>2, <2>3
<1>18. QED  BY <1>12, <1>15, <1>17 DEF BoundsInv

LEMMA BoundsInit == Init => BoundsInv
<1>1. SUFFICES ASSUME Init PROVE BoundsInv
  OBVIOUS
<1>2. partials = {} /\ totalBytes = 0
  BY <1>1 DEF Init
<1>3. IsFiniteSet(partials) /\ Cardinality(partials) = 0 /\ Charge(partials) = 0
  BY <1>2, FS_EmptySet, ChargeNone
<1>4. Budget \in Nat /\ Total \in Nat
  BY ChunkAssumption
<1>5. Cardinality(partials) <= Total /\ totalBytes <= Budget
  BY <1>2, <1>3, <1>4
<1>6. QED  BY <1>2, <1>3, <1>5 DEF BoundsInv, Bounded

LEMMA BoundsStep == Inv /\ LossInv /\ BoundsInv /\ [Next]_vars => BoundsInv'
<1>1. SUFFICES ASSUME Inv, LossInv, BoundsInv, [Next]_vars PROVE BoundsInv'
  OBVIOUS
<1>2. CASE UNCHANGED <<partials, totalBytes>>
  <2>1. partials' = partials /\ totalBytes' = totalBytes
    BY <1>2
  <2>2. Bounded(partials)' <=> Bounded(partials)
    BY <2>1 DEF Bounded, Sized, Of
  <2>3. Charge(partials)' = Charge(partials)
    BY <2>1 DEF Charge
  <2>4. QED  BY <1>1, <2>1, <2>2, <2>3 DEF BoundsInv
<1>3. ASSUME NEW p \in Peers, Reject(p) PROVE BoundsInv'
  <2>1. /\ Fresh \in SUBSET partials /\ partials' = Fresh
        /\ totalBytes' = Released(totalBytes, partials \ Fresh)
    BY <1>3 DEF Reject, Fresh
  <2>2. QED  BY <1>1, <2>1, BoundsShrink
<1>4. ASSUME NEW p \in Peers, Ingest(p) PROVE BoundsInv'
  BY <1>1, <1>4, IngestBounds
<1>5. QED  BY <1>1, <1>2, <1>3, <1>4 DEF Next, vars, buffer, Tick, Send, Cut, TakeWhole

\* The receiver's clock, the bounds of the senders, and the keys.
ClockInv ==
    /\ now \in 0..MaxTime /\ cuts \in 0..MaxCuts /\ nextSweep \in Nat
    /\ \A p \in Peers : sent[p] <= MaxSent /\ conn[p] <= cuts
    /\ \A x \in partials : x.key \in Keys /\ x.first \in Nat

LEMMA ClockInit == Init => ClockInv
  BY ChunkAssumption DEF Init, ClockInv

LEMMA ClockStep == Inv /\ ClockInv /\ [Next]_vars => ClockInv'
<1>1. SUFFICES ASSUME Inv, ClockInv, [Next]_vars PROVE ClockInv'
  OBVIOUS
<1>2. /\ now \in 0..MaxTime /\ cuts \in 0..MaxCuts /\ nextSweep \in Nat
      /\ \A p \in Peers : sent[p] <= MaxSent /\ conn[p] <= cuts
      /\ \A x \in partials : x.key \in Keys /\ x.first \in Nat
      /\ sent \in [Peers -> Nat] /\ conn \in [Peers -> Nat]
      /\ link \in [Peers -> Seq(Fragments)]
      /\ MaxSent \in Nat /\ MaxTime \in Nat /\ MaxCuts \in Nat /\ SweepEvery \in Nat
  BY <1>1, ChunkAssumption DEF Inv, FieldsInv, ClockInv
<1>3. CASE UNCHANGED vars
  <2>1. /\ now' = now /\ cuts' = cuts /\ nextSweep' = nextSweep
        /\ sent' = sent /\ conn' = conn /\ partials' = partials
    BY <1>3 DEF vars, links, buffer
  <2>2. QED  BY <1>2, <2>1 DEF ClockInv
<1>4. CASE Tick
  <2>1. /\ now' = now + 1 /\ now < MaxTime /\ cuts' = cuts /\ nextSweep' = nextSweep
        /\ sent' = sent /\ conn' = conn /\ partials' = partials
    BY <1>4 DEF Tick, links, buffer
  <2>2. now' \in 0..MaxTime
    BY <1>2, <2>1
  <2>3. QED  BY <1>2, <2>1, <2>2 DEF ClockInv
<1>5. ASSUME NEW p \in Peers, NEW len \in Lengths, Send(p, len) PROVE ClockInv'
  <2>1. /\ now' = now /\ cuts' = cuts /\ nextSweep' = nextSweep
        /\ sent[p] < MaxSent /\ sent' = [sent EXCEPT ![p] = @ + 1]
        /\ conn' = conn /\ partials' = partials
    BY <1>5 DEF Send, buffer
  <2>2. \A q \in Peers : sent'[q] <= MaxSent
    BY <1>2, <2>1
  <2>3. QED  BY <1>2, <2>1, <2>2 DEF ClockInv
<1>6. ASSUME NEW p \in Peers, Cut(p) PROVE ClockInv'
  <2>1. /\ now' = now /\ cuts < MaxCuts /\ cuts' = cuts + 1 /\ nextSweep' = nextSweep
        /\ sent' = sent /\ partials' = partials
        /\ conn' = [conn EXCEPT ![p] = @ + 1]
    BY <1>6 DEF Cut, buffer
  <2>2. cuts' \in 0..MaxCuts /\ \A q \in Peers : conn'[q] <= cuts'
    BY <1>2, <2>1
  <2>3. QED  BY <1>2, <2>1, <2>2 DEF ClockInv
<1>7. ASSUME NEW p \in Peers, TakeWhole(p) PROVE ClockInv'
  <2>1. /\ now' = now /\ cuts' = cuts /\ nextSweep' = nextSweep
        /\ sent' = sent /\ conn' = conn /\ partials' = partials
    BY <1>7 DEF TakeWhole, buffer
  <2>2. QED  BY <1>2, <2>1 DEF ClockInv
<1>8. ASSUME SweepTimer PROVE nextSweep' \in Nat
  BY <1>2, <1>8 DEF SweepTimer
<1>9. ASSUME NEW p \in Peers, Reject(p) PROVE ClockInv'
  <2>1. /\ now' = now /\ cuts' = cuts /\ SweepTimer
        /\ sent' = sent /\ conn' = conn /\ partials' \subseteq partials
    BY <1>9 DEF Reject, Fresh
  <2>2. QED  BY <1>2, <1>8, <2>1 DEF ClockInv
<1>10. ASSUME NEW p \in Peers, Ingest(p) PROVE ClockInv'
  <2>1. /\ now' = now /\ cuts' = cuts /\ SweepTimer /\ sent' = sent /\ conn' = conn
        /\ link[p] # <<>>
    BY <1>10 DEF Ingest
  <2>2. PICK f : f = Head(link[p])
    OBVIOUS
  <2>3. f \in Fragments
    BY <1>2, <2>1, <2>2
  <2>4. PICK old : /\ old \in partials \cup {Opened(KeyOf(p, f), f.total)}
                   /\ old.key = KeyOf(p, f)
                   /\ partials' \subseteq partials \cup {Filled(old, f)}
    BY <1>10, <2>2, IngestFacts
  <2>5. KeyOf(p, f) \in Keys
    BY <1>2, <2>3 DEF KeyOf, Keys, Fragments
  <2>6. /\ old = [key |-> old.key, total |-> old.total, parts |-> old.parts,
                   first |-> old.first]
        /\ old.first \in Nat
    <3>1. CASE old \in partials
      BY <1>1, <1>2, <3>1 DEF Inv, FieldsInv
    <3>2. CASE old = Opened(KeyOf(p, f), f.total)
      BY <1>2, <3>2 DEF Opened
    <3>3. QED  BY <2>4, <3>1, <3>2
  <2>7. PICK new : new = Filled(old, f)
    OBVIOUS
  <2>8. new = [key |-> old.key, total |-> old.total, parts |-> new.parts,
               first |-> old.first]
    BY <2>6, <2>7, FilledFacts
  <2>9. new.key \in Keys /\ new.first \in Nat
    BY <2>4, <2>5, <2>6, <2>8
  <2>10. \A x \in partials' : x.key \in Keys /\ x.first \in Nat
    BY <1>2, <2>4, <2>7, <2>9
  <2>11. QED  BY <1>2, <1>8, <2>1, <2>10 DEF ClockInv
<1>11. QED  BY <1>1, <1>3, <1>4, <1>5, <1>6, <1>7, <1>9, <1>10 DEF Next

\* WithinBounds: for any budgets, lengths and ceilings, the running total is the
\* cost of what is there, and it and the two counts stay within their limits.
THEOREM BoundsCorrect == Spec => []WithinBounds
<1>1. Init => Inv /\ OrderInv /\ LossInv /\ BoundsInv
  BY InitInv, ChannelInit, LossInit, BoundsInit
<1>2. Inv /\ OrderInv /\ LossInv /\ BoundsInv /\ [Next]_vars
        => (Inv /\ OrderInv /\ LossInv /\ BoundsInv)'
  BY NextInv, OrderStep, LossStep, BoundsStep
<1>3. BoundsInv => WithinBounds
  BY DEF BoundsInv, Bounded, Charge, WithinBounds
<1>4. QED  BY <1>1, <1>2, <1>3, PTL DEF Spec

\* TypeOK: the state is well typed, a key names one partial message, and a slot
\* is one of those its message declares.
THEOREM TypeCorrect == Spec => []TypeOK
<1>1. Init => Inv /\ OrderInv /\ LossInv /\ BoundsInv /\ ClockInv
  BY InitInv, ChannelInit, LossInit, BoundsInit, ClockInit
<1>2. Inv /\ OrderInv /\ LossInv /\ BoundsInv /\ ClockInv /\ [Next]_vars
        => (Inv /\ OrderInv /\ LossInv /\ BoundsInv /\ ClockInv)'
  BY NextInv, OrderStep, LossStep, BoundsStep, ClockStep
<1>3. Inv /\ LossInv /\ BoundsInv /\ ClockInv => TypeOK
  <2>1. SUFFICES ASSUME Inv, LossInv, BoundsInv, ClockInv PROVE TypeOK
    OBVIOUS
  <2>2. /\ nextId \in [Peers -> Nat] /\ sent \in [Peers -> Nat] /\ conn \in [Peers -> Nat]
        /\ link \in [Peers -> Seq(Fragments)]
    BY <2>1 DEF Inv, FieldsInv
  <2>3. /\ now \in 0..MaxTime /\ cuts \in 0..MaxCuts /\ nextSweep \in Nat
        /\ \A p \in Peers : sent[p] <= MaxSent /\ conn[p] <= cuts
        /\ \A x \in partials : x.key \in Keys /\ x.first \in Nat
        /\ MaxCuts \in Nat /\ MaxSent \in Nat
    BY <2>1, ChunkAssumption DEF ClockInv
  <2>4. \A p \in Peers : sent[p] \in 0..MaxSent /\ conn[p] \in 0..MaxCuts
    BY <2>2, <2>3
  <2>5. sent \in [Peers -> 0..MaxSent] /\ conn \in [Peers -> 0..MaxCuts]
    BY <2>2, <2>4
  <2>6. totalBytes \in Nat
    <3>1. IsFiniteSet(partials) /\ \A x \in partials : Sized(x)
      BY <2>1 DEF BoundsInv, Bounded
    <3>2. Charge(partials) \in Nat
      BY <3>1, ChargeFacts
    <3>3. QED  BY <2>1, <3>2 DEF BoundsInv
  <2>7. \A x \in partials : DOMAIN x.parts \subseteq 0..x.total - 1
    <3>1. \A x \in partials : /\ x.total \in Nat
                              /\ \A s \in DOMAIN x.parts : s \in Nat /\ s < x.total
      BY <2>1 DEF BoundsInv, Bounded, Sized, LossInv, PartsInv
    <3>2. QED  BY <3>1
  <2>8. \A x, y \in partials : x.key = y.key => x = y
    BY <2>1 DEF LossInv, PartsInv
  <2>9. QED  BY <2>2, <2>3, <2>5, <2>6, <2>7, <2>8 DEF TypeOK
<1>4. QED  BY <1>1, <1>2, <1>3, PTL DEF Spec
=============================================================================
