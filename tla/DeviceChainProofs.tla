------------------------- MODULE DeviceChainProofs -------------------------
(***************************************************************************)
(* Theorems about DeviceChain, for any edits, block, re-seal limit and     *)
(* bounds: no counter is signed twice, what the device takes as            *)
(* acknowledged stands on the chain, no change is lost, and the device     *)
(* never reports a server that did not go back.                            *)
(***************************************************************************)
EXTENDS DeviceChain, FiniteNaturals, FiniteSetTheorems, SequenceTheorems, TLAPS

-----------------------------------------------------------------------------
(* The inductive invariant.                                                *)

Marks == [counter : Nat, digest : Nat]
Recs == [digest : Nat, counter : Nat, previous : Nat, attempt : Nat, epoch : Nat, edit : Edits]
Entries == [rec : Recs, reseals : Nat]
States == [outbox : Seq(Entries), next : Nat \ {0}, head : Marks, acked : Marks,
           changed : SUBSET Edits, accepted : Nat]
Answers ==
    [kind : {"none"}]
    \cup [kind : {"receipts"}, batch : Seq(Recs)]
    \cup [kind : {"refused"}, code : Others \cup {"chain_conflict", "epoch_stale"},
          at : Nat, head : Marks]
Phases == {"closed", "offline", "online", "comparing", "rebuilding", "matching", "pushing",
           "sent", "halted"}

Typed ==
    /\ chain \in Seq(Recs) /\ epoch \in Nat
    /\ request \in Seq(Recs) /\ late \subseteq Seq(Recs) /\ answer \in Answers
    /\ memory \in States /\ journal \in States /\ copy \in States
    /\ reserved \in Nat /\ phase \in Phases /\ upto \in Nat
    /\ signed \subseteq Recs /\ seals \in Nat /\ copies \in Nat

\* A sync state (in memory, on disk or in a backup) as it stands to what was
\* signed, reserved and committed: it never signs above the reservation, its
\* outbox holds signed records in the order of their counters, what it holds
\* acknowledged is on the chain, and it has lost no change.
Ascends(s) == \A j, k \in DOMAIN s : j < k => s[j].counter < s[k].counter
Standing(mark, c) == mark = None \/ \E k \in DOMAIN c : Mark(c[k]) = mark
Keeps(m, c) ==
    \A e \in Edits : \/ e \in m.changed
                     \/ \E k \in DOMAIN m.outbox : m.outbox[k].rec.edit = e
                     \/ \E k \in DOMAIN c : c[k].edit = e
Orderly(outbox, s) ==
    /\ \A k \in DOMAIN outbox : outbox[k].rec \in s
    /\ \A j, k \in DOMAIN outbox : j < k => outbox[j].rec.counter < outbox[k].rec.counter
Sound(m, s, r, c) ==
    /\ m.next <= r + 1
    /\ Orderly(m.outbox, s)
    /\ Standing(m.acked, c)
    /\ Keeps(m, c)

Soundness ==
    /\ Sound(memory, signed, reserved, chain)
    /\ Sound(journal, signed, reserved, chain)
    /\ Sound(copy, signed, reserved, chain)
    /\ memory.outbox = journal.outbox

\* Digests are fresh, and a running app signs above all that was ever signed.
Fresh ==
    /\ \A r \in signed : /\ r.digest \in 1..seals /\ r.attempt <= seals
                         /\ r.counter \in 1..reserved
                         /\ phase # "closed" => r.counter < memory.next
    /\ \A r, s \in signed : r.digest = s.digest => r = s

\* Until a backup comes back, an attempt that was replaced is gone from the
\* outbox.
Replaced ==
    copies = 0 => \A r \in signed : r.attempt # 0 =>
        \A k \in DOMAIN memory.outbox : memory.outbox[k].rec.digest # r.attempt

\* The chain ascends, and each record names the one before it.
Linked ==
    /\ \A k \in DOMAIN chain : chain[k] \in signed
    /\ Ascends(chain)
    /\ \A k \in DOMAIN chain : chain[k].previous = IF k = 1 THEN 0 ELSE chain[k - 1].digest

\* What is on its way is a part of the outbox, or was once one.
Batch(b, s) == Ascends(b) /\ \A k \in DOMAIN b : b[k] \in s
Begins(b, outbox) ==
    /\ Len(b) <= Len(outbox)
    /\ \A k \in DOMAIN b : b[k] = outbox[k].rec
InFlight ==
    /\ Batch(request, signed) /\ \A b \in late : Batch(b, signed)
    /\ Begins(request, memory.outbox)
    /\ phase # "sent" => request = <<>> /\ answer.kind = "none"
    /\ answer.kind # "none" => request = <<>>
    /\ answer.kind = "receipts" =>
          /\ answer.batch # <<>> /\ Begins(answer.batch, memory.outbox)
          /\ \A k \in DOMAIN answer.batch : \E j \in DOMAIN chain : chain[j] = answer.batch[k]
    /\ answer.kind = "refused" =>
          /\ answer.at \in DOMAIN memory.outbox
          /\ memory.acked.counter <= answer.head.counter

Inductive ==
    /\ Typed /\ Soundness /\ Fresh /\ Replaced /\ Linked /\ InFlight
    /\ SignsOnce /\ NoFalseAlarm

-----------------------------------------------------------------------------
(* Facts about sync states, for any signed records, reservation and chain. *)

Extends(c, d) == \A k \in DOMAIN c : k \in DOMAIN d /\ d[k] = c[k]

\* What was sound stays so when more is signed, reserved and committed.
LEMMA SoundGrows ==
    ASSUME NEW m \in States, NEW s, NEW t, NEW r \in Nat, NEW q \in Nat, NEW c, NEW d,
           Sound(m, s, r, c), s \subseteq t, r <= q, Extends(c, d)
    PROVE  Sound(m, t, q, d)
  <1>1. m.next \in Nat
    BY DEF States
  <1>2. Standing(m.acked, d)
    BY DEF Sound, Standing, Extends
  <1>3. Keeps(m, d)
    BY DEF Sound, Keeps, Extends
  <1>4. Orderly(m.outbox, t)
    BY DEF Sound, Orderly
  <1>. QED
    BY <1>1, <1>2, <1>3, <1>4 DEF Sound

\* A state that differs in what Sound does not read, or acknowledges another
\* record of the chain.
LEMMA SoundSame ==
    ASSUME NEW m, NEW n, NEW s, NEW r, NEW c, Sound(m, s, r, c),
           n.outbox = m.outbox, n.next <= r + 1, n.changed = m.changed, Standing(n.acked, c)
    PROVE  Sound(n, s, r, c)
  <1>1. Keeps(n, c)
    BY DEF Sound, Keeps
  <1>. QED
    BY <1>1 DEF Sound

\* An outbox with fewer records keeps their order; the changes that left are
\* on the chain or back in their files.
LEMMA SoundFewer ==
    ASSUME NEW m \in States, NEW n \in States, NEW s, NEW r, NEW c, Sound(m, s, r, c),
           n.next <= r + 1, m.changed \subseteq n.changed, Standing(n.acked, c),
           NEW f \in [DOMAIN n.outbox -> DOMAIN m.outbox],
           \A k \in DOMAIN n.outbox : n.outbox[k].rec = m.outbox[f[k]].rec,
           \A j, k \in DOMAIN n.outbox : j < k => f[j] < f[k],
           \A j \in DOMAIN m.outbox :
              \/ \E k \in DOMAIN n.outbox : f[k] = j
              \/ m.outbox[j].rec.edit \in n.changed
              \/ \E k \in DOMAIN c : c[k].edit = m.outbox[j].rec.edit
    PROVE  Sound(n, s, r, c)
  <1>1. Orderly(n.outbox, s)
    BY DEF Sound, Orderly
  <1>2. Keeps(n, c)
    <2>. SUFFICES ASSUME NEW e \in Edits, e \notin n.changed,
                         ~ \E k \in DOMAIN c : c[k].edit = e
                  PROVE  \E k \in DOMAIN n.outbox : n.outbox[k].rec.edit = e
      BY DEF Keeps
    <2>1. PICK j \in DOMAIN m.outbox : m.outbox[j].rec.edit = e
      BY DEF Sound, Keeps
    <2>2. PICK k \in DOMAIN n.outbox : f[k] = j
      BY <2>1
    <2>. QED
      BY <2>1, <2>2
  <1>. QED
    BY <1>1, <1>2 DEF Sound

-----------------------------------------------------------------------------
(* Facts about the chain.                                                  *)

\* The head row is the last record, and nothing on the chain lies above it.
LEMMA HeadOnTop ==
    ASSUME chain \in Seq(Recs), Linked
    PROVE  /\ ChainHead \in Marks
           /\ chain = <<>> => ChainHead = None
           /\ chain # <<>> => Len(chain) \in DOMAIN chain /\ ChainHead = Mark(chain[Len(chain)])
           /\ \A k \in DOMAIN chain : chain[k].counter <= ChainHead.counter
  <1>1. CASE chain = <<>>
    BY <1>1 DEF ChainHead, None, Marks
  <1>2. CASE chain # <<>>
    <2>1. Len(chain) \in DOMAIN chain /\ chain[Len(chain)] \in Recs
      BY <1>2
    <2>2. ChainHead = Mark(chain[Len(chain)])
      BY <1>2 DEF ChainHead
    <2>3. ChainHead \in Marks /\ ChainHead.counter = chain[Len(chain)].counter
      BY <2>1, <2>2 DEF Mark, Marks, Recs
    <2>4. ASSUME NEW k \in DOMAIN chain PROVE chain[k].counter <= ChainHead.counter
      <3>1. k = Len(chain) \/ chain[k].counter < chain[Len(chain)].counter
        BY <2>1 DEF Linked, Ascends
      <3>2. chain[k] \in Recs
        OBVIOUS
      <3>3. chain[k].counter \in Nat /\ chain[Len(chain)].counter \in Nat
        BY <2>1, <3>2 DEF Recs
      <3>. QED
        BY <3>1, <3>3, <2>3
    <2>. QED
      BY <1>2, <2>1, <2>2, <2>3, <2>4
  <1>. QED
    BY <1>1, <1>2

\* What stands on the chain lies at or below its head, and below the
\* reservation.
LEMMA StandingBelow ==
    ASSUME Typed, Linked, Fresh, NEW mark \in Marks, Standing(mark, chain)
    PROVE  mark.counter <= ChainHead.counter /\ mark.counter <= reserved
  <1>1. CASE mark = None
    BY <1>1, HeadOnTop DEF Typed, None, Marks
  <1>2. CASE mark # None
    <2>1. PICK k \in DOMAIN chain : Mark(chain[k]) = mark
      BY <1>2 DEF Standing
    <2>2. mark.counter = chain[k].counter /\ chain[k] \in signed
      BY <2>1 DEF Mark, Linked
    <2>. QED
      BY <2>2, HeadOnTop DEF Typed, Fresh
  <1>. QED
    BY <1>1, <1>2

\* A record that a comparison takes back follows the acknowledged one: the
\* server serves it only if it is the next above, or if the record below it
\* is one the device could have acknowledged.
LEMMA ServedFollows ==
    ASSUME Typed, Linked, Fresh, NEW a \in Marks, Standing(a, chain), Served(a.counter + 1)
    PROVE  /\ Nearest(a.counter + 1) \in DOMAIN chain
           /\ chain[Nearest(a.counter + 1)].previous = a.digest
  <1>. DEFINE c == a.counter + 1
              k == Nearest(c)
  <1>1. /\ chain \in Seq(Recs) /\ DOMAIN chain = 1..Len(chain) /\ Len(chain) \in Nat
        /\ \A j \in DOMAIN chain : chain[j] \in signed /\ chain[j].counter \in Nat
    BY DEF Typed, Linked, Recs
  <1>. a.counter \in Nat
    BY DEF Marks
  <1>2. IsFiniteSet(DOMAIN chain) /\ DOMAIN chain \subseteq Nat
    BY <1>1, FS_Interval
  <1>3. k \in Above(c)
    <2>1. Above(c) \subseteq DOMAIN chain /\ Above(c) # {}
      BY DEF Above, Kept, Served
    <2>2. Above(c) \subseteq Nat /\ IsFiniteSet(Above(c))
      BY <1>2, <2>1, FS_Subset
    <2>3. \E x \in Above(c) : \A j \in Above(c) : x <= j
      BY <2>1, <2>2, LeastExists
    <2>. QED
      BY <2>3 DEF Nearest
  <1>4. k \in DOMAIN chain /\ chain[k].counter >= c
    BY <1>3 DEF Above, Kept
  <1>5. chain[k].counter = c \/ chain[k].previous = DigestBelow(c)
    BY DEF Served
  <1>6. chain[k].previous = IF k = 1 THEN 0 ELSE chain[k - 1].digest
    BY <1>4 DEF Linked
  <1>7. CASE a = None
    <2>1. ASSUME NEW j \in DOMAIN chain PROVE chain[j].counter >= 1 /\ chain[j].digest # 0
      BY <1>1 DEF Fresh, Typed
    <2>2. c = 1 /\ a.digest = 0
      BY <1>7 DEF None
    <2>3. CASE chain[k].counter = c
      <3>1. k = 1
        <4>. SUFFICES ASSUME 1 < k PROVE FALSE
          BY <1>2, <1>1, <1>4
        <4>1. 1 \in DOMAIN chain
          BY <1>1, <1>4
        <4>2. chain[1].counter < chain[k].counter
          BY <1>4, <4>1 DEF Linked, Ascends
        <4>. QED
          BY <1>1, <1>4, <2>1, <2>2, <2>3, <4>1, <4>2
      <3>. QED
        BY <1>4, <1>6, <2>2, <3>1
    <2>4. CASE chain[k].previous = DigestBelow(c)
      <3>1. Below(c) = {}
        <4>. SUFFICES ASSUME NEW x \in Below(c) PROVE FALSE
          OBVIOUS
        <4>1. x \in DOMAIN chain /\ chain[x].counter < c
          BY DEF Below, Kept
        <4>. QED
          BY <1>1, <2>1, <2>2, <4>1
      <3>. QED
        BY <1>4, <2>2, <2>4, <3>1 DEF DigestBelow
    <2>. QED
      BY <1>5, <2>3, <2>4
  <1>8. CASE a # None
    <2>1. PICK j \in DOMAIN chain : Mark(chain[j]) = a
      BY <1>8 DEF Standing
    <2>2. chain[j].counter = a.counter /\ chain[j].digest = a.digest
      BY <2>1 DEF Mark
    <2>3. j < k
      <3>1. chain[j].counter < chain[k].counter
        BY <1>1, <1>4, <2>2
      <3>. QED
        BY <1>1, <1>4, <3>1 DEF Linked, Ascends
    <2>4. CASE chain[k].counter = c
      <3>1. ~(j + 1 < k)
        <4>. SUFFICES ASSUME j + 1 < k PROVE FALSE
          OBVIOUS
        <4>1. j + 1 \in DOMAIN chain
          BY <1>1, <1>4
        <4>2. chain[j].counter < chain[j + 1].counter
          BY <1>2, <4>1 DEF Linked, Ascends
        <4>3. chain[j + 1].counter < chain[k].counter
          BY <1>4, <4>1 DEF Linked, Ascends
        <4>. QED
          BY <1>1, <1>4, <4>1, <4>2, <4>3, <2>2, <2>4
      <3>. QED
        BY <1>1, <1>4, <1>6, <2>2, <2>3, <3>1
    <2>5. CASE chain[k].previous = DigestBelow(c)
      <3>1. k # 1 /\ k - 1 \in DOMAIN chain /\ DigestBelow(c) = chain[k - 1].digest
        BY <1>1, <1>4, <1>6, <2>3, <2>5
      <3>2. chain[k - 1].digest # 0
        BY <1>1, <3>1 DEF Fresh, Typed
      <3>. DEFINE b == CHOOSE x \in Below(c) : \A i \in Below(c) : i <= x
      <3>3. DigestBelow(c) = chain[b].digest /\ Below(c) # {}
        BY <3>1, <3>2 DEF DigestBelow
      <3>4. b \in Below(c)
        <4>1. Below(c) \subseteq DOMAIN chain
          BY DEF Below, Kept
        <4>2. Below(c) \subseteq Nat /\ IsFiniteSet(Below(c))
          BY <1>2, <4>1, FS_Subset
        <4>3. \E x \in Below(c) : \A i \in Below(c) : i <= x
          BY <3>3, <4>2, GreatestExists
        <4>. QED
          BY <4>3
      <3>5. b \in DOMAIN chain /\ chain[b].counter < c
        BY <3>4 DEF Below, Kept
      <3>6. chain[b] = chain[k - 1]
        BY <1>1, <3>1, <3>3, <3>5 DEF Fresh
      <3>7. ~(j < k - 1)
        <4>. SUFFICES ASSUME j < k - 1 PROVE FALSE
          OBVIOUS
        <4>1. chain[j].counter < chain[k - 1].counter
          BY <3>1 DEF Linked, Ascends
        <4>. QED
          BY <1>1, <2>2, <3>1, <3>5, <3>6, <4>1
      <3>. QED
        BY <1>1, <1>4, <2>2, <2>3, <2>5, <3>1, <3>7
    <2>. QED
      BY <1>5, <2>4, <2>5
  <1>. QED
    BY <1>4, <1>7, <1>8

\* A batch that passes joins the chain in order: what the server holds of it
\* already lies below what it does not, so each new record names the one
\* before it.
LEMMA CommitsExtend ==
    ASSUME Typed, Linked, Fresh, NEW batch \in Seq(Recs), Batch(batch, signed),
           AllPass(batch), Commits(batch), signed' = signed
    PROVE  /\ chain' \in Seq(Recs) /\ Extends(chain, chain') /\ Linked'
           /\ \A k \in DOMAIN batch : \E j \in DOMAIN chain' : chain'[j] = batch[k]
  <1>. DEFINE new == {k \in DOMAIN batch : ~Held(batch[k])}
  <1>1. PICK f \in [1..Cardinality(new) -> new] :
            /\ \A k \in new : \E j \in DOMAIN f : f[j] = k
            /\ \A i, j \in DOMAIN f : i < j => f[i] < f[j]
            /\ chain' = chain \o [j \in DOMAIN f |-> batch[f[j]]]
    BY DEF Commits
  <1>. DEFINE n == Cardinality(new)
              add == [j \in 1..n |-> batch[f[j]]]
  <1>2. /\ DOMAIN batch = 1..Len(batch) /\ Len(batch) \in Nat
        /\ \A k \in DOMAIN batch : batch[k] \in Recs /\ batch[k] \in signed
        /\ \A k \in DOMAIN batch : batch[k].counter \in Nat
    <2>1. \A k \in DOMAIN batch : batch[k] \in Recs
      OBVIOUS
    <2>. QED
      BY <2>1 DEF Batch, Recs
  <1>3. /\ DOMAIN chain = 1..Len(chain) /\ Len(chain) \in Nat
        /\ \A k \in DOMAIN chain : chain[k] \in signed /\ chain[k].counter \in Nat
    BY DEF Typed, Linked, Recs
  <1>4. n \in Nat /\ IsFiniteSet(new) /\ new \subseteq Nat
    <2>1. IsFiniteSet(DOMAIN batch) /\ new \subseteq DOMAIN batch /\ DOMAIN batch \subseteq Nat
      BY <1>2, FS_Interval
    <2>. QED
      BY <2>1, FS_Subset, FS_CardinalityType
  <1>5. DOMAIN f = 1..n /\ \A j \in 1..n : f[j] \in new /\ f[j] \in DOMAIN batch /\ f[j] \in Nat
    BY <1>1, <1>4
  <1>6. /\ add \in Seq(Recs) /\ Len(add) = n /\ chain' = chain \o add
        /\ \A j \in 1..n : add[j] = batch[f[j]]
    <2>1. add \in [1..n -> Recs]
      BY <1>2, <1>5
    <2>. QED
      BY <1>1, <1>4, <1>5, <2>1, IsASeq
  <1>7. ChainHead \in Marks /\ ChainHead.counter \in Nat
        /\ \A k \in DOMAIN chain : chain[k].counter <= ChainHead.counter
    BY HeadOnTop DEF Typed, Marks
  <1>8. ASSUME NEW k \in DOMAIN batch, k \notin new
        PROVE  \E j \in DOMAIN chain : chain[j] = batch[k]
    <2>1. PICK j \in DOMAIN chain : chain[j].digest = batch[k].digest
      BY <1>8 DEF Held, Kept
    <2>. QED
      BY <1>2, <1>3, <2>1 DEF Fresh
  <1>9. ASSUME NEW k \in new PROVE Follows(batch, k)
    BY <1>9 DEF AllPass, Passes
  <1>10. ASSUME NEW k \in new, k > 1 => k - 1 \notin new
         PROVE  batch[k].counter > ChainHead.counter /\ batch[k].previous = ChainHead.digest
    <2>1. Follows(batch, k) /\ k \in 1..Len(batch)
      BY <1>2, <1>9
    <2>2. ~(k > 1 /\ ~Held(batch[k - 1]))
      BY <1>2, <1>10, <2>1
    <2>. QED
      BY <2>1, <2>2 DEF Follows
  <1>11. ASSUME NEW k \in new PROVE batch[k].counter > ChainHead.counter
    <2>1. PICK first \in new : \A j \in new : first <= j
      BY <1>4, LeastExists
    <2>2. first \in Nat /\ k \in Nat /\ first - 1 \notin new
      BY <1>4, <2>1
    <2>3. batch[first].counter > ChainHead.counter
      BY <1>10, <2>1, <2>2
    <2>4. first = k \/ batch[first].counter < batch[k].counter
      BY <2>1, <2>2 DEF Batch, Ascends
    <2>. QED
      BY <1>2, <1>7, <2>1, <2>3, <2>4
  <1>12. ASSUME NEW k \in new, NEW j \in DOMAIN batch, k < j PROVE j \in new
    <2>. SUFFICES ASSUME j \notin new PROVE FALSE
      OBVIOUS
    <2>1. PICK i \in DOMAIN chain : chain[i] = batch[j]
      BY <1>8
    <2>2. batch[k].counter < batch[j].counter
      BY <1>12 DEF Batch, Ascends
    <2>. QED
      BY <1>2, <1>3, <1>7, <1>11, <2>1, <2>2
  <1>13. ASSUME 1 \in 1..n
         PROVE  batch[f[1]].previous = ChainHead.digest
    <2>1. f[1] - 1 \notin new
      <3>. SUFFICES ASSUME f[1] - 1 \in new PROVE FALSE
        OBVIOUS
      <3>1. PICK i \in 1..n : f[i] = f[1] - 1
        BY <1>1, <1>5
      <3>2. i = 1 \/ f[1] < f[i]
        BY <1>1, <1>4, <1>5, <1>13
      <3>. QED
        BY <1>5, <1>13, <3>1, <3>2
    <2>. QED
      BY <1>5, <1>10, <1>13, <2>1
  <1>14. ASSUME NEW j \in 1..n, j > 1
         PROVE  batch[f[j]].previous = batch[f[j - 1]].digest
    <2>1. j - 1 \in 1..n /\ f[j - 1] < f[j]
      BY <1>1, <1>4, <1>5, <1>14
    <2>2. f[j - 1] + 1 \in new
      <3>1. f[j - 1] + 1 \in DOMAIN batch
        BY <1>2, <1>5, <2>1
      <3>2. f[j - 1] < f[j - 1] + 1 /\ f[j - 1] \in new
        BY <1>5, <2>1
      <3>. QED
        BY <1>12, <3>1, <3>2
    <2>3. PICK i \in 1..n : f[i] = f[j - 1] + 1
      BY <1>1, <1>5, <2>2
    <2>4. i = j
      <3>1. i < j - 1 => f[i] < f[j - 1]
        BY <1>1, <1>5, <2>1
      <3>2. j < i => f[j] < f[i]
        BY <1>1, <1>5
      <3>. QED
        BY <1>4, <1>5, <2>1, <2>3, <3>1, <3>2
    <2>5. f[j] - 1 = f[j - 1] /\ f[j] > 1 /\ ~Held(batch[f[j] - 1])
      <3>1. f[j] = f[j - 1] + 1 /\ f[j - 1] \in Nat /\ f[j - 1] \in new /\ f[j - 1] \in 1..Len(batch)
        BY <1>2, <1>5, <2>1, <2>3, <2>4
      <3>2. f[j] - 1 = f[j - 1] /\ f[j] > 1
        BY <3>1
      <3>. QED
        BY <3>1, <3>2
    <2>6. Follows(batch, f[j])
      BY <1>5, <1>9
    <2>. QED
      BY <2>5, <2>6 DEF Follows, Mark
  <1>15. /\ chain' \in Seq(Recs) /\ Len(chain') = Len(chain) + n /\ DOMAIN chain' = 1..(Len(chain) + n)
         /\ \A k \in DOMAIN chain : chain'[k] = chain[k]
         /\ \A k \in (Len(chain) + 1)..(Len(chain) + n) :
               k - Len(chain) \in 1..n /\ chain'[k] = batch[f[k - Len(chain)]]
    <2>1. chain \in Seq(Recs)
      BY DEF Typed
    <2>. HIDE DEF add, n
    <2>2. chain \o add \in Seq(Recs) /\ Len(chain \o add) = Len(chain) + n
      BY <1>6, <2>1, ConcatProperties
    <2>3. \A k \in 1..(Len(chain) + n) : (chain \o add)[k] =
             IF k <= Len(chain) THEN chain[k] ELSE add[k - Len(chain)]
      BY <1>6, <2>1, ConcatProperties
    <2>4. DOMAIN chain' = 1..(Len(chain) + n)
      BY <1>6, <2>2
    <2>5. ASSUME NEW k \in (Len(chain) + 1)..(Len(chain) + n)
          PROVE  k - Len(chain) \in 1..n /\ chain'[k] = batch[f[k - Len(chain)]]
      <3>1. k - Len(chain) \in 1..n /\ k \in 1..(Len(chain) + n) /\ ~(k <= Len(chain))
        BY <1>3, <1>4
      <3>. QED
        BY <1>6, <2>3, <3>1
    <2>6. ASSUME NEW k \in DOMAIN chain PROVE chain'[k] = chain[k]
      BY <1>3, <1>4, <1>6, <2>3
    <2>. QED
      BY <1>6, <2>2, <2>4, <2>5, <2>6
  <1>. HIDE DEF n, add, new
  <1>16. ASSUME NEW k \in DOMAIN chain'
         PROVE  \/ k \in DOMAIN chain
                \/ k \in (Len(chain) + 1)..(Len(chain) + n)
    BY <1>3, <1>4, <1>15
  <1>17. Extends(chain, chain')
    BY <1>3, <1>4, <1>15 DEF Extends
  <1>18. \A k \in DOMAIN chain' : chain'[k] \in signed
    BY <1>2, <1>3, <1>5, <1>15, <1>16
  <1>19. Ascends(chain')
    <2>. SUFFICES ASSUME NEW j \in DOMAIN chain', NEW k \in DOMAIN chain', j < k
                  PROVE  chain'[j].counter < chain'[k].counter
      BY DEF Ascends
    <2>1. CASE k \in DOMAIN chain
      <3>1. j \in DOMAIN chain
        BY <1>3, <1>4, <1>15, <2>1
      <3>. QED
        BY <1>15, <2>1, <3>1 DEF Linked, Ascends
    <2>2. CASE j \in DOMAIN chain /\ k \in (Len(chain) + 1)..(Len(chain) + n)
      <3>1. chain'[j].counter \in Nat /\ chain'[j].counter <= ChainHead.counter
        BY <1>3, <1>7, <1>15, <2>2
      <3>2. chain'[k].counter \in Nat /\ chain'[k].counter > ChainHead.counter
        BY <1>2, <1>5, <1>11, <1>15, <2>2
      <3>. QED
        BY <1>7, <3>1, <3>2
    <2>3. CASE j \in (Len(chain) + 1)..(Len(chain) + n) /\ k \in (Len(chain) + 1)..(Len(chain) + n)
      <3>1. j - Len(chain) \in 1..n /\ k - Len(chain) \in 1..n
            /\ j - Len(chain) < k - Len(chain)
        BY <1>3, <1>4, <1>15, <2>3
      <3>2. f[j - Len(chain)] < f[k - Len(chain)]
        BY <1>1, <1>5, <3>1
      <3>3. f[j - Len(chain)] \in DOMAIN batch /\ f[k - Len(chain)] \in DOMAIN batch
        BY <1>5, <1>15, <2>3
      <3>. QED
        BY <1>15, <2>3, <3>2, <3>3 DEF Batch, Ascends
    <2>. QED
      BY <1>16, <2>1, <2>2, <2>3
  <1>20. ASSUME NEW k \in DOMAIN chain'
         PROVE  chain'[k].previous = IF k = 1 THEN 0 ELSE chain'[k - 1].digest
    <2>1. CASE k \in DOMAIN chain
      <3>1. k # 1 => k - 1 \in DOMAIN chain
        BY <1>3, <2>1
      <3>. QED
        BY <1>15, <2>1, <3>1 DEF Linked
    <2>2. CASE k = Len(chain) + 1
      <3>1. 1 \in 1..n /\ k - Len(chain) = 1 /\ k \in (Len(chain) + 1)..(Len(chain) + n)
        BY <1>3, <1>4, <1>15, <2>2
      <3>2. chain'[k].previous = ChainHead.digest
        BY <1>13, <1>15, <3>1
      <3>3. CASE chain = <<>>
        BY <2>2, <3>2, <3>3, HeadOnTop DEF Typed, None
      <3>4. CASE chain # <<>>
        <4>1. Len(chain) \in DOMAIN chain /\ ChainHead = Mark(chain[Len(chain)])
          BY <3>4, HeadOnTop DEF Typed
        <4>2. k # 1 /\ k - 1 = Len(chain)
          BY <1>3, <2>2, <4>1
        <4>. QED
          BY <1>15, <3>2, <4>1, <4>2 DEF Mark
      <3>. QED
        BY <3>3, <3>4
    <2>3. CASE k \in (Len(chain) + 1)..(Len(chain) + n) /\ k # Len(chain) + 1
      <3>1. /\ k # 1 /\ k - 1 \in (Len(chain) + 1)..(Len(chain) + n)
            /\ k - Len(chain) \in 1..n /\ k - Len(chain) > 1
            /\ (k - Len(chain)) - 1 = (k - 1) - Len(chain)
        BY <1>3, <1>4, <2>3
      <3>2. batch[f[k - Len(chain)]].previous = batch[f[(k - Len(chain)) - 1]].digest
        BY <1>14, <3>1
      <3>. QED
        BY <1>15, <2>3, <3>1, <3>2
    <2>. QED
      BY <1>16, <2>1, <2>2, <2>3
  <1>21. Linked'
    BY <1>18, <1>19, <1>20 DEF Linked
  <1>22. ASSUME NEW k \in DOMAIN batch
         PROVE  \E j \in DOMAIN chain' : chain'[j] = batch[k]
    <2>1. CASE k \in new
      <3>1. PICK j \in 1..n : f[j] = k
        BY <1>1, <1>5, <2>1
      <3>2. /\ j + Len(chain) \in (Len(chain) + 1)..(Len(chain) + n)
            /\ (j + Len(chain)) - Len(chain) = j
        BY <1>3, <1>4
      <3>3. j + Len(chain) \in DOMAIN chain'
        BY <1>3, <1>4, <1>15, <3>2
      <3>. QED
        BY <1>15, <3>1, <3>2, <3>3
    <2>2. CASE k \notin new
      BY <1>8, <1>15, <1>17, <2>2 DEF Extends
    <2>. QED
      BY <2>1, <2>2
  <1>. QED
    BY <1>15, <1>17, <1>21, <1>22

-----------------------------------------------------------------------------
(* Kinds of steps.                                                         *)

\* A step that signs and commits nothing.
LEMMA Settled ==
    ASSUME Inductive, Typed', Soundness', InFlight',
           UNCHANGED <<chain, signed, seals>>, alarm' = alarm,
           reserved <= reserved', copies' = 0 => copies = 0,
           phase' # "closed" => \/ phase # "closed" /\ memory.next <= memory'.next
                                \/ reserved < memory'.next,
           copies' = 0 => \A k \in DOMAIN memory'.outbox : \E j \in DOMAIN memory.outbox :
                              memory'.outbox[k].rec.digest = memory.outbox[j].rec.digest
    PROVE  Inductive'
  <1>1. memory.next \in Nat /\ memory'.next \in Nat /\ reserved \in Nat /\ reserved' \in Nat
    BY DEF Inductive, Typed, States
  <1>2. Linked'
    BY DEF Inductive, Linked
  <1>3. Fresh'
    <2>1. ASSUME NEW r \in signed
          PROVE  r.counter \in 1..reserved' /\ (phase' # "closed" => r.counter < memory'.next)
      BY <1>1 DEF Inductive, Fresh
    <2>. QED
      BY <2>1 DEF Inductive, Fresh
  <1>4. Replaced'
    BY DEF Inductive, Replaced
  <1>5. SignsOnce' /\ NoFalseAlarm'
    BY DEF Inductive, SignsOnce, NoFalseAlarm
  <1>. QED
    BY <1>2, <1>3, <1>4, <1>5 DEF Inductive

\* With no push under way there is nothing to match with the outbox.
LEMMA Cleared ==
    ASSUME InFlight, memory' \in States, request' = <<>>, answer'.kind = "none", late' = late,
           signed \subseteq signed'
    PROVE  InFlight'
  <1>1. Batch(<<>>, signed') /\ Begins(<<>>, memory'.outbox)
    BY DEF Batch, Begins, Ascends, States
  <1>2. \A b \in late : Batch(b, signed')
    BY DEF InFlight, Batch
  <1>. QED
    BY <1>1, <1>2 DEF InFlight

LEMMA Idle ==
    ASSUME InFlight, memory' \in States, phase # "sent", UNCHANGED network,
           signed \subseteq signed'
    PROVE  InFlight'
  <1>1. request' = <<>> /\ answer'.kind = "none" /\ late' = late
    BY DEF InFlight, network
  <1>. QED
    BY <1>1, Cleared

-----------------------------------------------------------------------------
(* Steps of the app outside a push.                                        *)

LEMMA ConnectKeeps ==
    ASSUME Inductive, Connect
    PROVE  Inductive'
  <1>. DEFINE m == [memory EXCEPT !.accepted = epoch]
  <1>1. /\ m \in States /\ m.outbox = memory.outbox /\ m.next = memory.next
        /\ m.changed = memory.changed /\ m.acked = memory.acked
    BY DEF Inductive, Typed, States
  <1>2. StartCompare(m) /\ UNCHANGED <<server, network, copy, reserved, cap, history, bounds>>
        /\ phase = "offline"
    BY DEF Connect
  <1>. HIDE DEF m
  <1>3. ~(ChainHead.counter < m.acked.counter) /\ ChainHead.counter \in Nat
    <2>1. Standing(m.acked, chain) /\ m.acked \in Marks
      BY <1>1 DEF Inductive, Soundness, Sound, States
    <2>2. m.acked.counter <= ChainHead.counter
      BY <2>1, StandingBelow DEF Inductive
    <2>. QED
      BY <2>1, <2>2, HeadOnTop DEF Inductive, Typed, Marks
  <1>4. /\ memory' = m /\ alarm' = alarm /\ upto' = ChainHead.counter
        /\ journal' = m \/ journal' = journal
        /\ phase' \in {"online", "comparing"}
    BY <1>2, <1>3 DEF StartCompare
  <1>5. UNCHANGED <<chain, epoch, request, late, answer, copy, reserved, signed, seals, copies>>
    BY <1>2 DEF server, network, history, bounds
  <1>6. Typed'
    BY <1>1, <1>3, <1>4, <1>5 DEF Inductive, Typed, Phases
  <1>7. Soundness'
    <2>1. m.next <= reserved + 1 /\ Standing(m.acked, chain)
      BY <1>1 DEF Inductive, Soundness, Sound
    <2>2. Sound(m, signed, reserved, chain)
      BY <1>1, <2>1, SoundSame DEF Inductive, Soundness
    <2>. QED
      BY <1>1, <1>4, <1>5, <2>2 DEF Inductive, Soundness
  <1>8. InFlight'
    BY <1>1, <1>2, <1>4, <1>5, Idle DEF Inductive
  <1>9. /\ reserved <= reserved' /\ phase # "closed" /\ memory.next <= memory'.next
        /\ memory'.outbox = memory.outbox
    BY <1>1, <1>2, <1>4, <1>5 DEF Inductive, Typed, States
  <1>. QED
    BY <1>4, <1>5, <1>6, <1>7, <1>8, <1>9, Settled

\* The comparison finds what it expects, and acknowledges one record more.
LEMMA TakeBackKeeps ==
    ASSUME Inductive, TakeBack
    PROVE  Inductive'
  <1>. DEFINE rec == chain[Nearest(memory.acked.counter + 1)]
              m == [memory EXCEPT !.acked = Mark(rec)]
  <1>1. /\ Standing(memory.acked, chain) /\ memory.acked \in Marks /\ memory \in States
        /\ Served(memory.acked.counter + 1)
    BY DEF Inductive, Typed, Soundness, Sound, States, TakeBack
  <1>2. Nearest(memory.acked.counter + 1) \in DOMAIN chain /\ rec.previous = memory.acked.digest
    BY <1>1, ServedFollows DEF Inductive
  <1>3. /\ memory' = m /\ UNCHANGED <<alarm, phase, upto>> /\ phase \in {"comparing", "rebuilding"}
        /\ UNCHANGED <<server, network, disk, upto, cap, history, bounds>>
    BY <1>2 DEF TakeBack, Comparing
  <1>4. UNCHANGED <<chain, epoch, network, request, late, answer, journal, copy, reserved, signed,
                     seals, copies>>
    BY <1>3 DEF server, network, disk, history, bounds
  <1>5. Standing(Mark(rec), chain) /\ Mark(rec) \in Marks
    <2>1. rec \in Recs
      BY <1>2 DEF Inductive, Typed
    <2>. QED
      BY <1>2, <2>1 DEF Standing, Mark, Marks, Recs
  <1>6. /\ m \in States /\ m.outbox = memory.outbox /\ m.next = memory.next
        /\ m.changed = memory.changed /\ m.acked = Mark(rec)
    BY <1>1, <1>5 DEF States
  <1>. HIDE DEF m, rec
  <1>7. Typed'
    BY <1>3, <1>4, <1>6 DEF Inductive, Typed
  <1>8. Soundness'
    <2>1. m.next <= reserved + 1
      BY <1>6 DEF Inductive, Soundness, Sound
    <2>2. Sound(m, signed, reserved, chain)
      BY <1>5, <1>6, <2>1, SoundSame DEF Inductive, Soundness
    <2>. QED
      BY <1>3, <1>4, <1>6, <2>2 DEF Inductive, Soundness
  <1>9. InFlight'
    BY <1>3, <1>4, <1>6, Idle DEF Inductive
  <1>10. /\ reserved <= reserved' /\ phase # "closed" /\ memory.next <= memory'.next
         /\ memory'.outbox = memory.outbox
    BY <1>1, <1>3, <1>4, <1>6 DEF Inductive, Typed, States
  <1>. QED
    BY <1>3, <1>4, <1>7, <1>8, <1>9, <1>10, Settled

\* What the head's own counters become when the device took records back.
LEMMA FollowedSound ==
    ASSUME Inductive
    PROVE  /\ Followed(memory) \in States /\ Sound(Followed(memory), signed, reserved, chain)
           /\ Followed(memory).outbox = memory.outbox /\ memory.next <= Followed(memory).next
           /\ Followed(memory).acked = memory.acked
  <1>. DEFINE m == Followed(memory)
  <1>1. memory \in States /\ memory.acked \in Marks /\ memory.next \in Nat /\ memory.acked.counter \in Nat
    BY DEF Inductive, Typed, States, Marks
  <1>2. /\ m \in States /\ m.outbox = memory.outbox /\ m.changed = memory.changed
        /\ m.acked = memory.acked
        /\ m.next = IF memory.next > memory.acked.counter + 1 THEN memory.next
                    ELSE memory.acked.counter + 1
    <2>. DEFINE h == IF memory.head.counter < memory.acked.counter THEN memory.acked ELSE memory.head
                n == IF memory.next > memory.acked.counter + 1 THEN memory.next
                     ELSE memory.acked.counter + 1
    <2>1. m = [memory EXCEPT !.head = h, !.next = n]
      BY DEF Followed
    <2>2. h \in Marks /\ n \in Nat \ {0}
      BY <1>1 DEF States
    <2>. HIDE DEF m, h, n
    <2>3. m \in States /\ m.outbox = memory.outbox /\ m.changed = memory.changed
          /\ m.acked = memory.acked /\ m.next = n
      BY <1>1, <2>1, <2>2 DEF States
    <2>. QED
      BY <2>3 DEF n
  <1>3. memory.acked.counter <= reserved /\ memory.next <= reserved + 1 /\ Standing(memory.acked, chain)
    BY <1>1, StandingBelow DEF Inductive, Soundness, Sound
  <1>4. m.next <= reserved + 1 /\ memory.next <= m.next
    BY <1>1, <1>2, <1>3 DEF Inductive, Typed
  <1>5. Sound(m, signed, reserved, chain)
    BY <1>2, <1>3, <1>4, SoundSame DEF Inductive, Soundness
  <1>. QED
    BY <1>2, <1>4, <1>5

LEMMA PullKeeps ==
    ASSUME Inductive, Pull
    PROVE  Inductive'
  <1>1. /\ memory' = Followed(memory) /\ phase = "rebuilding" /\ phase' = "matching"
        /\ UNCHANGED <<chain, epoch, network, request, late, answer, journal, copy, reserved, upto,
                       alarm, signed, seals, copies>>
    BY DEF Pull, server, network, disk, history, bounds
  <1>2. Typed'
    BY <1>1, FollowedSound DEF Inductive, Typed, Phases
  <1>3. Soundness'
    BY <1>1, FollowedSound DEF Inductive, Soundness
  <1>4. InFlight'
    BY <1>1, FollowedSound, Idle DEF Inductive
  <1>5. reserved <= reserved' /\ memory.next <= memory'.next /\ memory'.outbox = memory.outbox
    BY <1>1, FollowedSound DEF Inductive, Typed
  <1>. QED
    BY <1>1, <1>2, <1>3, <1>4, <1>5, Settled

\* A rebuild that matched its files signs what the chain does not hold.
LEMMA MatchKeeps ==
    ASSUME Inductive, Match
    PROVE  Inductive'
  <1>. DEFINE m == [memory EXCEPT !.changed = Edits \ OnChain]
  <1>1. /\ m \in States /\ m.outbox = memory.outbox /\ m.next = memory.next
        /\ m.changed = Edits \ OnChain /\ m.acked = memory.acked
    BY DEF Inductive, Typed, States
  <1>2. /\ memory' = m /\ journal' = m /\ phase = "matching" /\ phase' = "online"
        /\ UNCHANGED <<chain, epoch, network, request, late, answer, copy, reserved, upto,
                       alarm, signed, seals, copies>>
    BY DEF Match, Save, server, network, history, bounds
  <1>3. Sound(m, signed, reserved, chain)
    <2>1. Keeps(m, chain)
      BY <1>1 DEF Keeps, OnChain
    <2>. QED
      BY <1>1, <2>1 DEF Inductive, Soundness, Sound
  <1>. HIDE DEF m
  <1>4. Typed'
    BY <1>1, <1>2 DEF Inductive, Typed, Phases
  <1>5. Soundness'
    BY <1>2, <1>3 DEF Inductive, Soundness
  <1>6. InFlight'
    BY <1>1, <1>2, Idle DEF Inductive
  <1>7. reserved <= reserved' /\ memory.next <= memory'.next /\ memory'.outbox = memory.outbox
    BY <1>1, <1>2 DEF Inductive, Typed, States
  <1>. QED
    BY <1>2, <1>4, <1>5, <1>6, <1>7, Settled

LEMMA CompareFailsKeeps ==
    ASSUME Inductive, CompareFails
    PROVE  Inductive'
  <1>1. /\ memory' = memory /\ journal' = memory /\ phase = "comparing" /\ phase' = "online"
        /\ UNCHANGED <<chain, epoch, network, request, late, answer, copy, reserved, upto,
                       alarm, signed, seals, copies>>
    BY DEF CompareFails, Save, server, network, history
  <1>2. Typed'
    BY <1>1 DEF Inductive, Typed, Phases
  <1>3. Soundness'
    BY <1>1 DEF Inductive, Soundness
  <1>4. memory' \in States /\ reserved <= reserved' /\ memory.next <= memory'.next
    BY <1>1 DEF Inductive, Typed, States
  <1>5. InFlight'
    BY <1>1, <1>4, Idle DEF Inductive
  <1>. QED
    BY <1>1, <1>2, <1>3, <1>4, <1>5, Settled

\* The journal and the app's memory always have one outbox.
LEMMA RebuildFailsKeeps ==
    ASSUME Inductive, RebuildFails
    PROVE  Inductive'
  <1>1. /\ memory' = journal /\ phase \in {"rebuilding", "matching"} /\ phase' = "closed"
        /\ UNCHANGED <<chain, epoch, network, request, late, answer, journal, copy, reserved, upto,
                       alarm, signed, seals, copies>>
    BY DEF RebuildFails, server, network, disk, history
  <1>2. Typed'
    BY <1>1 DEF Inductive, Typed, Phases
  <1>3. Soundness'
    BY <1>1 DEF Inductive, Soundness
  <1>4. memory' \in States /\ reserved <= reserved' /\ memory'.outbox = memory.outbox
    BY <1>1 DEF Inductive, Typed, States, Soundness
  <1>5. InFlight'
    BY <1>1, <1>4, Idle DEF Inductive
  <1>. QED
    BY <1>1, <1>2, <1>3, <1>4, <1>5, Settled

LEMMA RefreshKeeps ==
    ASSUME Inductive, Refresh
    PROVE  Inductive'
  <1>. DEFINE m == [memory EXCEPT !.accepted = epoch]
  <1>1. /\ m \in States /\ m.outbox = memory.outbox /\ m.next = memory.next
        /\ m.changed = memory.changed /\ m.acked = memory.acked
    BY DEF Inductive, Typed, States
  <1>2. /\ memory' = m /\ phase = "online" /\ phase' = phase
        /\ UNCHANGED <<chain, epoch, network, request, late, answer, journal, copy, reserved, upto,
                       alarm, signed, seals, copies>>
    BY DEF Refresh, server, network, disk, history, bounds
  <1>. HIDE DEF m
  <1>3. Sound(m, signed, reserved, chain)
    BY <1>1, SoundSame DEF Inductive, Soundness, Sound
  <1>4. Typed'
    BY <1>1, <1>2 DEF Inductive, Typed
  <1>5. Soundness'
    BY <1>1, <1>2, <1>3 DEF Inductive, Soundness
  <1>6. InFlight'
    BY <1>1, <1>2, Idle DEF Inductive
  <1>7. reserved <= reserved' /\ memory.next <= memory'.next /\ memory'.outbox = memory.outbox
    BY <1>1, <1>2 DEF Inductive, Typed, States
  <1>. QED
    BY <1>2, <1>4, <1>5, <1>6, <1>7, Settled

-----------------------------------------------------------------------------
(* Starts, crashes, backups.                                               *)

\* A larger reservation alone disturbs nothing.
LEMMA SoundReserved ==
    ASSUME Inductive, reserved' \in Nat, reserved <= reserved'
    PROVE  /\ Sound(memory, signed, reserved', chain)
           /\ Sound(journal, signed, reserved', chain)
           /\ Sound(copy, signed, reserved', chain)
  <1>1. Extends(chain, chain) /\ reserved \in Nat /\ signed \subseteq signed
        /\ memory \in States /\ journal \in States /\ copy \in States
    BY DEF Extends, Inductive, Typed
  <1>2. /\ Sound(memory, signed, reserved, chain)
        /\ Sound(journal, signed, reserved, chain)
        /\ Sound(copy, signed, reserved, chain)
    BY DEF Inductive, Soundness
  <1>. QED
    BY <1>1, <1>2, SoundGrows

LEMMA OpenKeeps ==
    ASSUME Inductive, Open
    PROVE  Inductive'
  <1>. DEFINE m == [journal EXCEPT !.next = IF @ > reserved + 1 THEN @ ELSE reserved + 1]
  <1>1. /\ memory' = m /\ journal' = m /\ reserved' = reserved + Block
        /\ phase = "closed" /\ phase' = "offline"
        /\ UNCHANGED <<chain, epoch, network, request, late, answer, copy, upto,
                       alarm, signed, seals, copies>>
    BY DEF Open, Save, server, network, history, bounds
  <1>2. /\ journal \in States /\ journal.next \in Nat /\ reserved \in Nat /\ Block \in Nat
        /\ Block > 0 /\ journal.next <= reserved + 1 /\ Standing(journal.acked, chain)
        /\ journal.outbox = memory.outbox
    BY ChainAssumption DEF Inductive, Typed, States, Soundness, Sound
  <1>3. /\ m \in States /\ m.outbox = memory.outbox /\ m.next = reserved + 1
        /\ m.changed = journal.changed /\ m.acked = journal.acked
    BY <1>2 DEF States
  <1>. HIDE DEF m
  <1>4. reserved' \in Nat /\ reserved <= reserved' /\ m.next <= reserved' + 1
        /\ reserved < m.next
    BY <1>1, <1>2, <1>3
  <1>5. Sound(m, signed, reserved', chain)
    BY <1>2, <1>3, <1>4, SoundReserved, SoundSame
  <1>6. Typed'
    BY <1>1, <1>3, <1>4 DEF Inductive, Typed, Phases
  <1>7. Soundness'
    BY <1>1, <1>3, <1>4, <1>5, SoundReserved DEF Inductive, Soundness
  <1>8. InFlight'
    BY <1>1, <1>3, Idle DEF Inductive
  <1>. QED
    BY <1>1, <1>3, <1>4, <1>6, <1>7, <1>8, Settled

LEMMA RebuildKeeps ==
    ASSUME Inductive, Rebuild
    PROVE  Inductive'
  <1>. DEFINE m == [outbox |-> <<>>, next |-> reserved + 1, head |-> None, acked |-> None,
                    changed |-> Edits, accepted |-> epoch]
  <1>1. /\ memory' = m /\ journal' = m /\ reserved' = reserved + Block
        /\ phase = "closed" /\ phase' = "rebuilding" /\ upto' = ChainHead.counter
        /\ UNCHANGED <<chain, epoch, network, request, late, answer, copy,
                       alarm, signed, seals, copies>>
    BY DEF Rebuild, Save, server, network, history
  <1>2. /\ reserved \in Nat /\ Block \in Nat /\ epoch \in Nat /\ ChainHead.counter \in Nat
    BY ChainAssumption, HeadOnTop DEF Inductive, Typed, Marks
  <1>3. m \in States /\ m.outbox = <<>> /\ m.next = reserved + 1
    BY <1>2 DEF States, None, Marks
  <1>4. reserved' \in Nat /\ reserved <= reserved' /\ m.next <= reserved' + 1
        /\ reserved < m.next
    BY <1>1, <1>2, <1>3
  <1>5. Sound(m, signed, reserved', chain)
    BY <1>4 DEF Sound, Orderly, Standing, Keeps
  <1>. HIDE DEF m
  <1>6. Typed'
    BY <1>1, <1>2, <1>3, <1>4 DEF Inductive, Typed, Phases
  <1>7. Soundness'
    BY <1>1, <1>3, <1>4, <1>5, SoundReserved DEF Inductive, Soundness
  <1>8. InFlight'
    BY <1>1, <1>3, Idle DEF Inductive
  <1>. QED
    BY <1>1, <1>3, <1>4, <1>6, <1>7, <1>8, Settled

LEMMA CopyKeeps ==
    ASSUME Inductive, Copy
    PROVE  Inductive'
  <1>1. /\ copy' = journal /\ copies' = copies + 1
        /\ UNCHANGED <<chain, epoch, request, late, answer, memory, journal, reserved, phase, upto,
                       alarm, signed, seals>>
    BY DEF Copy, server, network, history
  <1>2. Typed'
    BY <1>1 DEF Inductive, Typed
  <1>3. Soundness'
    BY <1>1 DEF Inductive, Soundness
  <1>4. InFlight'
    BY <1>1 DEF Inductive, InFlight
  <1>5. /\ reserved <= reserved' /\ memory.next <= memory'.next /\ copies' # 0
    BY <1>1 DEF Inductive, Typed, States
  <1>. QED
    BY <1>1, <1>2, <1>3, <1>4, <1>5, Settled

LEMMA RestoreCopyKeeps ==
    ASSUME Inductive, RestoreCopy
    PROVE  Inductive'
  <1>1. /\ memory' = copy /\ journal' = copy /\ copies' = MaxCopies + 1 /\ phase = "closed"
        /\ UNCHANGED <<chain, epoch, network, request, late, answer, copy, reserved, phase, upto,
                       alarm, signed, seals>>
    BY DEF RestoreCopy, Save, server, network, history
  <1>2. copies' \in Nat /\ copies' # 0
    BY <1>1, ChainAssumption
  <1>3. Typed'
    BY <1>1, <1>2 DEF Inductive, Typed
  <1>4. Soundness'
    BY <1>1 DEF Inductive, Soundness
  <1>5. InFlight'
    BY <1>1, Idle DEF Inductive, Typed
  <1>6. reserved <= reserved'
    BY <1>1 DEF Inductive, Typed
  <1>. QED
    BY <1>1, <1>2, <1>3, <1>4, <1>5, <1>6, Settled

\* A batch given up on stays a batch of signed records.
LEMMA GivenUp ==
    ASSUME Inductive, memory' \in States, signed' = signed,
           late' = IF request = <<>> THEN late ELSE late \cup {request},
           request' = <<>>, answer' = [kind |-> "none"]
    PROVE  InFlight' /\ late' \subseteq Seq(Recs) /\ request' \in Seq(Recs) /\ answer' \in Answers
  <1>1. \A b \in late' : Batch(b, signed) /\ b \in Seq(Recs)
    BY DEF Inductive, InFlight, Typed
  <1>2. Batch(<<>>, signed') /\ Begins(<<>>, memory'.outbox)
    BY DEF Batch, Begins, Ascends, States
  <1>3. answer'.kind = "none" /\ answer' \in Answers
    BY DEF Answers
  <1>. QED
    BY <1>1, <1>2, <1>3 DEF InFlight

LEMMA CrashKeeps ==
    ASSUME Inductive, Crash
    PROVE  Inductive'
  <1>1. /\ memory' = journal /\ phase' = "closed"
        /\ late' = (IF request = <<>> THEN late ELSE late \cup {request})
        /\ request' = <<>> /\ answer' = [kind |-> "none"]
        /\ UNCHANGED <<chain, epoch, journal, copy, upto, alarm, signed, seals, copies>>
    BY DEF Crash, server, history
  <1>2. journal \in States /\ journal.outbox = memory.outbox
    BY DEF Inductive, Typed, Soundness
  <1>3. reserved' \in Nat /\ reserved <= reserved'
    <2>1. reserved' \in {reserved, reserved + Block}
      BY DEF Crash, Reserve
    <2>. QED
      BY <2>1, ChainAssumption DEF Inductive, Typed
  <1>4. InFlight' /\ late' \subseteq Seq(Recs) /\ request' \in Seq(Recs) /\ answer' \in Answers
    BY <1>1, <1>2, GivenUp
  <1>5. Typed'
    BY <1>1, <1>2, <1>3, <1>4 DEF Inductive, Typed, Phases
  <1>6. Soundness'
    BY <1>1, <1>3, SoundReserved DEF Inductive, Soundness
  <1>. QED
    BY <1>1, <1>2, <1>3, <1>4, <1>5, <1>6, Settled

LEMMA GiveUpKeeps ==
    ASSUME Inductive, GiveUp
    PROVE  Inductive'
  <1>1. /\ phase = "sent" /\ phase' = "online"
        /\ late' = (IF request = <<>> THEN late ELSE late \cup {request})
        /\ request' = <<>> /\ answer' = [kind |-> "none"]
        /\ UNCHANGED <<chain, epoch, memory, journal, copy, reserved, upto, alarm, signed, seals, copies>>
    BY DEF GiveUp, server, disk, history
  <1>2. InFlight' /\ late' \subseteq Seq(Recs) /\ request' \in Seq(Recs) /\ answer' \in Answers
    BY <1>1, GivenUp DEF Inductive, Typed
  <1>3. Typed'
    BY <1>1, <1>2 DEF Inductive, Typed, Phases
  <1>4. Soundness'
    BY <1>1 DEF Inductive, Soundness
  <1>5. reserved <= reserved' /\ memory.next <= memory'.next
    BY <1>1 DEF Inductive, Typed, States
  <1>. QED
    BY <1>1, <1>2, <1>3, <1>4, <1>5, Settled

-----------------------------------------------------------------------------
(* The push on its way, and the server.                                    *)

LEMMA SendKeeps ==
    ASSUME Inductive, Send
    PROVE  Inductive'
  <1>1. PICK n \in DOMAIN memory.outbox : request' = SubSeq(Records(memory.outbox), 1, n)
    BY DEF Send
  <1>2. /\ phase \in {"online", "pushing"} /\ phase' = "sent"
        /\ UNCHANGED <<chain, epoch, late, answer, memory, journal, copy, reserved, upto,
                       alarm, signed, seals, copies>>
    BY DEF Send, server, disk, history, bounds
  <1>3. /\ memory.outbox \in Seq(Entries) /\ n \in 1..Len(memory.outbox)
        /\ Len(memory.outbox) \in Nat /\ DOMAIN memory.outbox = 1..Len(memory.outbox)
        /\ \A k \in DOMAIN memory.outbox : memory.outbox[k].rec \in Recs
    <2>1. memory.outbox \in Seq(Entries)
      BY DEF Inductive, Typed, States
    <2>2. \A k \in DOMAIN memory.outbox : memory.outbox[k] \in Entries
      BY <2>1
    <2>. QED
      BY <2>1, <2>2 DEF Entries
  <1>4. /\ Records(memory.outbox) \in Seq(Recs) /\ Len(Records(memory.outbox)) = Len(memory.outbox)
        /\ \A k \in DOMAIN memory.outbox : Records(memory.outbox)[k] = memory.outbox[k].rec
    <2>1. Records(memory.outbox) \in [1..Len(memory.outbox) -> Recs]
      BY <1>3 DEF Records
    <2>. QED
      BY <1>3, <2>1, IsASeq DEF Records
  <1>5. /\ request' \in Seq(Recs) /\ Len(request') = n /\ DOMAIN request' = 1..n
        /\ \A k \in 1..n : request'[k] = memory.outbox[k].rec
    <2>1. \A k \in 1..n : Records(memory.outbox)[k] \in Recs
      BY <1>3, <1>4
    <2>2. 1 \in Int /\ n \in Int /\ 1 <= n /\ n - 1 + 1 = n
      BY <1>3
    <2>3. /\ request' \in Seq(Recs) /\ Len(request') = n
          /\ \A k \in 1..n : request'[k] = Records(memory.outbox)[1 + k - 1]
      BY <1>1, <2>1, <2>2, SubSeqProperties
    <2>. QED
      BY <1>3, <1>4, <2>2, <2>3
  <1>6. Begins(request', memory'.outbox) /\ Batch(request', signed')
    <2>1. Orderly(memory.outbox, signed)
      BY DEF Inductive, Soundness, Sound
    <2>2. 1..n \subseteq DOMAIN memory.outbox
      BY <1>3
    <2>. QED
      BY <1>2, <1>3, <1>5, <2>1, <2>2 DEF Begins, Batch, Orderly, Ascends
  <1>7. InFlight'
    BY <1>2, <1>6 DEF Inductive, InFlight
  <1>8. Typed'
    BY <1>2, <1>5 DEF Inductive, Typed, Phases
  <1>9. Soundness'
    BY <1>2 DEF Inductive, Soundness
  <1>10. reserved <= reserved' /\ memory.next <= memory'.next
    BY <1>2 DEF Inductive, Typed, States
  <1>. QED
    BY <1>2, <1>7, <1>8, <1>9, <1>10, Settled

\* The head that goes with a refusal is at least what the device knows.
LEMMA RefuseKeeps ==
    ASSUME Inductive, Refuse
    PROVE  Inductive'
  <1>1. PICK k \in DOMAIN request, code \in Others \cup {"chain_conflict", "epoch_stale"} :
            answer' = Refusal(code, k)
    <2>1. PICK k \in DOMAIN request :
              \/ answer' = Refusal(Code(request, k), k)
              \/ \E code \in Others : answer' = Refusal(code, k)
      BY DEF Refuse
    <2>2. Code(request, k) \in {"chain_conflict", "epoch_stale"}
      BY DEF Code
    <2>. QED
      BY <2>1, <2>2
  <1>2. /\ request' = <<>>
        /\ UNCHANGED <<chain, epoch, late, memory, journal, copy, reserved, phase, upto,
                       alarm, signed, seals, copies>>
    BY DEF Refuse, server, disk, history
  <1>3. k \in DOMAIN memory.outbox /\ k \in Nat /\ phase = "sent"
    <2>1. memory.outbox \in Seq(Entries) /\ request \in Seq(Recs)
      BY DEF Inductive, Typed, States
    <2>2. Len(request) <= Len(memory.outbox)
      BY DEF Inductive, InFlight, Begins
    <2>3. request # <<>>
      BY <2>1
    <2>. QED
      BY <2>1, <2>2, <2>3 DEF Inductive, InFlight
  <1>4. ChainHead \in Marks /\ memory.acked.counter <= ChainHead.counter
    BY HeadOnTop, StandingBelow DEF Inductive, Typed, States, Soundness, Sound
  <1>5. /\ answer' \in Answers /\ answer'.kind = "refused" /\ answer'.at = k
        /\ answer'.head = ChainHead
    BY <1>1, <1>3, <1>4 DEF Refusal, Answers
  <1>6. Batch(<<>>, signed') /\ Begins(<<>>, memory'.outbox) /\ <<>> \in Seq(Recs)
    BY <1>2 DEF Batch, Begins, Ascends, Inductive, Typed, States
  <1>7. InFlight'
    BY <1>2, <1>3, <1>4, <1>5, <1>6 DEF Inductive, InFlight
  <1>8. Typed'
    BY <1>2, <1>5, <1>6 DEF Inductive, Typed
  <1>9. Soundness'
    BY <1>2 DEF Inductive, Soundness
  <1>10. reserved <= reserved' /\ memory.next <= memory'.next
    BY <1>2 DEF Inductive, Typed, States
  <1>. QED
    BY <1>2, <1>7, <1>8, <1>9, <1>10, Settled

\* Rotations and pruning leave the chain and the device as they are.
LEMMA OthersKeep ==
    ASSUME Inductive, Rotate \/ Prune \/ UNCHANGED vars
    PROVE  Inductive'
  <1>1. UNCHANGED <<chain, request, late, answer, memory, journal, copy, reserved, phase, upto,
                    alarm, signed, seals, copies>>
    BY DEF Rotate, Prune, vars, server, network, disk, history, bounds
  <1>2. epoch' \in Nat
    BY DEF Rotate, Prune, vars, server, Inductive, Typed
  <1>3. Typed'
    BY <1>1, <1>2 DEF Inductive, Typed
  <1>4. InFlight'
    BY <1>1 DEF Inductive, InFlight
  <1>5. Soundness'
    BY <1>1 DEF Inductive, Soundness
  <1>6. reserved <= reserved' /\ memory.next <= memory'.next
    BY <1>1 DEF Inductive, Typed, States
  <1>. QED
    BY <1>1, <1>3, <1>4, <1>5, <1>6, Settled

\* Committing keeps what stands, and what the device holds acknowledged.
LEMMA Committed ==
    ASSUME Inductive, NEW batch \in Seq(Recs), Batch(batch, signed), AllPass(batch), Commits(batch),
           UNCHANGED <<memory, journal, copy, reserved, phase, alarm, signed, seals, copies>>
    PROVE  /\ chain' \in Seq(Recs) /\ Extends(chain, chain') /\ Linked' /\ Soundness'
           /\ Fresh' /\ Replaced' /\ SignsOnce' /\ NoFalseAlarm'
           /\ \A k \in DOMAIN batch : \E j \in DOMAIN chain' : chain'[j] = batch[k]
  <1>1. /\ chain' \in Seq(Recs) /\ Extends(chain, chain') /\ Linked'
        /\ \A k \in DOMAIN batch : \E j \in DOMAIN chain' : chain'[j] = batch[k]
    BY CommitsExtend DEF Inductive
  <1>2. reserved \in Nat /\ memory \in States /\ journal \in States /\ copy \in States
        /\ reserved <= reserved /\ signed \subseteq signed
    BY DEF Inductive, Typed
  <1>3. /\ Sound(memory, signed, reserved, chain')
        /\ Sound(journal, signed, reserved, chain')
        /\ Sound(copy, signed, reserved, chain')
    BY <1>1, <1>2, SoundGrows DEF Inductive, Soundness
  <1>4. Soundness'
    BY <1>3 DEF Inductive, Soundness
  <1>5. Fresh' /\ Replaced' /\ SignsOnce' /\ NoFalseAlarm'
    BY DEF Inductive, Fresh, Replaced, SignsOnce, NoFalseAlarm
  <1>. QED
    BY <1>1, <1>4, <1>5

LEMMA AcceptKeeps ==
    ASSUME Inductive, Accept
    PROVE  Inductive'
  <1>1. /\ request # <<>> /\ AllPass(request) /\ Commits(request)
        /\ answer' = [kind |-> "receipts", batch |-> request] /\ request' = <<>>
        /\ UNCHANGED <<epoch, late, memory, journal, copy, reserved, phase, upto,
                       alarm, signed, seals, copies>>
    BY DEF Accept, disk, history, bounds
  <1>2. request \in Seq(Recs) /\ Batch(request, signed) /\ Begins(request, memory.outbox)
        /\ phase = "sent"
    BY <1>1 DEF Inductive, Typed, InFlight
  <1>3. /\ chain' \in Seq(Recs) /\ Linked' /\ Soundness'
        /\ Fresh' /\ Replaced' /\ SignsOnce' /\ NoFalseAlarm'
        /\ \A k \in DOMAIN request : \E j \in DOMAIN chain' : chain'[j] = request[k]
    BY <1>1, <1>2, Committed
  <1>4. answer' \in Answers /\ answer'.kind = "receipts" /\ answer'.batch = request
    BY <1>1, <1>2 DEF Answers
  <1>5. Batch(<<>>, signed') /\ Begins(<<>>, memory'.outbox) /\ <<>> \in Seq(Recs)
    BY <1>1 DEF Batch, Begins, Ascends, Inductive, Typed, States
  <1>6. Typed'
    BY <1>1, <1>3, <1>4, <1>5 DEF Inductive, Typed
  <1>7. InFlight'
    BY <1>1, <1>2, <1>3, <1>4, <1>5 DEF Inductive, InFlight
  <1>. QED
    BY <1>3, <1>6, <1>7 DEF Inductive

LEMMA ArriveLateKeeps ==
    ASSUME Inductive, ArriveLate
    PROVE  Inductive'
  <1>1. PICK batch \in late :
            /\ late' = late \ {batch}
            /\ IF AllPass(batch) THEN Commits(batch) ELSE UNCHANGED chain
    BY DEF ArriveLate
  <1>2. UNCHANGED <<epoch, request, answer, memory, journal, copy, reserved, phase, upto,
                    alarm, signed, seals, copies>>
    BY DEF ArriveLate, disk, history, bounds
  <1>3. batch \in Seq(Recs) /\ Batch(batch, signed)
    BY DEF Inductive, Typed, InFlight
  <1>4. CASE AllPass(batch)
    <2>1. /\ chain' \in Seq(Recs) /\ Extends(chain, chain') /\ Linked' /\ Soundness'
          /\ Fresh' /\ Replaced' /\ SignsOnce' /\ NoFalseAlarm'
      BY <1>1, <1>2, <1>3, <1>4, Committed
    <2>2. Typed'
      BY <1>1, <1>2, <2>1 DEF Inductive, Typed
    <2>3. InFlight'
      BY <1>1, <1>2, <2>1 DEF Inductive, InFlight, Extends
    <2>. QED
      BY <2>1, <2>2, <2>3 DEF Inductive
  <1>5. CASE ~AllPass(batch)
    <2>1. UNCHANGED chain
      BY <1>1, <1>5
    <2>2. Typed'
      BY <1>1, <1>2, <2>1 DEF Inductive, Typed
    <2>3. InFlight'
      BY <1>1, <1>2, <2>1 DEF Inductive, InFlight
    <2>4. Soundness'
      BY <1>2, <2>1 DEF Inductive, Soundness
    <2>5. reserved <= reserved' /\ memory.next <= memory'.next
      BY <1>2 DEF Inductive, Typed, States
    <2>. QED
      BY <1>2, <2>1, <2>2, <2>3, <2>4, <2>5, Settled
  <1>. QED
    BY <1>4, <1>5

-----------------------------------------------------------------------------
(* Signing.                                                                *)

\* A step that signs `new`, with fresh digests, into the outbox.
LEMMA Signing ==
    ASSUME Inductive, Typed', InFlight', NEW new, signed' = signed \cup new,
           UNCHANGED <<chain, copy, copies>>, alarm' = alarm, phase # "closed",
           reserved <= reserved', seals <= seals', memory.next <= memory'.next,
           journal' = memory', Sound(memory', signed', reserved', chain),
           \A r \in new : /\ r.digest \in (seals + 1)..seals' /\ r.attempt <= seals'
                          /\ r.counter \in 1..reserved' /\ r.counter < memory'.next,
           \A r, s \in new : r.digest = s.digest \/ (r.counter = s.counter /\ r.attempt = s.attempt)
                             => r = s,
           \A r \in new, s \in signed :
              r.counter = s.counter /\ r.attempt = s.attempt => r.attempt # 0 /\ copies # 0,
           copies = 0 => \A k \in DOMAIN memory'.outbox :
              /\ \/ \E j \in DOMAIN memory.outbox :
                       memory'.outbox[k].rec.digest = memory.outbox[j].rec.digest
                 \/ memory'.outbox[k].rec.digest > seals
              /\ \A r \in new : r.attempt # 0 => memory'.outbox[k].rec.digest # r.attempt
    PROVE  Inductive'
  <1>1. /\ memory.next \in Nat /\ memory'.next \in Nat /\ reserved \in Nat /\ reserved' \in Nat
        /\ seals \in Nat /\ seals' \in Nat /\ copy \in States
    BY DEF Inductive, Typed, States
  <1>2. \A r \in signed : r.digest \in Nat /\ r.attempt \in Nat /\ r.counter \in Nat
    BY DEF Inductive, Typed, Recs
  <1>3. Linked'
    BY DEF Inductive, Linked
  <1>4. Soundness'
    <2>1. Extends(chain, chain) /\ signed \subseteq signed'
      BY DEF Extends
    <2>2. Sound(copy, signed', reserved', chain)
      BY <1>1, <2>1, SoundGrows DEF Inductive, Soundness
    <2>. QED
      BY <2>2 DEF Soundness
  <1>5. Fresh'
    <2>1. ASSUME NEW r \in signed
          PROVE  /\ r.digest \in 1..seals /\ r.digest \in 1..seals' /\ r.attempt <= seals'
                 /\ r.counter \in 1..reserved' /\ r.counter < memory'.next
      BY <1>1, <1>2 DEF Inductive, Fresh
    <2>2. ASSUME NEW r \in new
          PROVE  r.digest \in 1..seals' /\ r.digest > seals
      BY <1>1
    <2>3. \A r, s \in signed' : r.digest = s.digest => r = s
      <3>1. \A r \in new, s \in signed : r.digest # s.digest
        BY <1>1, <2>1, <2>2
      <3>. QED
        BY <3>1 DEF Inductive, Fresh
    <2>. QED
      BY <2>1, <2>2, <2>3 DEF Fresh
  <1>6. Replaced'
    <2>. SUFFICES ASSUME copies = 0, NEW r \in signed', r.attempt # 0,
                         NEW k \in DOMAIN memory'.outbox
                  PROVE  memory'.outbox[k].rec.digest # r.attempt
      BY DEF Replaced
    <2>1. CASE r \in new
      BY <2>1
    <2>2. CASE r \in signed
      <3>1. r.attempt <= seals /\ \A j \in DOMAIN memory.outbox : memory.outbox[j].rec.digest # r.attempt
        BY <2>2 DEF Inductive, Fresh, Replaced
      <3>. QED
        BY <1>1, <1>2, <2>2, <3>1
    <2>. QED
      BY <2>1, <2>2
  <1>7. SignsOnce' /\ NoFalseAlarm'
    <2>. SUFFICES ASSUME NEW r \in signed', NEW s \in signed',
                         r.counter = s.counter, r.attempt = s.attempt,
                         r.attempt = 0 \/ copies = 0
                  PROVE  r = s
      BY DEF SignsOnce, Inductive, NoFalseAlarm
    <2>1. CASE r \in signed /\ s \in signed
      BY <2>1 DEF Inductive, SignsOnce
    <2>2. CASE r \in new /\ s \in new
      BY <2>2
    <2>. QED
      BY <2>1, <2>2
  <1>. QED
    BY <1>3, <1>4, <1>5, <1>6, <1>7 DEF Inductive

LEMMA SignKeeps ==
    ASSUME Inductive, NEW e \in Edits, Sign(e)
    PROVE  Inductive'
  <1>. DEFINE rec == [digest |-> seals + 1, counter |-> memory.next,
                      previous |-> memory.head.digest, attempt |-> 0,
                      epoch |-> memory.accepted, edit |-> e]
              entry == [rec |-> rec, reseals |-> 0]
              m == [memory EXCEPT !.outbox = Append(@, entry), !.next = @ + 1,
                                  !.head = Mark(rec), !.changed = @ \ {e}]
  <1>1. /\ memory' = m /\ journal' = m /\ reserved' = Reserve(memory.next)
        /\ signed' = signed \cup {rec} /\ seals' = seals + 1
        /\ phase \in {"offline", "online"}
        /\ UNCHANGED <<chain, epoch, network, request, late, answer, copy, phase, upto,
                       alarm, copies>>
    BY DEF Sign, Save, server, network, bounds
  <1>2. /\ memory \in States /\ memory.next \in Nat /\ reserved \in Nat /\ seals \in Nat
        /\ memory.outbox \in Seq(Entries) /\ memory.next <= reserved + 1
        /\ Standing(memory.acked, chain) /\ memory.head.digest \in Nat
    BY DEF Inductive, Typed, States, Soundness, Sound, Marks
  <1>3. entry \in Entries /\ rec \in Recs /\ Mark(rec) \in Marks
    BY <1>2 DEF Entries, Recs, States, Mark, Marks
  <1>4. /\ m \in States /\ m.outbox = Append(memory.outbox, entry) /\ m.next = memory.next + 1
        /\ m.changed = memory.changed \ {e} /\ m.acked = memory.acked
    <2>. DEFINE o == Append(memory.outbox, entry)
                n == memory.next + 1
                h == Mark(rec)
                c == memory.changed \ {e}
    <2>1. o \in Seq(Entries) /\ n \in Nat \ {0} /\ h \in Marks /\ c \in SUBSET Edits
      BY <1>2, <1>3, AppendProperties DEF States
    <2>. HIDE DEF o, n, h, c
    <2>2. m = [memory EXCEPT !.outbox = o, !.next = n, !.head = h, !.changed = c]
      BY DEF o, n, h, c
    <2>3. m \in States /\ m.outbox = o /\ m.next = n /\ m.changed = c /\ m.acked = memory.acked
      BY <1>2, <2>1, <2>2 DEF States
    <2>. QED
      BY <2>3 DEF o, n, c
  <1>5. /\ m.outbox \in Seq(Entries) /\ DOMAIN m.outbox = 1..(Len(memory.outbox) + 1)
        /\ DOMAIN memory.outbox = 1..Len(memory.outbox) /\ Len(memory.outbox) \in Nat
        /\ \A k \in DOMAIN memory.outbox : m.outbox[k] = memory.outbox[k] /\ k \in DOMAIN m.outbox
        /\ m.outbox[Len(memory.outbox) + 1] = entry
    BY <1>2, <1>3, <1>4, AppendProperties
  <1>6. reserved' \in Nat /\ reserved <= reserved' /\ memory.next <= reserved' /\ memory.next >= 1
    <2>1. reserved' = IF memory.next > reserved THEN reserved + Block ELSE reserved
      BY <1>1 DEF Reserve
    <2>2. memory.next >= 1
      BY <1>2 DEF States
    <2>. QED
      BY <1>2, <2>1, <2>2, ChainAssumption
  <1>7. rec.digest = seals + 1 /\ rec.counter = memory.next /\ rec.attempt = 0 /\ rec.edit = e
        /\ entry.rec = rec
    OBVIOUS
  <1>. HIDE DEF m, rec, entry
  <1>8. Orderly(m.outbox, signed \cup {rec})
    <2>1. Orderly(memory.outbox, signed)
      BY DEF Inductive, Soundness, Sound
    <2>2. \A k \in DOMAIN memory.outbox : memory.outbox[k].rec.counter < memory.next
      BY <1>1, <2>1 DEF Orderly, Inductive, Fresh
    <2>3. \A k \in DOMAIN m.outbox : k \in DOMAIN memory.outbox \/ k = Len(memory.outbox) + 1
      BY <1>5
    <2>4. \A k \in DOMAIN m.outbox : m.outbox[k].rec \in signed \cup {rec}
      BY <1>5, <1>7, <2>1, <2>3 DEF Orderly
    <2>5. ASSUME NEW j \in DOMAIN m.outbox, NEW k \in DOMAIN m.outbox, j < k
          PROVE  m.outbox[j].rec.counter < m.outbox[k].rec.counter
      <3>1. j \in DOMAIN memory.outbox
        BY <1>5, <2>5
      <3>2. CASE k \in DOMAIN memory.outbox
        BY <1>5, <2>1, <2>5, <3>1, <3>2 DEF Orderly
      <3>3. CASE k = Len(memory.outbox) + 1
        BY <1>5, <1>7, <2>2, <3>1, <3>3
      <3>. QED
        BY <2>3, <3>2, <3>3
    <2>. QED
      BY <2>4, <2>5 DEF Orderly
  <1>9. Keeps(m, chain)
    <2>1. Keeps(memory, chain)
      BY DEF Inductive, Soundness, Sound
    <2>2. Len(memory.outbox) + 1 \in DOMAIN m.outbox
      BY <1>5
    <2>. QED
      BY <1>4, <1>5, <1>7, <2>1, <2>2 DEF Keeps
  <1>10. Sound(m, signed', reserved', chain)
    BY <1>1, <1>2, <1>4, <1>6, <1>8, <1>9 DEF Sound
  <1>11. Typed'
    BY <1>1, <1>2, <1>3, <1>4, <1>6 DEF Inductive, Typed
  <1>12. InFlight'
    BY <1>1, <1>4, Idle DEF Inductive
  <1>13. \A s \in signed : s.counter < memory.next /\ s.counter \in Nat
    BY <1>1 DEF Inductive, Typed, Fresh, Recs
  <1>14. /\ rec.digest \in (seals + 1)..seals' /\ rec.attempt <= seals'
         /\ rec.counter \in 1..reserved' /\ rec.counter < memory'.next
    BY <1>1, <1>2, <1>4, <1>6, <1>7
  <1>15. ASSUME NEW k \in DOMAIN memory'.outbox
         PROVE  \/ \E j \in DOMAIN memory.outbox :
                      memory'.outbox[k].rec.digest = memory.outbox[j].rec.digest
                \/ memory'.outbox[k].rec.digest > seals
    BY <1>1, <1>2, <1>5, <1>7
  <1>16. seals <= seals' /\ memory.next <= memory'.next /\ phase # "closed"
    BY <1>1, <1>2, <1>4
  <1>17. \A s \in signed : rec.counter # s.counter
    BY <1>2, <1>7, <1>13
  <1>. DEFINE new == {rec}
  <1>18. /\ \A r \in new : /\ r.digest \in (seals + 1)..seals' /\ r.attempt <= seals'
                           /\ r.counter \in 1..reserved' /\ r.counter < memory'.next
         /\ \A r, s \in new : r = s
         /\ \A r \in new, s \in signed : r.counter # s.counter
         /\ \A r \in new : r.attempt = 0
         /\ signed' = signed \cup new
         /\ Sound(memory', signed', reserved', chain)
    BY <1>1, <1>7, <1>10, <1>14, <1>17
  <1>. HIDE DEF new
  <1>. QED
    BY <1>1, <1>6, <1>11, <1>12, <1>15, <1>16, <1>18, Signing

\* Sealing again from i on: fresh digests at the same positions, each naming
\* the attempt it replaces.
LEMMA ResealedEntries ==
    ASSUME NEW m \in States, NEW i \in Nat \ {0}, NEW place \in Marks, seals \in Nat
    PROVE  /\ Resealed(m, i, place) \in Seq(Entries)
           /\ Len(m.outbox) \in Nat /\ Len(Resealed(m, i, place)) = Len(m.outbox)
           /\ DOMAIN m.outbox = 1..Len(m.outbox)
           /\ DOMAIN Resealed(m, i, place) = 1..Len(m.outbox)
           /\ \A k \in 1..Len(m.outbox) : k < i => Resealed(m, i, place)[k] = m.outbox[k]
           /\ \A k \in 1..Len(m.outbox) : k >= i =>
                 LET r == Resealed(m, i, place)[k].rec IN
                 /\ r.digest = seals + (k - i) + 1
                 /\ r.counter = IF k = i THEN place.counter ELSE m.outbox[k].rec.counter
                 /\ r.attempt = IF k = i THEN place.digest ELSE m.outbox[k].rec.digest
                 /\ r.edit = m.outbox[k].rec.edit
  <1>. DEFINE o == Resealed(m, i, place)
              L == Len(m.outbox)
  <1>1. m.outbox \in Seq(Entries) /\ L \in Nat /\ DOMAIN m.outbox = 1..L
    BY DEF States
  <1>2. \A k \in 1..L : /\ m.outbox[k] \in Entries
                        /\ m.outbox[k].rec.counter \in Nat /\ m.outbox[k].rec.digest \in Nat
                        /\ m.outbox[k].rec.edit \in Edits /\ m.outbox[k].reseals \in Nat
    <2>1. \A k \in 1..L : m.outbox[k] \in Entries
      BY <1>1
    <2>. QED
      BY <2>1 DEF Entries, Recs
  <1>3. /\ DOMAIN o = 1..L
        /\ \A k \in 1..L : k < i => o[k] = m.outbox[k]
        /\ \A k \in 1..L : k >= i =>
              /\ o[k].rec.digest = seals + (k - i) + 1
              /\ o[k].rec.counter = IF k = i THEN place.counter ELSE m.outbox[k].rec.counter
              /\ o[k].rec.attempt = IF k = i THEN place.digest ELSE m.outbox[k].rec.digest
              /\ o[k].rec.edit = m.outbox[k].rec.edit
    <2>1. DOMAIN o = 1..L
      BY <1>1 DEF Resealed
    <2>2. ASSUME NEW k \in 1..L, k < i PROVE o[k] = m.outbox[k]
      BY <1>1, <2>2 DEF Resealed
    <2>3. ASSUME NEW k \in 1..L, k >= i
          PROVE  /\ o[k].rec.digest = seals + (k - i) + 1
                 /\ o[k].rec.counter = IF k = i THEN place.counter ELSE m.outbox[k].rec.counter
                 /\ o[k].rec.attempt = IF k = i THEN place.digest ELSE m.outbox[k].rec.digest
                 /\ o[k].rec.edit = m.outbox[k].rec.edit
      <3>1. ~(k < i)
        BY <1>1, <2>3
      <3>. QED
        BY <1>1, <3>1 DEF Resealed
    <2>. HIDE DEF o
    <2>. QED
      BY <2>1, <2>2, <2>3
  <1>4. o \in Seq(Entries) /\ Len(o) = L
    <2>1. ASSUME NEW k \in 1..L PROVE o[k] \in Entries
      <3>1. CASE k < i
        BY <1>2, <1>3, <3>1
      <3>2. CASE k >= i
        <4>. DEFINE p == IF k > i THEN seals + (k - i)
                         ELSE IF i = 1 THEN m.acked.digest ELSE m.outbox[i - 1].rec.digest
                    d == seals + (k - i) + 1
                    c == IF k = i THEN place.counter ELSE m.outbox[k].rec.counter
                    a == IF k = i THEN place.digest ELSE m.outbox[k].rec.digest
        <4>1. o[k] = [rec |-> [digest |-> d, counter |-> c, previous |-> p, attempt |-> a,
                               epoch |-> m.accepted, edit |-> m.outbox[k].rec.edit],
                      reseals |-> m.outbox[k].reseals]
          BY <1>1, <3>2 DEF Resealed
        <4>2. p \in Nat
          <5>1. k = i /\ i # 1 => i - 1 \in 1..L
            BY <1>1
          <5>2. k > i => seals + (k - i) \in Nat
            BY <1>1, <3>2
          <5>3. m.acked.digest \in Nat
            BY DEF States, Marks
          <5>. QED
            BY <1>2, <3>2, <5>1, <5>2, <5>3
        <4>3. d \in Nat /\ c \in Nat /\ a \in Nat
          BY <1>1, <1>2, <3>2 DEF Marks
        <4>4. m.accepted \in Nat
          BY DEF States
        <4>. HIDE DEF o, p, d, c, a
        <4>. QED
          BY <1>2, <4>1, <4>2, <4>3, <4>4 DEF Entries, Recs
      <3>. QED
        BY <1>1, <3>1, <3>2
    <2>2. o \in [1..L -> Entries]
      <3>1. o = [k \in 1..L |-> o[k]]
        BY <1>1 DEF Resealed
      <3>. QED
        BY <2>1, <3>1
    <2>. QED
      BY <1>1, <2>2, IsASeq
  <1>. QED
    BY <1>1, <1>3, <1>4

LEMMA ResealTyped ==
    ASSUME seals \in Nat, signed \subseteq Recs,
           NEW m \in States, NEW i \in Nat \ {0}, NEW place \in Marks, Reseal(m, i, place)
    PROVE  /\ memory' \in States /\ journal' = memory' /\ signed' \subseteq Recs
           /\ seals' \in Nat /\ seals <= seals' /\ signed \subseteq signed'
           /\ memory'.outbox = Resealed(m, i, place) /\ memory'.next = m.next
           /\ memory'.acked = m.acked /\ memory'.changed = m.changed
  <1>. DEFINE o == Resealed(m, i, place)
              L == Len(m.outbox)
              count == IF i > Len(o) THEN 0 ELSE Len(o) - i + 1
              new == {o[k].rec : k \in {j \in DOMAIN o : j >= i}}
              h == IF o = <<>> THEN m.head ELSE HeadOf(o, m.acked)
  <1>1. /\ seals' = seals + count
        /\ signed' = signed \cup new
        /\ memory' = [m EXCEPT !.outbox = o, !.head = h] /\ journal' = memory'
    BY DEF Reseal, Save
  <1>2. o \in Seq(Entries) /\ L \in Nat /\ Len(o) = L /\ DOMAIN o = 1..L
    BY ResealedEntries
  <1>. HIDE DEF o
  <1>3. \A k \in 1..L : o[k] \in Entries
    BY <1>2
  <1>4. h \in Marks
    <2>1. CASE o = <<>>
      BY <2>1 DEF States
    <2>2. CASE o # <<>>
      <3>1. Len(o) \in 1..L
        BY <1>2, <2>2
      <3>2. o[Len(o)] \in Entries
        BY <1>2, <1>3, <3>1
      <3>3. o[Len(o)].rec \in Recs
        BY <3>2 DEF Entries
      <3>. QED
        BY <2>2, <3>3 DEF HeadOf, Mark, Marks, Recs
    <2>. QED
      BY <2>1, <2>2
  <1>5. new \subseteq Recs /\ count \in Nat
    BY <1>2, <1>3 DEF Entries
  <1>6. [m EXCEPT !.outbox = o, !.head = h] \in States
    BY <1>2, <1>4 DEF States
  <1>. HIDE DEF count, new, h
  <1>7. /\ memory'.outbox = o /\ memory'.next = m.next /\ memory'.acked = m.acked
        /\ memory'.changed = m.changed
    BY <1>1 DEF States
  <1>. QED
    BY <1>1, <1>5, <1>6, <1>7 DEF o

LEMMA ResealKeeps ==
    ASSUME Inductive, Typed', InFlight', NEW m \in States, NEW i \in Nat \ {0}, NEW place \in Marks,
           Reseal(m, i, place), Sound(m, signed, reserved, chain), memory.next <= m.next,
           \A k \in DOMAIN m.outbox : \E j \in DOMAIN memory.outbox :
              m.outbox[k].rec = memory.outbox[j].rec,
           i \in DOMAIN m.outbox =>
              /\ \E j \in DOMAIN memory.outbox : Mark(memory.outbox[j].rec) = place
              /\ \A k \in DOMAIN m.outbox : /\ k < i => m.outbox[k].rec.counter < place.counter
                                            /\ k > i => place.counter < m.outbox[k].rec.counter,
           phase # "closed", UNCHANGED <<chain, copy, copies, reserved>>, alarm' = alarm
    PROVE  Inductive'
  <1>. DEFINE o == Resealed(m, i, place)
              L == Len(m.outbox)
              count == IF i > Len(o) THEN 0 ELSE Len(o) - i + 1
              new == {o[k].rec : k \in {j \in DOMAIN o : j >= i}}
              h == IF o = <<>> THEN m.head ELSE HeadOf(o, m.acked)
  <1>1. /\ seals' = seals + count
        /\ signed' = signed \cup new
        /\ memory' = [m EXCEPT !.outbox = o, !.head = h] /\ journal' = memory'
    BY DEF Reseal, Save
  <1>2. /\ seals \in Nat /\ reserved \in Nat /\ m.next \in Nat /\ memory.next \in Nat
        /\ L \in Nat /\ DOMAIN m.outbox = 1..L
    BY ResealedEntries DEF States, Inductive, Typed
  <1>3. /\ o \in Seq(Entries) /\ L \in Nat /\ Len(o) = L
        /\ DOMAIN m.outbox = 1..L /\ DOMAIN o = 1..L
        /\ \A k \in 1..L : k < i => o[k] = m.outbox[k]
        /\ \A k \in 1..L : k >= i =>
              /\ o[k].rec.digest = seals + (k - i) + 1
              /\ o[k].rec.counter = IF k = i THEN place.counter ELSE m.outbox[k].rec.counter
              /\ o[k].rec.attempt = IF k = i THEN place.digest ELSE m.outbox[k].rec.digest
              /\ o[k].rec.edit = m.outbox[k].rec.edit
    BY ResealedEntries DEF Inductive, Typed
  <1>4. /\ memory'.outbox = o /\ memory'.next = m.next /\ memory'.acked = m.acked
         /\ memory'.changed = m.changed
    BY ResealTyped DEF Inductive, Typed
  <1>. HIDE DEF o
  <1>5. \A k \in 1..L : m.outbox[k].rec \in signed
    BY <1>3 DEF Sound, Orderly
  <1>6. /\ count \in Nat /\ \A k \in 1..L : k >= i => (k - i) + 1 \in 1..count
    BY <1>2, <1>3
  <1>7. \A r \in new : \E k \in 1..L : k >= i /\ r = o[k].rec
    BY <1>3
  <1>8. \A k \in 1..L : k >= i => o[k].rec \in new
    BY <1>3
  <1>. HIDE DEF L, count, new, h
  <1>9. /\ Orderly(m.outbox, signed) /\ m.next <= reserved + 1 /\ Standing(m.acked, chain)
         /\ Keeps(m, chain)
    BY DEF Sound
  \* Each attempt that is replaced was in the outbox, and each counter signed.
  <1>10. ASSUME NEW k \in 1..L, k >= i
         PROVE  \E j \in DOMAIN memory.outbox :
                   /\ o[k].rec.counter = memory.outbox[j].rec.counter
                   /\ o[k].rec.attempt = memory.outbox[j].rec.digest
    <2>1. CASE k = i
      <3>1. i \in DOMAIN m.outbox
        BY <1>2, <2>1
      <3>2. PICK j \in DOMAIN memory.outbox : Mark(memory.outbox[j].rec) = place
        BY <3>1
      <3>3. o[k].rec.counter = place.counter /\ o[k].rec.attempt = place.digest
        BY <1>3, <1>10, <2>1
      <3>. QED
        BY <3>2, <3>3 DEF Mark
    <2>2. CASE k # i
      <3>1. o[k].rec.counter = m.outbox[k].rec.counter /\ o[k].rec.attempt = m.outbox[k].rec.digest
        BY <1>3, <1>10, <2>2
      <3>. QED
        BY <1>2, <3>1
    <2>. QED
      BY <2>1, <2>2
  <1>11. \A j \in DOMAIN memory.outbox :
            /\ memory.outbox[j].rec \in signed
            /\ memory.outbox[j].rec.counter \in 1..reserved
            /\ memory.outbox[j].rec.counter < memory.next
            /\ memory.outbox[j].rec.digest \in 1..seals
    BY DEF Inductive, Soundness, Sound, Orderly, Fresh
  <1>12. ASSUME NEW j \in 1..L, NEW k \in 1..L, j < k
         PROVE  o[j].rec.counter < o[k].rec.counter
    <2>1. m.outbox[j].rec.counter < m.outbox[k].rec.counter
      BY <1>2, <1>9, <1>12 DEF Orderly
    <2>2. CASE k < i
      <3>1. j < i
        BY <1>12, <2>2
      <3>. QED
        BY <1>3, <2>1, <2>2, <3>1
    <2>3. CASE k = i
      <3>1. j < i /\ m.outbox[j].rec.counter < place.counter
        BY <1>2, <1>12, <2>3
      <3>. QED
        BY <1>3, <2>3, <3>1
    <2>4. CASE k > i /\ j < i
      BY <1>3, <2>1, <2>4
    <2>5. CASE k > i /\ j = i
      <3>1. place.counter < m.outbox[k].rec.counter
        BY <1>2, <2>5
      <3>. QED
        BY <1>3, <2>5, <3>1
    <2>6. CASE k > i /\ j > i
      BY <1>3, <2>1, <2>6
    <2>. QED
      BY <2>2, <2>3, <2>4, <2>5, <2>6
  <1>13. ASSUME NEW r \in new
         PROVE  /\ r.digest \in (seals + 1)..seals' /\ r.attempt \in 1..seals /\ r.attempt <= seals'
                /\ r.counter \in 1..reserved' /\ r.counter < memory'.next
                /\ \E j \in DOMAIN memory.outbox : r.attempt = memory.outbox[j].rec.digest
    <2>1. PICK k \in 1..L : k >= i /\ r = o[k].rec
      BY <1>7
    <2>2. r.digest = seals + (k - i) + 1 /\ (k - i) + 1 \in 1..count
      BY <1>3, <1>6, <2>1
    <2>3. PICK j \in DOMAIN memory.outbox :
              r.counter = memory.outbox[j].rec.counter /\ r.attempt = memory.outbox[j].rec.digest
      BY <1>10, <2>1
    <2>4. r.digest \in (seals + 1)..seals'
      <3>1. seals' = seals + count
        BY <1>1
      <3>. QED
        BY <1>2, <1>6, <2>2, <3>1
    <2>5. r.attempt \in 1..seals /\ r.attempt <= seals'
      BY <1>1, <1>2, <1>6, <1>11, <2>3
    <2>6. r.counter \in 1..reserved' /\ r.counter < memory'.next
      BY <1>2, <1>4, <1>11, <2>3
    <2>. QED
      BY <2>3, <2>4, <2>5, <2>6
  <1>14. ASSUME NEW r \in new, NEW s \in new, r.digest = s.digest \/ r.counter = s.counter
         PROVE  r = s
    <2>1. PICK j \in 1..L : j >= i /\ r = o[j].rec
      BY <1>7
    <2>2. PICK k \in 1..L : k >= i /\ s = o[k].rec
      BY <1>7
    <2>3. CASE r.digest = s.digest
      <3>1. r.digest = seals + (j - i) + 1 /\ s.digest = seals + (k - i) + 1
        BY <1>3, <2>1, <2>2
      <3>2. seals + (j - i) + 1 = seals + (k - i) + 1
        BY <2>3, <3>1
      <3>3. j \in Int /\ k \in Int /\ i \in Int /\ seals \in Int
        BY <1>2
      <3>4. j = k
        BY <3>2, <3>3
      <3>. QED
        BY <2>1, <2>2, <3>4
    <2>4. CASE r.counter = s.counter
      <3>1. r.counter \in Nat /\ s.counter \in Nat
        BY <1>2, <1>13
      <3>2. ~(j < k) /\ ~(k < j)
        BY <1>12, <2>1, <2>2, <2>4, <3>1
      <3>3. j = k
        BY <1>2, <3>2
      <3>. QED
        BY <2>1, <2>2, <3>3
    <2>. QED
      BY <1>14, <2>3, <2>4
  <1>15. ASSUME NEW r \in new, NEW s \in signed, r.attempt = s.attempt
         PROVE  r.attempt # 0 /\ copies # 0
    <2>1. r.attempt # 0 /\ \E j \in DOMAIN memory.outbox : s.attempt = memory.outbox[j].rec.digest
      BY <1>2, <1>13, <1>15
    <2>. QED
      BY <1>15, <2>1 DEF Inductive, Replaced
  <1>16. ASSUME NEW k \in 1..L
         PROVE  /\ \/ \E j \in DOMAIN memory.outbox : o[k].rec.digest = memory.outbox[j].rec.digest
                   \/ o[k].rec.digest > seals
                /\ \A r \in new : o[k].rec.digest # r.attempt
    <2>1. CASE k >= i
      <3>1. o[k].rec.digest > seals
        BY <1>2, <1>3, <1>6, <2>1
      <3>. QED
        BY <1>2, <1>13, <3>1
    <2>2. CASE k < i
      <3>1. o[k] = m.outbox[k] /\ m.outbox[k].rec \in signed
        BY <1>5, <1>3, <2>2
      <3>2. \E j \in DOMAIN memory.outbox : o[k].rec.digest = memory.outbox[j].rec.digest
        BY <1>2, <3>1
      <3>3. ASSUME NEW r \in new, o[k].rec.digest = r.attempt PROVE FALSE
        <4>1. PICK x \in 1..L : x >= i /\ r = o[x].rec
          BY <1>7
        <4>2. PICK j \in DOMAIN memory.outbox :
                  r.counter = memory.outbox[j].rec.counter /\ r.attempt = memory.outbox[j].rec.digest
          BY <1>10, <4>1
        <4>3. o[k].rec = memory.outbox[j].rec
          BY <1>11, <3>1, <3>3, <4>2 DEF Inductive, Fresh
        <4>4. o[k].rec.counter < r.counter
          BY <1>2, <1>12, <2>2, <4>1
        <4>. QED
          BY <1>2, <1>11, <4>2, <4>3, <4>4
      <3>. QED
        BY <3>2, <3>3
    <2>. QED
      BY <1>2, <2>1, <2>2
  <1>17. Sound(memory', signed', reserved', chain)
    <2>1. \A k \in 1..L : o[k].rec \in signed'
      <3>1. ASSUME NEW k \in 1..L PROVE o[k].rec \in signed \cup new
        BY <1>2, <1>5, <1>3, <1>8
      <3>. QED
        BY <1>1, <3>1
    <2>2. Orderly(o, signed')
      BY <1>3, <1>12, <2>1 DEF Orderly
    <2>3. Keeps(memory', chain)
      <3>1. \A k \in 1..L : o[k].rec.edit = m.outbox[k].rec.edit
        BY <1>2, <1>3
      <3>2. ASSUME NEW e \in Edits, \E k \in DOMAIN m.outbox : m.outbox[k].rec.edit = e
            PROVE  \E k \in DOMAIN memory'.outbox : memory'.outbox[k].rec.edit = e
        BY <1>2, <1>3, <1>4, <3>1, <3>2
      <3>. QED
        BY <1>4, <1>9, <3>2 DEF Keeps
    <2>. QED
      BY <1>4, <1>9, <2>2, <2>3 DEF Sound
  <1>18. reserved <= reserved' /\ seals <= seals' /\ memory.next <= memory'.next
    BY <1>1, <1>2, <1>6, <1>4
  <1>19. \A r \in new : /\ r.digest \in (seals + 1)..seals' /\ r.attempt <= seals'
                         /\ r.counter \in 1..reserved' /\ r.counter < memory'.next
    BY <1>13
  <1>20. \A r, s \in new : r.digest = s.digest \/ (r.counter = s.counter /\ r.attempt = s.attempt)
                           => r = s
    BY <1>14
  <1>21. \A r \in new, s \in signed :
            r.counter = s.counter /\ r.attempt = s.attempt => r.attempt # 0 /\ copies # 0
    BY <1>15
  <1>22. \A k \in DOMAIN memory'.outbox :
            /\ \/ \E j \in DOMAIN memory.outbox :
                     memory'.outbox[k].rec.digest = memory.outbox[j].rec.digest
               \/ memory'.outbox[k].rec.digest > seals
            /\ \A r \in new : r.attempt # 0 => memory'.outbox[k].rec.digest # r.attempt
    BY <1>3, <1>4, <1>16
  <1>23. signed' = signed \cup new /\ journal' = memory'
    BY <1>1
  <1>. QED
    BY <1>17, <1>18, <1>19, <1>20, <1>21, <1>22, <1>23, Signing

LEMMA Resealing ==
    ASSUME Inductive, NEW m \in States, NEW i \in Nat \ {0}, NEW place \in Marks,
           Reseal(m, i, place), Sound(m, signed, reserved, chain), memory.next <= m.next,
           \A k \in DOMAIN m.outbox : \E j \in DOMAIN memory.outbox :
              m.outbox[k].rec = memory.outbox[j].rec,
           i \in DOMAIN m.outbox =>
              /\ \E j \in DOMAIN memory.outbox : Mark(memory.outbox[j].rec) = place
              /\ \A k \in DOMAIN m.outbox : /\ k < i => m.outbox[k].rec.counter < place.counter
                                            /\ k > i => place.counter < m.outbox[k].rec.counter,
           phase # "closed", phase' \in Phases,
           UNCHANGED <<chain, epoch, late, copy, copies, reserved, upto, alarm>>,
           request' = <<>>, answer' \in Answers, answer'.kind = "none"
    PROVE  Inductive'
  <1>1. /\ memory' \in States /\ journal' = memory' /\ signed' \subseteq Recs
        /\ seals' \in Nat /\ signed \subseteq signed'
    BY ResealTyped DEF Inductive, Typed
  <1>2. Typed'
    BY <1>1 DEF Inductive, Typed
  <1>3. InFlight'
    BY <1>1, Cleared DEF Inductive
  <1>. QED
    BY <1>2, <1>3, ResealKeeps

\* Sealed again at its own position.
LEMMA ResealingFrom ==
    ASSUME Inductive, NEW m \in States, NEW i \in Nat \ {0},
           ResealFrom(m, i), Sound(m, signed, reserved, chain), memory.next <= m.next,
           \A k \in DOMAIN m.outbox : \E j \in DOMAIN memory.outbox :
              m.outbox[k].rec = memory.outbox[j].rec,
           phase # "closed", phase' \in Phases,
           UNCHANGED <<chain, epoch, late, copy, copies, reserved, upto, alarm>>,
           request' = <<>>, answer' \in Answers, answer'.kind = "none"
    PROVE  Inductive'
  <1>. DEFINE place == IF i \in DOMAIN m.outbox THEN Mark(m.outbox[i].rec) ELSE None
  <1>1. Reseal(m, i, place)
    BY DEF ResealFrom
  <1>2. place \in Marks
    <2>1. m.outbox \in Seq(Entries)
      BY DEF States
    <2>2. i \in DOMAIN m.outbox => m.outbox[i] \in Entries
      BY <2>1
    <2>. QED
      BY <2>2 DEF Entries, Recs, Mark, Marks, None
  <1>3. ASSUME i \in DOMAIN m.outbox
        PROVE  /\ \E j \in DOMAIN memory.outbox : Mark(memory.outbox[j].rec) = place
               /\ \A k \in DOMAIN m.outbox : /\ k < i => m.outbox[k].rec.counter < place.counter
                                             /\ k > i => place.counter < m.outbox[k].rec.counter
    <2>1. place = Mark(m.outbox[i].rec) /\ place.counter = m.outbox[i].rec.counter
      BY <1>3 DEF Mark
    <2>2. \A k \in DOMAIN m.outbox : /\ k < i => m.outbox[k].rec.counter < place.counter
                                     /\ k > i => place.counter < m.outbox[k].rec.counter
      BY <1>3, <2>1 DEF Sound, Orderly
    <2>. QED
      BY <1>3, <2>1, <2>2
  <1>. HIDE DEF place
  <1>. QED
    BY <1>1, <1>2, <1>3, Resealing

LEMMA ResealStaleKeeps ==
    ASSUME Inductive, ResealStale
    PROVE  Inductive'
  <1>1. PICK i \in DOMAIN memory.outbox : ResealFrom(memory, i)
    BY DEF ResealStale
  <1>2. /\ phase = "online" /\ phase' = "online"
        /\ UNCHANGED <<chain, epoch, late, request, answer, copy, copies, reserved, upto, alarm>>
    BY DEF ResealStale, server, network, bounds
  <1>3. /\ i \in Nat \ {0} /\ memory \in States /\ answer \in Answers
        /\ memory.next <= memory.next /\ "online" \in Phases
    BY DEF Inductive, Typed, States, Phases
  <1>4. request' = <<>> /\ answer'.kind = "none"
    BY <1>2 DEF Inductive, InFlight
  <1>. QED
    BY <1>1, <1>2, <1>3, <1>4, ResealingFrom DEF Inductive, Soundness

LEMMA CompareDoneKeeps ==
    ASSUME Inductive, CompareDone
    PROVE  Inductive'
  <1>1. /\ ResealFrom(Followed(memory), 1) /\ phase = "comparing" /\ phase' = "online"
        /\ UNCHANGED <<chain, epoch, late, request, answer, copy, copies, reserved, upto, alarm>>
    BY DEF CompareDone, FollowHead, server, network, bounds
  <1>2. /\ request' = <<>> /\ answer'.kind = "none" /\ answer' \in Answers /\ 1 \in Nat \ {0}
        /\ "online" \in Phases
    BY <1>1 DEF Inductive, InFlight, Typed, Phases
  <1>. QED
    BY <1>1, <1>2, FollowedSound, ResealingFrom

-----------------------------------------------------------------------------
(* Answers.                                                                *)

\* A handler that saves `m`, signs nothing, and goes on with a state that
\* agrees with `m` but for the accepted epoch.
LEMMA SavedAs ==
    ASSUME Inductive, NEW m \in States, NEW l \in States, journal' = m, memory' = l,
           l.outbox = m.outbox, l.next = m.next, l.changed = m.changed, l.acked = m.acked,
           Sound(m, signed, reserved, chain), memory.next <= m.next,
           \A k \in DOMAIN m.outbox : \E j \in DOMAIN memory.outbox :
              m.outbox[k].rec = memory.outbox[j].rec,
           phase # "closed", phase' \in Phases, upto' \in Nat,
           UNCHANGED <<chain, epoch, late, copy, copies, reserved, alarm, signed, seals>>,
           request' = <<>>, answer' \in Answers, answer'.kind = "none"
    PROVE  Inductive'
  <1>1. Sound(l, signed, reserved, chain)
    <2>1. l.next <= reserved + 1 /\ Standing(l.acked, chain)
      BY DEF Sound
    <2>. QED
      BY <2>1, SoundSame
  <1>2. Typed'
    BY DEF Inductive, Typed
  <1>3. Soundness'
    BY <1>1 DEF Inductive, Soundness
  <1>4. InFlight'
    BY Cleared DEF Inductive
  <1>5. reserved <= reserved' /\ memory.next <= memory'.next
    BY DEF Inductive, Typed
  <1>6. \A k \in DOMAIN memory'.outbox : \E j \in DOMAIN memory.outbox :
           memory'.outbox[k].rec.digest = memory.outbox[j].rec.digest
    <2>1. \A k \in DOMAIN m.outbox : \E j \in DOMAIN memory.outbox :
             m.outbox[k].rec.digest = memory.outbox[j].rec.digest
      OBVIOUS
    <2>. QED
      BY <2>1
  <1>. QED
    BY <1>2, <1>3, <1>4, <1>5, <1>6, Settled

\* A handler that saves `m` and signs nothing.
LEMMA Saved ==
    ASSUME Inductive, NEW m \in States, Save(m), Sound(m, signed, reserved, chain),
           memory.next <= m.next,
           \A k \in DOMAIN m.outbox : \E j \in DOMAIN memory.outbox :
              m.outbox[k].rec = memory.outbox[j].rec,
           phase # "closed", phase' \in Phases, upto' \in Nat,
           UNCHANGED <<chain, epoch, late, copy, copies, reserved, alarm, signed, seals>>,
           request' = <<>>, answer' \in Answers, answer'.kind = "none"
    PROVE  Inductive'
  <1>1. memory' = m /\ journal' = m
    BY DEF Save
  <1>. QED
    BY <1>1, SavedAs

\* Where a push goes after an answer, and what it may have refreshed.
LEMMA Onward ==
    ASSUME Inductive
    PROVE  /\ \A outbox : GoesOn(outbox) => phase' \in Phases
           /\ Goes => phase' \in Phases /\ UNCHANGED <<upto, alarm>>
           /\ Refreshed \subseteq Nat
  <1>1. ASSUME NEW outbox, GoesOn(outbox) PROVE phase' \in Phases
    <2>1. phase' \in {"online", "pushing"}
      BY <1>1 DEF GoesOn
    <2>. QED
      BY <2>1 DEF Phases
  <1>2. ASSUME Goes PROVE phase' \in Phases /\ UNCHANGED <<upto, alarm>>
    BY <1>1, <1>2 DEF Goes
  <1>3. Refreshed \subseteq Nat
    BY DEF Refreshed, Inductive, Typed, States
  <1>. QED
    BY <1>1, <1>2, <1>3

\* A record out of the middle, or all from one on, or all up to one.
LEMMA OutboxCuts ==
    ASSUME NEW o \in Seq(Entries), NEW i \in 1..Len(o)
    PROVE  /\ Len(o) \in Nat /\ DOMAIN o = 1..Len(o)
           /\ LET s == SubSeq(o, 1, i - 1) \o SubSeq(o, i + 1, Len(o)) IN
              /\ s \in Seq(Entries) /\ DOMAIN s = 1..(Len(o) - 1)
              /\ \A k \in 1..(Len(o) - 1) : s[k] = IF k < i THEN o[k] ELSE o[k + 1]
           /\ LET s == SubSeq(o, 1, i - 1) IN
              /\ s \in Seq(Entries) /\ DOMAIN s = 1..(i - 1) /\ \A k \in 1..(i - 1) : s[k] = o[k]
           /\ LET s == SubSeq(o, i + 1, Len(o)) IN
              /\ s \in Seq(Entries) /\ DOMAIN s = 1..(Len(o) - i)
              /\ \A k \in 1..(Len(o) - i) : s[k] = o[k + i]
           /\ LET s == SubSeq(o, i, Len(o)) IN
              /\ DOMAIN s = 1..(Len(o) - i + 1) /\ \A k \in i..Len(o) : s[k - i + 1] = o[k]
  <1>. DEFINE L == Len(o)
              a == SubSeq(o, 1, i - 1)
              b == SubSeq(o, i + 1, L)
              c == SubSeq(o, i, L)
  <1>1. L \in Nat /\ DOMAIN o = 1..L /\ i \in Nat /\ 1 <= i /\ i <= L /\ \A k \in 1..L : o[k] \in Entries
    OBVIOUS
  <1>. HIDE DEF L
  <1>2. a \in Seq(Entries) /\ Len(a) = i - 1 /\ \A k \in 1..(i - 1) : a[k] = o[k]
    <2>1. 1 \in Int /\ i - 1 \in Int /\ (i - 1) - 1 + 1 = i - 1
          /\ \A k \in 1..(i - 1) : o[k] \in Entries /\ 1 + k - 1 = k
      BY <1>1
    <2>2. /\ a \in Seq(Entries) /\ Len(a) = IF 1 <= i - 1 THEN (i - 1) - 1 + 1 ELSE 0
          /\ \A k \in 1..((i - 1) - 1 + 1) : a[k] = o[1 + k - 1]
      BY <2>1, SubSeqProperties
    <2>. QED
      BY <1>1, <2>1, <2>2
  <1>3. b \in Seq(Entries) /\ Len(b) = L - i /\ \A k \in 1..(L - i) : b[k] = o[k + i]
    <2>1. i + 1 \in Int /\ L \in Int /\ L - (i + 1) + 1 = L - i
          /\ (\A k \in (i + 1)..L : o[k] \in Entries)
          /\ \A k \in 1..(L - i) : (i + 1) + k - 1 = k + i
      BY <1>1
    <2>2. /\ b \in Seq(Entries) /\ Len(b) = IF i + 1 <= L THEN L - (i + 1) + 1 ELSE 0
          /\ \A k \in 1..(L - (i + 1) + 1) : b[k] = o[(i + 1) + k - 1]
      BY <2>1, SubSeqProperties
    <2>. QED
      BY <1>1, <2>1, <2>2
  <1>4. c \in Seq(Entries) /\ Len(c) = L - i + 1 /\ \A k \in 1..(L - i + 1) : c[k] = o[i + k - 1]
    <2>1. i \in Int /\ L \in Int /\ \A k \in i..L : o[k] \in Entries
      BY <1>1
    <2>2. /\ c \in Seq(Entries) /\ Len(c) = IF i <= L THEN L - i + 1 ELSE 0
          /\ \A k \in 1..(L - i + 1) : c[k] = o[i + k - 1]
      BY <2>1, SubSeqProperties
    <2>. QED
      BY <1>1, <2>1, <2>2
  <1>. HIDE DEF a, b, c
  <1>5. /\ a \o b \in Seq(Entries) /\ Len(a \o b) = L - 1
        /\ \A k \in 1..(L - 1) : (a \o b)[k] = IF k < i THEN o[k] ELSE o[k + 1]
    <2>1. /\ a \o b \in Seq(Entries) /\ Len(a \o b) = Len(a) + Len(b)
          /\ \A k \in 1..(Len(a) + Len(b)) :
                (a \o b)[k] = IF k <= Len(a) THEN a[k] ELSE b[k - Len(a)]
      BY <1>2, <1>3, ConcatProperties
    <2>2. Len(a) + Len(b) = L - 1
      BY <1>1, <1>2, <1>3
    <2>3. ASSUME NEW k \in 1..(L - 1)
          PROVE  (a \o b)[k] = IF k < i THEN o[k] ELSE o[k + 1]
      <3>1. CASE k < i
        <4>1. k <= Len(a) /\ k \in 1..(i - 1)
          BY <1>1, <1>2, <3>1
        <4>. QED
          BY <1>2, <2>1, <2>2, <3>1, <4>1
      <3>2. CASE ~(k < i)
        <4>1. ~(k <= Len(a)) /\ k - Len(a) \in 1..(L - i) /\ (k - Len(a)) + i = k + 1
          BY <1>1, <1>2, <3>2
        <4>. QED
          BY <1>3, <2>1, <2>2, <3>2, <4>1
      <3>. QED
        BY <3>1, <3>2
    <2>. QED
      BY <2>1, <2>2, <2>3
  <1>6. DOMAIN a = 1..(i - 1) /\ DOMAIN b = 1..(L - i) /\ DOMAIN c = 1..(L - i + 1)
        /\ DOMAIN (a \o b) = 1..(L - 1)
    BY <1>2, <1>3, <1>4, <1>5
  <1>7. \A k \in i..L : c[k - i + 1] = o[k]
    <2>1. ASSUME NEW k \in i..L PROVE k - i + 1 \in 1..(L - i + 1) /\ i + (k - i + 1) - 1 = k
      BY <1>1
    <2>. QED
      BY <1>4, <2>1
  <1>. QED
    BY <1>1, <1>2, <1>3, <1>5, <1>6, <1>7 DEF a, b, c, L

\* What the app and the network look like when it takes an answer.
LEMMA AnswerTaken ==
    ASSUME Inductive, NEW kind, Answered(kind), kind \in {"receipts", "refused"}
    PROVE  /\ phase = "sent" /\ answer.kind = kind /\ phase # "closed"
           /\ UNCHANGED <<chain, epoch, late, copy, reserved>>
           /\ request' = <<>> /\ answer' \in Answers /\ answer'.kind = "none"
           /\ memory \in States /\ memory.outbox \in Seq(Entries) /\ memory.next \in Nat
           /\ Sound(memory, signed, reserved, chain)
  BY DEF Inductive, InFlight, Answered, server, Answers, Typed, States, Soundness

\* The records that were sent are on the chain when they leave the outbox.
LEMMA TakeReceiptsKeeps ==
    ASSUME Inductive, TakeReceipts
    PROVE  Inductive'
  <1>. DEFINE n == Len(answer.batch)
              o == memory.outbox
              cut == SubSeq(o, n + 1, Len(o))
              m == [memory EXCEPT !.outbox = cut, !.acked = Mark(answer.batch[n])]
              f == [k \in 1..(Len(o) - n) |-> k + n]
  <1>0. PICK a \in Refreshed : memory' = [m EXCEPT !.accepted = a]
    BY DEF TakeReceipts
  <1>1. /\ Answered("receipts") /\ journal' = m /\ GoesOn(m.outbox)
         /\ UNCHANGED <<upto, alarm, signed, seals, copies>>
    BY DEF TakeReceipts, history, bounds
  <1>2. /\ phase = "sent" /\ answer.kind = "receipts" /\ phase # "closed"
        /\ UNCHANGED <<chain, epoch, late, copy, reserved>>
        /\ request' = <<>> /\ answer' \in Answers /\ answer'.kind = "none"
        /\ memory \in States /\ o \in Seq(Entries) /\ Sound(memory, signed, reserved, chain)
    BY <1>1, AnswerTaken
  <1>3. /\ answer.batch \in Seq(Recs) /\ answer.batch # <<>> /\ Begins(answer.batch, o)
        /\ \A k \in DOMAIN answer.batch : \E j \in DOMAIN chain : chain[j] = answer.batch[k]
    <2>1. answer \in Answers
      BY DEF Inductive, Typed
    <2>2. answer.batch \in Seq(Recs)
      BY <1>2, <2>1 DEF Answers
    <2>. QED
      BY <1>2, <2>2 DEF Inductive, InFlight
  <1>4. /\ n \in 1..Len(o) /\ DOMAIN answer.batch = 1..n /\ answer.batch[n] \in Recs
        /\ \A k \in 1..n : answer.batch[k] = o[k].rec
    <2>1. n \in Nat /\ n >= 1 /\ DOMAIN answer.batch = 1..n
      BY <1>3
    <2>2. answer.batch[n] \in Recs
      BY <1>3, <2>1
    <2>. QED
      BY <1>2, <1>3, <2>1, <2>2 DEF Begins
  <1>5. /\ Len(o) \in Nat /\ DOMAIN o = 1..Len(o)
        /\ cut \in Seq(Entries) /\ DOMAIN cut = 1..(Len(o) - n)
        /\ \A k \in 1..(Len(o) - n) : cut[k] = o[k + n]
    BY <1>2, <1>4, OutboxCuts
  <1>6. Mark(answer.batch[n]) \in Marks /\ Standing(Mark(answer.batch[n]), chain)
    <2>1. \E j \in DOMAIN chain : chain[j] = answer.batch[n]
      BY <1>3, <1>4
    <2>. QED
      BY <1>4, <2>1 DEF Mark, Marks, Recs, Standing
  <1>. HIDE DEF cut
  <1>7. /\ m \in States /\ m.outbox = cut /\ m.next = memory.next
        /\ m.changed = memory.changed /\ m.acked = Mark(answer.batch[n])
    BY <1>2, <1>5, <1>6 DEF States
  <1>. HIDE DEF m, n
  <1>8. /\ f \in [DOMAIN m.outbox -> DOMAIN memory.outbox]
        /\ \A k \in DOMAIN m.outbox : f[k] = k + n
    BY <1>4, <1>5, <1>7
  <1>9. \A j \in DOMAIN memory.outbox :
           \/ \E k \in DOMAIN m.outbox : f[k] = j
           \/ memory.outbox[j].rec.edit \in m.changed
           \/ \E k \in DOMAIN chain : chain[k].edit = memory.outbox[j].rec.edit
    <2>. SUFFICES ASSUME NEW j \in 1..Len(o)
                  PROVE  \/ \E k \in DOMAIN m.outbox : f[k] = j
                         \/ \E k \in DOMAIN chain : chain[k].edit = memory.outbox[j].rec.edit
      BY <1>5
    <2>1. CASE j <= n
      <3>1. PICK k \in DOMAIN chain : chain[k] = answer.batch[j]
        BY <1>3, <1>4, <2>1
      <3>2. answer.batch[j] = memory.outbox[j].rec
        BY <1>4, <2>1
      <3>. QED
        BY <3>1, <3>2
    <2>2. CASE ~(j <= n)
      <3>1. j - n \in DOMAIN m.outbox /\ (j - n) + n = j
        BY <1>4, <1>5, <1>7, <2>2
      <3>. QED
        BY <1>8, <3>1
    <2>. QED
      BY <2>1, <2>2
  <1>10. \A k \in DOMAIN m.outbox : m.outbox[k].rec = memory.outbox[f[k]].rec
    BY <1>5, <1>7, <1>8
  <1>11. \A j, k \in DOMAIN m.outbox : j < k => f[j] < f[k]
    BY <1>4, <1>5, <1>7, <1>8
  <1>. HIDE DEF f
  <1>12. Sound(m, signed, reserved, chain)
    <2>1. m.next <= reserved + 1 /\ Standing(m.acked, chain) /\ memory.changed \subseteq m.changed
      BY <1>2, <1>6, <1>7 DEF Sound
    <2>. QED
      BY <1>2, <1>7, <1>8, <1>9, <1>10, <1>11, <2>1, SoundFewer
  <1>13. memory.next <= m.next /\ phase' \in Phases /\ upto' \in Nat
    BY <1>2, <1>7, <1>1, Onward DEF Inductive, Typed, States
  <1>14. /\ memory' \in States /\ memory'.outbox = m.outbox /\ memory'.next = m.next
         /\ memory'.changed = m.changed /\ memory'.acked = m.acked
    BY <1>0, <1>7, Onward DEF States
  <1>15. \A k \in DOMAIN m.outbox : \E j \in DOMAIN memory.outbox :
            m.outbox[k].rec = memory.outbox[j].rec
    BY <1>8, <1>10
  <1>. QED
    BY <1>2, <1>7, <1>12, <1>13, <1>1, <1>14, <1>15, SavedAs

\* The device waits with what it has.
LEMMA WaitsKeeps ==
    ASSUME Inductive, Answered("refused"), UNCHANGED bounds, Waits
    PROVE  Inductive'
  <1>1. phase' \in Phases /\ upto' \in Nat /\ memory.next <= memory.next
    BY DEF Waits, Phases, Inductive, Typed, States
  <1>2. Save(memory) /\ UNCHANGED <<alarm, signed, seals, copies>>
    BY DEF Waits, history, bounds
  <1>. QED
    BY <1>1, <1>2, AnswerTaken, Saved

LEMMA RefusedEpochKeeps ==
    ASSUME Inductive, Answered("refused"), UNCHANGED bounds,
           NEW i \in DOMAIN memory.outbox, RefusedEpoch(i)
    PROVE  Inductive'
  <1>. DEFINE m == [memory EXCEPT !.accepted = epoch]
  <1>1. CASE Waits
    BY <1>1, WaitsKeeps
  <1>2. CASE ResealFrom(m, i) /\ Goes
    <2>1. /\ m \in States /\ m.outbox = memory.outbox /\ m.next = memory.next
          /\ m.changed = memory.changed /\ m.acked = memory.acked
      BY AnswerTaken DEF Inductive, Typed, States
    <2>2. ResealFrom(m, i) /\ phase' \in Phases /\ UNCHANGED <<upto, alarm, copies>>
      BY <1>2, Onward DEF bounds
    <2>. HIDE DEF m
    <2>3. Sound(m, signed, reserved, chain) /\ memory.next <= m.next
      BY <2>1, AnswerTaken, SoundSame DEF Sound
    <2>4. i \in Nat \ {0}
      BY AnswerTaken
    <2>. QED
      BY <2>1, <2>2, <2>3, <2>4, AnswerTaken, ResealingFrom
  <1>. QED
    BY <1>1, <1>2 DEF RefusedEpoch

LEMMA RefusedFixKeeps ==
    ASSUME Inductive, Answered("refused"), UNCHANGED bounds,
           NEW i \in DOMAIN memory.outbox, RefusedFix(i)
    PROVE  Inductive'
  <1>0. PICK a \in Refreshed :
            LET m == [memory EXCEPT !.outbox[i].reseals = @ + 1, !.accepted = a] IN
            IF m.outbox[i].reseals > ResealLimit
            THEN /\ Save(m) /\ cap' = "reseal_limit" /\ phase' = "online"
                 /\ UNCHANGED <<upto, alarm, history>>
            ELSE ResealFrom(m, i) /\ Goes
    BY DEF RefusedFix
  <1>. DEFINE o == [memory.outbox EXCEPT ![i].reseals = @ + 1]
              m == [memory EXCEPT !.outbox[i].reseals = @ + 1, !.accepted = a]
  <1>1. /\ memory \in States /\ memory.outbox \in Seq(Entries) /\ memory.outbox[i] \in Entries
        /\ Sound(memory, signed, reserved, chain)
    <2>1. memory \in States /\ memory.outbox \in Seq(Entries) /\ Sound(memory, signed, reserved, chain)
      BY AnswerTaken
    <2>. QED
      BY <2>1
  <1>2. /\ o \in Seq(Entries) /\ DOMAIN o = DOMAIN memory.outbox
        /\ \A k \in DOMAIN o : o[k].rec = memory.outbox[k].rec
    <2>1. [memory.outbox[i] EXCEPT !.reseals = @ + 1] \in Entries
      BY <1>1 DEF Entries
    <2>2. o = [memory.outbox EXCEPT ![i] = [memory.outbox[i] EXCEPT !.reseals = @ + 1]]
      OBVIOUS
    <2>3. [memory.outbox[i] EXCEPT !.reseals = @ + 1].rec = memory.outbox[i].rec
      BY <1>1 DEF Entries
    <2>4. o \in Seq(Entries)
      BY <1>1, <2>1, <2>2, ExceptSeq
    <2>. QED
      BY <2>2, <2>3, <2>4
  <1>3. m = [memory EXCEPT !.outbox = o, !.accepted = a] /\ a \in Nat
    BY Onward
  <1>. HIDE DEF o
  <1>4. /\ m \in States /\ m.outbox = o /\ m.next = memory.next
        /\ m.changed = memory.changed /\ m.acked = memory.acked
    BY <1>1, <1>2, <1>3 DEF States
  <1>5. \/ Save(m) /\ phase' = "online" /\ UNCHANGED <<upto, alarm, signed, seals, copies>>
        \/ ResealFrom(m, i) /\ phase' \in Phases /\ UNCHANGED <<upto, alarm, copies>>
    BY <1>0, Onward DEF history, bounds
  <1>. HIDE DEF m
  <1>6. Sound(m, signed, reserved, chain) /\ memory.next <= m.next
    <2>1. Orderly(m.outbox, signed) /\ Keeps(m, chain)
      BY <1>1, <1>2, <1>4 DEF Sound, Orderly, Keeps
    <2>. QED
      BY <1>1, <1>4, <2>1, AnswerTaken DEF Sound
  <1>7. i \in Nat \ {0} /\ upto \in Nat /\ "online" \in Phases
    BY <1>1 DEF Inductive, Typed, Phases
  <1>8. \A k \in DOMAIN m.outbox : \E j \in DOMAIN memory.outbox :
           m.outbox[k].rec = memory.outbox[j].rec
    BY <1>2, <1>4
  <1>9. CASE Save(m) /\ phase' = "online" /\ UNCHANGED <<upto, alarm, signed, seals, copies>>
    <2>1. phase' \in Phases /\ upto' \in Nat
      BY <1>7, <1>9
    <2>. QED
      BY <1>4, <1>6, <1>8, <1>9, <2>1, AnswerTaken, Saved
  <1>10. CASE ResealFrom(m, i) /\ phase' \in Phases /\ UNCHANGED <<upto, alarm, copies>>
    BY <1>4, <1>6, <1>7, <1>8, <1>10, AnswerTaken, ResealingFrom
  <1>. QED
    BY <1>5, <1>9, <1>10

\* The next record takes the dropped one's position, and its digest as the
\* attempt it replaces.
LEMMA RefusedDropKeeps ==
    ASSUME Inductive, Answered("refused"), UNCHANGED bounds,
           NEW i \in DOMAIN memory.outbox, RefusedDrop(i)
    PROVE  Inductive'
  <1>. DEFINE o == memory.outbox
              L == Len(o)
              cut == SubSeq(o, 1, i - 1) \o SubSeq(o, i + 1, L)
              place == Mark(o[i].rec)
              t == TakeOut(memory, i)
              m == [t EXCEPT !.head = HeadOf(t.outbox, t.acked)]
              f == [k \in 1..(L - 1) |-> IF k < i THEN k ELSE k + 1]
  <1>1. /\ memory \in States /\ o \in Seq(Entries) /\ memory.next \in Nat
        /\ Sound(memory, signed, reserved, chain)
    BY AnswerTaken
  <1>2. /\ i \in 1..L /\ L \in Nat /\ DOMAIN o = 1..L /\ \A k \in 1..L : o[k] \in Entries
    BY <1>1
  <1>3. /\ cut \in Seq(Entries) /\ DOMAIN cut = 1..(L - 1)
        /\ \A k \in 1..(L - 1) : cut[k] = IF k < i THEN o[k] ELSE o[k + 1]
    BY <1>1, <1>2, OutboxCuts
  <1>4. /\ Reseal(m, i, place) /\ phase' \in Phases /\ UNCHANGED <<upto, alarm, copies>>
    BY Onward DEF RefusedDrop, bounds
  <1>5. place \in Marks /\ place.counter = o[i].rec.counter /\ o[i].rec.edit \in Edits
    BY <1>2 DEF Mark, Marks, Entries, Recs
  <1>. DEFINE c == memory.changed \cup {o[i].rec.edit}
  <1>6. t = [memory EXCEPT !.outbox = cut, !.changed = c]
    BY DEF TakeOut
  <1>. HIDE DEF cut, place, t
  <1>7. /\ t \in States /\ t.outbox = cut /\ t.next = memory.next /\ t.acked = memory.acked
        /\ t.changed = c
    <2>1. c \in SUBSET Edits
      BY <1>1, <1>5 DEF States
    <2>. HIDE DEF c
    <2>. QED
      BY <1>1, <1>3, <1>6, <2>1 DEF States
  <1>8. HeadOf(t.outbox, t.acked) \in Marks
    <2>1. CASE cut = <<>>
      BY <1>7, <2>1 DEF HeadOf, States
    <2>2. CASE cut # <<>>
      <3>1. cut[Len(cut)] \in Entries
        BY <1>3, <2>2
      <3>. QED
        BY <1>7, <2>2, <3>1 DEF HeadOf, Mark, Marks, Entries, Recs
    <2>. QED
      BY <2>1, <2>2
  <1>9. /\ m \in States /\ m.outbox = cut /\ m.next = memory.next /\ m.acked = memory.acked
        /\ m.changed = c
    BY <1>7, <1>8 DEF States
  <1>. HIDE DEF m
  <1>10. /\ f \in [DOMAIN m.outbox -> DOMAIN memory.outbox]
         /\ \A k \in DOMAIN m.outbox : f[k] = IF k < i THEN k ELSE k + 1
    BY <1>2, <1>3, <1>9
  <1>11. \A k \in DOMAIN m.outbox : m.outbox[k].rec = memory.outbox[f[k]].rec
    BY <1>3, <1>9, <1>10
  <1>12. \A j, k \in DOMAIN m.outbox : j < k => f[j] < f[k]
    BY <1>2, <1>3, <1>9, <1>10
  <1>13. ASSUME NEW j \in DOMAIN memory.outbox
         PROVE  \/ \E k \in DOMAIN m.outbox : f[k] = j
                \/ memory.outbox[j].rec.edit \in m.changed
                \/ \E k \in DOMAIN chain : chain[k].edit = memory.outbox[j].rec.edit
    <2>1. CASE j = i
      BY <1>9, <2>1
    <2>2. CASE j < i
      <3>1. j \in DOMAIN m.outbox
        BY <1>2, <1>3, <1>9, <2>2
      <3>. QED
        BY <1>10, <2>2, <3>1
    <2>3. CASE j > i
      <3>1. j - 1 \in DOMAIN m.outbox /\ ~(j - 1 < i) /\ (j - 1) + 1 = j
        BY <1>2, <1>3, <1>9, <2>3
      <3>. QED
        BY <1>10, <3>1
    <2>. QED
      BY <1>2, <2>1, <2>2, <2>3
  <1>. HIDE DEF f
  <1>14. Sound(m, signed, reserved, chain)
    <2>1. m.next <= reserved + 1 /\ Standing(m.acked, chain) /\ memory.changed \subseteq m.changed
      BY <1>1, <1>9 DEF Sound
    <2>. QED
      BY <1>1, <1>9, <1>10, <1>11, <1>12, <1>13, <2>1, SoundFewer
  <1>15. \A k \in DOMAIN m.outbox : \E j \in DOMAIN memory.outbox :
            m.outbox[k].rec = memory.outbox[j].rec
    BY <1>10, <1>11
  <1>16. /\ \E j \in DOMAIN memory.outbox : Mark(memory.outbox[j].rec) = place
         /\ \A k \in DOMAIN m.outbox : /\ k < i => m.outbox[k].rec.counter < place.counter
                                       /\ k > i => place.counter < m.outbox[k].rec.counter
    <2>1. \A k \in 1..L : /\ k < i => o[k].rec.counter < place.counter
                          /\ k > i => place.counter < o[k].rec.counter
      BY <1>1, <1>2, <1>5 DEF Sound, Orderly
    <2>2. ASSUME NEW k \in DOMAIN m.outbox
          PROVE  /\ k < i => m.outbox[k].rec.counter < place.counter
                 /\ k > i => place.counter < m.outbox[k].rec.counter
      <3>1. /\ k \in 1..L /\ k + 1 \in 1..L /\ (k > i => k + 1 > i /\ ~(k < i))
            /\ m.outbox[k] = IF k < i THEN o[k] ELSE o[k + 1]
        BY <1>2, <1>3, <1>9
      <3>. QED
        BY <2>1, <3>1
    <2>. QED
      BY <2>2 DEF place
  <1>17. i \in Nat \ {0} /\ memory.next <= m.next
    BY <1>1, <1>2, <1>9
  <1>. QED
    BY <1>4, <1>5, <1>9, <1>14, <1>15, <1>16, <1>17, AnswerTaken, Resealing

\* The changes of the records that leave go back to their files.
LEMMA RefusedForbiddenKeeps ==
    ASSUME Inductive, Answered("refused"), UNCHANGED bounds,
           NEW i \in DOMAIN memory.outbox, RefusedForbidden(i)
    PROVE  Inductive'
  <1>. DEFINE o == memory.outbox
              L == Len(o)
              kept == SubSeq(o, 1, i - 1)
              tail == SubSeq(o, i, L)
              h == HeadOf(kept, memory.acked)
              c == memory.changed \cup EditsOf(tail)
  <1>0. PICK a \in Refreshed :
            Save([memory EXCEPT !.outbox = kept, !.head = h, !.changed = c, !.accepted = a])
    BY DEF RefusedForbidden
  <1>. DEFINE m == [memory EXCEPT !.outbox = kept, !.head = h, !.changed = c, !.accepted = a]
              f == [k \in 1..(i - 1) |-> k]
  <1>1. /\ memory \in States /\ o \in Seq(Entries) /\ memory.next \in Nat
        /\ Sound(memory, signed, reserved, chain)
    BY AnswerTaken
  <1>2. /\ i \in 1..L /\ L \in Nat /\ DOMAIN o = 1..L /\ \A k \in 1..L : o[k] \in Entries
    BY <1>1
  <1>3. /\ kept \in Seq(Entries) /\ DOMAIN kept = 1..(i - 1)
        /\ \A k \in 1..(i - 1) : kept[k] = o[k]
        /\ DOMAIN tail = 1..(L - i + 1) /\ \A k \in i..L : tail[k - i + 1] = o[k]
    BY <1>1, <1>2, OutboxCuts
  <1>4. /\ Save(m) /\ phase' \in Phases /\ UNCHANGED <<upto, alarm, signed, seals, copies>>
        /\ a \in Nat
    BY <1>0, Onward DEF RefusedForbidden, history, bounds
  <1>5. \A k \in i..L : o[k].rec.edit \in EditsOf(tail)
    <2>1. ASSUME NEW k \in i..L PROVE k - i + 1 \in DOMAIN tail
      BY <1>2, <1>3
    <2>. QED
      BY <1>3, <2>1 DEF EditsOf
  <1>6. c \in SUBSET Edits
    <2>1. ASSUME NEW k \in DOMAIN tail PROVE tail[k].rec.edit \in Edits
      <3>1. k \in 1..(L - i + 1)
        BY <1>3
      <3>2. k + i - 1 \in i..L /\ (k + i - 1) - i + 1 = k /\ k + i - 1 \in 1..L
        BY <1>2, <3>1
      <3>3. tail[k] = o[k + i - 1] /\ o[k + i - 1] \in Entries
        BY <1>2, <1>3, <3>2
      <3>. QED
        BY <3>3 DEF Entries, Recs
    <2>. QED
      BY <1>1, <2>1 DEF EditsOf, States
  <1>. HIDE DEF kept, tail
  <1>7. h \in Marks
    <2>1. CASE kept = <<>>
      BY <1>1, <2>1 DEF HeadOf, States
    <2>2. CASE kept # <<>>
      <3>1. kept[Len(kept)] \in Entries
        BY <1>3, <2>2
      <3>. QED
        BY <2>2, <3>1 DEF HeadOf, Mark, Marks, Entries, Recs
    <2>. QED
      BY <2>1, <2>2
  <1>. HIDE DEF h, c
  <1>8. /\ m \in States /\ m.outbox = kept /\ m.next = memory.next /\ m.acked = memory.acked
        /\ m.changed = c
    BY <1>1, <1>3, <1>4, <1>6, <1>7 DEF States
  <1>. HIDE DEF m
  <1>9. /\ f \in [DOMAIN m.outbox -> DOMAIN memory.outbox]
        /\ \A k \in DOMAIN m.outbox : f[k] = k
    BY <1>2, <1>3, <1>8
  <1>10. /\ \A k \in DOMAIN m.outbox : m.outbox[k].rec = memory.outbox[f[k]].rec
         /\ \A j, k \in DOMAIN m.outbox : j < k => f[j] < f[k]
    BY <1>3, <1>8, <1>9
  <1>11. ASSUME NEW j \in DOMAIN memory.outbox
         PROVE  \/ \E k \in DOMAIN m.outbox : f[k] = j
                \/ memory.outbox[j].rec.edit \in m.changed
                \/ \E k \in DOMAIN chain : chain[k].edit = memory.outbox[j].rec.edit
    <2>1. CASE j < i
      <3>1. j \in DOMAIN m.outbox
        BY <1>2, <1>3, <1>8, <2>1
      <3>. QED
        BY <1>9, <3>1
    <2>2. CASE ~(j < i)
      BY <1>2, <1>5, <1>8, <2>2 DEF c
    <2>. QED
      BY <2>1, <2>2
  <1>. HIDE DEF f
  <1>12. Sound(m, signed, reserved, chain)
    <2>1. m.next <= reserved + 1 /\ Standing(m.acked, chain) /\ memory.changed \subseteq m.changed
      BY <1>1, <1>8 DEF Sound, c
    <2>. QED
      BY <1>1, <1>8, <1>9, <1>10, <1>11, <2>1, SoundFewer
  <1>13. \A k \in DOMAIN m.outbox : \E j \in DOMAIN memory.outbox :
            m.outbox[k].rec = memory.outbox[j].rec
    BY <1>9, <1>10
  <1>14. memory.next <= m.next /\ phase' \in Phases /\ upto' \in Nat
    BY <1>1, <1>4, <1>8 DEF Inductive, Typed
  <1>. QED
    BY <1>4, <1>8, <1>12, <1>13, <1>14, AnswerTaken, Saved

\* A conflict starts a comparison, and never shows a head below what the
\* device knows.
LEMMA RefusedConflictKeeps ==
    ASSUME Inductive, Answered("refused"), UNCHANGED bounds, RefusedConflict(answer.head)
    PROVE  Inductive'
  <1>1. /\ memory \in States /\ Sound(memory, signed, reserved, chain) /\ phase = "sent"
        /\ memory.acked \in Marks /\ answer.kind = "refused"
    BY AnswerTaken DEF States
  <1>2. memory.acked.counter <= answer.head.counter /\ answer.head.counter \in Nat
        /\ memory.acked.counter \in Nat
    <2>1. answer \in Answers
      BY DEF Inductive, Typed
    <2>. QED
      BY <1>1, <2>1 DEF Inductive, InFlight, Answers, Marks
  <1>3. memory.acked.counter <= ChainHead.counter /\ ChainHead.counter \in Nat
    BY <1>1, StandingBelow, HeadOnTop DEF Inductive, Sound, Typed, Marks
  <1>4. CASE Waits
    BY <1>4, WaitsKeeps
  <1>5. CASE StartCompare(memory) /\ UNCHANGED <<cap, history>>
    <2>1. ~(ChainHead.counter < memory.acked.counter)
      BY <1>2, <1>3
    <2>2. /\ memory' = memory /\ alarm' = alarm /\ upto' = ChainHead.counter
          /\ journal' = memory \/ journal' = journal
          /\ phase' \in {"online", "comparing"}
          /\ UNCHANGED <<signed, seals, copies>>
      BY <1>5, <2>1 DEF StartCompare, history, bounds
    <2>3. /\ UNCHANGED <<chain, epoch, late, copy, reserved>>
          /\ request' = <<>> /\ answer' \in Answers /\ answer'.kind = "none"
      BY AnswerTaken
    <2>4. Typed'
      BY <1>3, <2>2, <2>3 DEF Inductive, Typed, Phases
    <2>5. Soundness'
      BY <2>2, <2>3 DEF Inductive, Soundness
    <2>6. InFlight'
      BY <1>1, <2>2, <2>3, Cleared DEF Inductive
    <2>7. reserved <= reserved' /\ memory.next <= memory'.next /\ phase # "closed"
      BY <1>1, <2>2, <2>3 DEF Inductive, Typed, States
    <2>. QED
      BY <2>2, <2>3, <2>4, <2>5, <2>6, <2>7, Settled
  <1>. QED
    BY <1>2, <1>4, <1>5 DEF RefusedConflict

LEMMA TakeRefusalKeeps ==
    ASSUME Inductive, TakeRefusal
    PROVE  Inductive'
  <1>. DEFINE i == answer.at
  <1>1. Answered("refused") /\ UNCHANGED bounds
    BY DEF TakeRefusal
  <1>2. i \in DOMAIN memory.outbox
    BY <1>1, AnswerTaken DEF Inductive, InFlight
  <1>3. \/ Waits \/ RefusedEpoch(i) \/ RefusedFix(i) \/ RefusedDrop(i) \/ RefusedForbidden(i)
        \/ RefusedConflict(answer.head)
    BY DEF TakeRefusal
  <1>. HIDE DEF i
  <1>4. CASE Waits
    BY <1>1, <1>4, WaitsKeeps
  <1>5. CASE RefusedEpoch(i)
    BY <1>1, <1>2, <1>5, RefusedEpochKeeps
  <1>6. CASE RefusedFix(i)
    BY <1>1, <1>2, <1>6, RefusedFixKeeps
  <1>7. CASE RefusedDrop(i)
    BY <1>1, <1>2, <1>7, RefusedDropKeeps
  <1>8. CASE RefusedForbidden(i)
    BY <1>1, <1>2, <1>8, RefusedForbiddenKeeps
  <1>9. CASE RefusedConflict(answer.head)
    BY <1>1, <1>9, RefusedConflictKeeps
  <1>. QED
    BY <1>3, <1>4, <1>5, <1>6, <1>7, <1>8, <1>9

-----------------------------------------------------------------------------
(* The theorems.                                                           *)

LEMMA InitInductive == Init => Inductive
  <1>. SUFFICES ASSUME Init PROVE Inductive
    OBVIOUS
  <1>1. /\ chain = <<>> /\ epoch = 1 /\ request = <<>> /\ late = {} /\ answer = [kind |-> "none"]
        /\ memory = [outbox |-> <<>>, next |-> 1, head |-> None, acked |-> None,
                     changed |-> Edits, accepted |-> 1]
        /\ journal = memory /\ copy = memory /\ reserved = 0 /\ phase = "closed" /\ upto = 0
        /\ alarm = "no" /\ signed = {} /\ seals = 0 /\ copies = 0
    BY DEF Init
  <1>2. None \in Marks /\ answer \in Answers /\ answer.kind = "none"
    BY <1>1 DEF None, Marks, Answers
  <1>3. memory \in States
    BY <1>1, <1>2 DEF States
  <1>4. Typed
    BY <1>1, <1>2, <1>3 DEF Typed, Phases
  <1>5. Soundness
    <2>1. Sound(memory, signed, reserved, chain)
      BY <1>1 DEF Sound, Orderly, Standing, Keeps
    <2>. QED
      BY <1>1, <2>1 DEF Soundness
  <1>6. InFlight
    BY <1>1, <1>2, <1>3 DEF InFlight, Batch, Begins, Ascends
  <1>. QED
    BY <1>1, <1>4, <1>5, <1>6
       DEF Inductive, Fresh, Replaced, Linked, Ascends, SignsOnce, NoFalseAlarm

LEMMA NextInductive == Inductive /\ [Next]_vars => Inductive'
  <1>. SUFFICES ASSUME Inductive, [Next]_vars PROVE Inductive'
    OBVIOUS
  <1>1. CASE App
    BY <1>1, SignKeeps, ResealStaleKeeps, OpenKeeps, ConnectKeeps, TakeBackKeeps, CompareDoneKeeps,
       CompareFailsKeeps, PullKeeps, MatchKeeps, RebuildFailsKeeps, SendKeeps, TakeReceiptsKeeps,
       TakeRefusalKeeps, RefreshKeeps DEF App
  <1>2. CASE Server
    BY <1>2, AcceptKeeps, RefuseKeeps, ArriveLateKeeps, OthersKeep DEF Server
  <1>3. CASE World
    BY <1>3, CrashKeeps, GiveUpKeeps, CopyKeeps, RestoreCopyKeeps, RebuildKeeps DEF World
  <1>4. CASE UNCHANGED vars
    BY <1>4, OthersKeep
  <1>. QED
    BY <1>1, <1>2, <1>3, <1>4 DEF Next

THEOREM InductiveHolds == Spec => []Inductive
BY InitInductive, NextInductive, PTL DEF Spec

\* No counter is signed twice as a new record, and without a backup that
\* comes back no attempt is replaced twice (marks.rs, rebuild.rs).
THEOREM SignsOnceHolds == Spec => []SignsOnce
  <1>1. Inductive => SignsOnce
    BY DEF Inductive
  <1>. QED
    BY <1>1, InductiveHolds, PTL

\* What the device holds acknowledged stands on the server's chain.
THEOREM AcknowledgedStandsHolds == Spec => []AcknowledgedStands
  <1>1. Inductive => AcknowledgedStands
    BY DEF Inductive, Soundness, Sound, Standing, AcknowledgedStands, Stands
  <1>. QED
    BY <1>1, InductiveHolds, PTL

\* No change is lost between its file, the outbox and the chain.
THEOREM NothingLostHolds == Spec => []NothingLost
  <1>1. ASSUME Inductive, NEW m \in States, Sound(m, signed, reserved, chain)
        PROVE  Edits = m.changed \cup EditsOf(m.outbox) \cup OnChain
    <2>1. Edits \subseteq m.changed \cup EditsOf(m.outbox) \cup OnChain
      BY <1>1 DEF Sound, Keeps, EditsOf, OnChain
    <2>2. m.changed \subseteq Edits
      BY DEF States
    <2>3. EditsOf(m.outbox) \subseteq Edits
      <3>1. m.outbox \in Seq(Entries)
        BY DEF States
      <3>2. \A k \in DOMAIN m.outbox : m.outbox[k] \in Entries
        BY <3>1
      <3>. QED
        BY <3>2 DEF EditsOf, Entries, Recs
    <2>4. OnChain \subseteq Edits
      <3>1. \A k \in DOMAIN chain : chain[k] \in Recs
        BY <1>1 DEF Inductive, Typed
      <3>. QED
        BY <3>1 DEF OnChain, Recs
    <2>. QED
      BY <2>1, <2>2, <2>3, <2>4
  <1>2. Inductive => NothingLost
    BY <1>1 DEF Inductive, Soundness, Typed, NothingLost
  <1>. QED
    BY <1>2, InductiveHolds, PTL

\* The device never reports a rollback or a fork of its chain.
THEOREM NoFalseAlarmHolds == Spec => []NoFalseAlarm
  <1>1. Inductive => NoFalseAlarm
    BY DEF Inductive
  <1>. QED
    BY <1>1, InductiveHolds, PTL

=============================================================================
