-------------------------- MODULE BlobUploadsProofs --------------------------
(***************************************************************************)
(* Theorems about BlobUploads, for every number of devices, requests,      *)
(* collectors and segments: a listed blob is kept, and the counters never  *)
(* drift, whatever races, fails or is restored.                            *)
(***************************************************************************)
EXTENDS BlobUploads, FiniteSetTheorems, SequenceTheorems, TLAPS

-----------------------------------------------------------------------------
(* Types.                                                                  *)

LEMMA SomeDevice == (CHOOSE d \in Devices : TRUE) \in Devices
BY BlobAssumption

LEMMA NoRowType == NoRow \in Row
BY SomeDevice DEF NoRow, Row, DeleteAfter

LEMMA IdleType == IdleRequest \in Request /\ IdlePass \in Pass
<1>1. 1 \in 1..Length
  BY BlobAssumption
<1>2. <<>> \in Seq(Keys)
  OBVIOUS
<1> QED BY <1>1, <1>2, SomeDevice DEF IdleRequest, IdlePass, Request, Pass, Hashes

\* The keys of recorded segments are keys.
LEMMA KeysOfType ==
    ASSUME NEW s \in Seq(Hashes), Len(s) <= Length
    PROVE  KeysOf(s) \in Seq(Keys)
<1>1. DOMAIN s = 1..Len(s) /\ Len(s) \in Nat /\ Length \in Nat
  BY BlobAssumption
<1>2. \A i \in 1..Len(s) : <<i, s[i]>> \in Keys
  BY <1>1 DEF Keys
<1> QED BY <1>1, <1>2 DEF KeysOf

\* A tail of a list of keys is one.
LEMMA TailType ==
    ASSUME NEW s \in Seq(Keys), s # <<>>
    PROVE  Tail(s) \in Seq(Keys) /\ Head(s) \in Keys
OBVIOUS

LEMMA Meets0Type == \A c, n : Meets0(c, n) \in 0..1
BY DEF Meets0

LEMMA InitTyped == Init => Typed
<1> SUFFICES ASSUME Init PROVE Typed
  OBVIOUS
<1>1. segments \in Seq(Hashes) /\ Len(segments) <= Length
  BY BlobAssumption DEF Init
<1> QED BY <1>1, NoRowType, IdleType, BlobAssumption
        DEF Init, Typed, TypeOK, Offsets, Exists, NoRow

LEMMA RequestTyped ==
    ASSUME Typed, NEW p \in Requests, RequestSteps(p)
    PROVE  Typed'
<1>1. /\ TypeOK /\ Offsets /\ req[p] \in Request /\ req \in [Requests -> Request]
      /\ row \in Row /\ segments \in Seq(Hashes) /\ Len(segments) \in Nat
      /\ Length \in Nat
  BY BlobAssumption DEF Typed, TypeOK
<1>2. ASSUME NEW r \in Request, req' = [req EXCEPT ![p] = r]
      PROVE  req' \in [Requests -> Request]
  BY <1>1, <1>2
<1>3. ASSUME UNCHANGED <<blob, inst, counts>>, req' \in [Requests -> Request],
             objects' \subseteq Keys
      PROVE  Typed'
  BY <1>1, <1>3 DEF Typed, TypeOK, Offsets, Exists, blob, counts
<1>4. ASSUME NEW d \in Devices, PatchStart(p, d)
      PROVE  Typed'
  <2>1. Len(segments) + 1 \in 1..Length
    BY <1>1, <1>4 DEF PatchStart, OwnUpload, Unmarked, Offsets, Exists
  <2>2. PICK hash \in Hashes :
            req' = [req EXCEPT ![p] = [IdleRequest EXCEPT !.pc = "put", !.device = d,
                                       !.index = Len(segments) + 1, !.hash = hash]]
    BY <1>4 DEF PatchStart
  <2>3. [IdleRequest EXCEPT !.pc = "put", !.device = d,
                            !.index = Len(segments) + 1, !.hash = hash] \in Request
    BY <2>1, IdleType DEF Request
  <2> QED BY <1>1, <1>2, <1>3, <1>4, <2>2, <2>3 DEF PatchStart, TypeOK
<1>5. CASE PatchPut(p)
  <2>1. Key(p) \in Keys
    BY <1>1 DEF Key, Keys, Request
  <2>2. [req[p] EXCEPT !.pc = "domain"] \in Request
    BY <1>1 DEF Request
  <2> QED BY <1>1, <1>2, <1>3, <1>5, <2>1, <2>2 DEF PatchPut, TypeOK
<1>6. CASE PatchDomain(p) \/ PatchRefused(p)
  <2>1. /\ [req[p] EXCEPT !.pc = "record"] \in Request
        /\ [req[p] EXCEPT !.pc = "judge"] \in Request
    BY <1>1 DEF Request
  <2>2. req' \in [Requests -> Request]
    BY <1>1, <1>6, <2>1 DEF PatchDomain, PatchRefused
  <2> QED BY <1>1, <1>3, <1>6, <2>2 DEF PatchDomain, PatchRefused, TypeOK
<1>7. CASE PatchJudge(p)
  <2>1. <<Key(p)>> \in Seq(Keys)
    BY <1>1 DEF Key, Keys, Request
  <2>2. [req[p] EXCEPT !.pc = "delete", !.todo = <<Key(p)>>] \in Request
    BY <1>1, <2>1 DEF Request
  <2>3. req' \in [Requests -> Request]
    BY <1>1, <1>7, <2>2, IdleType DEF PatchJudge
  <2> QED BY <1>1, <1>3, <1>7, <2>3 DEF PatchJudge, TypeOK
<1>8. CASE RequestDeletes(p)
  <2>1. req[p].todo \in Seq(Keys) /\ req[p].todo # <<>>
    BY <1>1, <1>8 DEF RequestDeletes, Request
  <2>2. [req[p] EXCEPT !.todo = Tail(@)] \in Request
    BY <1>1, <2>1, TailType DEF Request
  <2>3. req' \in [Requests -> Request]
    BY <1>1, <1>8, <2>2 DEF RequestDeletes
  <2>4. objects' \subseteq Keys /\ faults' \in 0..MaxFaults
    BY <1>1, <1>8, BlobAssumption DEF RequestDeletes, TypeOK
  <2> QED BY <1>1, <1>8, <2>3, <2>4 DEF RequestDeletes, Typed, TypeOK, Offsets, Exists, blob
<1>9. CASE RequestEnds(p)
  BY <1>1, <1>2, <1>3, <1>9, IdleType DEF RequestEnds, TypeOK
<1>10. CASE RequestDropped(p)
  <2>1. faults' \in 0..MaxFaults
    BY <1>1, <1>10, BlobAssumption DEF RequestDropped, TypeOK
  <2>2. req' \in [Requests -> Request]
    BY <1>1, <1>10, IdleType DEF RequestDropped
  <2> QED BY <1>1, <1>10, <2>1, <2>2 DEF RequestDropped, Typed, TypeOK, Offsets, Exists, blob
<1>11. CASE PatchFails(p)
  <2>1. faults' \in 0..MaxFaults
    BY <1>1, <1>11, BlobAssumption DEF PatchFails, TypeOK
  <2>2. [req[p] EXCEPT !.pc = "judge"] \in Request
    BY <1>1 DEF Request
  <2>3. req' \in [Requests -> Request]
    BY <1>1, <1>11, <2>2 DEF PatchFails
  <2> QED BY <1>1, <1>11, <2>1, <2>3 DEF PatchFails, Typed, TypeOK, Offsets, Exists, blob
<1>12. ASSUME Discard
       PROVE  /\ row' \in Row /\ segments' = <<>> /\ usage_bytes' \in Nat
              /\ history_bytes' \in Nat /\ (row'.stored => ~row'.complete)
  <2>1. CASE Listed
    BY <1>1, <1>12, <2>1 DEF Discard, TypeOK, Row, DeleteAfter
  <2>2. CASE ~Listed
    <3>1. row' = NoRow /\ segments' = <<>> /\ AddUsage(-1, 0)
      BY <1>12, <2>2 DEF Discard
    <3>2. usage_bytes' \in Nat /\ history_bytes' \in Nat
      BY <1>1, <3>1 DEF AddUsage, AtLeast0, TypeOK
    <3>3. ~NoRow.stored
      BY DEF NoRow
    <3> QED BY <3>1, <3>2, <3>3, NoRowType
  <2> QED BY <2>1, <2>2
<1>13. /\ <<>> \in Seq(Hashes) /\ Len(<<>>) <= Length /\ Len(<<>>) < Length
  BY BlobAssumption
<1>14. ASSUME Discard, UNCHANGED <<listings, live, objects, inst, counts>>,
              req' \in [Requests -> Request]
       PROVE  Typed'
  BY <1>1, <1>12, <1>13, <1>14 DEF Typed, TypeOK, Offsets, Exists, counts
<1>15. ASSUME NEW d \in Devices, Abandon(p, d)
       PROVE  Typed'
  <2>1. KeysOf(segments) \in Seq(Keys)
    BY <1>1, KeysOfType DEF TypeOK
  <2>2. [IdleRequest EXCEPT !.pc = "delete", !.device = d, !.todo = KeysOf(segments)] \in Request
    BY <2>1, IdleType DEF Request
  <2> QED BY <1>1, <1>2, <1>14, <1>15, <2>2 DEF Abandon
<1>16. CASE PatchRecord(p)
  <2> DEFINE s == Append(segments, req[p].hash)
  <2>1. /\ s \in Seq(Hashes) /\ Len(s) = Len(segments) + 1
        /\ req[p].index = Len(segments) + 1 /\ req[p].index \in 1..Length
        /\ row.stored /\ ~row.complete
    BY <1>1, <1>16 DEF PatchRecord, Appends, OwnUpload, Unmarked, Request
  <2>2. CASE RecordSegment(p)
    <3>1. row' \in Row /\ row'.stored
      BY <1>1, <2>1, <2>2 DEF RecordSegment, CompletedAfter, Row, DeleteAfter
    <3>2. segments' = s /\ Len(s) <= Length
      BY <1>1, <2>1, <2>2 DEF RecordSegment
    <3>3. ~row'.complete => Len(segments') < Length
      <4>1. CASE Completes(p)
        BY <1>1, <2>2, <4>1 DEF RecordSegment, Row
      <4>2. CASE ~Completes(p)
        BY <1>1, <2>1, <3>2, <4>2 DEF Completes
      <4> QED BY <4>1, <4>2
    <3>4. req' \in [Requests -> Request]
      BY <1>1, <2>2, IdleType DEF RecordSegment
    <3> HIDE DEF s
    <3> QED BY <1>1, <1>16, <2>1, <2>2, <3>1, <3>2, <3>3, <3>4
            DEF RecordSegment, PatchRecord, Typed, TypeOK, Offsets, Exists, counts
  <2>3. CASE DiscardUpload(p)
    <3>1. Len(s) <= Length
      BY <1>1, <2>1
    <3>2. KeysOf(s) \in Seq(Keys)
      BY <2>1, <3>1, KeysOfType
    <3>3. [req[p] EXCEPT !.pc = "delete", !.todo = KeysOf(s)] \in Request
      BY <1>1, <3>2 DEF Request
    <3>4. req' \in [Requests -> Request]
      <4>1. req' = [req EXCEPT ![p] = [req[p] EXCEPT !.pc = "delete", !.todo = KeysOf(s)]]
        BY <1>1, <2>3 DEF DiscardUpload
      <4> QED BY <1>1, <3>3, <4>1
    <3> QED BY <1>14, <1>16, <2>3, <3>4 DEF DiscardUpload, PatchRecord
  <2> QED BY <1>16, <2>2, <2>3 DEF PatchRecord
<1> QED BY <1>4, <1>5, <1>6, <1>7, <1>8, <1>9, <1>10, <1>15, <1>16, <1>11 DEF RequestSteps

LEMMA CollectorTyped ==
    ASSUME Typed, NEW i \in Instances, CollectorSteps(i)
    PROVE  Typed'
<1>1. /\ TypeOK /\ Offsets /\ inst[i] \in Pass /\ inst \in [Instances -> Pass]
      /\ row \in Row /\ segments \in Seq(Hashes) /\ Len(segments) \in Nat
  BY DEF Typed, TypeOK
<1>2. ASSUME UNCHANGED <<blob, req, ops, rows, restores>>, inst' \in [Instances -> Pass],
             objects' \subseteq Keys, faults' \in 0..MaxFaults
      PROVE  Typed'
  BY <1>1, <1>2 DEF Typed, TypeOK, Offsets, Exists, blob
<1>3. objects \subseteq Keys /\ faults \in 0..MaxFaults
      /\ (faults < MaxFaults => faults + 1 \in 0..MaxFaults)
  BY <1>1, BlobAssumption DEF TypeOK
<1>4. CASE CollectStart(i) \/ MarkNothing(i) \/ PassCrashes(i)
  <2>1. [IdlePass EXCEPT !.pc = "mark"] \in Pass
    BY IdleType DEF Pass
  <2>2. inst' \in [Instances -> Pass]
    BY <1>1, <1>4, <2>1, IdleType DEF CollectStart, MarkNothing, PassCrashes
  <2> QED BY <1>2, <1>3, <1>4, <2>2 DEF CollectStart, MarkNothing, PassCrashes, counts
<1>5. CASE MarkBlob(i)
  <2>1. KeysOf(segments) \in Seq(Keys)
    BY <1>1, KeysOfType DEF TypeOK
  <2>2. [inst[i] EXCEPT !.pc = "delete", !.todo = KeysOf(segments)] \in Pass
    BY <1>1, <2>1 DEF Pass
  <2>3. inst' \in [Instances -> Pass]
    BY <1>1, <1>5, <2>2 DEF MarkBlob
  <2>4. /\ row' \in Row /\ usage_bytes' \in Nat /\ history_bytes' \in Nat
        /\ row'.stored = row.stored /\ row'.complete = row.complete
    <3>1. CASE row.marked
      BY <1>1, <1>5, <3>1 DEF MarkBlob, TypeOK
    <3>2. CASE ~row.marked
      <4>1. row' = [row EXCEPT !.marked = TRUE] /\ AddUsage(-1, 0)
        BY <1>5, <3>2 DEF MarkBlob
      <4>2. usage_bytes' \in Nat /\ history_bytes' \in Nat
        BY <1>1, <4>1 DEF AddUsage, AtLeast0, TypeOK
      <4> QED BY <1>1, <4>1, <4>2 DEF Row
    <3> QED BY <3>1, <3>2
  <2> QED BY <1>1, <1>5, <2>3, <2>4 DEF MarkBlob, Typed, TypeOK, Offsets, Exists, counts
<1>6. CASE CollectDeletes(i) \/ CollectFails(i)
  <2>1. inst[i].todo \in Seq(Keys) /\ inst[i].todo # <<>>
    BY <1>1, <1>6 DEF CollectDeletes, CollectFails, Pass
  <2>2. /\ [inst[i] EXCEPT !.todo = Tail(@)] \in Pass
        /\ [[inst[i] EXCEPT !.todo = Tail(@)] EXCEPT !.gone = FALSE] \in Pass
    BY <1>1, <2>1, TailType DEF Pass
  <2>3. inst' \in [Instances -> Pass]
    BY <1>1, <1>6, <2>2 DEF CollectDeletes, CollectFails
  <2> QED BY <1>2, <1>3, <1>6, <2>3 DEF CollectDeletes, CollectFails, counts
<1>7. CASE FinishBlob(i)
  <2>1. inst' \in [Instances -> Pass]
    BY <1>1, <1>7, IdleType DEF FinishBlob
  <2>2. CASE Finishes(i)
    <3>1. <<>> \in Seq(Hashes) /\ Len(<<>>) <= Length /\ ~NoRow.stored
      BY BlobAssumption DEF NoRow
    <3> QED BY <1>1, <1>7, <2>1, <2>2, <3>1, NoRowType
            DEF FinishBlob, Typed, TypeOK, Offsets, Exists, counts
  <2>3. CASE ~Finishes(i)
    BY <1>1, <1>7, <2>1, <2>3 DEF FinishBlob, Typed, TypeOK, Offsets, Exists, counts
  <2> QED BY <2>2, <2>3
<1> QED BY <1>4, <1>5, <1>6, <1>7 DEF CollectorSteps

\* Sets of operations are finite.
LEMMA OpsFinite ==
    ASSUME TypeOK, NEW S \in SUBSET live
    PROVE  /\ IsFiniteSet(S) /\ Cardinality(S) \in Nat
           /\ IsFiniteSet(live) /\ Cardinality(live) \in Nat
           /\ Cardinality(live \ S) = Cardinality(live) - Cardinality(S)
<1>1. ops \in Int /\ live \subseteq 1..ops
  BY DEF TypeOK
<1>2. IsFiniteSet(1..ops)
  BY <1>1, FS_Interval
<1>3. IsFiniteSet(live) /\ IsFiniteSet(S)
  BY <1>1, <1>2, FS_Subset
<1>4. Cardinality(live) \in Nat /\ Cardinality(S) \in Nat
  BY <1>3, FS_CardinalityType
<1>5. live \cap S = S
  OBVIOUS
<1>6. Cardinality(live \ S) = Cardinality(live) - Cardinality(live \cap S)
  BY <1>3, FS_Difference
<1> QED BY <1>3, <1>4, <1>5, <1>6

LEMMA OtherTyped ==
    ASSUME Typed,
           \/ \E d \in Devices : Create(d)
           \/ ListingPush \/ CoveringPush \/ (\E op \in Ops : PruneListing(op))
           \/ TimePasses \/ Restore
    PROVE  Typed'
<1>1. /\ TypeOK /\ Offsets /\ row \in Row /\ segments \in Seq(Hashes) /\ Len(segments) \in Nat
      /\ Length \in Nat \ {0} /\ MaxOps \in Nat /\ MaxRows \in Nat /\ MaxRestores \in Nat
      /\ ops \in Nat /\ rows \in Nat /\ restores \in Nat
  BY BlobAssumption DEF Typed, TypeOK
<1>2. ASSUME NEW d \in Devices, Create(d)
      PROVE  Typed'
  <2>1. row' \in Row
    BY <1>2, NoRowType DEF Create, Row, DeleteAfter
  <2>2. usage_bytes' \in Nat /\ history_bytes' \in Nat
    <3>1. AddUsage(1, 0)
      BY <1>2 DEF Create
    <3> QED BY <1>1, <3>1 DEF AddUsage, AtLeast0, TypeOK
  <2>3. segments' = <<>> /\ Len(segments') < Length /\ rows' \in 0..MaxRows
    <3>1. segments = <<>> /\ segments' = segments
      BY <1>1, <1>2 DEF Create, Offsets
    <3>2. rows < MaxRows /\ rows' = rows + 1
      BY <1>2 DEF Create
    <3>3. Len(<<>>) = 0
      OBVIOUS
    <3> QED BY <1>1, <3>1, <3>2, <3>3
  <2> QED BY <1>1, <1>2, <2>1, <2>2, <2>3 DEF Create, Typed, TypeOK, Offsets, Exists
<1>4. CASE ListingPush
  <2>1. PICK left \in SUBSET live :
            LET n == Cardinality(left)
                gone == Meets0(row.live_listings + 1, n)
            IN /\ AddUsage(BroughtBack - gone, gone - BroughtBack)
               /\ row' = [row EXCEPT !.live_listings = @ + 1 - n, !.delete_after = "never"]
               /\ live' = (live \ left) \cup {ops + 1}
    BY <1>4 DEF ListingPush
  <2> DEFINE n == Cardinality(left)
             gone == Meets0(row.live_listings + 1, n)
  <2>2. /\ AddUsage(BroughtBack - gone, gone - BroughtBack)
        /\ row' = [row EXCEPT !.live_listings = @ + 1 - n, !.delete_after = "never"]
        /\ live' = (live \ left) \cup {ops + 1}
    BY <2>1
  <2>3. n \in Nat /\ gone \in 0..1 /\ BroughtBack \in 0..1
    <3>1. n \in Nat
      BY <1>1, OpsFinite
    <3>2. BroughtBack \in 0..1
      BY DEF BroughtBack
    <3> QED BY <3>1, <3>2, Meets0Type
  <2> HIDE DEF n, gone
  <2>4. usage_bytes' \in Nat /\ history_bytes' \in Nat
    <3> DEFINE u == BroughtBack - gone
               h == gone - BroughtBack
    <3>1. u \in Int /\ h \in Int /\ AddUsage(u, h)
      BY <2>2, <2>3
    <3> HIDE DEF u, h
    <3> QED BY <1>1, <3>1 DEF AddUsage, AtLeast0, TypeOK
  <2>5. row' \in Row /\ row'.stored = row.stored /\ row'.complete = row.complete
    <3>1. row.live_listings + 1 - n \in Int
      BY <1>1, <2>3 DEF Row
    <3> QED BY <1>1, <2>2, <3>1 DEF Row, DeleteAfter
  <2>6. listings' \subseteq 1..ops' /\ live' \subseteq listings' /\ ops' \in 0..MaxOps
    <3>1. /\ listings' = listings \cup {ops + 1} /\ ops' = ops + 1 /\ ops < MaxOps
          /\ listings \subseteq 1..ops /\ live \subseteq listings
      BY <1>1, <1>4 DEF ListingPush, TypeOK
    <3> QED BY <1>1, <2>2, <3>1
  <2> QED BY <1>1, <1>4, <2>4, <2>5, <2>6 DEF ListingPush, Typed, TypeOK, Offsets, Exists
<1>5. CASE CoveringPush
  <2>1. PICK left \in SUBSET live :
            LET n == Cardinality(left)
                gone == Meets0(row.live_listings, n)
            IN /\ AddUsage(-gone, gone)
               /\ row' = [row EXCEPT !.live_listings = @ - n]
               /\ live' = live \ left
    BY <1>5 DEF CoveringPush
  <2> DEFINE n == Cardinality(left)
             gone == Meets0(row.live_listings, n)
  <2>2. /\ AddUsage(-gone, gone)
        /\ row' = [row EXCEPT !.live_listings = @ - n]
        /\ live' = live \ left
    BY <2>1
  <2>3. n \in Nat /\ gone \in 0..1
    <3>1. n \in Nat
      BY <1>1, OpsFinite
    <3> QED BY <3>1, Meets0Type
  <2> HIDE DEF n, gone
  <2>4. usage_bytes' \in Nat /\ history_bytes' \in Nat
    <3>1. usage_bytes \in Nat /\ history_bytes \in Nat
      BY <1>1 DEF TypeOK
    <3>2. /\ usage_bytes' = AtLeast0(usage_bytes + (-gone))
          /\ history_bytes' = AtLeast0(history_bytes + gone)
      BY <2>2 DEF AddUsage
    <3>3. usage_bytes + (-gone) \in Int /\ history_bytes + gone \in Int
      BY <2>3, <3>1
    <3> QED BY <3>2, <3>3 DEF AtLeast0
  <2>5. row' \in Row /\ row'.stored = row.stored /\ row'.complete = row.complete
    BY <1>1, <2>2, <2>3 DEF Row
  <2> QED BY <1>1, <1>5, <2>2, <2>4, <2>5
          DEF CoveringPush, Typed, TypeOK, Offsets, Exists, counts
<1>6. ASSUME NEW op \in Ops, PruneListing(op)
      PROVE  Typed'
  <2>1. /\ row' \in Row /\ usage_bytes' \in Nat /\ history_bytes' \in Nat
        /\ row'.stored = row.stored /\ row'.complete = row.complete
    <3>1. CASE listings' = {}
      <4>1. AddUsage(1, -1) /\ row' = [row EXCEPT !.delete_after = "past"]
        BY <1>6, <3>1 DEF PruneListing
      <4>2. usage_bytes' \in Nat /\ history_bytes' \in Nat
        BY <1>1, <4>1 DEF AddUsage, AtLeast0, TypeOK
      <4> QED BY <1>1, <4>1, <4>2 DEF Row, DeleteAfter
    <3>2. CASE listings' # {}
      BY <1>1, <1>6, <3>2 DEF PruneListing, TypeOK
    <3> QED BY <3>1, <3>2
  <2> QED BY <1>1, <1>6, <2>1 DEF PruneListing, Typed, TypeOK, Offsets, Exists, counts
<1>7. CASE TimePasses
  <2>1. row' \in Row /\ row'.stored = row.stored /\ row'.complete = row.complete
    BY <1>1, <1>7 DEF TimePasses, Row, DeleteAfter
  <2> QED BY <1>1, <1>7, <2>1 DEF TimePasses, Typed, TypeOK, Offsets, Exists, counts
<1>8. CASE Restore
  <2>1. objects' \subseteq Keys /\ CheckBlob(objects')
    BY <1>1, <1>8 DEF Restore, TypeOK
  <2>2. /\ row' \in Row /\ segments' \in Seq(Hashes) /\ Len(segments') <= Length
        /\ (~row'.stored => segments' = <<>>)
        /\ (row'.stored /\ ~row'.complete => Len(segments') < Length)
    <3>1. CASE Unmarked /\ ~(Recorded \subseteq objects')
      <4>1. /\ segments' = <<>>
            /\ row' = [row EXCEPT !.complete = FALSE,
                                  !.delete_after = IF Listed THEN "never" ELSE "later"]
        BY <2>1, <3>1 DEF CheckBlob
      <4>2. row' \in Row /\ row'.stored = row.stored
        BY <1>1, <4>1 DEF Row, DeleteAfter
      <4>3. segments' \in Seq(Hashes) /\ Len(segments') = 0
        BY <4>1
      <4> QED BY <1>1, <4>1, <4>2, <4>3
    <3>2. CASE ~(Unmarked /\ ~(Recorded \subseteq objects'))
      <4>1. segments' = segments
        BY <2>1, <3>2 DEF CheckBlob
      <4>2. row' = row \/ row' = [row EXCEPT !.delete_after = "later"]
        BY <2>1, <3>2 DEF CheckBlob
      <4>3. row' \in Row /\ row'.stored = row.stored /\ row'.complete = row.complete
        BY <1>1, <4>2 DEF Row, DeleteAfter
      <4> QED BY <1>1, <4>1, <4>3 DEF Offsets, Exists, TypeOK
    <3> QED BY <3>1, <3>2
  <2>3. req' \in [Requests -> Request] /\ inst' \in [Instances -> Pass]
    BY <1>8, IdleType DEF Restore
  <2>4. restores' \in 0..MaxRestores
    BY <1>1, <1>8 DEF Restore
  <2> QED BY <1>1, <1>8, <2>1, <2>2, <2>3, <2>4 DEF Restore, Typed, TypeOK, Offsets, Exists
<1> QED BY <1>2, <1>4, <1>5, <1>6, <1>7, <1>8

LEMMA NextTyped == Typed /\ [Next]_vars => Typed'
<1> SUFFICES ASSUME Typed, [Next]_vars PROVE Typed'
  OBVIOUS
<1>1. CASE UNCHANGED vars
  BY <1>1 DEF vars, blob, counts, Typed, TypeOK, Offsets, Exists
<1>2. CASE Next
  BY <1>2, RequestTyped, CollectorTyped, OtherTyped DEF Next
<1> QED BY <1>1, <1>2

\* The variables of BlobUploads keep their types, and an upload that is not
\* complete always has a next segment.
THEOREM TypeCorrect == Spec => []Typed
BY InitTyped, NextTyped, PTL DEF Spec

-----------------------------------------------------------------------------
(* Steps, by what they do to the row, its listings and the counters.       *)

\* Nothing that the counters count.
Quiet ==
    /\ UNCHANGED <<listings, live, usage_bytes, history_bytes>>
    /\ row'.stored = row.stored /\ row'.marked = row.marked
    /\ row'.live_listings = row.live_listings

\* An upload that no operation lists goes, or the collector marks it: either
\* way its usage is freed once.
Freed ==
    /\ Unmarked /\ ~Listed
    /\ UNCHANGED <<listings, live>> /\ AddUsage(-1, 0)
    /\ row' = NoRow \/ row' = [row EXCEPT !.marked = TRUE]

\* A marked row goes.
Gone == row.marked /\ row' = NoRow /\ UNCHANGED <<listings, live, usage_bytes, history_bytes>>

\* A discard frees an unlisted upload and keeps a listed one.
LEMMA DiscardKind ==
    ASSUME Typed, Unmarked, Discard, UNCHANGED <<listings, live>>
    PROVE  Quiet \/ Freed
<1>1. row \in Row
  BY DEF Typed, TypeOK
<1>2. CASE Listed
  BY <1>1, <1>2 DEF Discard, Quiet, Row
<1>3. CASE ~Listed
  BY <1>3 DEF Discard, Freed
<1> QED BY <1>2, <1>3

LEMMA RequestKind ==
    ASSUME Typed, NEW p \in Requests, RequestSteps(p)
    PROVE  Quiet \/ Freed
<1>1. row \in Row
  BY DEF Typed, TypeOK
<1>2. CASE UNCHANGED blob
  BY <1>2 DEF blob, Quiet
<1>3. ASSUME NEW d \in Devices, Abandon(p, d)
      PROVE  Quiet \/ Freed
  BY <1>3, DiscardKind DEF Abandon, OwnUpload
<1>4. CASE PatchRecord(p)
  <2>1. CASE RecordSegment(p)
    BY <1>1, <1>4, <2>1 DEF PatchRecord, RecordSegment, Quiet, Row
  <2>2. CASE DiscardUpload(p)
    BY <1>4, <2>2, DiscardKind DEF PatchRecord, DiscardUpload, Appends, OwnUpload
  <2> QED BY <1>4, <2>1, <2>2 DEF PatchRecord
<1> QED BY <1>2, <1>3, <1>4
        DEF RequestSteps, PatchStart, PatchPut, PatchDomain, PatchRefused, PatchFails, PatchJudge,
            RequestDeletes, RequestEnds, RequestDropped

LEMMA CollectorKind ==
    ASSUME Typed, NEW i \in Instances, CollectorSteps(i)
    PROVE  Quiet \/ Freed \/ Gone
<1>1. row \in Row
  BY DEF Typed, TypeOK
<1>2. CASE UNCHANGED blob
  BY <1>2 DEF blob, Quiet
<1>3. CASE MarkBlob(i)
  BY <1>1, <1>3 DEF MarkBlob, Marks, Quiet, Freed, Unmarked, Exists
<1>4. CASE FinishBlob(i)
  BY <1>1, <1>4 DEF FinishBlob, Finishes, Quiet, Gone
<1> QED BY <1>2, <1>3, <1>4
        DEF CollectorSteps, CollectStart, MarkNothing, CollectDeletes, CollectFails, PassCrashes

LEMMA RestoreKind ==
    ASSUME Typed, Restore \/ TimePasses
    PROVE  Quiet
<1>1. row \in Row
  BY DEF Typed, TypeOK
<1>2. CASE TimePasses
  BY <1>1, <1>2 DEF TimePasses, Quiet, Row
<1>3. CASE Restore
  <2>1. CheckBlob(objects') /\ UNCHANGED <<listings, live, usage_bytes, history_bytes>>
    BY <1>3 DEF Restore
  <2>2. /\ row'.stored = row.stored /\ row'.marked = row.marked
        /\ row'.live_listings = row.live_listings
    <3>1. CASE Unmarked /\ ~(Recorded \subseteq objects')
      <4>1. row' = [row EXCEPT !.complete = FALSE,
                               !.delete_after = IF Listed THEN "never" ELSE "later"]
        BY <2>1, <3>1 DEF CheckBlob
      <4> QED BY <1>1, <4>1 DEF Row
    <3>2. CASE ~(Unmarked /\ ~(Recorded \subseteq objects'))
      <4>1. row' = row \/ row' = [row EXCEPT !.delete_after = "later"]
        BY <2>1, <3>2 DEF CheckBlob
      <4> QED BY <1>1, <4>1 DEF Row
    <3> QED BY <3>1, <3>2
  <2> QED BY <2>1, <2>2 DEF Quiet
<1> QED BY <1>2, <1>3

LEMMA StepKinds ==
    ASSUME Typed, [Next]_vars
    PROVE  \/ Quiet \/ Freed \/ Gone
           \/ \E d \in Devices : Create(d)
           \/ ListingPush \/ CoveringPush \/ (\E op \in Ops : PruneListing(op))
<1>1. CASE UNCHANGED vars
  BY <1>1 DEF vars, blob, Quiet
<1>2. CASE Next
  BY <1>2, RequestKind, CollectorKind, RestoreKind DEF Next
<1> QED BY <1>1, <1>2

-----------------------------------------------------------------------------
(* A listed blob is kept.                                                  *)

LEMMA NextListed ==
    ASSUME Typed, ListedKept, [Next]_vars
    PROVE  ListedKept'
<1>1. row \in Row
  BY DEF Typed, TypeOK
<1>2. CASE Quiet
  BY <1>2 DEF Quiet, ListedKept, Listed, Unmarked
<1>3. CASE Freed
  BY <1>3 DEF Freed, ListedKept, Listed
<1>4. CASE Gone
  BY <1>4 DEF Gone, ListedKept, Listed, Unmarked
<1>5. ASSUME NEW d \in Devices, Create(d)
      PROVE  ListedKept'
  BY <1>5 DEF Create, ListedKept, Listed, Unmarked, Exists
<1>6. CASE ListingPush
  <2>1. row'.stored = row.stored /\ row'.marked = row.marked
    BY <1>1, <1>6 DEF ListingPush, Row
  <2> QED BY <1>6, <2>1 DEF ListingPush, Listable, ListedKept, Unmarked
<1>7. CASE CoveringPush
  <2>1. row'.stored = row.stored /\ row'.marked = row.marked
    BY <1>1, <1>7 DEF CoveringPush, Row
  <2> QED BY <1>7, <2>1 DEF CoveringPush, ListedKept, Listed, Unmarked
<1>8. ASSUME NEW op \in Ops, PruneListing(op)
      PROVE  ListedKept'
  <2>1. row'.stored = row.stored /\ row'.marked = row.marked
    BY <1>1, <1>8 DEF PruneListing, Row
  <2> QED BY <1>8, <2>1 DEF PruneListing, ListedKept, Listed, Unmarked
<1> QED BY <1>2, <1>3, <1>4, <1>5, <1>6, <1>7, <1>8, StepKinds

LEMMA InitListed == Init => ListedKept
BY DEF Init, ListedKept, Listed

\* Whatever pushes, uploads, collectors and restores do to a blob at once, one
\* that an operation lists keeps its row and is not marked for collection.
THEOREM ListedKeptHolds == Spec => []ListedKept
<1>1. Init => Typed /\ ListedKept
  BY InitTyped, InitListed
<1>2. Typed /\ ListedKept /\ [Next]_vars => Typed' /\ ListedKept'
  BY NextTyped, NextListed
<1> QED BY <1>1, <1>2, PTL DEF Spec

-----------------------------------------------------------------------------
(* The counters.                                                           *)

LEMMA EmptyCount == Cardinality({}) = 0
BY FS_EmptySet

\* No live listing and a count of 0 are the same.
LEMMA LiveCount ==
    ASSUME TypeOK, CountersExact
    PROVE  /\ row.live_listings \in Nat /\ row.live_listings = Cardinality(live)
           /\ (live = {} <=> row.live_listings = 0)
<1>1. live \in SUBSET live
  OBVIOUS
<1>2. IsFiniteSet(live) /\ Cardinality(live) \in Nat
  BY <1>1, OpsFinite
<1>3. Cardinality(live) = 0 <=> live = {}
  BY <1>2, FS_EmptySet
<1> QED BY <1>2, <1>3 DEF CountersExact

LEMMA NextCounters ==
    ASSUME Typed, ListedKept, CountersExact, [Next]_vars
    PROVE  CountersExact'
<1>1. /\ TypeOK /\ row \in Row /\ live \subseteq listings
      /\ usage_bytes \in Nat /\ history_bytes \in Nat
  BY DEF Typed, TypeOK
<1>2. /\ row.live_listings \in Nat /\ row.live_listings = Cardinality(live)
      /\ (live = {} <=> row.live_listings = 0)
  BY <1>1, LiveCount
<1>3. CASE Quiet
  BY <1>3 DEF Quiet, CountersExact, Unmarked, Listed
<1>4. CASE Freed
  <2>1. live = {} /\ usage_bytes = 1 /\ history_bytes = 0
    BY <1>1, <1>4 DEF Freed, CountersExact, Listed
  <2>2. usage_bytes' = 0 /\ history_bytes' = 0
    BY <1>4, <2>1 DEF Freed, AddUsage, AtLeast0
  <2>3. row'.live_listings = 0 /\ ~(row'.stored /\ ~row'.marked)
    BY <1>1, <1>2, <1>4, <2>1 DEF Freed, NoRow, Row
  <2> QED BY <1>2, <1>4, <2>1, <2>2, <2>3 DEF Freed, CountersExact, Unmarked, Listed
<1>5. CASE Gone
  <2>1. listings = {} /\ live = {} /\ usage_bytes = 0 /\ history_bytes = 0
    BY <1>1, <1>5 DEF Gone, ListedKept, CountersExact, Listed, Unmarked
  <2>2. row'.live_listings = 0 /\ ~row'.stored
    BY <1>5 DEF Gone, NoRow
  <2> QED BY <1>5, <2>1, <2>2, EmptyCount DEF Gone, CountersExact, Unmarked, Listed
<1>6. ASSUME NEW d \in Devices, Create(d)
      PROVE  CountersExact'
  <2>1. listings = {} /\ live = {} /\ usage_bytes = 0 /\ history_bytes = 0
    BY <1>1, <1>6 DEF Create, Exists, ListedKept, CountersExact, Listed, Unmarked
  <2>2. AddUsage(1, 0) /\ listings' = {} /\ live' = {}
    BY <1>6, <2>1 DEF Create
  <2>3. usage_bytes' = 1 /\ history_bytes' = 0
    BY <2>1, <2>2 DEF AddUsage, AtLeast0
  <2>4. row'.live_listings = 0 /\ row'.stored /\ ~row'.marked
    BY <1>6 DEF Create, NoRow
  <2> QED BY <2>2, <2>3, <2>4, EmptyCount DEF CountersExact, Unmarked, Listed
<1>7. CASE ListingPush
  <2>1. PICK left \in SUBSET live :
            LET n == Cardinality(left)
                gone == Meets0(row.live_listings + 1, n)
            IN /\ AddUsage(BroughtBack - gone, gone - BroughtBack)
               /\ row' = [row EXCEPT !.live_listings = @ + 1 - n, !.delete_after = "never"]
               /\ live' = (live \ left) \cup {ops + 1}
    BY <1>7 DEF ListingPush
  <2> DEFINE n == Cardinality(left)
             gone == Meets0(row.live_listings + 1, n)
  <2>2. /\ AddUsage(BroughtBack - gone, gone - BroughtBack)
        /\ row' = [row EXCEPT !.live_listings = @ + 1 - n, !.delete_after = "never"]
        /\ live' = (live \ left) \cup {ops + 1}
    BY <2>1
  <2>3. /\ n \in Nat /\ Cardinality(live \ left) = row.live_listings - n
        /\ Cardinality(live \ left) \in Nat /\ IsFiniteSet(live \ left)
    <3>1. IsFiniteSet(live \ left)
      BY <1>1, OpsFinite
    <3>2. Cardinality(live \ left) \in Nat
      BY <3>1, FS_CardinalityType
    <3> QED BY <1>1, <1>2, <3>1, <3>2, OpsFinite
  <2>4. gone = 0
    <3> DEFINE c == row.live_listings + 1
    <3>1. c - n > 0 /\ c - n \in Int /\ c - 1 \in Int
      BY <1>2, <2>3
    <3> HIDE DEF c
    <3>2. 0 \notin (c - n)..(c - 1)
      BY <3>1
    <3>3. Meets0(c, n) = 0
      BY <3>2 DEF Meets0
    <3> QED BY <3>3 DEF c
  <2> HIDE DEF n, gone
  <2>5. ops + 1 \notin listings
    BY <1>1 DEF TypeOK
  <2>6. Cardinality(live') = row.live_listings - n + 1
    <3>1. ops + 1 \notin live \ left
      BY <1>1, <2>5
    <3> QED BY <2>2, <2>3, <3>1, FS_AddElement
  <2>7. /\ row'.live_listings = Cardinality(live')
        /\ row'.stored = row.stored /\ row'.marked = row.marked
    BY <1>1, <1>2, <2>2, <2>3, <2>6 DEF Row
  <2>8. Unmarked /\ Unmarked' /\ listings' # {} /\ live' # {}
    BY <1>7, <2>2, <2>7 DEF ListingPush, Listable, Unmarked
  <2>9. usage_bytes' = 1 /\ history_bytes' = 0
    <3>1. usage_bytes' = AtLeast0(usage_bytes + BroughtBack)
          /\ history_bytes' = AtLeast0(history_bytes - BroughtBack)
      BY <1>1, <2>2, <2>4 DEF AddUsage, BroughtBack
    <3>2. CASE Listed /\ live = {}
      <4>1. BroughtBack = 1 /\ usage_bytes = 0 /\ history_bytes = 1
        BY <1>2, <3>2 DEF BroughtBack, CountersExact
      <4> QED BY <3>1, <4>1 DEF AtLeast0
    <3>3. CASE ~(Listed /\ live = {})
      <4>1. BroughtBack = 0 /\ usage_bytes = 1 /\ history_bytes = 0
        BY <1>2, <2>8, <3>3 DEF BroughtBack, CountersExact
      <4> QED BY <3>1, <4>1 DEF AtLeast0
    <3> QED BY <3>2, <3>3
  <2> QED BY <2>7, <2>8, <2>9 DEF CountersExact, Listed
<1>8. CASE CoveringPush
  <2>1. PICK left \in (SUBSET live) \ {{}} :
            LET n == Cardinality(left)
                gone == Meets0(row.live_listings, n)
            IN /\ AddUsage(-gone, gone)
               /\ row' = [row EXCEPT !.live_listings = @ - n]
               /\ live' = live \ left
    BY <1>8 DEF CoveringPush
  <2> DEFINE n == Cardinality(left)
             gone == Meets0(row.live_listings, n)
  <2>2. /\ AddUsage(-gone, gone)
        /\ row' = [row EXCEPT !.live_listings = @ - n]
        /\ live' = live \ left
    BY <2>1
  <2>3. /\ n \in Nat /\ Cardinality(live \ left) = row.live_listings - n
        /\ Cardinality(live \ left) \in Nat
        /\ (live \ left = {} <=> Cardinality(live \ left) = 0) /\ n > 0
    <3>1. IsFiniteSet(live \ left) /\ IsFiniteSet(left)
      BY <1>1, OpsFinite
    <3>2. Cardinality(live \ left) \in Nat /\ n \in Nat
      BY <3>1, FS_CardinalityType
    <3>3. live \ left = {} <=> Cardinality(live \ left) = 0
      BY <3>1, FS_EmptySet
    <3>4. n # 0
      BY <3>1, FS_EmptySet
    <3> QED BY <1>1, <1>2, <3>2, <3>3, <3>4, OpsFinite
  <2>4. gone = (IF live' = {} THEN 1 ELSE 0)
    <3>1. 0 \in (row.live_listings - n)..(row.live_listings - 1) <=> live' = {}
      BY <1>2, <2>2, <2>3
    <3> QED BY <3>1 DEF Meets0
  <2> HIDE DEF n, gone
  <2>5. /\ row'.live_listings = Cardinality(live')
        /\ row'.stored = row.stored /\ row'.marked = row.marked
    BY <1>1, <1>2, <2>2, <2>3 DEF Row
  <2>6. Listed /\ live # {} /\ listings' = listings /\ Unmarked
    BY <1>1, <1>8, <2>1 DEF CoveringPush, Listed, ListedKept
  <2>7. usage_bytes = 1 /\ history_bytes = 0
    BY <2>6 DEF CountersExact
  <2>8. usage_bytes' = 1 - gone /\ history_bytes' = gone
    BY <2>2, <2>4, <2>7 DEF AddUsage, AtLeast0
  <2> QED BY <2>4, <2>5, <2>6, <2>8 DEF CountersExact, Listed, Unmarked
<1>9. ASSUME NEW op \in Ops, PruneListing(op)
      PROVE  CountersExact'
  <2>1. op \in listings \ live /\ listings' = listings \ {op} /\ live' = live
    BY <1>9 DEF PruneListing
  <2>2. Listed /\ Unmarked
    BY <2>1 DEF Listed, ListedKept
  <2>3. row'.stored = row.stored /\ row'.marked = row.marked
        /\ row'.live_listings = row.live_listings
    BY <1>1, <1>9 DEF PruneListing, Row
  <2>4. CASE listings' = {}
    <3>1. live = {} /\ AddUsage(1, -1)
      BY <1>1, <1>9, <2>1, <2>4 DEF PruneListing
    <3>2. usage_bytes = 0 /\ history_bytes = 1
      BY <2>2, <3>1 DEF CountersExact
    <3>3. usage_bytes' = 1 /\ history_bytes' = 0
      BY <3>1, <3>2 DEF AddUsage, AtLeast0
    <3> QED BY <1>2, <2>1, <2>2, <2>3, <2>4, <3>1, <3>3 DEF CountersExact, Listed, Unmarked
  <2>5. CASE listings' # {}
    <3>1. UNCHANGED <<usage_bytes, history_bytes>>
      BY <1>9, <2>5 DEF PruneListing
    <3> QED BY <1>2, <2>1, <2>2, <2>3, <2>5, <3>1 DEF CountersExact, Listed, Unmarked
  <2> QED BY <2>4, <2>5
<1> QED BY <1>3, <1>4, <1>5, <1>6, <1>7, <1>8, <1>9, StepKinds

LEMMA InitCounters == Init => CountersExact
BY EmptyCount DEF Init, NoRow, CountersExact, Unmarked, Listed

\* The quota's counters hold what the rows say of a blob in every reachable
\* state: no order of uploads, listings, covers, pruning, marks, mismatches,
\* failures and restores counts it twice or forgets it.
THEOREM CountersExactHolds == Spec => []CountersExact
<1>1. Init => Typed /\ ListedKept /\ CountersExact
  BY InitTyped, InitListed, InitCounters
<1>2. /\ Typed /\ ListedKept /\ CountersExact /\ [Next]_vars
      => Typed' /\ ListedKept' /\ CountersExact'
  BY NextTyped, NextListed, NextCounters
<1> QED BY <1>1, <1>2, PTL DEF Spec

-----------------------------------------------------------------------------
(* What a complete upload holds.                                           *)

\* The segments stay and the row with them.
Steady ==
    /\ UNCHANGED segments
    /\ row'.stored = row.stored /\ row'.complete = row.complete /\ (row.marked => row'.marked)

\* An upload starts over, or its row comes or goes.
Emptied == segments' = <<>> /\ ~row'.complete

LEMMA SegmentKinds ==
    ASSUME Typed, [Next]_vars
    PROVE  Steady \/ Emptied \/ \E p \in Requests : PatchRecord(p) /\ RecordSegment(p)
<1>1. row \in Row /\ ~NoRow.complete
  BY DEF Typed, TypeOK, NoRow
<1>2. CASE UNCHANGED blob
  BY <1>2 DEF blob, Steady
<1>3. CASE Discard
  BY <1>1, <1>3 DEF Discard, Emptied, Row
<1>4. ASSUME NEW d \in Devices, Create(d)
      PROVE  Emptied
  BY <1>1, <1>4 DEF Create, Emptied, NoRow, Typed, Offsets
<1>5. CASE ListingPush \/ CoveringPush \/ (\E op \in Ops : PruneListing(op)) \/ TimePasses
  BY <1>1, <1>5 DEF ListingPush, CoveringPush, PruneListing, TimePasses, Steady, Row
<1>6. ASSUME NEW i \in Instances, MarkBlob(i) \/ FinishBlob(i)
      PROVE  Steady \/ Emptied
  BY <1>1, <1>6 DEF MarkBlob, FinishBlob, Steady, Emptied, Row
<1>7. CASE Restore
  <2>1. CheckBlob(objects')
    BY <1>7 DEF Restore
  <2> QED BY <1>1, <2>1 DEF CheckBlob, Steady, Emptied, Row
<1>8. CASE \E p \in Requests : RequestSteps(p)
  BY <1>2, <1>3, <1>8
     DEF RequestSteps, PatchStart, Abandon, PatchPut, PatchDomain, PatchRecord, DiscardUpload,
         PatchRefused, PatchFails, PatchJudge, RequestDeletes, RequestEnds, RequestDropped
<1>9. CASE \E i \in Instances : CollectorSteps(i)
  BY <1>2, <1>6, <1>9
     DEF CollectorSteps, CollectStart, MarkNothing, CollectDeletes, CollectFails, PassCrashes
<1>10. CASE UNCHANGED vars
  BY <1>2, <1>10 DEF vars
<1> QED BY <1>4, <1>5, <1>7, <1>8, <1>9, <1>10 DEF Next

LEMMA NextMatches ==
    ASSUME Typed, CompleteMatches, [Next]_vars
    PROVE  CompleteMatches'
<1>1. CASE Steady
  BY <1>1 DEF Steady, CompleteMatches, Exists
<1>2. CASE Emptied
  BY <1>2 DEF Emptied, CompleteMatches
<1>3. ASSUME NEW p \in Requests, PatchRecord(p), RecordSegment(p)
      PROVE  CompleteMatches'
  <2>1. /\ row \in Row /\ segments \in Seq(Hashes) /\ req[p].hash \in Hashes
        /\ Length \in Nat \ {0} /\ Len(segments) \in Nat
    BY BlobAssumption DEF Typed, TypeOK, Request
  <2>2. /\ ~row.complete /\ req[p].index = Len(segments) + 1
        /\ segments' = Append(segments, req[p].hash)
        /\ Completes(p) => Matches(p)
    <3>1. Appends(p) /\ RecordSegment(p)
      BY <1>3 DEF PatchRecord
    <3>2. ~(Completes(p) => Matches(p)) => DiscardUpload(p)
      BY <1>3 DEF PatchRecord
    <3>3. ~DiscardUpload(p)
      <4>1. DiscardUpload(p) => segments' = <<>>
        BY DEF DiscardUpload, Discard
      <4>2. segments' = Append(segments, req[p].hash)
        BY <3>1 DEF RecordSegment
      <4>3. Append(segments, req[p].hash) # <<>>
        BY <2>1
      <4> QED BY <4>1, <4>2, <4>3
    <3> QED BY <3>1, <3>2, <3>3 DEF Appends, RecordSegment
  <2>3. CASE Completes(p)
    <3>1. Len(segments') = Length
      BY <2>1, <2>2, <2>3 DEF Completes
    <3>2. \A i \in 1..Length : segments'[i] = "digest"
      BY <2>2, <2>3 DEF Matches
    <3> QED BY <3>1, <3>2 DEF CompleteMatches
  <2>4. CASE ~Completes(p)
    BY <1>3, <2>2, <2>4 DEF RecordSegment, CompleteMatches
  <2> QED BY <2>3, <2>4
<1> QED BY <1>1, <1>2, <1>3, SegmentKinds

\* An upload that is complete holds what its digest commits to, however many
\* requests append to it, collectors and restores take it back or rivals
\* record its segments.
THEOREM MatchesHold == Spec => []CompleteMatches
<1>1. Init => CompleteMatches
  BY DEF Init, CompleteMatches, Exists, NoRow
<1>2. Typed /\ CompleteMatches /\ [Next]_vars => CompleteMatches'
  BY NextMatches
<1> QED BY <1>1, <1>2, TypeCorrect, PTL DEF Spec

-----------------------------------------------------------------------------
(* One request and one collector at a time: what the blob store holds.     *)

OneRequest == \A p, q \in Requests : p = q
OneCollector == \A i, j \in Instances : i = j

Todo(todo) == {todo[j] : j \in DOMAIN todo}

\* A request appends after the recorded segments, and what it put stands until
\* it is recorded; it deletes no object of a recorded segment.
RequestHolds ==
    \A p \in Requests :
        /\ req[p].pc \in {"put", "domain", "record", "judge"} => req[p].index > Len(segments)
        /\ req[p].pc \in {"domain", "record"} => Key(p) \in objects
        /\ req[p].pc = "delete" => Todo(req[p].todo) \cap Recorded = {}

\* A collector deletes objects of a marked row; while none of its deletes has
\* failed, the recorded objects that stand are still to be deleted.
CollectorHolds ==
    \A i \in Instances : inst[i].pc = "delete" =>
        /\ row.stored /\ row.marked /\ Todo(inst[i].todo) \subseteq Recorded
        /\ inst[i].gone => Recorded \cap objects \subseteq Todo(inst[i].todo)

Sequential == RequestHolds /\ CollectorHolds /\ RecordedReadable

LEMMA TodoParts ==
    ASSUME NEW todo \in Seq(Keys), todo # <<>>
    PROVE  /\ Head(todo) \in Todo(todo) /\ Todo(Tail(todo)) \subseteq Todo(todo)
           /\ Todo(todo) \subseteq Todo(Tail(todo)) \cup {Head(todo)}
<1>1. /\ Len(todo) \in Nat /\ Len(todo) >= 1 /\ DOMAIN todo = 1..Len(todo)
      /\ Head(todo) = todo[1]
  OBVIOUS
<1>2. /\ DOMAIN Tail(todo) = 1..(Len(todo) - 1)
      /\ \A j \in 1..(Len(todo) - 1) : Tail(todo)[j] = todo[j + 1]
  OBVIOUS
<1>3. Todo(Tail(todo)) \subseteq Todo(todo)
  <2>1. \A j \in 1..(Len(todo) - 1) : j + 1 \in DOMAIN todo
    BY <1>1
  <2> QED BY <1>2, <2>1 DEF Todo
<1>4. Head(todo) \in Todo(todo)
  <2>1. 1 \in DOMAIN todo
    BY <1>1
  <2> QED BY <1>1, <2>1 DEF Todo
<1>5. ASSUME NEW j \in DOMAIN todo
      PROVE  todo[j] \in Todo(Tail(todo)) \cup {Head(todo)}
  <2>1. CASE j = 1
    BY <1>1, <2>1
  <2>2. CASE j # 1
    <3>1. j - 1 \in 1..(Len(todo) - 1) /\ (j - 1) + 1 = j
      BY <1>1, <2>2
    <3>2. Tail(todo)[j - 1] = todo[j]
      BY <1>2, <3>1
    <3> QED BY <1>2, <3>1, <3>2 DEF Todo
  <2> QED BY <2>1, <2>2
<1> QED BY <1>3, <1>4, <1>5 DEF Todo

LEMMA TodoKeys ==
    /\ Todo(<<>>) = {}
    /\ \A k : Todo(<<k>>) = {k}
    /\ Todo(KeysOf(segments)) = Recorded
BY DEF Todo, KeysOf, Recorded

\* The next segment's key is not among those recorded.
LEMMA KeyBeyond ==
    ASSUME Typed, NEW p \in Requests, req[p].index > Len(segments)
    PROVE  Key(p) \notin Recorded
<1>1. req[p].index \in Nat /\ DOMAIN segments = 1..Len(segments) /\ Len(segments) \in Nat
  BY BlobAssumption DEF Typed, TypeOK, Request
<1>2. \A i \in DOMAIN segments : i # req[p].index
  BY <1>1
<1> QED BY <1>2 DEF Recorded, Key

LEMMA RequestStep ==
    ASSUME OneRequest, Typed, Typed', Sequential, NEW p \in Requests, RequestSteps(p)
    PROVE  Sequential'
<1>1. /\ TypeOK /\ req \in [Requests -> Request] /\ req[p] \in Request
      /\ segments \in Seq(Hashes) /\ Len(segments) \in Nat
      /\ row \in Row /\ \A q \in Requests : q = p
  BY DEF Typed, TypeOK, OneRequest
<1>2. UNCHANGED inst
  BY DEF RequestSteps, PatchStart, Abandon, PatchPut, PatchDomain, PatchRecord, PatchRefused,
         PatchFails, PatchJudge, RequestDeletes, RequestEnds, RequestDropped, RecordSegment,
         DiscardUpload
<1>3. /\ req[p].pc \in {"put", "domain", "record", "judge"} =>
            req[p].index > Len(segments) /\ Key(p) \notin Recorded
      /\ req[p].pc \in {"domain", "record"} => Key(p) \in objects
      /\ req[p].pc = "delete" => Todo(req[p].todo) \cap Recorded = {}
  BY KeyBeyond DEF Sequential, RequestHolds
<1>4. ASSUME NEW r \in Request, req' = [req EXCEPT ![p] = r],
             r.pc \in {"put", "domain", "record", "judge"} => r.index > Len(segments'),
             r.pc \in {"domain", "record"} => <<r.index, r.hash>> \in objects',
             r.pc = "delete" => Todo(r.todo) \cap Recorded' = {}
      PROVE  RequestHolds'
  <2>1. \A q \in Requests : req'[q] = r
    BY <1>1, <1>4
  <2> QED BY <1>4, <2>1 DEF RequestHolds, Key
<1>5. IdleRequest \in Request /\ IdleRequest.pc = "idle"
  BY IdleType DEF IdleRequest
<1>6. ASSUME UNCHANGED <<row, segments>>, Recorded \cap objects' \subseteq objects
      PROVE  CollectorHolds'
  BY <1>2, <1>6 DEF Sequential, CollectorHolds, Recorded
<1>7. ASSUME Unmarked
      PROVE  CollectorHolds'
  BY <1>2, <1>7 DEF Sequential, CollectorHolds, Unmarked
<1>8. ASSUME UNCHANGED <<row, segments>>, \A k \in Recorded : k \in objects => k \in objects'
      PROVE  RecordedReadable'
  BY <1>8 DEF Sequential, RecordedReadable, Recorded, Unmarked
<1>9. ASSUME UNCHANGED <<blob, objects>>
      PROVE  CollectorHolds' /\ RecordedReadable' /\ UNCHANGED <<segments, objects>> /\ Recorded' = Recorded
  BY <1>6, <1>8, <1>9 DEF blob, Recorded
<1>10. ASSUME NEW d \in Devices, PatchStart(p, d)
       PROVE  Sequential'
  <2>1. PICK hash \in Hashes :
            req' = [req EXCEPT ![p] = [IdleRequest EXCEPT !.pc = "put", !.device = d,
                                       !.index = Len(segments) + 1, !.hash = hash]]
    BY <1>10 DEF PatchStart
  <2>2. PICK r : r = [IdleRequest EXCEPT !.pc = "put", !.device = d,
                                         !.index = Len(segments) + 1, !.hash = hash]
    OBVIOUS
  <2>3. r \in Request
    <3>1. req' = [req EXCEPT ![p] = r] /\ req' \in [Requests -> Request]
      BY <2>1, <2>2 DEF Typed, TypeOK
    <3>2. req'[p] = r
      BY <1>1, <3>1
    <3> QED BY <3>1, <3>2
  <2>4. r.pc = "put" /\ r.index = Len(segments) + 1
    BY <2>2, IdleType DEF Request
  <2>5. CollectorHolds' /\ RecordedReadable' /\ UNCHANGED segments
    BY <1>9, <1>10 DEF PatchStart
  <2>6. req' = [req EXCEPT ![p] = r] /\ r.index > Len(segments')
    BY <1>1, <2>1, <2>2, <2>4, <2>5
  <2>7. RequestHolds'
    BY <1>4, <2>3, <2>4, <2>6
  <2> QED BY <2>5, <2>7 DEF Sequential
<1>11. CASE PatchPut(p)
  <2>1. PICK r : r = [req[p] EXCEPT !.pc = "domain"]
    OBVIOUS
  <2>2. /\ r \in Request /\ r.pc = "domain" /\ r.index = req[p].index
        /\ <<r.index, r.hash>> = Key(p)
    BY <1>1, <2>1 DEF Request, Key
  <2>3. /\ req' = [req EXCEPT ![p] = r] /\ objects' = objects \cup {Key(p)}
        /\ UNCHANGED <<row, segments>> /\ req[p].pc = "put"
    BY <1>1, <1>11, <2>1 DEF PatchPut, blob
  <2>4. RequestHolds'
    BY <1>3, <1>4, <2>2, <2>3
  <2>5. CollectorHolds' /\ RecordedReadable'
    BY <1>3, <1>6, <1>8, <2>3
  <2> QED BY <2>4, <2>5 DEF Sequential
<1>12. CASE PatchDomain(p) \/ PatchRefused(p) \/ PatchFails(p)
  <2>1. PICK pc \in {"record", "judge"} : req' = [req EXCEPT ![p].pc = pc]
    BY <1>12 DEF PatchDomain, PatchRefused, PatchFails
  <2>2. PICK r : r = [req[p] EXCEPT !.pc = pc]
    OBVIOUS
  <2>3. /\ r \in Request /\ r.pc = pc /\ r.index = req[p].index
        /\ <<r.index, r.hash>> = Key(p) /\ req' = [req EXCEPT ![p] = r]
    BY <1>1, <2>1, <2>2 DEF Request, Key
  <2>4. UNCHANGED <<blob, objects>> /\ req[p].pc \in {"domain", "record"}
    BY <1>12 DEF PatchDomain, PatchRefused, PatchFails
  <2>5. RequestHolds'
    BY <1>3, <1>4, <1>9, <2>3, <2>4
  <2> QED BY <1>9, <2>4, <2>5 DEF Sequential
<1>13. CASE PatchJudge(p)
  <2>1. UNCHANGED <<blob, objects>> /\ req[p].pc = "judge"
    BY <1>13 DEF PatchJudge
  <2>2. CASE Stranded(p)
    <3>1. PICK r : r = [req[p] EXCEPT !.pc = "delete", !.todo = <<Key(p)>>]
      OBVIOUS
    <3>2. req' = [req EXCEPT ![p] = r] /\ r.pc = "delete" /\ r.todo = <<Key(p)>>
      BY <1>1, <1>13, <2>2, <3>1 DEF PatchJudge, Request
    <3>3. r \in Request
      <4>1. req'[p] = r /\ req' \in [Requests -> Request]
        BY <1>1, <3>2 DEF Typed, TypeOK
      <4> QED BY <4>1
    <3>4. Todo(r.todo) \cap Recorded' = {}
      <4>1. Todo(<<Key(p)>>) = {Key(p)}
        BY TodoKeys
      <4> QED BY <1>3, <1>9, <2>1, <3>2, <4>1
    <3>5. RequestHolds'
      BY <1>4, <3>2, <3>3, <3>4
    <3> QED BY <1>9, <2>1, <3>5 DEF Sequential
  <2>3. CASE ~Stranded(p)
    <3>1. req' = [req EXCEPT ![p] = IdleRequest]
      BY <1>13, <2>3 DEF PatchJudge
    <3>2. RequestHolds'
      BY <1>4, <1>5, <3>1
    <3> QED BY <1>9, <2>1, <3>2 DEF Sequential
  <2> QED BY <2>2, <2>3
<1>14. CASE RequestEnds(p) \/ RequestDropped(p)
  <2>1. UNCHANGED <<blob, objects>> /\ req' = [req EXCEPT ![p] = IdleRequest]
    BY <1>14 DEF RequestEnds, RequestDropped
  <2>2. RequestHolds'
    BY <1>4, <1>5, <2>1
  <2> QED BY <1>9, <2>1, <2>2 DEF Sequential
<1>15. CASE RequestDeletes(p)
  <2>1. req[p].todo \in Seq(Keys) /\ req[p].todo # <<>> /\ req[p].pc = "delete"
    BY <1>1, <1>15 DEF RequestDeletes, Request
  <2>2. /\ Head(req[p].todo) \in Todo(req[p].todo)
        /\ Todo(Tail(req[p].todo)) \subseteq Todo(req[p].todo)
    BY <2>1, TodoParts
  <2>3. PICK r : r = [req[p] EXCEPT !.todo = Tail(@)]
    OBVIOUS
  <2>4. /\ r \in Request /\ r.pc = "delete" /\ r.todo = Tail(req[p].todo)
        /\ req' = [req EXCEPT ![p] = r]
    BY <1>1, <1>15, <2>1, <2>3, TailType DEF RequestDeletes, Request
  <2>5. /\ UNCHANGED <<row, segments>>
        /\ objects' = objects \/ objects' = objects \ {Head(req[p].todo)}
    BY <1>15 DEF RequestDeletes, blob
  <2>6. Recorded' = Recorded
    BY <2>5 DEF Recorded
  <2>7. RequestHolds'
    BY <1>3, <1>4, <2>1, <2>2, <2>4, <2>6
  <2>8. CollectorHolds' /\ RecordedReadable'
    BY <1>3, <1>6, <1>8, <2>1, <2>2, <2>5
  <2> QED BY <2>7, <2>8 DEF Sequential
<1>16. ASSUME Discard
       PROVE  /\ Recorded' = {} /\ RecordedReadable'
  BY <1>16 DEF Discard, Recorded, RecordedReadable
<1>17. ASSUME NEW d \in Devices, Abandon(p, d)
       PROVE  Sequential'
  <2>1. /\ Discard /\ Unmarked
        /\ req' = [req EXCEPT ![p] = [IdleRequest EXCEPT !.pc = "delete", !.device = d,
                                                         !.todo = KeysOf(segments)]]
    BY <1>17 DEF Abandon, OwnUpload
  <2>2. PICK r : r = [IdleRequest EXCEPT !.pc = "delete", !.device = d, !.todo = KeysOf(segments)]
    OBVIOUS
  <2>3. req' = [req EXCEPT ![p] = r] /\ r.pc = "delete"
    BY <2>1, <2>2 DEF IdleRequest
  <2>4. r \in Request
    <3>1. req'[p] = r /\ req' \in [Requests -> Request]
      BY <1>1, <2>3 DEF Typed, TypeOK
    <3> QED BY <3>1
  <2>5. RequestHolds'
    BY <1>4, <1>16, <2>1, <2>3, <2>4
  <2> QED BY <1>7, <1>16, <2>1, <2>5 DEF Sequential
<1>18. CASE PatchRecord(p)
  <2>1. /\ Unmarked /\ req[p].pc = "record" /\ UNCHANGED objects
        /\ req[p].index = Len(segments) + 1
    BY <1>18 DEF PatchRecord, Appends, OwnUpload
  <2>2. CASE RecordSegment(p)
    <3>1. segments' = Append(segments, req[p].hash) /\ req' = [req EXCEPT ![p] = IdleRequest]
      BY <2>2 DEF RecordSegment
    <3>2. Recorded' = Recorded \cup {Key(p)}
      <4>1. /\ DOMAIN segments' = DOMAIN segments \cup {Len(segments) + 1}
            /\ segments'[Len(segments) + 1] = req[p].hash
            /\ \A i \in DOMAIN segments : segments'[i] = segments[i]
        BY <1>1, <3>1 DEF Request
      <4> QED BY <2>1, <4>1 DEF Recorded, Key
    <3>3. RecordedReadable'
      BY <1>3, <2>1, <3>2 DEF Sequential, RecordedReadable
    <3>4. RequestHolds'
      BY <1>4, <1>5, <3>1
    <3> QED BY <1>7, <2>1, <3>3, <3>4 DEF Sequential
  <2>3. CASE DiscardUpload(p)
    <3>1. PICK todo : todo = KeysOf(Append(segments, req[p].hash))
      OBVIOUS
    <3>2. Discard /\ req' = [req EXCEPT ![p].pc = "delete", ![p].todo = todo]
      BY <2>3, <3>1 DEF DiscardUpload
    <3>3. PICK r : r = [[req[p] EXCEPT !.pc = "delete"] EXCEPT !.todo = todo]
      OBVIOUS
    <3>4. req' = [req EXCEPT ![p] = r] /\ r.pc = "delete"
      BY <1>1, <3>2, <3>3 DEF Request
    <3>5. r \in Request
      <4>1. req'[p] = r /\ req' \in [Requests -> Request]
        BY <1>1, <3>4 DEF Typed, TypeOK
      <4> QED BY <4>1
    <3>6. RequestHolds'
      BY <1>4, <1>16, <3>2, <3>4, <3>5
    <3> QED BY <1>7, <1>16, <2>1, <3>2, <3>6 DEF Sequential
  <2> QED BY <1>18, <2>2, <2>3 DEF PatchRecord
<1> QED BY <1>10, <1>11, <1>12, <1>13, <1>14, <1>15, <1>17, <1>18 DEF RequestSteps

LEMMA CollectorStep ==
    ASSUME OneCollector, Typed, Typed', Sequential, NEW i \in Instances, CollectorSteps(i)
    PROVE  Sequential'
<1>1. /\ TypeOK /\ inst \in [Instances -> Pass] /\ inst[i] \in Pass
      /\ segments \in Seq(Hashes) /\ row \in Row /\ \A j \in Instances : j = i
  BY DEF Typed, TypeOK, OneCollector
<1>2. UNCHANGED req
  BY DEF CollectorSteps, CollectStart, MarkBlob, MarkNothing, CollectDeletes, CollectFails,
         FinishBlob, PassCrashes
<1>3. inst[i].pc = "delete" =>
        /\ row.stored /\ row.marked /\ Todo(inst[i].todo) \subseteq Recorded
        /\ inst[i].gone => Recorded \cap objects \subseteq Todo(inst[i].todo)
  BY DEF Sequential, CollectorHolds
<1>4. ASSUME NEW r, inst' = [inst EXCEPT ![i] = r],
             r.pc = "delete" =>
                /\ row'.stored /\ row'.marked /\ Todo(r.todo) \subseteq Recorded'
                /\ r.gone => Recorded' \cap objects' \subseteq Todo(r.todo)
      PROVE  CollectorHolds'
  <2>1. \A j \in Instances : inst'[j] = r
    BY <1>1, <1>4
  <2> QED BY <1>4, <2>1 DEF CollectorHolds
<1>5. IdlePass.pc = "idle"
  BY DEF IdlePass
<1>6. ASSUME UNCHANGED <<segments, objects>>
      PROVE  Recorded' = Recorded /\ RequestHolds'
  BY <1>2, <1>6 DEF Sequential, RequestHolds, Recorded, Key
<1>7. ASSUME UNCHANGED <<row, segments, objects>>
      PROVE  RecordedReadable'
  BY <1>7 DEF Sequential, RecordedReadable, Recorded, Unmarked
<1>8. CASE CollectStart(i) \/ MarkNothing(i) \/ PassCrashes(i)
  <2>1. PICK r \in {[IdlePass EXCEPT !.pc = "mark"], IdlePass} : inst' = [inst EXCEPT ![i] = r]
    BY <1>8 DEF CollectStart, MarkNothing, PassCrashes
  <2>2. r.pc # "delete"
    BY <1>5, <2>1 DEF IdlePass
  <2>3. UNCHANGED <<row, segments, objects>>
    BY <1>8 DEF CollectStart, MarkNothing, PassCrashes, blob
  <2>4. CollectorHolds'
    BY <1>4, <2>1, <2>2
  <2> QED BY <1>6, <1>7, <2>3, <2>4 DEF Sequential
<1>9. CASE MarkBlob(i)
  <2>1. PICK r : r = [inst[i] EXCEPT !.pc = "delete", !.todo = KeysOf(segments)]
    OBVIOUS
  <2>2. inst' = [inst EXCEPT ![i] = r] /\ UNCHANGED <<segments, objects>>
    BY <1>9, <2>1 DEF MarkBlob
  <2>3. r.pc = "delete" /\ r.todo = KeysOf(segments)
    BY <1>1, <2>1 DEF Pass
  <2>4. row'.stored /\ row'.marked
    BY <1>1, <1>9 DEF MarkBlob, Marks, Exists, Row
  <2>5. Todo(r.todo) = Recorded /\ Recorded' = Recorded
    BY <1>6, <2>2, <2>3, TodoKeys
  <2>6. CollectorHolds'
    BY <1>4, <2>2, <2>4, <2>5
  <2>7. RecordedReadable'
    BY <2>4 DEF RecordedReadable, Unmarked
  <2> QED BY <1>6, <2>2, <2>6, <2>7 DEF Sequential
<1>10. CASE CollectDeletes(i) \/ CollectFails(i)
  <2>1. inst[i].pc = "delete" /\ inst[i].todo # <<>> /\ inst[i].todo \in Seq(Keys)
    BY <1>1, <1>10 DEF CollectDeletes, CollectFails, Pass
  <2>2. PICK k : k = Head(inst[i].todo)
    OBVIOUS
  <2>3. /\ k \in Todo(inst[i].todo) /\ Todo(Tail(inst[i].todo)) \subseteq Todo(inst[i].todo)
        /\ Todo(inst[i].todo) \subseteq Todo(Tail(inst[i].todo)) \cup {k}
    BY <2>1, <2>2, TodoParts
  <2>4. /\ UNCHANGED <<row, segments>> /\ Recorded' = Recorded
        /\ objects' = objects \/ objects' = objects \ {k}
    BY <1>10, <2>2 DEF CollectDeletes, CollectFails, blob, Recorded
  <2>5. row.stored /\ row.marked /\ k \in Recorded
    BY <1>3, <2>1, <2>3
  <2>6. RequestHolds'
    <3>1. ASSUME NEW p \in Requests
          PROVE  /\ req[p].pc \in {"put", "domain", "record", "judge"} =>
                        req[p].index > Len(segments) /\ Key(p) \notin Recorded
                 /\ req[p].pc \in {"domain", "record"} => Key(p) \in objects
                 /\ req[p].pc = "delete" => Todo(req[p].todo) \cap Recorded = {}
      BY <3>1, KeyBeyond DEF Sequential, RequestHolds
    <3>2. \A p \in Requests : Key(p)' = Key(p)
      BY <1>2 DEF Key
    <3> QED BY <1>2, <2>4, <2>5, <3>1, <3>2 DEF RequestHolds
  <2>7. RecordedReadable'
    BY <2>4, <2>5 DEF RecordedReadable, Unmarked
  <2>8. CASE CollectDeletes(i)
    <3>1. PICK r : r = [inst[i] EXCEPT !.todo = Tail(@)]
      OBVIOUS
    <3>2. /\ inst' = [inst EXCEPT ![i] = r] /\ objects' = objects \ {k}
          /\ r.todo = Tail(inst[i].todo) /\ r.gone = inst[i].gone
      BY <1>1, <2>2, <2>8, <3>1 DEF CollectDeletes, Pass
    <3>3. r.gone => Recorded' \cap objects' \subseteq Todo(r.todo)
      BY <1>3, <2>1, <2>3, <2>4, <3>2
    <3>4. row'.stored /\ row'.marked /\ Todo(r.todo) \subseteq Recorded'
      BY <1>3, <2>1, <2>3, <2>4, <2>5, <3>2
    <3>5. CollectorHolds'
      BY <1>4, <3>2, <3>3, <3>4
    <3> QED BY <2>6, <2>7, <3>5 DEF Sequential
  <2>9. CASE CollectFails(i)
    <3>1. PICK r : r = [[inst[i] EXCEPT !.todo = Tail(@)] EXCEPT !.gone = FALSE]
      OBVIOUS
    <3>2. /\ inst' = [inst EXCEPT ![i] = r]
          /\ r.todo = Tail(inst[i].todo) /\ ~r.gone
      BY <1>1, <2>9, <3>1 DEF CollectFails, Pass
    <3>3. row'.stored /\ row'.marked /\ Todo(r.todo) \subseteq Recorded'
      BY <1>3, <2>1, <2>3, <2>4, <2>5, <3>2
    <3>4. CollectorHolds'
      BY <1>4, <3>2, <3>3
    <3> QED BY <2>6, <2>7, <3>4 DEF Sequential
  <2> QED BY <1>10, <2>8, <2>9
<1>11. CASE FinishBlob(i)
  <2>1. inst' = [inst EXCEPT ![i] = IdlePass] /\ UNCHANGED objects
    BY <1>11 DEF FinishBlob
  <2>2. CollectorHolds'
    BY <1>4, <1>5, <2>1
  <2>3. CASE Finishes(i)
    <3>1. segments' = <<>> /\ row' = NoRow
      BY <1>11, <2>3 DEF FinishBlob
    <3>2. Recorded' = {} /\ Len(segments') = 0 /\ Len(segments) \in Nat
      BY <1>1, <3>1 DEF Recorded
    <3>3. ASSUME NEW p \in Requests, req[p].index > Len(segments)
          PROVE  req[p].index > Len(segments')
      BY <1>1, <3>2, <3>3, BlobAssumption DEF TypeOK, Request
    <3>4. \A p \in Requests : Key(p)' = Key(p)
      BY <1>2 DEF Key
    <3>5. RequestHolds'
      BY <1>2, <2>1, <3>2, <3>3, <3>4 DEF Sequential, RequestHolds
    <3>6. RecordedReadable'
      BY <3>2 DEF RecordedReadable
    <3> QED BY <2>2, <3>5, <3>6 DEF Sequential
  <2>4. CASE ~Finishes(i)
    BY <1>6, <1>7, <1>11, <2>2, <2>4 DEF FinishBlob, Sequential
  <2> QED BY <2>3, <2>4
<1> QED BY <1>8, <1>9, <1>10, <1>11 DEF CollectorSteps

\* The steps of neither a request nor a collector.
LEMMA OtherStep ==
    ASSUME Typed, Sequential, Next,
           ~(\E p \in Requests : RequestSteps(p)), ~(\E i \in Instances : CollectorSteps(i))
    PROVE  Sequential'
<1>1. row \in Row /\ segments \in Seq(Hashes)
  BY DEF Typed, TypeOK
<1>2. ASSUME UNCHANGED <<segments, objects, req, inst>>,
             row'.stored = row.stored, row'.marked = row.marked
      PROVE  Sequential'
  <2>1. /\ Recorded' = Recorded /\ Unmarked' = Unmarked
        /\ \A p \in Requests : Key(p)' = Key(p)
    BY <1>2 DEF Recorded, Unmarked, Key
  <2>2. RequestHolds'
    BY <1>2, <2>1 DEF Sequential, RequestHolds
  <2>3. CollectorHolds'
    BY <1>2, <2>1 DEF Sequential, CollectorHolds
  <2>4. RecordedReadable'
    BY <1>2, <2>1 DEF Sequential, RecordedReadable
  <2> QED BY <2>2, <2>3, <2>4 DEF Sequential
<1>3. CASE ListingPush \/ CoveringPush \/ (\E op \in Ops : PruneListing(op)) \/ TimePasses
  <2>1. UNCHANGED <<segments, objects, req, inst>>
    BY <1>3 DEF ListingPush, CoveringPush, PruneListing, TimePasses
  <2>2. row'.stored = row.stored /\ row'.marked = row.marked
    BY <1>1, <1>3 DEF ListingPush, CoveringPush, PruneListing, TimePasses, Row
  <2> QED BY <1>2, <2>1, <2>2
<1>4. ASSUME NEW d \in Devices, Create(d)
      PROVE  Sequential'
  <2>1. ~row.stored /\ UNCHANGED <<segments, objects, req, inst>>
    BY <1>4 DEF Create, Exists
  <2>2. segments = <<>>
    BY <2>1 DEF Typed, Offsets, Exists
  <2>3. /\ Recorded = {} /\ Recorded' = {}
        /\ \A p \in Requests : Key(p)' = Key(p)
    BY <2>1, <2>2 DEF Recorded, Key
  <2>4. RequestHolds'
    BY <2>1, <2>3 DEF Sequential, RequestHolds
  <2>5. CollectorHolds'
    BY <2>1 DEF Sequential, CollectorHolds
  <2>6. RecordedReadable'
    BY <2>3 DEF RecordedReadable
  <2> QED BY <2>4, <2>5, <2>6 DEF Sequential
<1>5. CASE Restore
  <2>1. /\ req' = [p \in Requests |-> IdleRequest] /\ inst' = [i \in Instances |-> IdlePass]
        /\ IdleRequest.pc = "idle" /\ IdlePass.pc = "idle"
    BY <1>5 DEF Restore, IdleRequest, IdlePass
  <2>2. CheckBlob(objects')
    BY <1>5 DEF Restore
  <2>3. RequestHolds'
    BY <2>1 DEF RequestHolds
  <2>4. CollectorHolds'
    BY <2>1 DEF CollectorHolds
  <2>5. CASE Unmarked /\ ~(Recorded \subseteq objects')
    <3>1. segments' = <<>>
      BY <2>2, <2>5 DEF CheckBlob
    <3> QED BY <2>3, <2>4, <3>1 DEF Sequential, RecordedReadable, Recorded
  <2>6. CASE ~(Unmarked /\ ~(Recorded \subseteq objects'))
    <3>1. UNCHANGED segments
      BY <2>2, <2>6 DEF CheckBlob
    <3>2. row'.stored = row.stored /\ row'.marked = row.marked
      BY <1>1, <2>2, <2>6 DEF CheckBlob, Row
    <3>3. Recorded' = Recorded /\ Unmarked' = Unmarked
      BY <3>1, <3>2 DEF Recorded, Unmarked
    <3> QED BY <2>3, <2>4, <2>6, <3>3 DEF Sequential, RecordedReadable
  <2> QED BY <2>5, <2>6
<1> QED BY <1>3, <1>4, <1>5 DEF Next

LEMMA SequentialStep ==
    ASSUME OneRequest, OneCollector, Typed, Typed', Sequential, [Next]_vars
    PROVE  Sequential'
<1>1. CASE \E p \in Requests : RequestSteps(p)
  BY <1>1, RequestStep
<1>2. CASE \E i \in Instances : CollectorSteps(i)
  BY <1>2, CollectorStep
<1>3. CASE UNCHANGED vars
  BY <1>3 DEF vars, blob, Sequential, RequestHolds, CollectorHolds, RecordedReadable, Recorded,
              Unmarked, Key
<1> QED BY <1>1, <1>2, <1>3, OtherStep

THEOREM SequentialHolds ==
    ASSUME OneRequest, OneCollector
    PROVE  Spec => []Sequential
<1>1. Init => Sequential
  BY DEF Init, NoRow, IdleRequest, IdlePass, Sequential, RequestHolds, CollectorHolds,
         RecordedReadable, Unmarked
<1>2. Typed /\ Typed' /\ Sequential /\ [Next]_vars => Sequential'
  BY SequentialStep
<1> QED BY <1>1, <1>2, TypeCorrect, PTL DEF Spec

\* With one request and one collector at a time, every segment that a row
\* which may still be read records is in the blob store: it was put before it
\* was recorded, and no cleanup, collection or restore deletes it under the row.
\* A delete under way when its handler stops has landed or never lands.
THEOREM SegmentsReadable ==
    ASSUME OneRequest, OneCollector
    PROVE  Spec => []RecordedReadable
<1>1. Sequential => RecordedReadable
  BY DEF Sequential
<1> QED BY <1>1, SequentialHolds, PTL

\* A marked row that goes is one the collector finished, all its deletes done.
LEMMA CollectedStep ==
    ASSUME Typed, Sequential, [Next]_vars, row.marked, row.stored, ~row'.stored
    PROVE  Recorded \cap objects' = {}
<1>1. row \in Row
  BY DEF Typed, TypeOK
<1>2. ~Unmarked /\ ~UNCHANGED row
  BY DEF Unmarked
<1>3. ASSUME NEW i \in Instances, FinishBlob(i)
      PROVE  Recorded \cap objects' = {}
  <2>1. /\ inst[i].pc = "delete" /\ inst[i].todo = <<>> /\ inst[i].gone
        /\ UNCHANGED objects
    BY <1>2, <1>3 DEF FinishBlob, Finishes
  <2>2. Recorded \cap objects \subseteq Todo(inst[i].todo)
    BY <2>1 DEF Sequential, CollectorHolds
  <2> QED BY <2>1, <2>2, TodoKeys
<1>4. \A p \in Requests : ~RequestSteps(p)
  BY <1>2
     DEF RequestSteps, PatchStart, Abandon, PatchPut, PatchDomain, PatchRecord, PatchRefused,
         PatchFails, PatchJudge, RequestDeletes, RequestEnds, RequestDropped, Appends,
         OwnUpload, blob
<1>5. ASSUME NEW i \in Instances, CollectorSteps(i)
      PROVE  FinishBlob(i)
  <2>1. ~MarkBlob(i)
    BY <1>1, <1>2 DEF MarkBlob
  <2> QED BY <1>2, <1>5, <2>1
          DEF CollectorSteps, CollectStart, MarkNothing, CollectDeletes, CollectFails,
              PassCrashes, blob
<1>6. ~Restore
  BY <1>2 DEF Restore, CheckBlob
<1>7. /\ \A d \in Devices : ~Create(d)
      /\ ~ListingPush /\ ~CoveringPush /\ (\A op \in Ops : ~PruneListing(op)) /\ ~TimePasses
  BY <1>1, <1>2 DEF Create, Exists, ListingPush, CoveringPush, PruneListing, TimePasses, Row
<1> QED BY <1>2, <1>3, <1>4, <1>5, <1>6, <1>7 DEF Next, vars, blob

\* With one request and one collector at a time, a collected row leaves no
\* object of the segments it recorded behind: a failed delete keeps the row,
\* a crashed pass is taken over from the start, and no call of a stopped handler
\* lands later.
THEOREM CollectionIsBare ==
    ASSUME OneRequest, OneCollector
    PROVE  Spec => CollectedBare
<1>1. Typed /\ Sequential /\ [Next]_vars =>
          [row.marked /\ ~row'.stored => Recorded \cap objects' = {}]_vars
  <2>1. SUFFICES ASSUME Typed, Sequential, [Next]_vars, row.marked, ~row'.stored
                 PROVE  Recorded \cap objects' = {} \/ UNCHANGED vars
    OBVIOUS
  <2>2. CASE row.stored
    BY <2>1, <2>2, CollectedStep
  <2>3. CASE ~row.stored
    <3>1. segments = <<>>
      BY <2>1, <2>3 DEF Typed, Offsets, Exists
    <3> QED BY <3>1 DEF Recorded
  <2> QED BY <2>2, <2>3
<1> QED BY <1>1, SequentialHolds, TypeCorrect, PTL DEF Spec, CollectedBare

=============================================================================
