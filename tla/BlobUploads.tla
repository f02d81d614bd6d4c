----------------------------- MODULE BlobUploads -----------------------------
(***************************************************************************)
(* One blob of a domain: its row and segment rows in the store, its        *)
(* objects in the blob store, the operations that list it, and everything  *)
(* that acts on them at once: tus requests, pushes, pruning, the collector *)
(* of each server instance and a restore.  A transaction is one step; a    *)
(* handler or a collector is several, and the blob store's calls lie       *)
(* between them.                                                           *)
(*                                                                         *)
(* The bytes of the segment at an index are the ones the upload's digest   *)
(* commits to, or others.  An object's key names the blob, the index and   *)
(* the hash, so two uploads of the same bytes share the object.            *)
(***************************************************************************)
EXTENDS Naturals, Integers, Sequences, FiniteSets

CONSTANTS
    Devices,      \* active devices that may write the domain
    Requests,     \* tus requests the server handles at once
    Instances,    \* server instances, each with a collector
    Length,       \* segments of the upload
    MaxOps,       \* bound: operations that list the blob
    MaxRows,      \* bound: times the row is created
    MaxFaults,    \* bound: failed deletes, dropped requests and crashed passes
    MaxRestores   \* bound: restores

ASSUME BlobAssumption ==
    /\ Devices # {}
    /\ Length \in Nat \ {0}
    /\ {MaxOps, MaxRows, MaxFaults, MaxRestores} \subseteq Nat

VARIABLES
    row,        \* the row of the table blobs
    segments,   \* its rows in blob_segments: the hash recorded at each index
    listings,   \* the operations with a row in blob_listings
    live,       \* those of them that are live
    usage_bytes, history_bytes,   \* what the blob adds to the domain's counters
    objects,    \* the keys in the blob store
    req,        \* each request's progress
    inst,       \* each collector's progress
    ops, rows, faults, restores   \* what the bounds count

blob == <<row, segments, listings, live, usage_bytes, history_bytes>>
counts == <<ops, rows, faults, restores>>
vars == <<blob, objects, req, inst, counts>>

Hashes == {"digest", "other"}
Keys == (1..Length) \X Hashes
Ops == 1..MaxOps

\* delete_after is never, a time to come or one that has passed.
DeleteAfter == {"never", "later", "past"}

Exists == row.stored
Unmarked == row.stored /\ ~row.marked
Listed == listings # {}

NoRow == [stored |-> FALSE, device |-> CHOOSE d \in Devices : TRUE, complete |-> FALSE,
          marked |-> FALSE, delete_after |-> "never", live_listings |-> 0]

\* The keys of the recorded segments.
Recorded == {<<i, segments[i]>> : i \in DOMAIN segments}
KeysOf(s) == [i \in DOMAIN s |-> <<i, s[i]>>]

Row == [stored : BOOLEAN, device : Devices, complete : BOOLEAN, marked : BOOLEAN,
        delete_after : DeleteAfter, live_listings : Int]

\* A request runs through put, domain, record, judge and delete, each the
\* step it takes next.
Request == [pc : {"idle", "put", "domain", "record", "judge", "delete"},
            device : Devices, index : 1..Length, hash : Hashes, todo : Seq(Keys)]

\* A collector's pass over the blob; gone while no delete failed.
Pass == [pc : {"idle", "mark", "delete"}, gone : BOOLEAN, todo : Seq(Keys)]

TypeOK ==
    /\ row \in Row
    /\ segments \in Seq(Hashes) /\ Len(segments) <= Length
    /\ listings \subseteq 1..ops /\ live \subseteq listings
    /\ usage_bytes \in Nat /\ history_bytes \in Nat
    /\ objects \subseteq Keys
    /\ req \in [Requests -> Request]
    /\ inst \in [Instances -> Pass]
    /\ ops \in 0..MaxOps /\ rows \in 0..MaxRows
    /\ faults \in 0..MaxFaults /\ restores \in 0..MaxRestores

IdleRequest == [pc |-> "idle", device |-> CHOOSE d \in Devices : TRUE, index |-> 1,
                hash |-> "other", todo |-> <<>>]
IdlePass == [pc |-> "idle", gone |-> TRUE, todo |-> <<>>]

Init ==
    /\ row = NoRow /\ segments = <<>>
    /\ listings = {} /\ live = {}
    /\ usage_bytes = 0 /\ history_bytes = 0
    /\ objects = {}
    /\ req = [p \in Requests |-> IdleRequest]
    /\ inst = [i \in Instances |-> IdlePass]
    /\ ops = 0 /\ rows = 0 /\ faults = 0 /\ restores = 0

------------------------------------------------------------------------------
(* The counters, in blobs: add_usage keeps each from going below 0.        *)

AtLeast0(n) == IF n < 0 THEN 0 ELSE n

AddUsage(usage, history) ==
    /\ usage_bytes' = AtLeast0(usage_bytes + usage)
    /\ history_bytes' = AtLeast0(history_bytes + history)

------------------------------------------------------------------------------
(* Uploads.                                                                *)

\* The upload that d may write: its own, or any that a restore left missing.
OwnUpload(d) ==
    /\ Unmarked
    /\ row.device = d \/ (~row.complete /\ Listed)

\* A creation inserts the row, which counts as usage until an operation lists
\* it.  A retry of it, and a creation that is refused, change nothing.
Create(d) ==
    /\ ~Exists /\ rows < MaxRows
    /\ row' = [NoRow EXCEPT !.stored = TRUE, !.device = d, !.delete_after = "later"]
    /\ AddUsage(1, 0)
    /\ rows' = rows + 1
    /\ UNCHANGED <<segments, listings, live, objects, req, inst, ops, faults, restores>>

\* A PATCH reads the upload and checks its offset before it takes the bytes.
PatchStart(p, d) ==
    /\ req[p].pc = "idle"
    /\ OwnUpload(d) /\ ~row.complete
    /\ \E hash \in Hashes :
          req' = [req EXCEPT ![p] = [IdleRequest EXCEPT !.pc = "put", !.device = d,
                                     !.index = Len(segments) + 1, !.hash = hash]]
    /\ UNCHANGED <<blob, objects, inst, counts>>

Key(p) == <<req[p].index, req[p].hash>>

\* The segment reaches the blob store before the store records it.
PatchPut(p) ==
    /\ req[p].pc = "put"
    /\ objects' = objects \cup {Key(p)}
    /\ req' = [req EXCEPT ![p].pc = "domain"]
    /\ UNCHANGED <<blob, inst, counts>>

\* record_segment first reads the upload for its domain.
PatchDomain(p) ==
    /\ req[p].pc = "domain"
    /\ req' = [req EXCEPT ![p].pc = IF OwnUpload(req[p].device) THEN "record" ELSE "judge"]
    /\ UNCHANGED <<blob, objects, inst, counts>>

\* Slip: the offset is not looked at again when the segment is recorded.
AppendsAnywhere(p) == OwnUpload(req[p].device) /\ ~row.complete

\* Whether the segment of p is the upload's next, and its last.
Appends(p) == OwnUpload(req[p].device) /\ ~row.complete /\ req[p].index = Len(segments) + 1
Completes(p) == req[p].index = Length

\* Slip: the last segment is not among those the digest is taken over.
MatchesStored(p) == \A i \in DOMAIN segments : segments[i] = "digest"

\* Whether the digest over the recorded segments and the last is the upload's.
Matches(p) == \A i \in 1..Length : Append(segments, req[p].hash)[i] = "digest"

\* A blob no operation lists goes; a listed one is an upload at offset 0 again.
Discard ==
    /\ segments' = <<>>
    /\ IF Listed
       THEN /\ row' = [row EXCEPT !.complete = FALSE, !.delete_after = "never"]
            /\ UNCHANGED <<usage_bytes, history_bytes>>
       ELSE /\ row' = NoRow
            /\ AddUsage(-1, 0)

\* A completed upload that no operation lists has 24 hours from now.
CompletedAfter == IF Listed THEN "never" ELSE "later"

RecordSegment(p) ==
    /\ segments' = Append(segments, req[p].hash)
    /\ row' = IF Completes(p)
              THEN [row EXCEPT !.complete = TRUE, !.delete_after = CompletedAfter]
              ELSE row
    /\ req' = [req EXCEPT ![p] = IdleRequest]
    /\ UNCHANGED <<usage_bytes, history_bytes>>

\* The last segment of an upload that misses its digest discards the upload.
DiscardUpload(p) ==
    /\ Discard
    /\ req' = [req EXCEPT ![p].pc = "delete",
                          ![p].todo = KeysOf(Append(segments, req[p].hash))]

PatchRecord(p) ==
    /\ req[p].pc = "record" /\ Appends(p)
    /\ IF Completes(p) => Matches(p) THEN RecordSegment(p) ELSE DiscardUpload(p)
    /\ UNCHANGED <<listings, live, objects, inst, counts>>

PatchRefused(p) ==
    /\ req[p].pc = "record" /\ ~Appends(p)
    /\ req' = [req EXCEPT ![p].pc = "judge"]
    /\ UNCHANGED <<blob, objects, inst, counts>>

\* The store fails a call of record_segment, which has changed nothing then.
PatchFails(p) ==
    /\ req[p].pc \in {"domain", "record"} /\ faults < MaxFaults
    /\ req' = [req EXCEPT ![p].pc = "judge"]
    /\ faults' = faults + 1
    /\ UNCHANGED <<blob, objects, inst, ops, rows, restores>>

\* The object of an unrecorded segment goes if the upload is not found or
\* records other bytes at its index.
Stranded(p) ==
    OwnUpload(req[p].device) =>
        req[p].index \in DOMAIN segments /\ segments[req[p].index] # req[p].hash

PatchJudge(p) ==
    /\ req[p].pc = "judge"
    /\ req' = [req EXCEPT ![p] = IF Stranded(p)
                                 THEN [@ EXCEPT !.pc = "delete", !.todo = <<Key(p)>>]
                                 ELSE IdleRequest]
    /\ UNCHANGED <<blob, objects, inst, counts>>

\* A DELETE discards an incomplete upload of the device that created it.
Abandon(p, d) ==
    /\ req[p].pc = "idle"
    /\ OwnUpload(d) /\ ~row.complete /\ row.device = d
    /\ Discard
    /\ req' = [req EXCEPT ![p] = [IdleRequest EXCEPT !.pc = "delete", !.device = d,
                                  !.todo = KeysOf(segments)]]
    /\ UNCHANGED <<listings, live, objects, inst, counts>>

\* A request deletes its objects one by one; a delete that fails is only logged.
RequestDeletes(p) ==
    /\ req[p].pc = "delete" /\ req[p].todo # <<>>
    /\ \/ objects' = objects \ {Head(req[p].todo)} /\ UNCHANGED faults
       \/ faults < MaxFaults /\ faults' = faults + 1 /\ UNCHANGED objects
    /\ req' = [req EXCEPT ![p].todo = Tail(@)]
    /\ UNCHANGED <<blob, inst, ops, rows, restores>>

RequestEnds(p) ==
    /\ req[p].pc = "delete" /\ req[p].todo = <<>>
    /\ req' = [req EXCEPT ![p] = IdleRequest]
    /\ UNCHANGED <<blob, objects, inst, counts>>

\* The connection drops, the blob store fails the put, the store fails another
\* call or the process stops: what is left of the handler never runs, and a
\* put or delete it had begun has landed or never lands.
RequestDropped(p) ==
    /\ req[p].pc # "idle" /\ faults < MaxFaults
    /\ req' = [req EXCEPT ![p] = IdleRequest]
    /\ faults' = faults + 1
    /\ UNCHANGED <<blob, objects, inst, ops, rows, restores>>

------------------------------------------------------------------------------
(* Operations that list the blob.                                          *)

\* Whether taking n from a count c, one by one, meets 0.
Meets0(c, n) == IF 0 \in (c - n)..(c - 1) THEN 1 ELSE 0

\* Slip: a push lists a blob whatever the collector is doing to it.
ListableMarked == Exists /\ row.complete

\* A push lists only a completed upload that the collector has not marked.
Listable == Unmarked /\ row.complete

\* Slip: a listing always brings the blob back to usage.
BroughtBackAlways == IF Listed THEN 1 ELSE 0

\* A blob that only history listed counts as usage again.
BroughtBack == IF Listed /\ row.live_listings = 0 THEN 1 ELSE 0

\* An operation lists the blob and takes left out of the live set.
ListingPush ==
    /\ ops < MaxOps /\ Listable
    /\ \E left \in SUBSET live :
          LET n == Cardinality(left)
              gone == Meets0(row.live_listings + 1, n)
          IN /\ AddUsage(BroughtBack - gone, gone - BroughtBack)
             /\ row' = [row EXCEPT !.live_listings = @ + 1 - n, !.delete_after = "never"]
             /\ live' = (live \ left) \cup {ops + 1}
    /\ listings' = listings \cup {ops + 1}
    /\ ops' = ops + 1
    /\ UNCHANGED <<segments, objects, req, inst, rows, faults, restores>>

\* An operation that does not list the blob takes some that do out of the live
\* set: a blob with no live listing left is history.
CoveringPush ==
    /\ \E left \in (SUBSET live) \ {{}} :
          LET n == Cardinality(left)
              gone == Meets0(row.live_listings, n)
          IN /\ AddUsage(-gone, gone)
             /\ row' = [row EXCEPT !.live_listings = @ - n]
             /\ live' = live \ left
    /\ UNCHANGED <<segments, listings, objects, req, inst, counts>>

\* Pruning takes the row of an operation that is not live.  The last listing
\* gone, the blob counts as an upload that is due.
PruneListing(op) ==
    /\ op \in listings \ live
    /\ listings' = listings \ {op}
    /\ IF listings' = {}
       THEN /\ AddUsage(1, -1)
            /\ row' = [row EXCEPT !.delete_after = "past"]
       ELSE UNCHANGED <<usage_bytes, history_bytes, row>>
    /\ UNCHANGED <<segments, live, objects, req, inst, counts>>

------------------------------------------------------------------------------
(* The collector.                                                          *)

\* The time of an upload comes.
TimePasses ==
    /\ Exists /\ row.delete_after = "later"
    /\ row' = [row EXCEPT !.delete_after = "past"]
    /\ UNCHANGED <<segments, listings, live, usage_bytes, history_bytes, objects, req, inst,
                   counts>>

\* A pass finds the blob among those to collect.
CollectStart(i) ==
    /\ inst[i].pc = "idle"
    /\ Exists /\ (row.marked \/ row.delete_after = "past")
    /\ inst' = [inst EXCEPT ![i] = [IdlePass EXCEPT !.pc = "mark"]]
    /\ UNCHANGED <<blob, objects, req, counts>>

\* Slip: the pass that marked a blob is the one that finishes it.
MarksOnce == Exists /\ ~row.marked /\ row.delete_after = "past" /\ ~Listed

\* A pass marks a blob that no operation lists and whose time has come, or
\* takes over one that is marked.
Marks == Exists /\ (row.marked \/ (row.delete_after = "past" /\ ~Listed))

\* A marked blob frees its usage; one already marked is taken over.
MarkBlob(i) ==
    /\ inst[i].pc = "mark" /\ Marks
    /\ IF row.marked
       THEN UNCHANGED <<row, usage_bytes, history_bytes>>
       ELSE row' = [row EXCEPT !.marked = TRUE] /\ AddUsage(-1, 0)
    /\ inst' = [inst EXCEPT ![i] = [@ EXCEPT !.pc = "delete", !.todo = KeysOf(segments)]]
    /\ UNCHANGED <<segments, listings, live, objects, req, counts>>

\* A push got there first, or the row is gone.
MarkNothing(i) ==
    /\ inst[i].pc = "mark" /\ ~Marks
    /\ inst' = [inst EXCEPT ![i] = IdlePass]
    /\ UNCHANGED <<blob, objects, req, counts>>

CollectDeletes(i) ==
    /\ inst[i].pc = "delete" /\ inst[i].todo # <<>>
    /\ objects' = objects \ {Head(inst[i].todo)}
    /\ inst' = [inst EXCEPT ![i].todo = Tail(@)]
    /\ UNCHANGED <<blob, req, counts>>

\* The blob store fails one delete; the pass goes on to the next.
CollectFails(i) ==
    /\ inst[i].pc = "delete" /\ inst[i].todo # <<>> /\ faults < MaxFaults
    /\ inst' = [inst EXCEPT ![i].todo = Tail(@), ![i].gone = FALSE]
    /\ faults' = faults + 1
    /\ UNCHANGED <<blob, objects, req, ops, rows, restores>>

\* Slip: a failed delete does not keep the row.
FinishesAnyway(i) == row.marked

\* The row goes only if every object of it went.
Finishes(i) == inst[i].gone /\ row.marked

FinishBlob(i) ==
    /\ inst[i].pc = "delete" /\ inst[i].todo = <<>>
    /\ IF Finishes(i)
       THEN row' = NoRow /\ segments' = <<>>
       ELSE UNCHANGED <<row, segments>>
    /\ inst' = [inst EXCEPT ![i] = IdlePass]
    /\ UNCHANGED <<listings, live, usage_bytes, history_bytes, objects, req, counts>>

\* A delete the pass had begun has landed or never lands.
PassCrashes(i) ==
    /\ inst[i].pc # "idle" /\ faults < MaxFaults
    /\ inst' = [inst EXCEPT ![i] = IdlePass]
    /\ faults' = faults + 1
    /\ UNCHANGED <<blob, objects, req, ops, rows, restores>>

------------------------------------------------------------------------------
(* A restore: no server runs, the blob store has lost some objects, and    *)
(* the check moves away every object the database does not know, returns a *)
(* blob that lost objects to offset 0 and gives unlisted uploads new time. *)

Known == IF Unmarked THEN Recorded ELSE {}

\* Slip: only completed blobs are looked at.
CheckCompleted(held) ==
    IF Unmarked /\ row.complete /\ ~(Recorded \subseteq held)
    THEN /\ segments' = <<>>
         /\ row' = [row EXCEPT !.complete = FALSE,
                               !.delete_after = IF Listed THEN "never" ELSE "later"]
    ELSE /\ UNCHANGED segments
         /\ row' = IF Unmarked /\ row.complete /\ ~Listed
                   THEN [row EXCEPT !.delete_after = "later"]
                   ELSE row

CheckBlob(held) ==
    IF Unmarked /\ ~(Recorded \subseteq held)
    THEN /\ segments' = <<>>
         /\ row' = [row EXCEPT !.complete = FALSE,
                               !.delete_after = IF Listed THEN "never" ELSE "later"]
    ELSE /\ UNCHANGED segments
         /\ row' = IF Unmarked /\ row.complete /\ ~Listed
                   THEN [row EXCEPT !.delete_after = "later"]
                   ELSE row

Restore ==
    /\ restores < MaxRestores
    /\ \E lost \in SUBSET objects :
          /\ objects' = (objects \cap Known) \ lost
          /\ CheckBlob(objects')
    /\ req' = [p \in Requests |-> IdleRequest]
    /\ inst' = [i \in Instances |-> IdlePass]
    /\ restores' = restores + 1
    /\ UNCHANGED <<listings, live, usage_bytes, history_bytes, ops, rows, faults>>

------------------------------------------------------------------------------

RequestSteps(p) ==
    \/ \E d \in Devices : PatchStart(p, d) \/ Abandon(p, d)
    \/ PatchPut(p) \/ PatchDomain(p) \/ PatchRecord(p) \/ PatchRefused(p)
    \/ PatchFails(p) \/ PatchJudge(p)
    \/ RequestDeletes(p) \/ RequestEnds(p) \/ RequestDropped(p)

CollectorSteps(i) ==
    \/ CollectStart(i) \/ MarkBlob(i) \/ MarkNothing(i)
    \/ CollectDeletes(i) \/ CollectFails(i) \/ FinishBlob(i) \/ PassCrashes(i)

Next ==
    \/ \E d \in Devices : Create(d)
    \/ \E p \in Requests : RequestSteps(p)
    \/ \E i \in Instances : CollectorSteps(i)
    \/ ListingPush \/ CoveringPush \/ (\E op \in Ops : PruneListing(op))
    \/ TimePasses \/ Restore

Spec == Init /\ [][Next]_vars

\* Passes run every minute on every instance and go on to their next step
\* unless they crash, and time passes; nothing else has to happen.
FairSpec ==
    /\ Spec
    /\ WF_vars(TimePasses)
    /\ \A i \in Instances : WF_vars(CollectStart(i) \/ MarkBlob(i) \/ MarkNothing(i)
                                       \/ CollectDeletes(i) \/ FinishBlob(i))

------------------------------------------------------------------------------
(* Properties.                                                             *)

\* An upload that is not complete has room for its next segment, however many
\* requests append to it at once; a blob without a row has no segments.
Offsets ==
    /\ ~Exists => segments = <<>>
    /\ Exists /\ ~row.complete => Len(segments) < Length

\* Rows and types at once, which an append needs to stay within the upload.
Typed == TypeOK /\ Offsets

\* A blob that an operation lists keeps its row, and the collector has not
\* marked it: a push and the collector meet at the row, and either the push
\* lists first or the blob is refused.
ListedKept == Listed => Unmarked

\* The counters say what the rows say, through uploads, listings, covers,
\* pruning, mismatches and marks, none of which counts the blob anew: an
\* upload and a blob with a live listing are usage, any other listed blob is
\* history, and a marked one is neither.
CountersExact ==
    /\ row.live_listings = Cardinality(live)
    /\ usage_bytes = (IF Unmarked /\ (live # {} \/ ~Listed) THEN 1 ELSE 0)
    /\ history_bytes = (IF Listed /\ live = {} THEN 1 ELSE 0)

\* What the store records of an upload names bytes that the blob store holds:
\* the segment is stored before it is recorded, and nothing deletes it under
\* a row that may still be read, provided that no delete lands after its
\* handler stopped.
RecordedReadable == Unmarked => Recorded \subseteq objects

\* A collected row leaves no object of the segments it recorded behind,
\* whatever failed or crashed on the way, under the same provision.
CollectedBare ==
    [][row.marked /\ ~row'.stored => Recorded \cap objects' = {}]_vars

\* An upload that completed holds the bytes its digest commits to, also after
\* a listed blob was uploaded again.
CompleteMatches ==
    Exists /\ row.complete => Len(segments) = Length /\ \A i \in 1..Length : segments[i] = "digest"

\* What no operation lists goes in the end, or a push lists it first: uploads
\* that are given up, completed ones that no push lists and blobs whose last
\* listing was pruned, whatever fails or crashes on the way.
Collected == Exists /\ ~Listed ~> ~Exists \/ Listed

\* tus.rs: a request whose segment was not recorded leaves the object alone
\* while a row that is neither gone nor marked records the same bytes there,
\* as after a rival request of the same bytes.
RivalKept ==
    [][\A p \in Requests :
          req[p].pc = "judge" /\ req'[p].pc = "delete" => ~(Unmarked /\ Key(p) \in Recorded)]_vars

==============================================================================
