# Noura: sync v2, specified

This directory holds TLA+ specifications of Noura's sync v2, the TLC
configurations that check them and the proofs that TLAPS checks. The reference
is the code under `crates/`; `docs/workspace-format/sync-v2.md` is quoted only
where the code and the document disagree. File names without a directory are
of `crates/sync-store/src` or, for `workspace.rs`, `marks.rs` and `rebuild.rs`, of
`crates/app-core/src/sync`.

- [The system](#the-system): its parts, their state and how they interact
- [Modules](#modules): what models what
- [Runs](#runs): what each checks, its bounds, and what it shows
- [Proofs](#proofs): what holds for every value of the constants, and why
- [Findings](#findings), and [Observations](#observations)
- [Abstractions and what is not modelled](#abstractions-and-what-is-not-modelled)
- [Plan](#plan)

## The system

Noura keeps workspaces of notes, tasks and files on each device and syncs them
end to end encrypted. A workspace has *key domains*; each domain has a log on
the server, to which devices push signed records. The server never sees
plaintext: what it can check is structure, order and who may write.

| Part | State | Operations | Depends on |
|---|---|---|---|
| Domain log (`sync-store/push.rs`, `push/keys.rs`, `live.rs`) | entries by sequence, one chain head per device, the live set of each object (`rid`), the head row | push an operation, a policy change, an epoch, an envelope, a profile | policy chain, blobs |
| Checkpoints (`sync-store/checkpoints.rs`; client `app-core/sync/checkpoints.rs`) | a numbered chain of checkpoints, their bucket hashes and heads, the due point | plan, commit, serve live set and manifest pages | domain log |
| Retention (`sync-store/retention.rs`) | `retention_floor`, `pruned_floor`, usage and history counters, quota pressure | raise a floor, prune a batch, relieve a quota, reclaim a domain, collect a blob | domain log, checkpoints |
| Stores (`sync-store-sqlite`, `sync-store-postgres`) | the tables | the queries; SQLite commits writes in groups from one writer, PostgreSQL takes row and advisory locks | |
| Maintenance (`sync-server/maintenance.rs`) | nothing durable | one pass a minute on every instance | retention, blob store |
| Blobs (`sync-store/blobs.rs`, `sync-server/{blobs,tus}.rs`) | a row and segments for each upload, who lists it | create, append a segment, list, mark, delete, finish | object store |
| Pulls and realtime (`pull.rs`, `hub.rs`, `realtime.rs`) | cursors at the clients, watchers in memory | page, long poll, notify, presence | domain log |
| Policy, keys, accounts (`policy.rs`, `chains.rs`, `devices.rs`, ...) | signed chains of policy changes and device cards, envelopes | append, read, approve, invite, share, reset | |
| Restore (`sync-store/restore.rs`, `sync-server/restore.rs`) | the restore generation, an instance lease | raise the generation, check blobs | blobs |
| Client engine (`app-core/sync`) | journal, outbox, cursor, verified chains, accepted checkpoints | capture, push, pull, bootstrap, settle after a restore | all of the above |
| Local engine (`local-core`), plugins, editor, apps | files, index, chat journal, documents | one user's edits | client engine |

How they meet: every write to a domain runs in one transaction that holds the
domain's head row (PostgreSQL) or the single writer (SQLite), so appends to a
log are serial. What is *not* serial is everything that spans two
transactions, and that is where the hard behaviour is:

- a checkpoint is *planned* in a read transaction, which recomputes the
  manifest, and *committed* later under the head row; pushes, other
  checkpoints and pruning commit in between;
- a maintenance pass is a transaction for the floor, then one for each batch;
  every server instance runs passes, pushes go on meanwhile, and any pass may
  crash between two transactions;
- pruning destroys the rows from which the next plan, the live routes and a
  bootstrapping device compute the live set, so what it deletes must never
  matter again;
- the quota's counters are never computed anew: each transaction adjusts them
  by what it believes changed;
- a device signs into an outbox and pushes it later; the answer may be lost, the
  request may arrive after the next one, the app may die between any two saves,
  and its journal may be lost or come back from a backup, while the server
  accepts each position of the chain once;
- SQLite's writer commits the writes of many callers in one transaction, and a
  write may refuse over another one of its group that never commits;
- a pull reads, finds nothing and sleeps, while a commit on its own instance or
  on another one has to find it asleep, or its receiver subscribed;
- a blob lives in two stores: rows and objects. An upload writes the object
  first and then records it, the collector marks the row, deletes the objects
  and then the row, and no transaction spans the two. Keys are shared by uploads
  of the same bytes, so a late delete can hit somebody else's object.

What makes each part correct:

- *Live set*: an operation is live until another covers it; pruning is
  invisible; limits on live patches and states hold when devices write
  concurrently.
- *Checkpoints*: the server's recomputation equals an honest device's, a stale
  plan never commits, a due point is met in the end.
- *Retention*: floors never fall and lie at a servable checkpoint; no row goes
  before its floor is published; nothing that a servable manifest names goes;
  what can go does go, whatever crashes.
- *Counters*: usage is what is live, history what else is kept.
- *Blobs*: a listed blob is never collected, a collected one leaves nothing
  behind, what is recorded can be read, what nobody lists goes in the end.
- *A device's chain*: no position is signed twice, what is acknowledged stands on
  the server, no edit is lost, no rollback is reported that never was, and what
  is edited reaches the server.
- *The writer*: an answer is true of the store for good, everybody hears one, a
  shutdown ends.
- *Pulls*: nobody sleeps over a record without a wake on its way.
- *Readers* (not modelled): a device that pulls or bootstraps ends with the live
  set of the log.

## Modules

| Module | Role |
|---|---|
| `DomainLog` | one domain's log, checkpoints, floor and pruning passes; all properties of the core |
| `LiveSet` | the abstract specification: the live set that `sync-protocol/live.rs` promises a domain's writers |
| `DomainUsage` | extends `DomainLog` with `usage_bytes` and `history_bytes` |
| `FiniteNaturals` | lemmas on the greatest and least members of sets of naturals, for the two proofs below that need them |
| `DomainLogProofs` | type correctness, floors: proofs |
| `DomainLogManifests` | the inductive invariant, what pruning keeps: proofs |
| `DomainLogExact` | bucket hashes and dropped deletes; with one instance the exact live set, the plans, a pass's end, the refinement of `LiveSet`, the counters' drift: proofs |
| `BlobUploads` | one blob: its row and objects, uploads, listings, collectors, a restore |
| `BlobUploadsProofs` | types, listed blobs, counters and digests of `BlobUploads`; with one request and one collector at a time, what the blob store holds: proofs |
| `AtomicWrites` | the abstract specification of `Backend::write`: each write happens whole or not, and its answer says which |
| `GroupCommit` | SQLite's one writer, which implements it |
| `GroupCommitProofs` | the refinement, its inductive invariant, the shutdown: proofs |
| `DeviceChain` | one device's chain in one domain: outbox, journal, reservation, pushes, refusals, comparison, rebuild; and the server's side of it |
| `DeviceChainProofs` | signing once, receipts, nothing lost, no false alarm: proofs |
| `PullWakes` | committed pushes and the pulls they wake, on one instance and across |
| `PullWakesProofs` | no stranded push, no lost wake: proofs |
| `MCDomainLog`, `MCDomainUsage`, `MCBlobUploads`, `MCDeviceChain`, `MCGroupCommit`, `MCPullWakes` | constants and symmetry for TLC |

### DomainLog

State, and the code it stands for:

| Variable | Code |
|---|---|
| `log`, `kept` | `log_entries`: `log` is every entry ever appended (so `Len(log)` is `head_seq`), `kept` the sequences whose rows still stand |
| `dropped` | the `dropped` column of `operations`, set by `drop_delete` |
| `checkpoints`, `buckets` | the `checkpoints` table; the numbers whose bucket hashes and heads `clear_checkpoint_data` has not cleared |
| `chain_heads` | `chain_heads.counter` |
| `retention_floor`, `pruned_floor`, `checkpoint_due`, `entries_since_checkpoint`, `quota_crossings`, `crossing_seen` | columns of the head row (`DomainRow`) and of the workspace |
| `plans` | a checkpoint push between the read transaction that ran `plan` and the transaction that runs `commit_locked` |
| `inst` | the program counter, forced floor and `after` of each instance's pass |

Two readings of the log run through the module. A definition over `kept` is a
query of the server. A definition over `AllRows` is what a device computes
that read every record. Most of the safety properties say that the two agree.

| Action | Code |
|---|---|
| `Push` | `push.rs` `apply`: covers must name stored operations, `judge`'s limits, `write_operation` with the head row's `progress` |
| `PolicyChange`, `Rotate` | `append_policy_entry`, `apply_epoch`; either may make a checkpoint due at once |
| `CrossQuota` | `note_pressure` counts a crossing of the workspace |
| `Sign`, `SignGrant` | a device signs (`app-core` `sign`) and the server plans (`checkpoints.rs` `plan`) |
| `Commit`, `CommitGrant`, `Refuse` | `commit_locked`; `CommitGrant` is a push that carries a policy change and, last, the checkpoint that sets an account's history floor |
| `MaintainStart`, `RelieveStart` | `maintain` and `relieve` choose a domain in a read transaction |
| `PersistFloor` | `persist_floor` |
| `PruneBatch` | one transaction of `prune_domain`'s loop |
| `CrashPass` | the process stops between two transactions |

One transaction is one step. That is what the lock plan of `commit`,
`persist_floor` and `prune_batch` buys: each holds the head row for its whole
length and PostgreSQL's READ COMMITTED then shows it the latest commit of
every row it reads. A read transaction sees one snapshot (REPEATABLE READ, or
SQLite's WAL snapshot), so `plan` is one step too.

### LiveSet

What a domain promises, with no log and no sequence numbers: `Take` adds an
operation and removes what it covers, within the limits; `Drop` removes
deletes, at most one of an object. `DomainLog` implements it with `live`
mapped to the operations live *in the rows that stand* at the head
(`Promise == INSTANCE LiveSet WITH ...`, `LiveSetKept == Promise!Spec`), so a
prune that changed the live set would be a step that `LiveSet` does not allow.

### DomainUsage

Every action of `DomainLog` with the counter update its transaction makes:
a push adds its record and moves what it covers to history
(`note_operation`), a commit moves each dropped delete (`note_dropped`), a
prune takes rows off history, policy changes and epoch bundles count as usage
for good. Counters saturate at 0 as in `add_usage`.

### BlobUploads

| Variable | Code |
|---|---|
| `row` | the blob's row in `blobs`; `stored` says whether there is one, `delete_after` is never, a time to come (`later`) or one that has passed (`past`) |
| `segments` | `blob_segments`: at each index the hash the upload's digest commits to (`digest`) or any other; the upload's offset is their number |
| `listings`, `live` | the operations with a row in `blob_listings`, and those of them in the live set; `row.live_listings` is the column that should count the latter |
| `usage_bytes`, `history_bytes` | what this blob adds to the domain's counters, in blobs |
| `objects` | keys in the blob store: index and hash, since everything else in a key is this blob's |
| `req` | where each tus request stands between its calls, with the segment or the keys it holds |
| `inst` | the same for each collector's pass over the blob |
| `ops`, `rows`, `faults`, `restores` | what the bounds count |

| Action | Code |
|---|---|
| `Create` | `create_blob` |
| `PatchStart`, `PatchPut`, `PatchDomain`, `PatchRecord`, `PatchRefused`, `PatchFails`, `PatchJudge` | `tus.rs` `patch`: the offset check before the body, `put`, `record_segment`'s read and its transaction, `stranded` |
| `Abandon` | `terminate` with `abandon_blob` |
| `RequestDeletes`, `RequestEnds`, `RequestDropped` | `delete_segments`, one object at a time; the handler stops half way |
| `ListingPush`, `CoveringPush` | what a push does to a blob: `check_listed`, `list`, `note_operation`, `leave_live` |
| `PruneListing` | `prune_batch`, for one operation that lists the blob |
| `TimePasses` | the clock reaches `delete_after` |
| `CollectStart`, `MarkBlob`, `MarkNothing`, `CollectDeletes`, `CollectFails`, `FinishBlob`, `PassCrashes` | `collect_blobs` on one instance: `collectable_blobs`, `mark_blob`, the deletes, `finish_blob` |
| `Restore` | the blob store lost some objects; `check_blobs` |

`BlobUploads` stands beside `DomainLog` rather than on top of it: of the log
it needs only which operations that list the blob are live, and that pruning
takes only those that are not, which `ManifestsKept` proves of `DomainLog`.

### GroupCommit and AtomicWrites

| Variable | Code |
|---|---|
| `stored` | what the database has committed |
| `sending`, `queue` | callers in `sender.send` on a full channel, and the channel of 1,024 |
| `backend` | whether `writer` still holds the sender that `close` drops |
| `writer`, `group`, `verdict`, `working` | where `write_loop` stands, its `Vec` of requests, their `result`s, and the database inside the open transaction |
| `answer` | what a caller has been told; `lost` when the process stopped, `gone` when the caller's future was dropped |

`Ask`, `Send`, `SendFails` and `GiveUp` are `Backend::write`'s lines; `Receive`,
`Begin`, `RunNext`, `GroupFails`, `Commit`, `Finish` and `Drain` are `write_loop`
and `commit_group`; `Panic` ends the task and `Restart` is the process that
`serve` stops over `failed()`. A job is kept for the one thing that couples jobs:
it may refuse because another wrote first (`Conflicts`), and it sees those before
it in its transaction. `AtomicWrites` knows neither queue nor groups. It says
that stored writes never exclude each other and that an answer is true when it is
given and stays so; with one exception, written down as it is: a refusal may rest
on a write that shared the group and failed with it.

### DeviceChain

| Variable | Code |
|---|---|
| `chain`, `pruned`, `epoch` | the device's operations on the server, those whose rows are gone, the domain's epoch |
| `request`, `late`, `answer` | the push under way, those the client gave up on that may still arrive, the response |
| `memory`, `journal`, `copy` | `State` in the app, in `STATE_FILE`, and in a backup: `outbox`, `own.next`, `own.head`, `own.acked`, the accepted epoch, and the files not yet signed |
| `reserved` | the mark's `reserved` in the credential store |
| `phase`, `upto`, `cap`, `alarm` | what the app does (`pushing`: between two batches of one push), the head a comparison goes up to, `sync_reseal_limit`, and what it reported |
| `signed`, `seals` | history: every record ever sealed and saved |

| Action | Code |
|---|---|
| `Sign` | `capture` of one file: `sign`, `seal`, the reservation, `save` |
| `Open`, `Crash`, `Copy`, `RestoreCopy`, `Rebuild` | `open` with `Mark::start`; a stop; a backup; `match_folder` with `start` |
| `Connect`, `TakeBack`, `CompareDone`, `CompareFails` | `connect`, `adopt` and `compare_own_chain`, one request at a time |
| `Pull`, `Match`, `RebuildFails` | the rest of `match_folder` |
| `ResealStale`, `Send`, `TakeReceipts`, `TakeRefusal`, `GiveUp` | `push`: records of an older epoch, a batch, `acknowledge`, `refused_at` by kind of refusal, an error |
| `Refresh` | `refresh` with `adopt` |
| `Accept`, `Refuse`, `ArriveLate` | `push.rs` `apply` for each record of a batch, all or nothing |
| `Rotate`, `Prune` | other devices' epochs, and retention |

A push seals the records of an older epoch again before its first batch only.
`GoesOn` then sends batch after batch with no capture between them; a refresh
within the push (`Refreshed`) may leave the rest of the outbox behind the epoch it
accepts, and the next batch carries it all the same, for the server to refuse.

`Served` is `chain_record` with its judgement of what was pruned, `Passes` the
checks of `apply` in their order. The refusals whose cause lies outside (access,
policy, covers, limits, quota, blobs) come from nowhere, in four kinds that
`refused_at` tells apart: seal again (`fix`), leave out one record (`drop`), leave
out all from here (`forbidden`), wait.

### PullWakes

| Variable | Code |
|---|---|
| `records`, `push`, `queue`, `worker` | the log; how far each `Store::push` is; the queue of a domain's worker; `group_loop` |
| `hub`, `receivers`, `pull`, `cursor` | the workspace's `watch` sender in `EventHub`; its receivers; where each `pull` stands and whether its receiver saw a version it has not taken; the device's cursor |
| `pending`, `wake`, `announcer`, `sending`, `notices` | the announcer's `Heads`, its channel of one, `announce_loop`, what it took, `pg_notify` on its way |
| `lost` | history: which records an instance will not be told of |

`route` only says which pushes and pulls there are and on which instance each
runs, so that one run has several small casts. Every lock is a step: the hub's
map, `pending`, the groups. `Subscription`'s drop is two steps (`Answer` drops the
receiver, `Release` takes the lock), as is `announce` (merge, then wake). A
transaction of the worker is one step. Records are announced one by one here,
where the code keeps the highest head of a domain: any notification wakes, so the
set says which commits a wake stands for.

## Runs

All are `tlc -config X.cfg M`. `CHECK_DEADLOCK FALSE` because the bounds end
behaviours: a log that is full and pruned has no step left. `GroupCommit` runs
with it since a store may be closed for good.

| Run | Config | Instance | Shows |
|---|---|---|---|
| `objects` | `DomainUsage` | 1 device, 2 objects, 1 delete, epochs, 5 entries, with the counters | `LiveExact`, `LatestServed`, `PlanAgrees`, `ManifestKept`, `PruningComplete`, `DriftBounded`, `DropsStand`, refinement `LiveSetKept` |
| `grants` | `DomainLogGrants` | 2 devices, 1 object, 2 plans in flight, grants, epochs, 5 entries | concurrent writers: conflicts, patches, limits; stale plans; `Inductive`, `NamesKept`, refinement `LiveSetKept` |
| `instances` | `DomainLogInstances` | 1 device, 2 server instances, a quota crossing with relief, crashes, 4 entries | `Inductive`, `BucketsKept`, floors, and `CatchesUp`, `DueServed` under `FairSpec` |
| `blobs_racing` | `BlobUploadsRacing` | 2 devices, 2 requests, 2 collectors, 2 segments, 2 listings, 2 creations | `Typed`, `ListedKept`, `CountersExact`, `CompleteMatches` |
| `blobs_sequential` | `BlobUploadsSequential` | 2 devices, 1 request, 1 collector, 2 segments, 2 faults, 1 restore | `RecordedReadable`, `CollectedBare`, `Collected` under `FairSpec` |
| `group_commit` | `GroupCommit` | 3 writes, 2 of which exclude each other, a queue and a group of 2, 2 faults | `Consistent`, refinement `AnswersKept`, `CloseEnds`, `Answered` |
| `device_chain` | `DeviceChain` | 2 edits, 2 epochs, a crash or lost answer, a refusal from outside, a pruned record | `SignsOnce`, `AcknowledgedStands`, `NothingLost`, `NoFalseAlarm`, `Delivered` |
| `device_recovery` | `DeviceChainRecovery` | 1 edit, 2 epochs, 2 refusals from outside, a lost journal, a backup that returns, a crash | `SignsOnce`, `NothingLost`, `Delivered` |
| `pull_wakes` | `PullWakes` | 2 instances; two pulls beside a push on one, or a pull on one and two pushes on the other; a fault | `NoneStranded`, `WakeOwed`, `Woken`, `CaughtUp` |
| `prune_race`, `blobs_rival`, `device_follows` | | | counterexamples, see [Findings](#findings) |

Each run is kept small enough to finish in about a minute on two cores. Larger
instances of the same configurations were run once while the modules were
written, without an error: `objects` without the refinement at 6 entries and two
states (178,000 states), `instances` with a second device whose plans race
(117,000 states, liveness) and with two devices and two plans (152,000 states,
safety), `pull_wakes` with a third cast, a push on each of two instances and the pull beside
one of them (291,000 states).

The properties:

- `LiveExact`: with one instance pruning, at every servable `covered_seq` and
  at the head the rows tell the live set of the whole log. It needs the
  ascending order of a whole pass: two batches in the wrong order bring a
  covered operation back. (With two instances it fails, see `prune_race`.)
- `LatestServed`: what the live routes give at the latest checkpoint is what
  its root commits to, whatever was pushed, dropped or pruned since.
- `PlanAgrees`: a plan that is still current has the manifest, object count and
  heads that the device signed, though it was computed incrementally from the
  previous checkpoint's leaves and from thinned-out rows.
- `ManifestKept`: every operation a servable root commits to, and everything
  live at the head, keeps its row.
- `PruningComplete`: `pruned_floor = retention_floor` really means that nothing
  is left, the claim `pending_domains` relies on to skip the domain.
- `NamesKept`, `BucketsKept`: what the next checkpoint and the manifest routes
  read is there.
- `FloorIsServable`, `FloorBeforeDelete`: a floor is a servable `covered_seq`;
  it is published one transaction before anything goes, and never falls.
- `CatchesUp`, `DueServed`: retention comes back to having nothing pending; a
  due point is met.
- `DriftBounded`, `DropsStand`: the counters, and the rows they need.

- `Consistent`: where each write is, what the open transaction holds and what was
  said of it agree; the inductive invariant behind `AnswersKept`.
- `AnswersKept`: `GroupCommit` implements `AtomicWrites`. What would break it is a
  result told before the commit, or a refusal over what nobody ever wrote.
- `CloseEnds`: `close`, the writer and the callers wait for each other in a ring;
  it always comes apart, also with callers in a full queue and cancelled ones.
- `Answered`: no caller waits for ever, whatever fails.
- `SignsOnce`: two new records never share a counter, and, unless a backup of the
  journal came back, no attempt is replaced twice at one counter.
- `AcknowledgedStands`: `own.acked`, in memory and on disk, names a record the
  server committed.
- `NothingLost`: each edit is in a file still to be signed, in the outbox, or on
  the server, by what the app holds and by what it would hold after a crash.
- `NoFalseAlarm`: the server never goes back in this model, and the device never
  says it did.
- `Delivered`: every edit reaches the server, but for a device in one of two
  states: its outbox starts at or below the head it took back (`Behind`, finding
  3), or the position it must take back next was pruned (`Unserved`, see
  [Observations](#observations)).
- `NoneStranded`: a worker that ends leaves no queued push.
- `WakeOwed`: for a sleeping pull without a change to take, every unread record
  has somebody who still has to wake it, or is in `lost`. This is the invariant
  behind `hub.rs`'s "no commit slips between the read and the wait".
- `Woken`: and it is woken, with no help from its deadline.
- `CaughtUp`: what is in `lost` costs a pull its wait and no more.
- `Typed`: besides types, that no two requests append past an upload's end.
- `ListedKept`: a listed blob has its row and the collector has not marked it.
- `CountersExact` (of `BlobUploads`): usage, history and `live_listings` are a
  function of the row and its listings.
- `CompleteMatches`: a complete row holds the bytes of its digest. `blobs_racing`
  has no restore, so the blob that is uploaded again after one is not in this run;
  the theorem `MatchesHold` covers it.
- `RecordedReadable`: what a row records, the blob store holds. It holds with one
  request and one collector at a time, whatever fails or crashes, as long as a
  blob-store call that was under way when its handler stopped does not land later;
  with two collectors, two rivals or such a late call it does not, see
  [Findings](#findings) and [Observations](#observations).
- `CollectedBare`: a marked row that goes leaves no object it recorded, under the
  same provision.
- `Collected`: an upload that nothing lists is listed or gone in the end.

**Bounds of the log.** `MaxEntries` (entries other than checkpoints), `MaxPolicies`,
`MaxEpochs`, `MaxCrossings`, `MaxPlans` and `MaxDeletes` bound the state space;
they are guards of the actions and of nothing else. Checkpoints are bounded
through them: each needs a new due point or a grant's entry. Five entries hold
the genesis pair, an operation, a delete that covers it and an edit against the
delete, with checkpoints and batches of pruning between any two. `Interval` is 2
or 3 and `Retained` 0 to 1, so that two or three checkpoints with floors between
them fit. `Batch` is 1: every row is a transaction of its own and every
interleaving of batches occurs.
Each passing run's properties were checked against mutations of the code's
definitions (the `Slip:` operators that stand before them), and each mutation
is caught within the bounds; that is the evidence that they are large enough.

**Bounds of the blobs.** Two segments make the difference between the last one
and the others, and between deleting one object and all. Two creations let an
upload start over under the same keys; two listings let one cover another, be
pruned and list again. `MaxFaults` counts failed deletes, failed transactions,
dropped requests and crashed passes together; the racing run has none, since a
request or pass that stops anywhere is also one that takes no further step.
Being bounded, faults do not go on for ever, which is what `Collected` needs.

**Bounds of the writer.** Two writes that exclude each other and one that does not
make a group in which a write refuses over another, one that spans two groups, and
a queue that is full. Two faults let a group fail after a job has failed, or a
restart follow a panic.

**Bounds of the chain.** Two edits make an outbox of which a prefix is sent.
`MaxSeals` is 14, so that two records can be sealed anew at each of the reasons
for it; `Block` is 2, so that a device signs past its block; `ResealLimit` is 1
where the code has 3. One fault is enough for the counterexample of finding 3,
and two faults in one behaviour arise with a lost journal or a backup beside it.

**Bounds of the wakes.** The two casts are the two ways to lose a wake: on one
instance, where a pull that ends shares the hub's entry with one that sleeps; and
across, where the announcer has to carry a second commit while it sends the first.

**Symmetry.** Devices, objects and instances are interchangeable, so the safety
runs declare them symmetric; the runs with liveness properties do not. In `BlobUploads` requests
and instances are symmetric and devices are not: an absent row names one of them.

**Fairness.** `MaintainStart` weakly: the maintenance loop ticks every minute
and finds a pending domain. `PersistFloor` and `PruneBatch` strongly: a pass may
crash before each, again and again, but a pass that is started again and again
sometimes runs its next transaction. `Sign` and `Commit` strongly: a device
that is refused because the due point moved, or because another checkpoint won,
signs again whenever one is due (`upkeep.rs`); the document itself states that
nothing bounds a log while no checkpoint commits. `Refuse` weakly: a stale push
is answered. No fairness for pushes, policy changes, grants, crossings or
relief.

In `BlobUploads` time passes, and each instance's pass runs and goes on to its
next step (weakly: nothing but a crash disables it for good, and crashes are
bounded). No fairness for requests: a client may stop at any point, and the
blob has to go without it.

In `GroupCommit` the writer's next step weakly, since the task runs whenever it
can. A caller in `send` strongly: the channel's semaphore hands out room in the
order it was asked for, and room comes and goes. Faults are bounded, and a
process that stopped runs again only through `Restart`.

In `DeviceChain` the app goes on with what it is doing (weakly), and the server
answers a request. `Sign` and `Refresh` strongly: each round captures and pulls
again, and a refusal that waits costs it its push alone (`running_round`,
`keep_waiting`). Nothing obliges another device to rotate, the server to prune,
or anything to fail.

In `PullWakes` each task goes on (weakly) and a device that was answered pulls
again. A deadline is not fair in `Woken`, so that no pull is read in time because
of it; `CaughtUp` states its own premise.

## Proofs

Every safety property that a passing run checks is proved, some of them under a stated
condition on how many act at once. What is left to TLC is liveness.

`tlapm DomainLogProofs.tla` and `tlapm DomainLogManifests.tla` check about 1,710
obligations. They assume `ConstantsAssumption` only: finite sets of devices and
objects, an interval and batch of at least 1; any number of instances.

| Theorem | States |
|---|---|
| `TypeInvariant` | `Spec => []TypeOK` |
| `FloorFirst` | `Spec => FloorBeforeDelete` |
| `FloorServable` | `Spec => []FloorIsServable` |
| `InductiveHolds` | `Spec => []Inductive` |
| `ManifestsKept` | `Spec => []ManifestKept` |
| `NamesStand` | `Spec => []NamesKept` |

The main result is `ManifestsKept`: *whatever the interleaving of pushes,
checkpoints and any number of pruning passes, no row that a servable
checkpoint commits to is deleted.* It is remarkable because it survives the
race of `prune_race`: that race can make the rows tell too large a live set,
never too small a one.

`ManifestKept` is not inductive. What is:

- `FloorsKnown`: the floor, and the floor a pass carries from its read
  transaction, are covered_seqs.
- `CheckpointsInOrder`: each checkpoint covers the entry of the one before it,
  and `floor` fields never fall. Without the first part, an operation between
  two checkpoints could be covered at the floor and live in a servable
  manifest.
- `ManifestsOpen`: an operation in a manifest is not covered at its
  covered_seq, and only a later checkpoint with a higher `floor` drops it. An
  entry's covers reach only earlier sequences and the log only grows, so "not
  covered at n" is settled once n is reached (`OpenSettled`).
- `PlansOpen`: the same for what a plan that is not stale has signed, so that
  its commit re-establishes `ManifestsOpen`.
- `GoneForGood`: a missing row is covered at the floor, or was dropped at or
  below the `floor` of every servable checkpoint. This is where the delete
  floor (`servable_floor`) earns its place.
- `NamesAbove`: the newest policy and epoch entry at any sequence from the floor
  up keep their rows.

`NextInductive` goes conjunct by conjunct, and under each conjunct by the kinds
of steps (`StepKinds`): most steps leave everything a conjunct reads, appends
extend the log (`LogGrows`), commits add a checkpoint (`CommitFact`), and
`PruneFact` says what a batch deletes. `Inductive` is also a TLC invariant of
the `grants` and `instances` runs.

`tlapm DomainLogExact.tla` checks about 3,190 obligations, again from
`ConstantsAssumption`:

| Theorem | States |
|---|---|
| `BucketsStand` | `Spec => []BucketsKept` |
| `DropsStandHolds` | `UsageSpec => []DropsStand` |
| `LiveSetExact` | with one instance, `Spec => []LiveExact` |
| `LatestIsServed` | with one instance, `Spec => []LatestServed` |
| `PlansAgree` | with one instance, `Spec => []PlanAgrees` |
| `PruningEnds` | with one instance, `Spec => []PruningComplete` |
| `LiveSetImplemented` | with one instance, `Spec => LiveSetKept`, the refinement |
| `CountersDrift` | with one instance, `UsageSpec => []DriftBounded` |

*With one instance* is `OneInstance`, a hypothesis of the theorem and not of the
model: at most one maintenance pass at a time prunes the domain, over any number
of devices, plans, crashes and restarted passes. That is every deployment on
SQLite. It cannot be dropped: `prune_race` is a counterexample with two, in which
a covered operation stands without its cover, so the live set, the next manifest,
the end of a pass and the history counter are all wrong with it. The first two
theorems need no such hypothesis, and neither does `ManifestsKept` above.

`Sequels` is what holds for any number of instances, on top of `Inductive`:

- `Hashed`: a servable checkpoint's bucket hashes are there (what a floor that
  rises clears is servable no longer).
- `ChainsAscend`: a device's operations have ascending counters, and a cover
  reaches only operations that were there before it. So "covered" never goes
  round in a circle, and what covers an operation stands above it.
- `DropsOpen`: dropped deletes lie at or below the latest `floor` field; those of
  a plan that is not stale are live at its covered_seq and their rows stand.

With one instance, `Kept` joins it: `CoversStand`, that an operation whose row
stands and that the floor covers has a cover whose row stands too, and `Swept`,
that the pass has left nothing prunable behind its place. Neither is inductive
without the other: a batch takes covers only above what it has swept, which is
where the ascending order enters; and a row that becomes prunable behind a
pass's place would have to become so without the floor moving, or with a floor
that a second pass has raised.

From `Sequels` and `Kept` the rows and the whole log give the same live set at
every place from the floor up (`LiveSetExact`), and the rest follows by comparing
both sides of a step. `Exact` adds that the latest checkpoint and every plan that
is not stale say what the whole log says: the manifest that the server recomputes
from the last one and the operations since is the one a device takes from the log.
For the refinement, a push is a `Take`, a commit a `Drop` of the plan's deletes,
and everything else, every batch of a pass included, shows nothing at the head.
`CountersDrift` gives each step its change of three numbers, the live weight, the
history weight and the count of deletes dropped late (`HistoryStep`, `PushDrift`,
`NamesDrift`, `CommitDrift`, `PruneDrift`), and `DriftKept` does the arithmetic,
the clamp at 0 included: a late drop is the one move counted twice.

`tlapm BlobUploadsProofs.tla` proves (about 1,670 obligations), from `BlobAssumption`
(some device, at least one segment):

| Theorem | States |
|---|---|
| `TypeCorrect` | `Spec => []Typed` |
| `ListedKeptHolds` | `Spec => []ListedKept` |
| `CountersExactHolds` | `Spec => []CountersExact` |
| `MatchesHold` | `Spec => []CompleteMatches` |
| `SegmentsReadable` | with one request and one collector at a time, `Spec => []RecordedReadable` |
| `CollectionIsBare` | with one request and one collector at a time, `Spec => CollectedBare` |

An append needs room, so types are inductive only together with `Offsets`.
For the other two every step is put in one of a few kinds (`StepKinds`): quiet
ones, which change nothing that is counted; those that free an unlisted upload,
by discarding or marking it; those that take a marked row; and creations,
listings, covers and prunes. `ListedKept` is inductive with types alone: only an
unmarked row is listed, only an unlisted one is freed. `CountersExact` needs
`ListedKept`, so that a row never goes while history counts it, and facts
about cardinalities: a cover that takes `n` live listings meets 0 on the way
down exactly if it takes them all. `CompleteMatches` holds with rivals too: an
append needs its own offset in the transaction that records it, so the segments a
digest is taken over are the ones that stand.

The last two are about the blob store, which the store's transactions do not
cover, and hold with `OneRequest` and `OneCollector`: hypotheses of the theorems,
over any number of devices, faults, creations and restores. Like the runs, they
are about a model in which a blob-store call under way when its handler or pass
stops lands at once or never. The hypotheses cannot be dropped. A second request may still be deleting a given-up upload's objects, or
have yet to put one, and a second collector may hold the keys of a row that has
gone, while an upload of the same bytes begins under the same keys (finding 2 and
the late collector among the [Observations](#observations)). `Sequential`, the
inductive invariant, says what is between the two stores:
a request's segment lies beyond the recorded ones and stands from its put to
its record; a request deletes nothing that is recorded; a collector deletes only
from a marked row, and until one of its deletes fails, the recorded objects that
stand are those it has yet to delete. So a crashed or failed pass starts over
from all keys, and a row goes only once they went in one pass.

`tlapm GroupCommitProofs.tla` proves, from `WriterAssumption` (conflicts are
symmetric, queue and group hold at least one):

| Theorem | States |
|---|---|
| `ConsistentHolds` | `Spec => []Consistent` |
| `CloseDrainsHolds` | `Spec => []CloseDrains`: a writer that has ended over `close` leaves nobody waiting |
| `Implements` | `Spec => AnswersKept`, the refinement |

The heart is `GroupRuns` with `StoreSound`: while a transaction is open, `working`
is `stored` with the writes whose jobs said `ok`, and no group member is in
`stored` before the commit, so an `ok` told after the commit is true and a
`failed` told after a rollback is too. A refusal is over a write in the store or
before it in the group (`RefusedOver`); that write is answered by the same
`Finish`, which is why `Truthful` reads the answers after the step.

`tlapm PullWakesProofs.tla` proves, from `ReachAssumption`:

| Theorem | States |
|---|---|
| `NoneStrandedHolds` | `Spec => []NoneStranded` |
| `WakeOwedHolds` | `Spec => []WakeOwed` |

The inductive invariant speaks of every pull, asleep or not: a record beyond
the cursor and beyond what the pull has read in this turn (`OwedAfterRead`) is owed, lost, or
announced by a change that the receiver has yet to take. That needs the
receiver to be registered for as long as the request runs (`Heeded`): an entry
of the hub that a receiver holds is never removed. `SendsWhole` and `Queued` say
that the announcer's set and the worker's queue hold what the pushes' states say.

`tlapm DeviceChainProofs.tla` proves (about 2,500 obligations), from
`ChainAssumption`:

| Theorem | States |
|---|---|
| `SignsOnceHolds` | `Spec => []SignsOnce` |
| `AcknowledgedStandsHolds` | `Spec => []AcknowledgedStands` |
| `NothingLostHolds` | `Spec => []NothingLost` |
| `NoFalseAlarmHolds` | `Spec => []NoFalseAlarm` |

The inductive invariant, `InductiveHolds`, says of every sync state there is, the
app's, the journal's and the backup's, that it is sound as it stands to what was
signed, reserved and committed (`Soundness`): it does not sign beyond the
reservation, its outbox ascends, its receipts stand and it has lost no edit. The
backup has to be in it, or its return would not re-establish the journal's part.
The rest is:

- `Fresh`: the reservation bounds every counter signed, and a running app signs
  above all of them. `Open` gets that from the mark, whatever the journal says.
- `Replaced`: an attempt that was replaced has left the outbox, until a backup
  comes back and with it perhaps the attempt.
- `Linked`: the chain ascends and each record names the one before it. A batch's
  records that the server holds already lie below the new ones, so the new ones
  link to its head (`CommitsExtend`).
- `InFlight`: a request, and the receipts on their way, are a prefix of the outbox.

A device never reports a fork because the record it takes back next follows the
one it holds acknowledged: that one is on the chain, and the server serves the
next (`ServedFollows`). Each action has its lemma; most are one of four kinds of
steps: `Settled` (receipts and comparisons), `Signing`, `Saved` (the state goes to
disk) and `Resealing`.


Only model-checked: liveness (`CatchesUp`, `DueServed`, `Collected`, `CloseEnds`,
`Answered`, `Delivered`, `Woken`, `CaughtUp`), which together with ENABLED is out
of the prover's reach. `LiveSetKept` is a refinement of safety only: `LiveSet`
states no fairness. Nothing is proved by induction over data, and no module here
declares a RECURSIVE operator.

## Findings

1. **Two passes undo the ascending order** (`prune_race`, `CoveredGoFirst`).
   `prune_batch` reads the floor anew but continues after its own place, and the
   advisory lock is per transaction. Instance A stands behind a covered
   operation; B raises the floor; A follows it, prunes the covering operation
   and finishes, and marks `pruned_floor`; or B does so and crashes. The covered
   operation stands without its cover: live in the rows, counted by `judge` and
   served by the live route. No later pass takes it, from 0 or not:
   `delete_log_entry` removed the `covers` rows with the covering operation
   (`txn.rs:2388` of the SQLite store), and `prunable_entries` wants such a row, or a
   dropped delete at or below the delete floor (`txn.rs:476`). So it stays for good,
   and `pruned_floor` says that nothing is left to prune, until a new operation
   covers it or, if it is a delete, a later checkpoint drops it. Only PostgreSQL
   mode runs more than one instance.
2. **A refused rival deletes the object of a completed blob** (`blobs_rival`,
   `RivalKept`). After a restore left a listed blob missing, its uploader and
   another writer upload it again, as the document asks. One of them records
   the last segment; the row is complete, and to a device that did not create
   it `own_upload` now says `not_found`, to `record_segment` and then to
   `stranded`, which takes that for a row that is gone. `patch` deletes the
   object that the completed row records, and the blob is unreadable until
   another restore check. The comment above `stranded` rules this case out.
3. **An outbox stays behind the head it is compared with** (`device_follows`,
   `OutboxFollowsHead`). `compare_own_chain` compares the server's head with the
   last receipt, `own.acked`. After a push whose answer was lost, and a restart,
   the records between the two are the outbox's own. The device takes them back
   as acknowledged, leaves them in the outbox and seals the outbox again at its
   own counters, which the server holds already. Each push is answered
   `chain_conflict` with a head equal to `own.acked`, which `refused_at` leaves for
   the next round: the outbox never leaves, and nothing else from this device
   does. The comment at `workspace.rs:1918` says that the outbox now follows the
   server's head. A device that only lost the answer, and is not restarted, sends
   the same bytes again and gets its receipts.

## Observations

Seen while modelling, and shown by no run here:

- *A dropped delete counts as history twice.* Push and commit both move it out of
  usage when the push lands above the checkpoint's covered_seq. `DriftBounded`
  shows that this is the only source of drift within the bounds, and that it only
  ever understates usage and overstates history.
- *A dropped delete is missing from an older servable checkpoint.* `live_ops` skips
  dropped rows at any sequence: a device that bootstraps there gets leaves that do
  not hash to the root it verified, and has to start over at a newer checkpoint.
- *A late collector deletes a new upload's object.* Two instances hold the
  segments of one marked row; one finishes it, the device creates the upload again
  and records a segment of the same bytes, and the other instance's delete comes
  after. Only PostgreSQL mode runs more than one instance.
- *A delete outlives the handler that began it.* The folder's blob store removes
  a file in a blocking task (`blobs.rs:152`), and a remote one may carry out a
  request whose caller is gone. The handler or the pass stops, the next one deletes
  the same keys and the row goes, the device uploads the same bytes again, and the
  first delete takes the new object: a recorded segment is gone, also with one
  request and one collector. In the same way a late put leaves an object behind
  after the collection.
- *A refusal may outlive its reason.* A write refused over another of its group is
  told so even when the group then fails (`Request::finish`), so neither happened.
- *A pruned position stops a rebuild.* `compare_own_chain` has no case for
  `pruned`: a device without a journal asks for its chain from position 1 and its
  rebuild fails as soon as one of the positions is pruned. With a journal the
  round goes on without the comparison.
- *A rebuild that dies leaves a journal that maps no file.* `start` saves it before
  the comparison; the next start opens it like any other and signs every file as
  new.
- *A backup of the journal can fork an attempt.* An outbox record that a backup
  brings back is sealed again in another way at its old counter; `SignsOnce` has a
  clause for it. At the re-seal limit a device does not look at the head of a
  `chain_conflict` until it starts again.
- *A cancelled push wakes nobody.* When the caller's future is dropped after the
  write was queued, the write commits and `Store::push` never reaches
  `hub.notify` and `announce`, though the comment there speaks of every committed
  push. It costs a pull its wait (`CaughtUp`), no record.
- *A page that is only compacted does not end a wait*, since `pull` looks at the
  entries alone.

Not a finding but worth knowing: a checkpoint that pays for a grant skips the
due check (`checkpoints.rs:590`) and, committing, sets the due point to 0
whatever its `covered_seq`, while the document calls `checkpoint_due` the
sequence that the next checkpoint must reach. `DueServed` therefore asks for a
due point to be met or withdrawn, not for it to be reached.

## Abstractions and what is not modelled

- `DeviceChain` is one unrestricted domain. Moves between domains, rewrites,
  uploads before a push, text patches that become snapshots, and the restore
  generation are left out, as is a rebuild that dies after its first pulled page.
  The credential store's mark refuses an older journal by its epoch only. A batch
  is any prefix of the outbox. A push may end after any batch, as it does with its
  64th attempt or a refresh that fails; one that has to compare the chain ends
  there, and what the code would send afterwards is the model's next push.
- Digests are the numbers of the seals: two seals never collide and a digest says
  nothing of the bytes.
- `PullWakes` has one workspace and one domain; the page budget, access and
  compaction do not matter to a wake except as noted. `pending`'s limit of 4,096
  domains, the PostgreSQL worker's group limit and a panic in it are left out.
  Realtime connections subscribe before they read, like pulls.
- Every entry weighs 1, so `log_weight` is `head_seq` and the weight interval
  coincides with the entry interval.
- Each object has a manifest bucket of its own. A bucket shared by several
  objects is recomputed for all of them; with one object each, a bucket left
  out of the recomputation shows.
- A manifest is the set of its leaves; hashes do not collide.
- Signatures, access and epochs are not represented: the push that would be
  refused for them simply does not happen, and `Refuse` stands for every
  refusal of a planned checkpoint. `check_rotation` is among them.
- A repeated checkpoint push that answers with its first receipt, `heads` of
  removed devices (`card_gone`) and deleted domains are left out.
- A device signs from the whole log. That a bootstrapped device computes the
  same is not shown here.
- `CrossQuota` may happen at any time, since other domains of the workspace
  count towards the quota; `RelieveStart` may run once a crossing has happened.
  `DomainUsage` does not tie the two to its counters for the same reason.
- A replacement epoch in `DomainUsage` skips no epoch; blobs and shares are not
  counted there.
- `BlobUploads` is one blob in one domain, with one length and digest: another
  creation under its ID is `id_conflict` and changes nothing. Every device is an
  active writer. Quota refusals of a creation or a push are left out, since a
  refused transaction changes nothing. A put or a delete of an object that is under
  way when its handler or pass stops (`RequestDropped`, `PassCrashes`) has landed or
  never lands; that it may also land later is told among the Observations.
- Deletes list no blobs, so the double count of a dropped delete does not reach a
  blob's counters.
- A prune transaction takes several operations; `PruneListing` takes one, which
  is the same in the counters because they stay exact and never reach the
  clamp at 0.
- `Restore` is one step with no server running, over a database that did not go
  back: it covers the objects lost and the unknown ones moved away (to the
  quarantine, from which nothing returns here). That the check may run beside
  `serve`, and a database that forgets rows, are left out.
- Components listed as `not_modelled` in `PROJECT.json` have their reason there.

## Plan

Done so far, in this order: the log with checkpoints and pruning, its counters,
blobs, the writer, the device's chain, pulls and wakes. Left, in order of weight:

1. `DomainReader`: a device's cursor and compacted pages over `DomainLog`; bootstrap
   at a servable checkpoint; that it ends with `TrueLive` and with the classes the
   protocol gives (a device that derives classes from live operations alone may
   see a state where the server keeps a patch).
2. The restore generation: a server that goes back, and what `DeviceChain` and
   `DomainReader` do to settle; the blob check beside running requests.
3. Policy changes with pending rotation; lock order on PostgreSQL.
4. Moves between restricted domains: the pairs of records that leave together.
5. `local-core`'s chat journal and settings.

Theorems to add: what of `LiveExact` two instances leave standing (the rows' live
set contains the log's at every servable covered_seq, and equals it while no pass
runs behind a raised floor); weaker conditions for `RecordedReadable` and
`CollectedBare` than one request and one collector; and those of the modules
above as they come.
