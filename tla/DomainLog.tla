----------------------------- MODULE DomainLog -----------------------------
(***************************************************************************)
(* One key domain's log as the sync v2 server stores it (sync-store): the  *)
(* operations devices push and the live set they leave, the checkpoints    *)
(* devices sign over that live set, the retention floor, and the pruning   *)
(* that every server instance's maintenance pass runs in batches while     *)
(* pushes go on.                                                           *)
(*                                                                         *)
(* log holds every entry ever appended, so Len(log) is the domain's        *)
(* head_seq; kept holds the sequences whose rows still stand.  A server    *)
(* definition reads only rows in kept; definitions over AllRows are what   *)
(* a device that followed the whole log computes.  Every entry weighs one, *)
(* so the running log_weight is head_seq and weight_since_checkpoint is    *)
(* entries_since_checkpoint.                                               *)
(***************************************************************************)
EXTENDS Integers, Sequences, FiniteSets

CONSTANTS
    Devices,        \* devices that may write the domain
    Rids,           \* object IDs; each stands for a manifest bucket of its own
    Instances,      \* server instances, each running the maintenance pass
    Interval,       \* CheckpointInterval: entries that make a checkpoint due
    Retained,       \* retained_bytes
    Batch,          \* prune_batch, and the rows clear_checkpoint_data takes
    MaxPatches,     \* MAX_LIVE_PATCHES
    MaxStates,      \* MAX_LIVE_STATES
    MaxEntries,     \* bound: entries other than checkpoints
    MaxPolicies,    \* bound: policy entries
    MaxEpochs,      \* bound: epoch entries
    MaxCrossings,   \* bound: quota crossings
    MaxPlans,       \* bound: checkpoint pushes in flight
    MaxDeletes      \* bound: delete operations

ASSUME ConstantsAssumption ==
    /\ IsFiniteSet(Devices) /\ IsFiniteSet(Rids)
    /\ Interval \in Nat \ {0}
    /\ Retained \in Nat
    /\ Batch \in Nat \ {0}
    /\ {MaxPatches, MaxStates, MaxEntries, MaxPolicies, MaxEpochs, MaxCrossings,
        MaxPlans, MaxDeletes} \subseteq Nat

VARIABLES
    log,                        \* every entry ever appended, by sequence
    kept,                       \* the sequences whose rows stand
    dropped,                    \* deletes a checkpoint's floor dropped
    checkpoints,                \* the checkpoints table, by number
    buckets,                    \* numbers whose bucket hashes stand
    chain_heads,                \* each device's chain head counter
    retention_floor,            \* published floor
    pruned_floor,               \* the floor pruning finished at
    checkpoint_due,             \* published due point, or 0
    entries_since_checkpoint,
    quota_crossings,            \* crossings the workspace counted
    crossing_seen,              \* the crossings this domain has seen
    plans,                      \* checkpoint pushes between plan and commit
    inst                        \* each instance's maintenance pass

row == <<retention_floor, pruned_floor, checkpoint_due, entries_since_checkpoint,
         quota_crossings, crossing_seen>>
vars == <<log, kept, dropped, checkpoints, buckets, chain_heads, row, plans, inst>>

-----------------------------------------------------------------------------
(* Data.                                                                   *)

Cover == [device : Devices, counter : Nat]

OperationEntry ==
    [type : {"operation"}, device : Devices, counter : Nat, rid : Rids,
     delete : BOOLEAN, class : {"patch", "state"}, covers : SUBSET Cover]

\* Policy, epoch and checkpoint entries: what pruning reads of them is their
\* type and place.
OtherEntry == [type : {"policy", "epoch", "checkpoint"}]

Entry == OperationEntry \cup OtherEntry

\* What a checkpoint says of the log at covered: the operations live there,
\* which its root commits to, the objects they are on, each device's chain
\* head, and the newest policy and epoch entries.
Body ==
    [manifest : SUBSET Nat, objects : Int, heads : [Devices -> Nat],
     policy : Nat, epoch : Nat]

Checkpoint == [seq : Nat, covered : Nat, floor : Nat, body : Body]

\* A checkpoint push: the device's signed fields, and the server's plan.
Plan ==
    [device : Devices, previous : Nat, covered : Nat, floor : Nat, grant : BOOLEAN,
     signed : Body, planned : Body, drops : SUBSET Nat]

Pass == [pc : {"idle", "persist", "prune"}, forced : Nat, after : Nat]
IdlePass == [pc |-> "idle", forced |-> 0, after |-> 0]

MaxOf(S) == CHOOSE x \in S : \A y \in S : y <= x
MinOf(S) == CHOOSE x \in S : \A y \in S : x <= y
Max2(a, b) == IF a >= b THEN a ELSE b
Min2(a, b) == IF a <= b THEN a ELSE b

\* Slip: the batch's query orders the rows downwards.
Highest(S, n) == {x \in S : Cardinality({y \in S : y > x}) < n}

\* The n lowest members of S.
Lowest(S, n) == {x \in S : Cardinality({y \in S : y < x}) < n}

AllRows == 1..Len(log)
IsOp(s) == log[s].type = "operation"

-----------------------------------------------------------------------------
(* The live set.                                                           *)

\* The operation at c has a cover that takes the one at s.
Covers(c, s) ==
    /\ IsOp(c) /\ IsOp(s)
    /\ log[c].rid = log[s].rid
    /\ \E v \in log[c].covers : v.device = log[s].device /\ v.counter >= log[s].counter

CoveredAt(E, s, at) == \E c \in E : c <= at /\ Covers(c, s)

\* The operations on r live at sequence at, as the rows E tell it.
LiveAt(E, r, at) ==
    {s \in E : /\ s <= at /\ IsOp(s) /\ log[s].rid = r
               /\ s \notin dropped
               /\ ~CoveredAt(E, s, at)}

\* A rid's row stands while an operation on it does.
KnownRid(r) == \E s \in kept : IsOp(s) /\ log[s].rid = r

ClassOf(r, covers) == IF covers = {} /\ KnownRid(r) THEN "patch" ELSE "state"

\* Every cover names an operation the store holds.
CoversKnown(r, covers) ==
    \A v \in covers : \E s \in kept :
        IsOp(s) /\ log[s].rid = r /\ log[s].device = v.device /\ log[s].counter = v.counter

\* Slip: the limits leave the new operation itself out of the count.
WithinLimitsBefore(d, r, covers) ==
    LET left  == {s \in LiveAt(kept, r, Len(log)) :
                     ~\E v \in covers : v.device = log[s].device /\ v.counter >= log[s].counter}
        states == {s \in left : log[s].class = "state"}
    IN  /\ ClassOf(r, covers) = "state" => ~\E s \in states : log[s].device = d
        /\ Cardinality(left \ states) <= MaxPatches
        /\ Cardinality(states) <= MaxStates

\* The limits of judge on what would be live on r with device d's new
\* operation, which nothing on r covers: its counter is above every counter d
\* has used.
WithinLimits(d, r, covers) ==
    LET class == ClassOf(r, covers)
        left  == {s \in LiveAt(kept, r, Len(log)) :
                     ~\E v \in covers : v.device = log[s].device /\ v.counter >= log[s].counter}
        states == {s \in left : log[s].class = "state"}
        newState == IF class = "state" THEN 1 ELSE 0
    IN  /\ class = "state" => ~\E s \in states : log[s].device = d
        /\ Cardinality(left \ states) + (1 - newState) <= MaxPatches
        /\ Cardinality(states) + newState <= MaxStates

-----------------------------------------------------------------------------
(* Appending an entry: the head row's progress.                            *)

\* Progress for an entry at seq; dueNow makes a checkpoint due at it.
Progress(seq, dueNow) ==
    LET entries == entries_since_checkpoint + 1
        byInterval == IF checkpoint_due = 0 /\ entries >= Interval THEN seq ELSE checkpoint_due
        crossed == crossing_seen < quota_crossings /\ entries_since_checkpoint > 0
    IN  /\ entries_since_checkpoint' = entries
        /\ checkpoint_due' = IF crossed \/ dueNow THEN Max2(byInterval, seq) ELSE byInterval
        /\ crossing_seen' = quota_crossings

Room == Cardinality({s \in AllRows : log[s].type # "checkpoint"}) < MaxEntries
Count(type) == Cardinality({s \in AllRows : log[s].type = type})

\* A new domain's log holds the policy entry of the change that created it and
\* epoch 1, both counted.
Init ==
    /\ log = <<[type |-> "policy"], [type |-> "epoch"]>>
    /\ kept = 1..2
    /\ dropped = {}
    /\ checkpoints = <<>>
    /\ buckets = {}
    /\ chain_heads = [d \in Devices |-> 0]
    /\ retention_floor = 0
    /\ pruned_floor = 0
    /\ checkpoint_due = IF Interval <= 2 THEN Interval ELSE 0
    /\ entries_since_checkpoint = 2
    /\ quota_crossings = 0
    /\ crossing_seen = 0
    /\ plans = {}
    /\ inst = [i \in Instances |-> IdlePass]

\* The entry takes the next sequence, and its row stands.
Appends(e) ==
    /\ log' = Append(log, e)
    /\ kept' = kept \cup {Len(log) + 1}

\* Device d pushes an operation on r.
PushOperation(d, r, delete, covers) ==
    /\ Room
    /\ CoversKnown(r, covers)
    /\ WithinLimits(d, r, covers)
    /\ Appends([type |-> "operation", device |-> d, counter |-> chain_heads[d] + 1,
                rid |-> r, delete |-> delete, class |-> ClassOf(r, covers),
                covers |-> covers])
    /\ chain_heads' = [chain_heads EXCEPT ![d] = @ + 1]
    /\ Progress(Len(log) + 1, FALSE)
    /\ UNCHANGED <<dropped, checkpoints, buckets, retention_floor, pruned_floor,
                   quota_crossings, plans, inst>>

\* A policy change writes its entry; dueNow when it ends the write access of
\* the latest checkpoint's signer or of a device with a chain head.
AppendPolicy(dueNow) ==
    /\ Room /\ Count("policy") < MaxPolicies
    /\ dueNow => checkpoints # <<>> \/ \E d \in Devices : chain_heads[d] > 0
    /\ Appends([type |-> "policy"])
    /\ Progress(Len(log) + 1, dueNow)
    /\ UNCHANGED <<dropped, checkpoints, buckets, chain_heads, retention_floor,
                   pruned_floor, quota_crossings, plans, inst>>

\* A rotation, or a replacement, which makes a checkpoint due.
AppendEpoch(replacement) ==
    /\ Room /\ Count("epoch") < MaxEpochs
    /\ Appends([type |-> "epoch"])
    /\ Progress(Len(log) + 1, replacement)
    /\ UNCHANGED <<dropped, checkpoints, buckets, chain_heads, retention_floor,
                   pruned_floor, quota_crossings, plans, inst>>

\* Usage and history together come to exceed the quota.
CrossQuota ==
    /\ quota_crossings < MaxCrossings
    /\ quota_crossings' = quota_crossings + 1
    /\ UNCHANGED <<log, kept, dropped, checkpoints, buckets, chain_heads, retention_floor,
                   pruned_floor, checkpoint_due, entries_since_checkpoint, crossing_seen,
                   plans, inst>>

-----------------------------------------------------------------------------
(* Checkpoints.                                                            *)

NoCheckpoint ==
    [seq |-> 0, covered |-> 0, floor |-> 0,
     body |-> [manifest |-> {}, objects |-> 0, heads |-> [d \in Devices |-> 0],
               policy |-> 0, epoch |-> 0]]
Latest == IF checkpoints = <<>> THEN NoCheckpoint ELSE checkpoints[Len(checkpoints)]

\* A checkpoint can be served while its covered_seq is at or above the floor.
Servable == {n \in DOMAIN checkpoints : checkpoints[n].covered >= retention_floor}

\* Slip: whatever is alone on its rid is dropped, a delete or not.
FloorDropsAnything(E, floor, covered) ==
    {s \in E : /\ s > Latest.floor /\ s <= floor /\ IsOp(s)
               /\ LiveAt(E, log[s].rid, covered) = {s}}

\* The deletes a floor rising to floor drops, as the rows E tell it: those
\* between the two floors that are all that is live on their rid at covered.
FloorDrops(E, floor, covered) ==
    {s \in E : /\ s > Latest.floor /\ s <= floor
               /\ IsOp(s) /\ log[s].delete
               /\ LiveAt(E, log[s].rid, covered) = {s}}

\* Each device's chain head at covered, moved on from heads by the rows of E
\* after from.
HeadsAt(E, heads, from, covered) ==
    [d \in Devices |->
        MaxOf({heads[d]} \cup {log[s].counter : s \in {x \in E :
                  x > from /\ x <= covered /\ IsOp(x) /\ log[x].device = d}})]

\* The newest entry of a type at or below at, or 0.
NewestAt(E, type, at) == MaxOf({0} \cup {s \in E : s <= at /\ log[s].type = type})

\* What a device that holds every row signs.
Signed(floor, covered) ==
    LET drops == FloorDrops(AllRows, floor, covered)
        live == [r \in Rids |-> LiveAt(AllRows, r, covered) \ drops]
    IN  [manifest |-> UNION {live[r] : r \in Rids},
         objects |-> Cardinality({r \in Rids : live[r] # {}}),
         heads |-> HeadsAt(AllRows, NoCheckpoint.body.heads, 0, covered),
         policy |-> NewestAt(AllRows, "policy", covered),
         epoch |-> NewestAt(AllRows, "epoch", covered)]

\* The rids of the records after the latest checkpoint.
TouchedByRecords(floor, covered) ==
    {log[s].rid : s \in {x \in kept : IsOp(x) /\ x > Latest.covered /\ x <= covered}}

\* And those of the deletes that floor drops. (Slip: TouchedByRecords for Touched
\* leaves those buckets as they were.)
Touched(floor, covered) ==
    TouchedByRecords(floor, covered)
        \cup {log[s].rid : s \in FloorDrops(kept, floor, covered)}

\* What the server recomputes: the previous manifest, with the buckets that a
\* record since it or a dropped delete touched read again from the rows that
\* stand, and the previous count and heads moved on the same way.
Planned(floor, covered) ==
    LET drops == FloorDrops(kept, floor, covered)
        touched == Touched(floor, covered)
        after == [r \in touched |-> LiveAt(kept, r, covered) \ drops]
    IN  [manifest |-> {s \in Latest.body.manifest : log[s].rid \notin touched}
                          \cup UNION {after[r] : r \in touched},
         objects |-> Latest.body.objects
                       + Cardinality({r \in touched : after[r] # {}})
                       - Cardinality({r \in touched : LiveAt(kept, r, Latest.covered) # {}}),
         heads |-> HeadsAt(kept, Latest.body.heads, Latest.covered, covered),
         policy |-> NewestAt(kept, "policy", covered),
         epoch |-> NewestAt(kept, "epoch", covered)]

\* A checkpoint covers everything through the one before it and the published
\* floor, and its floor field lies between that checkpoint's and the published.
Bounds(covered, floor) ==
    /\ covered >= Latest.seq /\ covered >= retention_floor
    /\ floor >= Latest.floor /\ floor <= retention_floor

\* Device d, which read every row through covered, signs a checkpoint over it,
\* and the server plans it in a read transaction. A checkpoint that pays for a
\* grant needs no due point; a device signs another only when one is due.
PlanCheckpoint(d, covered, floor, grant) ==
    /\ ~\E p \in plans : p.device = d
    /\ Cardinality(plans) < MaxPlans
    /\ Bounds(covered, floor)
    /\ NewestAt(AllRows, "epoch", covered) > 0
    /\ IF grant THEN Room /\ Count("policy") < MaxPolicies
                ELSE checkpoint_due # 0 /\ covered >= checkpoint_due
    /\ plans' = plans \cup
          {[device |-> d, previous |-> Len(checkpoints), covered |-> covered, floor |-> floor,
            grant |-> grant, signed |-> Signed(floor, covered),
            planned |-> Planned(floor, covered), drops |-> FloorDrops(kept, floor, covered)]}
    /\ UNCHANGED <<log, kept, dropped, checkpoints, buckets, chain_heads, row, inst>>

\* Slips: the commit trusts the link its plan checked; it wants more than the
\* due point.
NeverStale(p) == FALSE
PastDue(p) == checkpoint_due # 0 /\ p.covered > checkpoint_due

\* The committing transaction's checks under the head row.
Stale(p) == p.previous # Len(checkpoints)
Due(p) == checkpoint_due # 0 /\ p.covered >= checkpoint_due
Matches(p) == p.planned = p.signed

\* The checkpoint's entry lands at seq, and its row with it.
Commits(p, seq) ==
    /\ checkpoints' = Append(checkpoints,
          [seq |-> seq, covered |-> p.covered, floor |-> p.floor, body |-> p.signed])
    /\ buckets' = buckets \cup {Len(checkpoints) + 1}
    /\ dropped' = dropped \cup p.drops
    /\ checkpoint_due' = 0
    /\ entries_since_checkpoint' = 0
    /\ crossing_seen' = quota_crossings
    /\ pruned_floor' = IF p.drops = {} THEN pruned_floor ELSE 0
    /\ plans' = plans \ {p}
    /\ UNCHANGED <<chain_heads, retention_floor, quota_crossings, inst>>

CommitCheckpoint(p) ==
    /\ ~p.grant /\ ~Stale(p) /\ Due(p) /\ Matches(p)
    /\ Appends([type |-> "checkpoint"])
    /\ Commits(p, Len(log) + 1)

\* An approval or a grant commits its policy entry and the checkpoint that
\* sets the account's history floor in one transaction.
GrantCheckpoint(p) ==
    /\ p.grant /\ ~Stale(p) /\ Matches(p)
    /\ Room /\ Count("policy") < MaxPolicies
    /\ log' = log \o <<[type |-> "policy"], [type |-> "checkpoint"]>>
    /\ kept' = kept \cup {Len(log) + 1, Len(log) + 2}
    /\ Commits(p, Len(log) + 2)

\* The commit refuses the checkpoint and its push with it: it is stale, falls
\* short of the due point, doesn't match, or the signer lost access, the domain
\* waits for a rotation or the push's own change fails, none of which this
\* module tells apart. The device starts over from what it reads next.
RefuseCheckpoint(p) ==
    /\ plans' = plans \ {p}
    /\ UNCHANGED <<log, kept, dropped, checkpoints, buckets, chain_heads, row, inst>>

-----------------------------------------------------------------------------
(* Retention: one maintenance pass per instance.                           *)

\* Checkpoints with retained_bytes of log after their entry.
Retired == {n \in DOMAIN checkpoints : checkpoints[n].seq <= Len(log) - Retained}

\* Slips: the floor is below covered_seq; the oldest retired checkpoint gives it.
RuleFloorBelow == MaxOf({retention_floor} \cup {checkpoints[n].covered - 1 : n \in Retired})
RuleFloorOldest == MinOf({retention_floor} \cup {checkpoints[n].covered : n \in Retired})

\* The floor of the retained_bytes rule: the newest retired checkpoint's covered_seq.
RuleFloor == MaxOf({retention_floor} \cup {checkpoints[n].covered : n \in Retired})

Pending ==
    \/ pruned_floor < retention_floor
    \/ \E n \in Retired : checkpoints[n].covered > retention_floor

SetPass(i, pass) == inst' = [inst EXCEPT ![i] = pass]

\* The pass finds the domain pending in a read transaction.
MaintainStart(i) ==
    /\ inst[i].pc = "idle" /\ Pending
    /\ SetPass(i, [IdlePass EXCEPT !.pc = "persist"])
    /\ UNCHANGED <<log, kept, dropped, checkpoints, buckets, chain_heads, row, plans>>

\* Over quota, the pass picks the next checkpoint above the floor.
RelieveStart(i) ==
    LET above == {checkpoints[n].covered : n \in DOMAIN checkpoints} \ 0..retention_floor
    IN  /\ inst[i].pc = "idle" /\ quota_crossings > 0 /\ above # {}
        /\ SetPass(i, [IdlePass EXCEPT !.pc = "persist", !.forced = MinOf(above)])
        /\ UNCHANGED <<log, kept, dropped, checkpoints, buckets, chain_heads, row, plans>>

\* The floor the rule or the quota gives, never beyond the latest checkpoint,
\* commits before the pass deletes anything.
PersistFloor(i) ==
    LET floor == Min2(Max2(RuleFloor, inst[i].forced), Latest.covered)
    IN  /\ inst[i].pc = "persist"
        /\ retention_floor' = Max2(retention_floor, floor)
        /\ SetPass(i, [IdlePass EXCEPT !.pc = "prune"])
        /\ UNCHANGED <<log, kept, dropped, checkpoints, buckets, chain_heads, pruned_floor,
                       checkpoint_due, entries_since_checkpoint, quota_crossings,
                       crossing_seen, plans>>

\* Slip: the latest checkpoint's floor field decides, whatever is servable below.
DeleteFloorLatest ==
    IF Servable = {} THEN 0 ELSE Min2(checkpoints[MaxOf(Servable)].floor, retention_floor)

\* The floor field of the lowest servable checkpoint, at most the floor.
DeleteFloor ==
    IF Servable = {} THEN 0 ELSE Min2(checkpoints[MinOf(Servable)].floor, retention_floor)

\* Slips: what the head covers may go; so may what the rule's floor covers,
\* before it is published; and the newest names at the head stand for those at
\* the floor.
PrunableAtHead(s) ==
    /\ s <= retention_floor
    /\ \/ log[s].type = "checkpoint" /\ s < retention_floor
       \/ log[s].type \in {"policy", "epoch"} /\ s < NewestAt(kept, log[s].type, retention_floor)
       \/ IsOp(s) /\ s \in dropped /\ s <= DeleteFloor
       \/ IsOp(s) /\ CoveredAt(kept, s, Len(log))
PrunableAtRule(s) ==
    /\ s <= RuleFloor
    /\ \/ log[s].type = "checkpoint" /\ s < RuleFloor
       \/ log[s].type \in {"policy", "epoch"} /\ s < NewestAt(kept, log[s].type, RuleFloor)
       \/ IsOp(s) /\ s \in dropped /\ s <= DeleteFloor
       \/ IsOp(s) /\ CoveredAt(kept, s, RuleFloor)
PrunableNames(s) ==
    /\ s <= retention_floor
    /\ \/ log[s].type = "checkpoint" /\ s < retention_floor
       \/ log[s].type \in {"policy", "epoch"} /\ s < NewestAt(kept, log[s].type, Len(log))
       \/ IsOp(s) /\ s \in dropped /\ s <= DeleteFloor
       \/ IsOp(s) /\ CoveredAt(kept, s, retention_floor)

\* The rows at or below the floor that nothing needs.
PrunableRow(s) ==
    /\ s <= retention_floor
    /\ \/ log[s].type = "checkpoint" /\ s < retention_floor
       \/ log[s].type \in {"policy", "epoch"} /\ s < NewestAt(kept, log[s].type, retention_floor)
       \/ IsOp(s) /\ s \in dropped /\ s <= DeleteFloor
       \/ IsOp(s) /\ CoveredAt(kept, s, retention_floor)
Prunable == {s \in kept : PrunableRow(s)}

\* Slip: the checkpoint at the floor loses its hashes too.
ClearableAtFloor == {n \in buckets : checkpoints[n].covered <= retention_floor}

\* Checkpoints below the floor whose bucket hashes still stand.
Clearable == {n \in buckets : checkpoints[n].covered < retention_floor}

\* One transaction of the pass: a batch of prunable rows in ascending order
\* after the pass's place; when that is all of them, a batch of checkpoint
\* data; when that is all of it, pruning has finished at the floor.
PruneBatch(i) ==
    LET after == inst[i].after
        batch == Lowest({s \in Prunable : s > after}, Batch)
        full == Cardinality(batch) = Batch
        last == IF batch = {} THEN after ELSE MaxOf(batch)
        cleared == IF full THEN {} ELSE Lowest(Clearable, Batch)
        done == ~full /\ Cardinality(cleared) < Batch
    IN  /\ inst[i].pc = "prune"
        /\ kept' = kept \ batch
        /\ buckets' = buckets \ cleared
        /\ pruned_floor' = IF done THEN retention_floor ELSE pruned_floor
        /\ SetPass(i, IF done THEN IdlePass ELSE [inst[i] EXCEPT !.after = last])
        /\ UNCHANGED <<log, dropped, checkpoints, chain_heads, retention_floor, checkpoint_due,
                       entries_since_checkpoint, quota_crossings, crossing_seen, plans>>

\* The instance stops between two transactions; the next pass starts over.
CrashPass(i) ==
    /\ inst[i].pc # "idle"
    /\ SetPass(i, IdlePass)
    /\ UNCHANGED <<log, kept, dropped, checkpoints, buckets, chain_heads, row, plans>>

-----------------------------------------------------------------------------
(* The specification.                                                      *)

\* Covers a device may name: at most one of each device, of operations whose
\* rows it may still hold.
KnownCovers(r) ==
    {[device |-> log[s].device, counter |-> log[s].counter] :
        s \in {x \in kept : IsOp(x) /\ log[x].rid = r}}
CoverSets(r) ==
    {S \in SUBSET KnownCovers(r) : \A v, w \in S : v.device = w.device => v = w}

\* A delete covers what its device saw live.
Push == \E d \in Devices, r \in Rids, delete \in BOOLEAN : \E covers \in CoverSets(r) :
            /\ delete => /\ covers # {}
                         /\ Cardinality({s \in AllRows : IsOp(s) /\ log[s].delete}) < MaxDeletes
            /\ PushOperation(d, r, delete, covers)
PolicyChange == \E dueNow \in BOOLEAN : AppendPolicy(dueNow)
Rotate == \E replacement \in BOOLEAN : AppendEpoch(replacement)

\* Floors a device may have read: the server publishes 0, then covered_seqs.
Floors == {0} \cup {checkpoints[n].covered : n \in DOMAIN checkpoints}

Sign == \E d \in Devices, covered \in AllRows, floor \in Floors :
            PlanCheckpoint(d, covered, floor, FALSE)
SignGrant == \E d \in Devices, covered \in AllRows, floor \in Floors :
            PlanCheckpoint(d, covered, floor, TRUE)
Commit == \E p \in plans : CommitCheckpoint(p)
CommitGrant == \E p \in plans : GrantCheckpoint(p)
Refuse == \E p \in plans : RefuseCheckpoint(p)
Maintain(i) == MaintainStart(i) \/ PersistFloor(i) \/ PruneBatch(i)

Next ==
    \/ Push \/ PolicyChange \/ Rotate \/ CrossQuota
    \/ Sign \/ SignGrant \/ Commit \/ CommitGrant \/ Refuse
    \/ \E i \in Instances : Maintain(i) \/ RelieveStart(i) \/ CrashPass(i)

Spec == Init /\ [][Next]_vars

\* A pass that crashed starts again, and once it may run a transaction again
\* and again it does; a device that may sign or commit does so in time.
Fairness ==
    /\ \A i \in Instances :
          WF_vars(MaintainStart(i)) /\ SF_vars(PersistFloor(i)) /\ SF_vars(PruneBatch(i))
    /\ SF_vars(Sign) /\ SF_vars(Commit) /\ WF_vars(Refuse)

FairSpec == Spec /\ Fairness

-----------------------------------------------------------------------------
(* Properties.                                                             *)

TypeOK ==
    /\ log \in Seq(Entry)
    /\ kept \subseteq AllRows
    /\ dropped \subseteq Nat
    /\ checkpoints \in Seq(Checkpoint)
    /\ buckets \subseteq DOMAIN checkpoints
    /\ chain_heads \in [Devices -> Nat]
    /\ {retention_floor, pruned_floor, checkpoint_due, entries_since_checkpoint,
        quota_crossings, crossing_seen} \subseteq Nat
    /\ plans \subseteq Plan
    /\ inst \in [Instances -> Pass]

StoreLive(at) == UNION {LiveAt(kept, r, at) : r \in Rids}
TrueLive(at) == UNION {LiveAt(AllRows, r, at) : r \in Rids}
ServedAt == {checkpoints[n].covered : n \in Servable} \cup {Len(log)}

\* Every operation a servable checkpoint's root commits to, and every
\* operation live at the head, keeps its row: a bootstrap at that checkpoint
\* can be served the records its manifest names (sync-store retention.rs,
\* prune_batch; the delete floor and the covers below the floor decide).
ManifestKept ==
    /\ \A n \in Servable : checkpoints[n].body.manifest \subseteq kept
    /\ TrueLive(Len(log)) \subseteq kept

\* With one instance pruning, the rows that stand tell the same live set as
\* the whole log, at every servable checkpoint and at the head: a covered
\* operation goes no later than the one that covers it (retention.rs,
\* prune_batch's ascending order).
LiveExact == \A at \in ServedAt : StoreLive(at) = TrueLive(at)

\* What the live and manifest routes serve at the latest checkpoint is what
\* its root commits to, whatever was pushed, dropped or pruned since
\* (checkpoints.rs, live and manifest_leaves).
LatestServed == checkpoints # <<>> => StoreLive(Latest.covered) = Latest.body.manifest

\* The server's recomputation over the rows that stand gives an honest
\* device's manifest, object count and heads, even when the floor rose and
\* pruning ran since it planned (checkpoints.rs, plan and commit_locked).
PlanAgrees == \A p \in plans : ~Stale(p) => Matches(p)

\* pruned_floor at the floor means that nothing is left to prune, so no pass
\* has to look at the domain again (retention.rs, prune_batch; pending_domains).
PruningComplete == pruned_floor = retention_floor => Prunable = {} /\ Clearable = {}

\* The newest policy and epoch entries at each servable checkpoint, and at the
\* head, keep their rows: bootstrap and check_policy_and_epoch read them.
NamesKept ==
    \A at \in ServedAt, type \in {"policy", "epoch"} :
        NewestAt(AllRows, type, at) \in kept

\* A servable checkpoint has its bucket hashes, the latest always, so plan and
\* the manifest routes find them (clear_checkpoint_data).
BucketsKept == Servable \subseteq buckets /\ (checkpoints # <<>> => Len(checkpoints) \in buckets)

\* A published floor is the covered_seq of a checkpoint the store can serve,
\* so a cursor below it always has a checkpoint to start over from
\* (retention.rs, persist_floor).
FloorIsServable == retention_floor > 0 => \E n \in Servable : checkpoints[n].covered = retention_floor

\* Rows go only at or below a floor that an earlier transaction published, and
\* a published floor never falls (retention.rs, persist_floor).
FloorBeforeDelete ==
    [][/\ retention_floor' >= retention_floor
       /\ \A s \in kept \ kept' : s <= retention_floor]_vars

\* What retention passes over is pruned in the end, whichever pass crashes.
CatchesUp == []<>~Pending

\* A due point is met in the end, whichever policy change raises it meanwhile.
DueServed == checkpoint_due # 0 ~> checkpoint_due = 0

\* The store, whatever it prunes, keeps the live set that the protocol defines:
\* the rows that stand, read at the head, change as LiveSet says and pruning is
\* invisible there (live.rs in sync-protocol and in sync-store).
Promise == INSTANCE LiveSet WITH
    live <- {[rid |-> log[s].rid, device |-> log[s].device, counter |-> log[s].counter,
              delete |-> log[s].delete, class |-> log[s].class] : s \in StoreLive(Len(log))},
    chain <- chain_heads

LiveSetKept == Promise!Spec

-----------------------------------------------------------------------------
(* What every step keeps, for any number of instances: the inductive       *)
(* invariant behind ManifestKept and NamesKept.                            *)

\* The floor is 0 or a covered_seq, and so is the floor a pass was given.
FloorsKnown == retention_floor \in Floors /\ \A i \in Instances : inst[i].forced \in Floors

\* A checkpoint starts from what the one before it had seen.
CheckpointsInOrder ==
    /\ \A n \in DOMAIN checkpoints :
          /\ 2 <= checkpoints[n].covered
          /\ checkpoints[n].covered < checkpoints[n].seq
          /\ checkpoints[n].seq <= Len(log)
    /\ \A m, n \in DOMAIN checkpoints : m < n =>
          /\ checkpoints[m].seq <= checkpoints[n].covered
          /\ checkpoints[m].floor <= checkpoints[n].floor

\* A manifest's operation is live at covered: no record through there covers it.
OpenAt(s, covered) ==
    s \in AllRows /\ IsOp(s) /\ s <= covered /\ ~CoveredAt(AllRows, s, covered)

\* Only a later checkpoint, with a higher floor, drops what a manifest names.
ManifestsOpen ==
    \A n \in DOMAIN checkpoints : \A s \in checkpoints[n].body.manifest :
        OpenAt(s, checkpoints[n].covered) /\ (s \in dropped => s > checkpoints[n].floor)

\* A push that is not stale was planned over the latest checkpoint, and what it
\* signed has not been dropped since.
PlansOpen ==
    \A p \in plans :
        /\ p.previous <= Len(checkpoints)
        /\ 2 <= p.covered /\ p.covered <= Len(log)
        /\ ~Stale(p) =>
              /\ p.covered >= Latest.seq /\ p.floor >= Latest.floor
              /\ \A s \in p.drops : s > Latest.floor
              /\ Matches(p) => p.drops \cap p.signed.manifest = {}
              /\ \A s \in p.signed.manifest : OpenAt(s, p.covered) /\ s \notin dropped

\* A row is gone for a reason every servable checkpoint shares: an operation
\* covered at the floor, or dropped at or below all of their floors.
Gone(s) ==
    IsOp(s) =>
        \/ CoveredAt(AllRows, s, retention_floor)
        \/ /\ s \in dropped /\ checkpoints # <<>>
           /\ \A n \in Servable : s <= checkpoints[n].floor
GoneForGood == \A s \in AllRows \ kept : s <= retention_floor /\ Gone(s)

\* The newest names at and above the floor stand.
NamesAbove ==
    /\ Len(log) >= 2 /\ log[1].type = "policy" /\ log[2].type = "epoch"
    /\ \A type \in {"policy", "epoch"} : \A at \in AllRows :
          2 <= at /\ retention_floor <= at => NewestAt(AllRows, type, at) \in kept

\* The inductive invariant: it holds at first and every step keeps it, and it
\* implies ManifestKept, NamesKept and FloorIsServable.
Inductive ==
    TypeOK /\ FloorsKnown /\ CheckpointsInOrder /\ ManifestsOpen /\ PlansOpen /\ GoneForGood
        /\ NamesAbove

-----------------------------------------------------------------------------
\* A claim of the documentation that the code does not keep.

\* sync-v2.md: deleting in ascending order never removes a covering operation
\* before the operations it covers.
CoveredGoFirst ==
    \A s \in kept, c \in AllRows \ kept : IsOp(s) /\ Covers(c, s) => CoveredAt(kept, s, Len(log))

=============================================================================
