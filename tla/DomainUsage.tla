----------------------------- MODULE DomainUsage -----------------------------
(***************************************************************************)
(* What the quota counts of one domain's log: usage_bytes, what is live,   *)
(* and history_bytes, what else retention keeps.  No query ever counts     *)
(* them anew: each transaction of DomainLog adds and takes what it knows   *)
(* to have changed, so a transaction that counts twice, or not at all,     *)
(* leaves them wrong for good.  Every entry weighs one; there are no       *)
(* blobs; the domain is the workspace's own, whose row also counts policy  *)
(* changes and epoch bundles.                                              *)
(***************************************************************************)
EXTENDS DomainLog

VARIABLES
    usage_bytes,
    history_bytes

usageVars == <<vars, usage_bytes, history_bytes>>

\* Neither counter goes below 0.
Add(usage, history) ==
    /\ usage_bytes' = Max2(usage_bytes + usage, 0)
    /\ history_bytes' = Max2(history_bytes + history, 0)

\* n operations move from the live set to history.
LeaveLive(n) == Add(-n, n)

\* Slip: what was taken out before counts again.
LeftBefore(e) ==
    {s \in kept : /\ IsOp(s) /\ log[s].rid = e.rid
                  /\ \E v \in e.covers :
                        v.device = log[s].device /\ v.counter >= log[s].counter}

\* What the operation e takes out of the live set at the head.
Left(e) ==
    {s \in LiveAt(kept, e.rid, Len(log)) :
        \E v \in e.covers : v.device = log[s].device /\ v.counter >= log[s].counter}

\* Of the rows S, those history counts: checkpoints count nowhere.
HistoryOf(S) == {s \in S : log[s].type # "checkpoint"}

UsageInit == Init /\ usage_bytes = 2 /\ history_bytes = 2

\* The operation adds its record to usage, and what it covers leaves.
CountPush ==
    /\ Push
    /\ LET taken == Cardinality(Left(log'[Len(log) + 1])) IN Add(1 - taken, taken)

\* A change counts as usage and its entry as history; so do an epoch's bundle
\* and entry.
CountPolicy == PolicyChange /\ Add(1, 1)
CountRotate == Rotate /\ Add(1, 1)

\* The deletes the floor drops leave the live set; a grant's change counts too.
CountCommit == \E p \in plans : CommitCheckpoint(p) /\ LeaveLive(Cardinality(p.drops))
CountCommitGrant ==
    \E p \in plans :
        LET n == Cardinality(p.drops) IN GrantCheckpoint(p) /\ Add(1 - n, 1 + n)

\* Rows that go are history.
CountPrune(i) == PruneBatch(i) /\ Add(0, -Cardinality(HistoryOf(kept \ kept')))

Uncounted ==
    /\ \/ CrossQuota \/ Sign \/ SignGrant \/ Refuse
       \/ \E i \in Instances :
             MaintainStart(i) \/ PersistFloor(i) \/ RelieveStart(i) \/ CrashPass(i)
    /\ UNCHANGED <<usage_bytes, history_bytes>>

UsageNext ==
    \/ CountPush \/ CountPolicy \/ CountRotate \/ CountCommit \/ CountCommitGrant
    \/ \E i \in Instances : CountPrune(i)
    \/ Uncounted

UsageSpec == UsageInit /\ [][UsageNext]_usageVars

-----------------------------------------------------------------------------
(* Properties.                                                             *)

Live == TrueLive(Len(log))
LiveWeight == Cardinality(Live) + Count("policy") + Count("epoch")
HistoryWeight == Cardinality(HistoryOf(kept \ Live))

\* Deletes that a checkpoint dropped although an operation above its
\* covered_seq, and before its entry, already covered them.
DroppedLate ==
    {s \in dropped : \E n \in DOMAIN checkpoints :
        /\ s <= checkpoints[n].floor
        /\ n > 1 => s > checkpoints[n - 1].floor
        /\ \E c \in checkpoints[n].covered + 1 .. checkpoints[n].seq - 1 : Covers(c, s)}

\* The counters drift by no more than the deletes that were dropped late, and
\* only one way: usage is never above what is live, so no push is refused for
\* space that nothing takes, and history is never below what retention holds
\* (retention.rs, note_operation, note_dropped and prune_batch).
DriftBounded ==
    LET drift == Cardinality(DroppedLate)
    IN  /\ usage_bytes \in LiveWeight - drift .. LiveWeight
        /\ history_bytes \in HistoryWeight .. HistoryWeight + drift

\* The rows of the deletes that a push would drop stand until it is stale, so
\* its commit always finds the lengths to count ("a live operation has no
\* entry", retention.rs, leave_live).
DropsStand == \A p \in plans : ~Stale(p) => p.drops \subseteq kept

=============================================================================
