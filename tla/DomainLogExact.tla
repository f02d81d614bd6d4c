--------------------------- MODULE DomainLogExact ---------------------------
(***************************************************************************)
(* What the rows that stand say of the whole log.  The first part holds    *)
(* for any number of instances: bucket hashes stand, and so do the deletes *)
(* that a push in flight would drop.  The rest is about a server with one  *)
(* instance, as every deployment on SQLite is: the ascending order of a    *)
(* pass then keeps the live set exact, so that the server's plans agree    *)
(* with the devices, a finished pass leaves nothing, the log implements    *)
(* LiveSet, and the counters of DomainUsage drift within their bound.      *)
(***************************************************************************)
EXTENDS DomainLogManifests, DomainUsage

-----------------------------------------------------------------------------
(* Bucket hashes.                                                          *)

\* The bucket hashes of a checkpoint stand until the floor passes it.
Hashed == \A n \in Servable : n \in buckets

LEMMA NextHashed == Inductive /\ Hashed /\ [Next]_vars => Hashed'
  <1> SUFFICES ASSUME Inductive, Hashed, [Next]_vars PROVE Hashed'
    OBVIOUS
  <1>1. TypeOK /\ FloorsKnown /\ CheckpointsInOrder
    BY DEF Inductive
  <1>2. /\ \A n \in DOMAIN checkpoints : checkpoints[n] \in Checkpoint
        /\ retention_floor \in Nat
    BY <1>1 DEF TypeOK
  <1>3. CASE Commit \/ CommitGrant
    <2>1. PICK p \in plans : \E seq : Commits(p, seq)
      BY <1>3 DEF Commit, CommitGrant, CommitCheckpoint, GrantCheckpoint
    <2>2. /\ buckets' = buckets \cup {Len(checkpoints) + 1}
          /\ retention_floor' = retention_floor
      BY <2>1 DEF Commits
    <2>3. PICK c \in Checkpoint : checkpoints' = Append(checkpoints, c)
      BY <1>1, <1>3, CommitFact
    <2>4. /\ DOMAIN checkpoints' = 1..Len(checkpoints) + 1 /\ Len(checkpoints) \in Nat
          /\ DOMAIN checkpoints = 1..Len(checkpoints)
          /\ \A n \in DOMAIN checkpoints : checkpoints'[n] = checkpoints[n]
      BY <1>1, <2>3, CommitCheckpoints
    <2>. QED
      BY <2>2, <2>4 DEF Hashed, Servable
  <1>4. ASSUME NEW i \in Instances, PersistFloor(i)
        PROVE  Hashed'
    <2>1. UNCHANGED <<checkpoints, buckets>> /\ retention_floor' \in Nat
          /\ retention_floor' >= retention_floor
      BY <1>1, <1>4, PersistFact DEF PersistFloor
    <2>. QED
      BY <1>2, <2>1 DEF Hashed, Servable, Checkpoint
  <1>5. ASSUME NEW i \in Instances, PruneBatch(i)
        PROVE  Hashed'
    <2>1. UNCHANGED <<checkpoints, retention_floor>>
      BY <1>5 DEF PruneBatch
    <2>2. PICK cleared : cleared \subseteq Clearable /\ buckets' = buckets \ cleared
      BY <1>5 DEF PruneBatch, Lowest
    <2>. QED
      BY <1>2, <2>1, <2>2 DEF Hashed, Servable, Clearable, Checkpoint
  <1>6. CASE UNCHANGED <<checkpoints, buckets, retention_floor>>
    BY <1>6 DEF Hashed, Servable
  <1>. QED
    BY <1>3, <1>4, <1>5, <1>6
       DEF Next, vars, row, Push, PushOperation, PolicyChange, AppendPolicy, Rotate, AppendEpoch,
           CrossQuota, Sign, SignGrant, PlanCheckpoint, Refuse, RefuseCheckpoint, Maintain,
           MaintainStart, RelieveStart, CrashPass

LEMMA HashedBuckets == Inductive /\ Hashed => BucketsKept
  <1> SUFFICES ASSUME Inductive, Hashed PROVE BucketsKept
    OBVIOUS
  <1>1. CASE checkpoints = <<>>
    BY <1>1 DEF BucketsKept, Hashed
  <1>2. CASE checkpoints # <<>>
    <2>1. TypeOK /\ FloorsKnown /\ CheckpointsInOrder
      BY DEF Inductive
    <2>2. /\ Len(checkpoints) \in DOMAIN checkpoints
          /\ Latest = checkpoints[Len(checkpoints)]
      BY <1>2, <2>1, LatestTop
    <2>3. retention_floor <= Latest.covered /\ retention_floor \in Nat
      BY <2>1, FloorBelow
    <2>4. Latest.covered \in Nat
      BY <2>1, LatestType DEF TypeOK, Checkpoint
    <2>. QED
      BY <2>2, <2>3, <2>4 DEF BucketsKept, Hashed, Servable
  <1>. QED
    BY <1>1, <1>2

\* Every servable checkpoint, and the latest, has its bucket hashes, with any
\* number of instances that clear and devices that commit.
THEOREM BucketsStand == Spec => []BucketsKept
  <1>1. Init => Hashed
    BY DEF Init, Hashed, Servable
  <1>. QED
    BY <1>1, NextHashed, HashedBuckets, InductiveHolds, PTL DEF Spec

-----------------------------------------------------------------------------
(* Chains: what a cover can reach.                                         *)

\* A device's operations have ascending counters up to its chain head, and a
\* cover reaches only operations that were there before it.
ChainsAscend ==
    /\ \A s \in AllRows : IsOp(s) =>
          /\ 1 <= log[s].counter /\ log[s].counter <= chain_heads[log[s].device]
          /\ \A v \in log[s].covers : v.counter <= chain_heads[v.device]
    /\ \A s, t \in AllRows :
          IsOp(s) /\ IsOp(t) /\ s < t /\ log[s].device = log[t].device
             => log[s].counter < log[t].counter
    /\ \A c, s \in AllRows : Covers(c, s) => s < c

\* The entry that a push appends.
Pushed(d, r, delete, covers) ==
    [type |-> "operation", device |-> d, counter |-> chain_heads[d] + 1, rid |-> r,
     delete |-> delete, class |-> ClassOf(r, covers), covers |-> covers]

LEMMA PushFact ==
    ASSUME TypeOK, Push
    PROVE  \E d \in Devices, r \in Rids, delete \in BOOLEAN : \E covers \in CoverSets(r) :
              /\ covers \in SUBSET Cover
              /\ Pushed(d, r, delete, covers) \in OperationEntry
              /\ CoversKnown(r, covers) /\ WithinLimits(d, r, covers)
              /\ Appends(Pushed(d, r, delete, covers))
              /\ log'[Len(log) + 1] = Pushed(d, r, delete, covers)
              /\ AllRows' = AllRows \cup {Len(log) + 1} /\ Len(log) + 1 \notin AllRows
              /\ Len(log') = Len(log) + 1
              /\ kept' = kept \cup {Len(log) + 1}
              /\ chain_heads' = [chain_heads EXCEPT ![d] = @ + 1]
              /\ UNCHANGED <<dropped, checkpoints, buckets, retention_floor, pruned_floor,
                             plans, inst>>
  <1>1. PICK d \in Devices, r \in Rids, delete \in BOOLEAN :
            \E covers \in CoverSets(r) : PushOperation(d, r, delete, covers)
    BY DEF Push
  <1>2. PICK covers \in CoverSets(r) : PushOperation(d, r, delete, covers)
    BY <1>1
  <1>3. covers \in SUBSET Cover
    <2>1. KnownCovers(r) \subseteq Cover
      BY EntryType DEF KnownCovers, Cover, TypeOK, OperationEntry
    <2>. QED
      BY <2>1 DEF CoverSets
  <1>. DEFINE e == Pushed(d, r, delete, covers)
  <1>4. e \in OperationEntry
    BY <1>3 DEF OperationEntry, ClassOf, TypeOK, Pushed
  <1>5. e \in Entry
    BY <1>4 DEF Entry
  <1>6. Appends(e)
    BY <1>2 DEF PushOperation, Pushed
  <1>7. /\ log'[Len(log) + 1] = e /\ AllRows' = AllRows \cup {Len(log) + 1}
        /\ Len(log') = Len(log) + 1
    BY <1>5, <1>6, AppendsFact
  <1>8. Len(log) + 1 \notin AllRows
    BY DEF AllRows, TypeOK
  <1>9. /\ kept' = kept \cup {Len(log) + 1}
        /\ CoversKnown(r, covers) /\ WithinLimits(d, r, covers)
        /\ chain_heads' = [chain_heads EXCEPT ![d] = @ + 1]
        /\ UNCHANGED <<dropped, checkpoints, buckets, retention_floor, pruned_floor, plans, inst>>
    BY <1>2 DEF PushOperation, Appends
  <1>. HIDE DEF e
  <1>. QED
    BY <1>3, <1>4, <1>6, <1>7, <1>8, <1>9 DEF e

\* Any other step appends no operation and moves no chain head.
LEMMA OthersAppendNone ==
    ASSUME TypeOK, [Next]_vars, ~Push
    PROVE  UNCHANGED chain_heads /\ \A s \in AllRows' \ AllRows : ~IsOp(s)'
  <1>1. ASSUME NEW type \in {"policy", "epoch", "checkpoint"}, Appends([type |-> type])
        PROVE  \A s \in AllRows' \ AllRows : ~IsOp(s)'
    <2>1. [type |-> type] \in Entry
      BY DEF Entry, OtherEntry
    <2>2. /\ AllRows' = AllRows \cup {Len(log) + 1}
          /\ log'[Len(log) + 1] = [type |-> type]
      BY <1>1, <2>1, AppendsFact
    <2>. QED
      BY <2>2 DEF IsOp
  <1>2. ASSUME NEW p \in plans, GrantCheckpoint(p)
        PROVE  \A s \in AllRows' \ AllRows : ~IsOp(s)'
    BY <1>2, GrantFact DEF IsOp
  <1>3. UNCHANGED log => \A s \in AllRows' \ AllRows : ~IsOp(s)'
    BY DEF AllRows
  <1>4. CASE PolicyChange \/ Rotate
    BY <1>1, <1>4 DEF PolicyChange, Rotate, AppendPolicy, AppendEpoch
  <1>5. CASE Commit \/ CommitGrant
    BY <1>1, <1>2, <1>5 DEF Commit, CommitGrant, CommitCheckpoint, GrantCheckpoint, Commits
  <1>. QED
    BY <1>3, <1>4, <1>5
       DEF Next, vars, row, CrossQuota, Sign, SignGrant, PlanCheckpoint, Refuse, RefuseCheckpoint,
           Maintain, MaintainStart, PersistFloor, PruneBatch, RelieveStart, CrashPass

LEMMA NextChains ==
    ASSUME TypeOK, ChainsAscend, [Next]_vars
    PROVE  ChainsAscend'
  <1>1. /\ \A s \in AllRows : log'[s] = log[s]
        /\ AllRows \subseteq AllRows' /\ AllRows \subseteq Nat
    BY LogGrows, RowsFinite DEF TypeOK
  <1>2. \A c, s \in AllRows : (Covers(c, s)' <=> Covers(c, s)) /\ (IsOp(s)' <=> IsOp(s))
    BY <1>1 DEF Covers, IsOp
  <1>3. \A s \in AllRows : IsOp(s) =>
            /\ log[s].counter \in Nat /\ log[s].device \in Devices
            /\ \A v \in log[s].covers : v.device \in Devices /\ v.counter \in Nat
    BY EntryType DEF TypeOK, OperationEntry, Cover
  <1>4. CASE ~Push
    <2>1. UNCHANGED chain_heads /\ \A s \in AllRows' \ AllRows : ~IsOp(s)'
      BY <1>4, OthersAppendNone
    <2>. QED
      BY <1>1, <1>2, <2>1 DEF ChainsAscend, Covers
  <1>5. CASE Push
    <2>1. PICK d \in Devices, r \in Rids, delete \in BOOLEAN : \E covers \in CoverSets(r) :
              /\ covers \in SUBSET Cover
              /\ log'[Len(log) + 1] = Pushed(d, r, delete, covers)
              /\ AllRows' = AllRows \cup {Len(log) + 1} /\ Len(log) + 1 \notin AllRows
              /\ chain_heads' = [chain_heads EXCEPT ![d] = @ + 1]
      BY <1>5, PushFact
    <2>2. PICK covers \in CoverSets(r) :
              /\ covers \in SUBSET Cover
              /\ log'[Len(log) + 1] = Pushed(d, r, delete, covers)
              /\ AllRows' = AllRows \cup {Len(log) + 1} /\ Len(log) + 1 \notin AllRows
              /\ chain_heads' = [chain_heads EXCEPT ![d] = @ + 1]
      BY <2>1
    <2>0. PICK n \in Nat : n = Len(log) + 1
      BY DEF TypeOK
    <2>3. \A s \in AllRows : s < n
      BY <2>0 DEF TypeOK, AllRows
    <2>4. /\ chain_heads \in [Devices -> Nat] /\ chain_heads' \in [Devices -> Nat]
          /\ chain_heads'[d] = chain_heads[d] + 1
          /\ \A x \in Devices : chain_heads[x] <= chain_heads'[x]
      BY <2>2 DEF TypeOK
    <2>5. \A v \in covers : v.device \in Devices /\ v.counter \in Nat /\ v.counter <= chain_heads[v.device]
      <3>1. \A s \in kept : s \in AllRows
        BY DEF TypeOK
      <3>. QED
        BY <1>3, <2>2, <3>1 DEF CoverSets, KnownCovers, ChainsAscend
    <2>6. /\ IsOp(n)' /\ log'[n].device = d /\ log'[n].counter = chain_heads[d] + 1
          /\ log'[n].covers = covers
      BY <2>2, <2>0 DEF Pushed, IsOp
    <2>7. AllRows' = AllRows \cup {n} /\ n \notin AllRows
      BY <2>2, <2>0
    <2>8. ASSUME NEW s \in AllRows', IsOp(s)'
          PROVE  /\ 1 <= log'[s].counter /\ log'[s].counter <= chain_heads'[log'[s].device]
                 /\ \A v \in log'[s].covers : v.counter <= chain_heads'[v.device]
      <3>1. CASE s = n
        <4>1. 1 <= log'[n].counter /\ log'[n].counter <= chain_heads'[log'[n].device]
          BY <2>4, <2>6
        <4>2. \A v \in covers : v.counter <= chain_heads'[v.device]
          BY <2>4, <2>5
        <4>. QED
          BY <2>6, <3>1, <4>1, <4>2
      <3>2. CASE s \in AllRows
        <4>1. /\ IsOp(s) /\ log'[s] = log[s] /\ 1 <= log[s].counter
              /\ log[s].counter <= chain_heads[log[s].device]
              /\ \A v \in log[s].covers : v.counter <= chain_heads[v.device]
          BY <1>1, <1>2, <2>8, <3>2 DEF ChainsAscend
        <4>. QED
          BY <1>3, <2>4, <3>2, <4>1
      <3>. QED
        BY <2>7, <3>1, <3>2
    <2>9. ASSUME NEW s \in AllRows', NEW t \in AllRows', IsOp(s)', IsOp(t)', s < t,
                 log'[s].device = log'[t].device
          PROVE  log'[s].counter < log'[t].counter
      <3>1. s \in AllRows
        BY <1>1, <2>3, <2>7, <2>9
      <3>2. CASE t = n
        <4>1. log[s].counter <= chain_heads[d] /\ log[s].counter \in Nat
          BY <1>1, <1>2, <1>3, <2>6, <2>9, <3>1, <3>2 DEF ChainsAscend
        <4>. QED
          BY <1>1, <2>4, <2>6, <2>9, <3>1, <3>2, <4>1
      <3>3. CASE t \in AllRows
        BY <1>1, <1>2, <2>9, <3>1, <3>3 DEF ChainsAscend
      <3>. QED
        BY <2>7, <3>2, <3>3
    <2>10. ASSUME NEW c \in AllRows', NEW s \in AllRows', Covers(c, s)'
           PROVE  s < c
      <3>1. PICK v \in log'[c].covers : v.device = log'[s].device /\ v.counter >= log'[s].counter
        BY <2>10 DEF Covers
      <3>2. CASE s = n
        <4>1. v.device = d /\ v.counter >= chain_heads[d] + 1
          BY <2>6, <3>1, <3>2
        <4>2. v.counter \in Nat /\ v.counter <= chain_heads[v.device]
          <5>1. CASE c = n
            BY <2>5, <2>6, <3>1, <5>1
          <5>2. CASE c \in AllRows
            <6>1. IsOp(c) /\ log'[c] = log[c]
              BY <1>1, <1>2, <2>10, <5>2 DEF Covers
            <6>. QED
              BY <1>3, <3>1, <5>2, <6>1 DEF ChainsAscend
          <5>. QED
            BY <2>7, <5>1, <5>2
        <4>. QED
          BY <2>4, <4>1, <4>2
      <3>3. CASE s \in AllRows /\ c = n
        BY <2>3, <3>3
      <3>4. CASE s \in AllRows /\ c \in AllRows
        BY <1>2, <2>10, <3>4 DEF ChainsAscend
      <3>. QED
        BY <2>7, <3>2, <3>3, <3>4
    <2>. QED
      BY <2>8, <2>9, <2>10 DEF ChainsAscend
  <1>. QED
    BY <1>4, <1>5

-----------------------------------------------------------------------------
(* The deletes that a checkpoint drops.                                    *)

\* What was dropped lies at or below the latest checkpoint's floor field. What
\* a plan drops are deletes, one of an object, at or below its floor field;
\* until the plan is stale their rows stand, with none that covers them.
DropsOpen ==
    /\ \A s \in dropped : s \in AllRows /\ s <= Latest.floor
    /\ \A p \in plans :
          /\ \A s \in p.drops : s \in AllRows /\ IsOp(s) /\ log[s].delete /\ s <= p.floor
          /\ \A s, t \in p.drops : log[s].rid = log[t].rid => s = t
          /\ ~Stale(p) => \A s \in p.drops :
                s \in kept /\ s <= p.covered /\ ~CoveredAt(kept, s, p.covered)

\* No step brings a row back.
LEMMA KeptStep ==
    ASSUME TypeOK, [Next]_vars
    PROVE  \A s \in kept' : s \in AllRows => s \in kept
  <1>1. CASE Quiet \/ Commit \/ CommitGrant
    BY <1>1, CommitFact DEF Quiet
  <1>2. CASE Sign \/ SignGrant
    BY <1>2 DEF Sign, SignGrant, PlanCheckpoint
  <1>3. ASSUME NEW i \in Instances, PersistFloor(i) \/ PruneBatch(i)
        PROVE  \A s \in kept' : s \in AllRows => s \in kept
    BY <1>3, PruneFact DEF PersistFloor
  <1>. QED
    BY <1>1, <1>2, <1>3, StepKinds

\* What covers an operation in the rows that stand did so before the step.
LEMMA KeptCovers ==
    ASSUME TypeOK, [Next]_vars, NEW s \in AllRows, NEW at \in Nat, at <= Len(log),
           \E c \in kept' : c <= at /\ Covers(c, s)'
    PROVE  CoveredAt(kept, s, at)
  <1>1. PICK c \in kept' : c <= at /\ Covers(c, s)'
    OBVIOUS
  <1>2. c \in AllRows'
    BY NextType DEF TypeOK
  <1>3. c \in AllRows
    BY <1>1, <1>2, LogGrows DEF AllRows
  <1>4. Covers(c, s)
    BY <1>1, <1>3, LogGrows DEF Covers, IsOp
  <1>. QED
    BY <1>1, <1>3, <1>4, KeptStep DEF CoveredAt

\* The latest checkpoint's place, and what a plan that is not stale may hold.
LEMMA LatestBelow ==
    ASSUME TypeOK, FloorsKnown, CheckpointsInOrder
    PROVE  /\ retention_floor \in Nat /\ retention_floor <= Latest.covered
           /\ Latest.covered \in Nat /\ Latest.seq \in Nat /\ Latest.floor \in Nat
           /\ Latest.covered <= Latest.seq /\ Latest.covered <= Len(log)
           /\ Latest.body \in Body
  <1>1. /\ retention_floor \in Nat /\ retention_floor <= Latest.covered
        /\ Len(log) \in Nat
    BY FloorBelow DEF TypeOK
  <1>2. /\ Latest.covered \in Nat /\ Latest.seq \in Nat /\ Latest.floor \in Nat
        /\ Latest.body \in Body
    BY LatestType DEF TypeOK, Checkpoint
  <1>3. CASE checkpoints = <<>>
    BY <1>1, <1>2, <1>3 DEF Latest, NoCheckpoint
  <1>4. CASE checkpoints # <<>>
    <2>1. /\ Len(checkpoints) \in DOMAIN checkpoints
          /\ Latest = checkpoints[Len(checkpoints)]
      BY <1>4, LatestTop
    <2>2. Latest.covered < Latest.seq /\ Latest.seq <= Len(log)
      BY <2>1 DEF CheckpointsInOrder
    <2>. QED
      BY <1>1, <1>2, <2>2
  <1>. QED
    BY <1>3, <1>4

\* What a device's push plans to drop.
LEMMA FloorDropsFact ==
    ASSUME NEW floor, NEW covered
    PROVE  /\ \A s \in FloorDrops(kept, floor, covered) :
                 /\ s \in kept /\ IsOp(s) /\ log[s].delete /\ s <= floor /\ s > Latest.floor
                 /\ s <= covered /\ ~CoveredAt(kept, s, covered)
           /\ \A s, t \in FloorDrops(kept, floor, covered) : log[s].rid = log[t].rid => s = t
  <1>1. ASSUME NEW s \in FloorDrops(kept, floor, covered)
        PROVE  LiveAt(kept, log[s].rid, covered) = {s}
    BY DEF FloorDrops
  <1>2. ASSUME NEW s \in FloorDrops(kept, floor, covered),
               NEW t \in FloorDrops(kept, floor, covered), log[s].rid = log[t].rid
        PROVE  s = t
    <2>1. {s} = {t}
      BY <1>1, <1>2
    <2>. QED
      BY <2>1
  <1>3. ASSUME NEW s \in FloorDrops(kept, floor, covered)
        PROVE  s <= covered /\ ~CoveredAt(kept, s, covered)
    <2>1. s \in LiveAt(kept, log[s].rid, covered)
      BY <1>1
    <2>. QED
      BY <2>1 DEF LiveAt
  <1>. QED
    BY <1>2, <1>3 DEF FloorDrops

LEMMA NextDrops ==
    ASSUME Inductive, DropsOpen, [Next]_vars
    PROVE  DropsOpen'
  <1>1. TypeOK /\ FloorsKnown /\ CheckpointsInOrder /\ PlansOpen
    BY DEF Inductive
  <1>2. /\ Len(log) \in Nat /\ AllRows \subseteq Nat \ {0} /\ AllRows \subseteq AllRows'
        /\ \A s \in AllRows : log'[s] = log[s] /\ (IsOp(s)' <=> IsOp(s))
        /\ kept \subseteq AllRows /\ plans \subseteq Plan
    <2>1. /\ Len(log) \in Nat /\ AllRows \subseteq AllRows'
          /\ \A s \in AllRows : log'[s] = log[s]
      BY <1>1, LogGrows
    <2>2. AllRows \subseteq Nat \ {0} /\ kept \subseteq AllRows /\ plans \subseteq Plan
      BY <1>1, <2>1 DEF TypeOK, AllRows
    <2>3. \A s \in AllRows : IsOp(s)' <=> IsOp(s)
      BY <2>1 DEF IsOp
    <2>. QED
      BY <2>1, <2>2, <2>3
  <1>3. ASSUME NEW p \in plans
        PROVE  /\ \A s \in p.drops : s \in AllRows' /\ IsOp(s)' /\ log'[s].delete /\ s <= p.floor
               /\ \A s, t \in p.drops : log'[s].rid = log'[t].rid => s = t
    BY <1>2 DEF DropsOpen
  <1>4. ASSUME NEW p \in plans, ~Stale(p), NEW s \in p.drops
        PROVE  /\ s \in kept' /\ s <= p.covered /\ ~CoveredAt(kept, s, p.covered)'
    <2>1. /\ s \in AllRows /\ IsOp(s) /\ s \in kept /\ s <= p.covered
          /\ ~CoveredAt(kept, s, p.covered)
      BY <1>4 DEF DropsOpen
    <2>2. /\ p.covered \in Nat /\ p.covered <= Len(log)
          /\ p.covered >= Latest.seq /\ s > Latest.floor
      BY <1>1, <1>2, <1>4 DEF PlansOpen, Plan
    <2>3. ~CoveredAt(kept, s, p.covered)'
      BY <1>1, <2>1, <2>2, KeptCovers DEF CoveredAt
    <2>4. s \in kept'
      <3>1. SUFFICES ASSUME s \notin kept'
                     PROVE  FALSE
        OBVIOUS
      <3>2. PICK i \in Instances : PruneBatch(i)
        BY <1>1, <2>1, <3>1, StepKinds, CommitFact
           DEF Quiet, Sign, SignGrant, PlanCheckpoint, PersistFloor
      <3>3. PrunableRow(s)
        BY <1>1, <2>1, <3>1, <3>2, PruneFact
      <3>4. /\ Latest.floor \in Nat /\ retention_floor \in Nat /\ retention_floor <= Latest.covered
            /\ Latest.covered \in Nat /\ Latest.seq \in Nat /\ Latest.covered <= Latest.seq
        BY <1>1, LatestBelow
      <3>5. s \notin dropped
        <4>1. s \in dropped => s <= Latest.floor
          BY DEF DropsOpen
        <4>2. s \in Nat
          BY <1>2, <2>1
        <4>. QED
          BY <2>2, <3>4, <4>1, <4>2
      <3>6. ~CoveredAt(kept, s, retention_floor)
        BY <1>2, <2>1, <2>2, <3>4 DEF CoveredAt
      <3>. QED
        BY <2>1, <3>3, <3>5, <3>6 DEF PrunableRow, IsOp
    <2>. QED
      BY <2>1, <2>3, <2>4
  <1>5. CASE UNCHANGED <<checkpoints, dropped>>
    <2>1. Latest' = Latest /\ \A p : Stale(p)' <=> Stale(p)
      BY <1>5 DEF Latest, NoCheckpoint, Stale
    <2>2. ASSUME NEW p \in plans', p \notin plans
          PROVE  /\ \A s \in p.drops : s \in AllRows' /\ IsOp(s)' /\ log'[s].delete /\ s <= p.floor
                 /\ \A s, t \in p.drops : log'[s].rid = log'[t].rid => s = t
                 /\ \A s \in p.drops :
                       s \in kept' /\ s <= p.covered /\ ~CoveredAt(kept, s, p.covered)'
      <3>1. Sign \/ SignGrant
        BY <1>1, <2>2, StepKinds, CommitFact DEF Quiet, PersistFloor, PruneBatch
      <3>2. PICK d \in Devices, covered \in AllRows, floor \in Floors, grant \in BOOLEAN :
                PlanCheckpoint(d, covered, floor, grant)
        BY <3>1 DEF Sign, SignGrant
      <3>3. /\ p.covered = covered /\ p.floor = floor
            /\ p.drops = FloorDrops(kept, floor, covered)
            /\ UNCHANGED <<log, kept>>
        BY <2>2, <3>2 DEF PlanCheckpoint
      <3>4. \A s : CoveredAt(kept, s, p.covered)' <=> CoveredAt(kept, s, p.covered)
        BY <3>3 DEF CoveredAt, Covers, IsOp
      <3>5. /\ \A s \in p.drops : s \in kept /\ IsOp(s) /\ log[s].delete /\ s <= p.floor
                                  /\ s <= p.covered /\ ~CoveredAt(kept, s, p.covered)
            /\ \A s, t \in p.drops : log[s].rid = log[t].rid => s = t
        BY <3>3, FloorDropsFact
      <3>. QED
        BY <1>2, <3>3, <3>4, <3>5 DEF IsOp
    <2>3. \A s \in dropped' : s \in AllRows' /\ s <= Latest'.floor
      BY <1>2, <1>5, <2>1 DEF DropsOpen
    <2>4. ASSUME NEW p \in plans'
          PROVE  /\ \A s \in p.drops : s \in AllRows' /\ IsOp(s)' /\ log'[s].delete /\ s <= p.floor
                 /\ \A s, t \in p.drops : log'[s].rid = log'[t].rid => s = t
                 /\ ~Stale(p)' => \A s \in p.drops :
                       s \in kept' /\ s <= p.covered /\ ~CoveredAt(kept, s, p.covered)'
      BY <1>3, <1>4, <2>1, <2>2
    <2>. QED
      BY <2>3, <2>4 DEF DropsOpen, CoveredAt
  <1>6. CASE Commit \/ CommitGrant
    <2>1. PICK p \in plans, c \in Checkpoint :
              /\ ~Stale(p) /\ c.floor = p.floor
              /\ checkpoints' = Append(checkpoints, c)
              /\ dropped' = dropped \cup p.drops /\ plans' \subseteq plans
      BY <1>1, <1>6, CommitFact
    <2>2. /\ Len(checkpoints') = Len(checkpoints) + 1 /\ Len(checkpoints) \in Nat
          /\ checkpoints'[Len(checkpoints) + 1] = c
      BY <1>1, <2>1, CommitCheckpoints
    <2>3. Latest' = c
      BY <2>1, <2>2 DEF Latest
    <2>4. Latest.floor <= c.floor /\ Latest.floor \in Nat /\ c.floor \in Nat
      BY <1>1, <2>1, LatestBelow DEF PlansOpen, Checkpoint
    <2>5. \A q \in plans' : Stale(q)'
      <3>1. \A q \in plans : q.previous <= Len(checkpoints) /\ q.previous \in Nat
        BY <1>1, <1>2 DEF PlansOpen, Plan
      <3>. QED
        BY <2>1, <2>2, <3>1 DEF Stale
    <2>6. ASSUME NEW s \in dropped'
          PROVE  s \in AllRows' /\ s <= Latest'.floor
      <3>1. CASE s \in dropped
        <4>1. s \in AllRows /\ s <= Latest.floor
          BY <3>1 DEF DropsOpen
        <4>2. s \in Nat /\ s \in AllRows'
          BY <1>2, <4>1
        <4>. QED
          BY <2>3, <2>4, <4>1, <4>2
      <3>2. CASE s \in p.drops
        BY <1>2, <2>1, <2>3, <3>2 DEF DropsOpen
      <3>. QED
        BY <2>1, <3>1, <3>2
    <2>. QED
      BY <1>3, <2>1, <2>5, <2>6 DEF DropsOpen
  <1>. QED
    BY <1>1, <1>5, <1>6, CheckpointsStep

\* Everything above that holds for any number of instances.
Sequels == Inductive /\ Hashed /\ ChainsAscend /\ DropsOpen

LEMMA InitSequels == Init => Sequels
  <1> SUFFICES ASSUME Init PROVE Sequels
    OBVIOUS
  <1>1. \A s \in AllRows : ~IsOp(s)
    BY DEF Init, AllRows, IsOp
  <1>2. ChainsAscend
    BY <1>1 DEF ChainsAscend, Covers
  <1>. QED
    BY <1>2, InitInductive DEF Sequels, Init, Hashed, Servable, DropsOpen

LEMMA NextSequels == Sequels /\ [Next]_vars => Sequels'
  BY NextInductive, NextHashed, NextChains, NextDrops DEF Sequels, Inductive

LEMMA SequelsHold == Spec => []Sequels
  BY InitSequels, NextSequels, PTL DEF Spec

\* UsageSpec counts what DomainLog does, and does nothing else.
LEMMA UsageImplements == UsageSpec => Spec
  <1>1. UsageInit => Init
    BY DEF UsageInit
  <1>2. [UsageNext]_usageVars => [Next]_vars
    BY DEF UsageNext, usageVars, Next, CountPush, CountPolicy, CountRotate, CountCommit,
           CountCommitGrant, CountPrune, Uncounted, Commit, CommitGrant, Maintain
  <1>. QED
    BY <1>1, <1>2, PTL DEF UsageSpec, Spec

\* The rows of the deletes that a push would drop stand until it is stale, with
\* any number of instances pruning: no floor passes its covered_seq, and below
\* the floor nothing covers them.
THEOREM DropsStandHolds == UsageSpec => []DropsStand
  <1>1. Sequels => DropsStand
    BY DEF Sequels, DropsOpen, DropsStand
  <1>. QED
    BY <1>1, UsageImplements, SequelsHold, PTL

-----------------------------------------------------------------------------
(* A batch of a pass.                                                      *)

\* Whatever lies below one of the n lowest members is one of them.
LEMMA LowestDown ==
    ASSUME NEW S, S \subseteq Nat, IsFiniteSet(S), NEW n \in Nat,
           NEW x \in Lowest(S, n), NEW y \in S, y < x
    PROVE  y \in Lowest(S, n)
  <1>. DEFINE X == {z \in S : z < x}
              Y == {z \in S : z < y}
  <1>0. x \in Nat /\ y \in Nat /\ x \in S
    BY DEF Lowest
  <1>1. Y \subseteq X
    <2>1. ASSUME NEW z \in Y
          PROVE  z < x
      <3>1. z \in Nat /\ z < y
        OBVIOUS
      <3>. QED
        BY <1>0, <3>1
    <2>. QED
      BY <2>1
  <1>2. IsFiniteSet(X) /\ IsFiniteSet(Y)
    BY FS_Subset
  <1>3. Cardinality(X) \in Nat /\ Cardinality(Y) \in Nat /\ Cardinality(Y) <= Cardinality(X)
    BY <1>1, <1>2, FS_CardinalityType, FS_Subset
  <1>4. Cardinality(X) < n
    BY DEF Lowest
  <1>. HIDE DEF X, Y
  <1>5. Cardinality(Y) < n
    BY <1>3, <1>4
  <1>. QED
    BY <1>5 DEF Lowest, Y

\* Fewer than n of the n lowest members are all there are.
LEMMA LowestAll ==
    ASSUME NEW S, S \subseteq Nat, IsFiniteSet(S), NEW n \in Nat,
           Cardinality(Lowest(S, n)) < n
    PROVE  Lowest(S, n) = S
  <1>1. SUFFICES ASSUME S \ Lowest(S, n) # {}
                 PROVE  FALSE
    BY DEF Lowest
  <1>2. IsFiniteSet(S \ Lowest(S, n)) /\ IsFiniteSet(Lowest(S, n)) /\ Lowest(S, n) \subseteq S
    BY FS_Subset DEF Lowest
  <1>3. PICK x \in S \ Lowest(S, n) : \A y \in S \ Lowest(S, n) : x <= y
    BY <1>1, <1>2, LeastExists
  <1>. DEFINE X == {z \in S : z < x}
  <1>4. X \subseteq Lowest(S, n)
    <2>1. ASSUME NEW z \in X, z \notin Lowest(S, n)
          PROVE  FALSE
      <3>1. x <= z /\ z < x /\ x \in Nat /\ z \in Nat
        BY <1>3, <2>1
      <3>. QED
        BY <3>1
    <2>. QED
      BY <2>1
  <1>5. /\ Cardinality(X) \in Nat /\ Cardinality(Lowest(S, n)) \in Nat
        /\ Cardinality(X) <= Cardinality(Lowest(S, n))
    BY <1>2, <1>4, FS_CardinalityType, FS_Subset
  <1>6. Cardinality(X) < n
    <2>. HIDE DEF X
    <2>. QED
      BY <1>5
  <1>. QED
    BY <1>3, <1>6 DEF Lowest

\* The n lowest members are at most n.
LEMMA LowestCount ==
    ASSUME NEW S, S \subseteq Nat, IsFiniteSet(S), NEW n \in Nat
    PROVE  /\ IsFiniteSet(Lowest(S, n)) /\ Lowest(S, n) \subseteq S
           /\ Cardinality(Lowest(S, n)) \in Nat /\ Cardinality(Lowest(S, n)) <= n
  <1>1. Lowest(S, n) \subseteq S
    BY DEF Lowest
  <1>2. IsFiniteSet(Lowest(S, n))
    BY <1>1, FS_Subset
  <1>3. CASE Lowest(S, n) = {}
    BY <1>1, <1>2, <1>3, FS_EmptySet
  <1>4. CASE Lowest(S, n) # {}
    <2>1. PICK m \in Lowest(S, n) : \A y \in Lowest(S, n) : y <= m
      BY <1>1, <1>2, <1>4, GreatestExists
    <2>. DEFINE X == {z \in S : z < m}
    <2>2. IsFiniteSet(X) /\ m \in S /\ m \in Nat
      BY <1>1, FS_Subset
    <2>3. Cardinality(X) < n
      BY DEF Lowest
    <2>4. Lowest(S, n) \subseteq X \cup {m}
      <3>1. ASSUME NEW y \in Lowest(S, n), y # m
            PROVE  y < m /\ y \in S
        <4>1. y <= m /\ y \in Nat
          BY <1>1, <2>1
        <4>. QED
          BY <1>1, <2>2, <3>1, <4>1
      <3>. QED
        BY <3>1
    <2>5. m \notin X
      BY <2>2
    <2>. HIDE DEF X
    <2>6. IsFiniteSet(X \cup {m}) /\ Cardinality(X \cup {m}) = Cardinality(X) + 1
      BY <2>2, <2>5, FS_AddElement
    <2>7. Cardinality(Lowest(S, n)) <= Cardinality(X \cup {m})
      BY <2>4, <2>6, FS_Subset
    <2>8. Cardinality(X) \in Nat /\ Cardinality(Lowest(S, n)) \in Nat
      BY <1>2, <2>2, FS_CardinalityType
    <2>. QED
      BY <1>1, <1>2, <2>3, <2>6, <2>7, <2>8
  <1>. QED
    BY <1>3, <1>4

\* A batch takes prunable rows above the pass's place, in ascending order: it
\* leaves none below its last row, and none at all when it ends the pass.
LEMMA BatchFact ==
    ASSUME TypeOK, NEW i \in Instances, PruneBatch(i)
    PROVE  \E last \in Nat, done \in BOOLEAN :
              /\ \A s \in kept \ kept' : PrunableRow(s) /\ s > inst[i].after /\ s <= last
              /\ \A s \in kept' : PrunableRow(s) /\ s > inst[i].after => s > last /\ ~done
              /\ inst[i].after <= last
              /\ inst' = [inst EXCEPT ![i] =
                             IF done THEN IdlePass ELSE [inst[i] EXCEPT !.after = last]]
              /\ pruned_floor' = IF done THEN retention_floor ELSE pruned_floor
              /\ done => \A n \in buckets' : n \notin Clearable
  <1>. DEFINE after == inst[i].after
              open == {s \in Prunable : s > after}
              batch == Lowest(open, Batch)
              full == Cardinality(batch) = Batch
              last == IF batch = {} THEN after ELSE MaxOf(batch)
              cleared == IF full THEN {} ELSE Lowest(Clearable, Batch)
              done == ~full /\ Cardinality(cleared) < Batch
  <1>1. /\ kept' = kept \ batch
        /\ buckets' = buckets \ cleared
        /\ pruned_floor' = IF done THEN retention_floor ELSE pruned_floor
        /\ inst' = [inst EXCEPT ![i] =
                       IF done THEN IdlePass ELSE [inst[i] EXCEPT !.after = last]]
    BY DEF PruneBatch, SetPass
  <1>2. after \in Nat /\ Batch \in Nat \ {0}
    BY ConstantsAssumption DEF TypeOK, Pass, ConstantsAssumption
  <1>3. open \subseteq kept /\ open \subseteq Nat /\ IsFiniteSet(open)
    <2>1. kept \subseteq AllRows /\ AllRows \subseteq Nat /\ IsFiniteSet(AllRows)
      BY RowsFinite DEF TypeOK
    <2>2. open \subseteq kept
      BY DEF Prunable
    <2>3. open \subseteq AllRows
      BY <2>1, <2>2
    <2>. QED
      BY <2>1, <2>2, <2>3, FS_Subset
  <1>4. batch \subseteq open /\ IsFiniteSet(batch) /\ batch \subseteq Nat
        /\ Cardinality(batch) \in Nat
    <2>1. batch \subseteq open
      BY DEF Lowest
    <2>2. IsFiniteSet(batch)
      BY <1>3, <2>1, FS_Subset
    <2>. QED
      BY <1>3, <2>1, <2>2, FS_CardinalityType
  <1>5. /\ last \in Nat /\ after <= last
        /\ \A s \in batch : s <= last
        /\ batch # {} => last \in batch
    <2>1. CASE batch = {}
      BY <1>2, <2>1
    <2>2. CASE batch # {}
      <3>1. MaxOf(batch) \in batch /\ \A s \in batch : s <= MaxOf(batch)
        BY <1>4, <2>2, MaxOfFact
      <3>2. last = MaxOf(batch)
        BY <2>2
      <3>3. last > after /\ last \in Nat
        BY <1>4, <3>1, <3>2
      <3>. QED
        BY <1>2, <3>1, <3>2, <3>3
    <2>. QED
      BY <2>1, <2>2
  <1>6. \A s \in open : s \notin batch => s > last
    <2>1. SUFFICES ASSUME NEW s \in open, s \notin batch, ~(s > last)
                   PROVE  FALSE
      OBVIOUS
    <2>2. CASE batch = {}
      BY <2>1, <2>2
    <2>3. CASE batch # {}
      <3>1. last \in batch /\ s # last
        BY <1>5, <2>1, <2>3
      <3>2. s < last /\ s \in Nat /\ last \in Nat
        BY <1>3, <1>5, <2>1, <3>1
      <3>. HIDE DEF last, open
      <3>. QED
        BY <1>2, <1>3, <2>1, <3>1, <3>2, LowestDown
    <2>. QED
      BY <2>2, <2>3
  <1>7. ~full => batch = open
    <2>1. Cardinality(batch) <= Batch
      BY <1>2, <1>3, LowestCount
    <2>2. ~full => Cardinality(batch) < Batch
      <3>. HIDE DEF batch
      <3>. QED
        BY <1>2, <1>4, <2>1
    <2>. HIDE DEF open
    <2>. QED
      BY <1>2, <1>3, <2>2, LowestAll
  <1>8. done => batch = open /\ \A n \in buckets' : n \notin Clearable
    <2>1. Clearable \subseteq Nat /\ IsFiniteSet(Clearable)
      <3>1. PICK n \in Nat : n = Len(checkpoints)
        BY DEF TypeOK
      <3>2. Clearable \subseteq 1..n
        BY <3>1 DEF Clearable, TypeOK
      <3>3. IsFiniteSet(1..n) /\ 1..n \subseteq Nat
        BY FS_Interval
      <3>. QED
        BY <3>2, <3>3, FS_Subset
    <2>2. done => cleared = Clearable
      BY <1>2, <2>1, LowestAll
    <2>. QED
      BY <1>1, <1>7, <2>2
  <1>9. \A s \in kept \ kept' : PrunableRow(s) /\ s > after /\ s <= last
    BY <1>1, <1>4, <1>5 DEF Prunable
  <1>10. \A s \in kept' : PrunableRow(s) /\ s > after => s > last /\ ~done
    <2>1. ASSUME NEW s \in kept', PrunableRow(s), s > after
          PROVE  s \in open /\ s \notin batch
      BY <1>1, <2>1 DEF Prunable
    <2>. QED
      BY <1>6, <1>8, <2>1
  <1>11. done \in BOOLEAN
    OBVIOUS
  <1>. HIDE DEF last, done
  <1>. QED
    BY <1>1, <1>5, <1>8, <1>9, <1>10, <1>11

-----------------------------------------------------------------------------
(* One instance: what covers a row goes no earlier than the row.           *)

\* One maintenance pass at a time prunes the domain.
OneInstance == \A i, j \in Instances : i = j

\* An operation whose row stands and that something at or below the floor
\* covers has its cover among the rows that stand.
CoversStand ==
    \A s \in kept : IsOp(s) /\ CoveredAt(AllRows, s, retention_floor) =>
        CoveredAt(kept, s, retention_floor)

\* A pass has left nothing prunable behind its place.
Swept ==
    /\ pruned_floor <= retention_floor /\ PruningComplete
    /\ \A i \in Instances : inst[i].pc = "prune" =>
          \A s \in kept : s <= inst[i].after => ~PrunableRow(s)

\* A step that neither moves the floor nor prunes.
Aside ==
    /\ retention_floor' = retention_floor
    /\ kept' = kept \cup (AllRows' \ AllRows)
    /\ pruned_floor' \in {pruned_floor, 0}
    /\ \A n \in DOMAIN checkpoints : n \in buckets' => n \in buckets
    /\ \A i \in Instances : inst'[i].pc = "prune" => inst'[i] = inst[i]

LEMMA AsideSteps ==
    ASSUME TypeOK, [Next]_vars
    PROVE  Aside \/ \E i \in Instances : PersistFloor(i) \/ PruneBatch(i)
  <1>1. CASE Quiet \/ Sign \/ SignGrant \/ Commit \/ CommitGrant
    <2>1. /\ retention_floor' = retention_floor
          /\ kept' = kept \cup (AllRows' \ AllRows)
      <3>1. CASE Sign \/ SignGrant
        BY <3>1 DEF Sign, SignGrant, PlanCheckpoint, AllRows, row
      <3>2. CASE Quiet
        BY <3>2 DEF Quiet
      <3>. QED
        BY <1>1, <3>1, <3>2, CommitFact
    <2>2. CASE Commit \/ CommitGrant
      <3>1. PICK p \in plans : \E seq : Commits(p, seq)
        BY <2>2 DEF Commit, CommitGrant, CommitCheckpoint, GrantCheckpoint
      <3>2. Len(checkpoints) + 1 \notin DOMAIN checkpoints
        BY DEF TypeOK
      <3>. QED
        BY <2>1, <3>1, <3>2 DEF Aside, Commits
    <2>3. CASE UNCHANGED <<buckets, pruned_floor, inst>>
      BY <2>1, <2>3 DEF Aside
    <2>4. ASSUME NEW i \in Instances, MaintainStart(i) \/ RelieveStart(i) \/ CrashPass(i)
          PROVE  Aside
      <3>1. UNCHANGED <<buckets, pruned_floor>>
        BY <2>4 DEF MaintainStart, RelieveStart, CrashPass, row
      <3>2. ASSUME NEW pass, SetPass(i, pass), pass.pc # "prune"
            PROVE  \A j \in Instances : inst'[j].pc = "prune" => inst'[j] = inst[j]
        BY <3>2 DEF TypeOK, SetPass
      <3>3. \A j \in Instances : inst'[j].pc = "prune" => inst'[j] = inst[j]
        <4>1. CASE MaintainStart(i)
          BY <3>2, <4>1 DEF MaintainStart, IdlePass
        <4>2. CASE RelieveStart(i)
          <5>1. PICK forced : SetPass(i, [IdlePass EXCEPT !.pc = "persist", !.forced = forced])
            BY <4>2 DEF RelieveStart
          <5>. QED
            BY <3>2, <5>1 DEF IdlePass
        <4>3. CASE CrashPass(i)
          BY <3>2, <4>3 DEF CrashPass, IdlePass
        <4>. QED
          BY <2>4, <4>1, <4>2, <4>3
      <3>. QED
        BY <2>1, <3>1, <3>3 DEF Aside
    <2>5. ASSUME NEW i \in Instances, PersistFloor(i) \/ PruneBatch(i)
          PROVE  Aside \/ PersistFloor(i) \/ PruneBatch(i)
      BY <2>5
    <2>. QED
      BY <2>2, <2>3, <2>4, <2>5
         DEF Next, vars, row, Push, PushOperation, PolicyChange, AppendPolicy, Rotate, AppendEpoch,
             CrossQuota, Sign, SignGrant, PlanCheckpoint, Refuse, RefuseCheckpoint, Maintain
  <1>. QED
    BY <1>1, StepKinds

\* A commit leaves the deletes that may go as they were.
LEMMA DeleteFloorStays ==
    ASSUME TypeOK, FloorsKnown, [Next]_vars, retention_floor' = retention_floor,
           retention_floor # 0
    PROVE  DeleteFloor' = DeleteFloor
  <1>1. CASE UNCHANGED checkpoints
    BY <1>1 DEF DeleteFloor, Servable
  <1>2. CASE Commit \/ CommitGrant
    <2>1. PICK c \in Checkpoint : checkpoints' = Append(checkpoints, c)
      BY <1>2, CommitFact
    <2>2. PICK n \in Nat : n = Len(checkpoints)
      BY DEF TypeOK
    <2>3. /\ DOMAIN checkpoints = 1..n /\ DOMAIN checkpoints' = 1..n + 1
          /\ \A m \in DOMAIN checkpoints : checkpoints'[m] = checkpoints[m]
      BY <2>1, <2>2, CommitCheckpoints
    <2>4. /\ \A m \in Servable : m \in Servable' /\ m <= n /\ checkpoints'[m] = checkpoints[m]
          /\ \A m \in Servable' : m \in Servable \/ m = n + 1
      BY <2>3 DEF Servable
    <2>5. Servable # {}
      <3>1. PICK m \in DOMAIN checkpoints : retention_floor = checkpoints[m].covered
        BY DEF FloorsKnown, Floors
      <3>2. retention_floor \in Nat
        BY DEF TypeOK
      <3>. QED
        BY <3>1, <3>2 DEF Servable
    <2>6. /\ Servable \subseteq Nat /\ IsFiniteSet(Servable)
          /\ Servable' \subseteq Nat /\ IsFiniteSet(Servable')
      <3>1. /\ Servable \subseteq 1..n /\ Servable' \subseteq 1..n + 1
            /\ 1..n \subseteq Nat /\ 1..n + 1 \subseteq Nat
        BY <2>3 DEF Servable
      <3>2. IsFiniteSet(1..n) /\ IsFiniteSet(1..n + 1)
        BY FS_Interval
      <3>. QED
        BY <3>1, <3>2, FS_Subset
    <2>7. Servable' # {}
      BY <2>4, <2>5
    <2>8. MinOf(Servable) \in Servable /\ \A m \in Servable : MinOf(Servable) <= m
      BY <2>5, <2>6, MinOfFact
    <2>9. MinOf(Servable') \in Servable' /\ \A m \in Servable' : MinOf(Servable') <= m
      BY <2>6, <2>7, MinOfFact
    <2>10. MinOf(Servable') = MinOf(Servable)
      <3>. DEFINE a == MinOf(Servable)
                  b == MinOf(Servable')
      <3>1. b <= a /\ a <= n /\ a \in Nat /\ b \in Nat
        BY <2>4, <2>6, <2>8, <2>9
      <3>2. b \in Servable
        BY <2>4, <2>9, <3>1
      <3>3. a <= b
        BY <2>8, <3>2
      <3>. HIDE DEF a, b
      <3>4. a = b
        BY <3>1, <3>3
      <3>. QED
        BY <3>4 DEF a, b
    <2>. QED
      BY <2>4, <2>5, <2>7, <2>8, <2>10 DEF DeleteFloor
  <1>. QED
    BY <1>1, <1>2, CheckpointsStep

\* While the floor stays, a step makes no row prunable that was not.
LEMMA PrunableStays ==
    ASSUME Sequels, [Next]_vars, retention_floor' = retention_floor,
           NEW s \in AllRows, PrunableRow(s)'
    PROVE  PrunableRow(s)
  <1>1. TypeOK /\ FloorsKnown /\ CheckpointsInOrder /\ TypeOK'
    BY NextType DEF Sequels, Inductive
  <1>2. /\ s \in Nat /\ 1 <= s /\ s <= retention_floor /\ retention_floor \in Nat
        /\ retention_floor <= Len(log) /\ log'[s] = log[s]
        /\ Len(log) \in Nat /\ Len(log') \in Nat /\ Len(log) <= Len(log')
    BY <1>1, FloorBelow, LogGrows DEF PrunableRow, AllRows
  <1>3. IsOp(s)' <=> IsOp(s)
    BY <1>2 DEF IsOp
  <1>4. CASE log[s].type = "checkpoint" /\ s < retention_floor
    BY <1>2, <1>4 DEF PrunableRow
  <1>5. ASSUME NEW type, s < NewestAt(kept, type, retention_floor)'
        PROVE  s < NewestAt(kept, type, retention_floor)
    <2>. DEFINE X == {t \in kept : t <= retention_floor /\ log[t].type = type}
    <2>1. PICK m \in Nat : m = Len(log')
      BY <1>2
    <2>2. X' \subseteq 1..m
      BY <1>1, <2>1 DEF TypeOK, AllRows
    <2>3. MaxOf({0} \cup X') \in {0} \cup X'
      BY <2>2, MaxOfRows
    <2>4. PICK t \in X' : s < t
      BY <1>2, <1>5, <2>3 DEF NewestAt
    <2>5. t \in kept' /\ t <= retention_floor /\ log'[t].type = type /\ t \in Nat /\ 1 <= t
      BY <1>2, <2>2, <2>4
    <2>6. t \in AllRows
      BY <1>2, <2>5 DEF AllRows
    <2>7. t \in kept /\ log[t].type = type
      BY <1>1, <2>5, <2>6, KeptStep, LogGrows
    <2>8. t <= NewestAt(kept, type, retention_floor) /\ NewestAt(kept, type, retention_floor) \in Nat
      BY <1>1, <1>2, <2>5, <2>7, NewestAtFact DEF TypeOK
    <2>. QED
      BY <1>2, <2>4, <2>5, <2>8
  <1>6. CASE log[s].type \in {"policy", "epoch"} /\ s < NewestAt(kept, log[s].type, retention_floor)'
    BY <1>2, <1>5, <1>6 DEF PrunableRow
  <1>7. CASE IsOp(s) /\ s \in dropped' /\ s <= DeleteFloor'
    <2>1. s <= DeleteFloor
      BY <1>1, <1>2, <1>7, DeleteFloorStays
    <2>2. s \in dropped
      <3>1. SUFFICES ASSUME s \notin dropped
                     PROVE  FALSE
        OBVIOUS
      <3>2. PICK p \in plans : ~Stale(p) /\ s \in p.drops
        BY <1>1, <1>7, <3>1, CheckpointsStep, CommitFact
      <3>3. s > Latest.floor
        BY <3>2 DEF Sequels, Inductive, PlansOpen
      <3>4. checkpoints # <<>> /\ \A n \in Servable : s <= checkpoints[n].floor
        BY <1>1, <1>2, <2>1, DeleteFloorLowest
      <3>5. /\ Len(checkpoints) \in DOMAIN checkpoints
            /\ Latest = checkpoints[Len(checkpoints)]
        BY <1>1, <3>4, LatestTop
      <3>6. retention_floor <= Latest.covered /\ Latest.covered \in Nat /\ Latest.floor \in Nat
        BY <1>1, LatestBelow
      <3>7. Len(checkpoints) \in Servable
        BY <1>2, <3>5, <3>6 DEF Servable
      <3>. QED
        BY <1>2, <3>3, <3>4, <3>5, <3>6, <3>7
    <2>. QED
      BY <1>2, <1>7, <2>1, <2>2 DEF PrunableRow
  <1>8. CASE IsOp(s) /\ CoveredAt(kept, s, retention_floor)'
    <2>1. CoveredAt(kept, s, retention_floor)
      BY <1>1, <1>2, <1>8, KeptCovers DEF CoveredAt
    <2>. QED
      BY <1>2, <1>8, <2>1 DEF PrunableRow
  <1>. QED
    BY <1>2, <1>3, <1>4, <1>6, <1>7, <1>8 DEF PrunableRow

\* What the floor covers stands together.
Kept == CoversStand /\ Swept

LEMMA NextCoversStand ==
    ASSUME Sequels, Kept, [Next]_vars
    PROVE  CoversStand'
  <1>1. TypeOK /\ FloorsKnown /\ CheckpointsInOrder /\ GoneForGood /\ TypeOK' /\ ChainsAscend'
    BY NextSequels, NextType DEF Sequels, Inductive
  <1>2. /\ retention_floor \in Nat /\ retention_floor' \in Nat /\ retention_floor <= Len(log)
        /\ Len(log) \in Nat /\ Len(log') \in Nat /\ Len(log) <= Len(log')
        /\ kept \subseteq AllRows /\ kept' \subseteq AllRows'
        /\ AllRows = 1..Len(log) /\ AllRows' = 1..Len(log')
        /\ \A s \in AllRows : log'[s] = log[s] /\ (IsOp(s)' <=> IsOp(s))
    BY <1>1, FloorBelow, LogGrows DEF TypeOK, AllRows, IsOp
  <1>3. SUFFICES ASSUME NEW s \in kept', IsOp(s)', NEW c \in AllRows', c <= retention_floor',
                        Covers(c, s)'
                 PROVE  \E b \in kept' : b <= retention_floor' /\ Covers(b, s)'
    BY DEF CoversStand, CoveredAt
  <1>4. s \in AllRows' /\ s < c
    BY <1>1, <1>2, <1>3 DEF ChainsAscend
  <1>5. CASE Aside
    <2>1. c \in AllRows /\ s \in AllRows /\ s \in kept
      BY <1>2, <1>3, <1>4, <1>5 DEF Aside
    <2>2. \A b \in AllRows : Covers(b, s)' <=> Covers(b, s)
      BY <1>2, <2>1 DEF Covers
    <2>3. CoveredAt(kept, s, retention_floor)
      BY <1>2, <1>3, <1>5, <2>1, <2>2 DEF Kept, CoversStand, CoveredAt, Aside
    <2>. QED
      BY <1>2, <1>5, <2>2, <2>3 DEF Aside, CoveredAt
  <1>6. ASSUME NEW i \in Instances, PersistFloor(i)
        PROVE  \E b \in kept' : b <= retention_floor' /\ Covers(b, s)'
    <2>1. UNCHANGED <<log, kept>> /\ retention_floor' >= retention_floor
      BY <1>1, <1>6, PersistFact DEF PersistFloor
    <2>2. AllRows' = AllRows /\ \A b : Covers(b, s)' <=> Covers(b, s)
      BY <2>1 DEF AllRows, Covers, IsOp
    <2>3. CASE c \in kept
      BY <1>3, <2>1, <2>3
    <2>4. CASE c \notin kept
      <3>1. c <= retention_floor /\ c \in AllRows
        BY <1>1, <2>2, <2>4 DEF GoneForGood
      <3>2. CoveredAt(kept, s, retention_floor)
        BY <1>2, <1>3, <2>1, <2>2, <3>1 DEF Kept, CoversStand, CoveredAt
      <3>3. PICK b \in kept : b <= retention_floor /\ Covers(b, s)
        BY <3>2 DEF CoveredAt
      <3>4. b \in Nat
        BY <1>2
      <3>. QED
        BY <1>2, <2>1, <2>2, <3>3, <3>4
    <2>. QED
      BY <2>3, <2>4
  <1>7. ASSUME NEW i \in Instances, PruneBatch(i)
        PROVE  \E b \in kept' : b <= retention_floor' /\ Covers(b, s)'
    <2>1. UNCHANGED <<log, retention_floor>> /\ inst[i].pc = "prune" /\ kept' \subseteq kept
      BY <1>1, <1>7, PruneFact DEF PruneBatch
    <2>2. AllRows' = AllRows /\ (\A b : Covers(b, s)' <=> Covers(b, s)) /\ IsOp(s)
      BY <1>3, <2>1 DEF AllRows, Covers, IsOp
    <2>3. PICK b \in kept : b <= retention_floor /\ Covers(b, s)
      BY <1>3, <2>1, <2>2 DEF Kept, CoversStand, CoveredAt
    <2>4. s < b /\ s \in Nat /\ b \in Nat /\ s <= retention_floor
      BY <1>2, <2>1, <2>2, <2>3 DEF Sequels, ChainsAscend
    <2>5. PrunableRow(s)
      BY <2>2, <2>3, <2>4 DEF PrunableRow, CoveredAt
    <2>6. PICK last \in Nat :
              /\ \A t \in kept \ kept' : t <= last
              /\ \A t \in kept' : PrunableRow(t) /\ t > inst[i].after => t > last
      BY <1>1, <1>7, BatchFact
    <2>7. inst[i].after \in Nat /\ ~(s <= inst[i].after)
      BY <2>1, <2>5 DEF Kept, Swept, Sequels, Inductive, TypeOK, Pass
    <2>8. s > last
      BY <2>4, <2>5, <2>6, <2>7
    <2>9. b \in kept'
      BY <2>4, <2>6, <2>8
    <2>. QED
      BY <2>1, <2>2, <2>3, <2>9
  <1>. QED
    BY <1>1, <1>5, <1>6, <1>7, AsideSteps

\* A row that is new lies above the floor.
LEMMA NewRows ==
    ASSUME Sequels, [Next]_vars, retention_floor' = retention_floor, NEW s \in kept',
           PrunableRow(s)'
    PROVE  s \in kept /\ PrunableRow(s)
  <1>1. TypeOK /\ FloorsKnown /\ CheckpointsInOrder /\ TypeOK'
    BY NextType DEF Sequels, Inductive
  <1>2. s \in AllRows'
    BY <1>1 DEF TypeOK
  <1>3. s <= retention_floor /\ retention_floor <= Len(log) /\ retention_floor \in Nat
        /\ Len(log) \in Nat
    BY <1>1, FloorBelow DEF PrunableRow, TypeOK
  <1>4. s \in AllRows
    BY <1>2, <1>3 DEF AllRows
  <1>. QED
    BY <1>1, <1>4, KeptStep, PrunableStays

\* Nor does the new checkpoint come with hashes to clear.
LEMMA NewHashes ==
    ASSUME Sequels, [Next]_vars, retention_floor' = retention_floor, NEW n \in Clearable'
    PROVE  n \in DOMAIN checkpoints /\ checkpoints[n].covered < retention_floor
  <1>1. TypeOK /\ FloorsKnown /\ CheckpointsInOrder /\ PlansOpen /\ TypeOK'
    BY NextType DEF Sequels, Inductive
  <1>2. n \in buckets' /\ n \in DOMAIN checkpoints' /\ checkpoints'[n].covered < retention_floor
    BY <1>1 DEF Clearable, TypeOK
  <1>3. CASE UNCHANGED checkpoints
    BY <1>2, <1>3
  <1>4. CASE Commit \/ CommitGrant
    <2>1. PICK p \in plans, c \in Checkpoint :
              /\ ~Stale(p) /\ c.covered = p.covered
              /\ checkpoints' = Append(checkpoints, c)
      BY <1>1, <1>4, CommitFact
    <2>2. /\ DOMAIN checkpoints = 1..Len(checkpoints) /\ Len(checkpoints) \in Nat
          /\ DOMAIN checkpoints' = 1..Len(checkpoints) + 1
          /\ checkpoints'[Len(checkpoints) + 1] = c
          /\ \A m \in DOMAIN checkpoints : checkpoints'[m] = checkpoints[m]
      BY <1>1, <2>1, CommitCheckpoints
    <2>3. c.covered >= Latest.seq /\ c.covered \in Nat
      BY <1>1, <2>1 DEF PlansOpen, Checkpoint
    <2>4. /\ retention_floor <= Latest.covered /\ Latest.covered <= Latest.seq
          /\ retention_floor \in Nat /\ Latest.covered \in Nat /\ Latest.seq \in Nat
      BY <1>1, LatestBelow
    <2>5. n # Len(checkpoints) + 1
      BY <1>2, <2>2, <2>3, <2>4
    <2>. QED
      BY <1>2, <2>2, <2>5
  <1>. QED
    BY <1>1, <1>3, <1>4, CheckpointsStep

LEMMA NextSwept ==
    ASSUME OneInstance, Sequels, Kept, [Next]_vars
    PROVE  Swept'
  <1>1. TypeOK /\ FloorsKnown /\ CheckpointsInOrder /\ TypeOK'
    BY NextType DEF Sequels, Inductive
  <1>2. /\ retention_floor \in Nat /\ retention_floor' \in Nat
        /\ pruned_floor \in Nat /\ pruned_floor <= retention_floor
        /\ kept' \subseteq Nat \ {0} /\ inst \in [Instances -> Pass]
    BY <1>1, <1>1 DEF TypeOK, AllRows, Kept, Swept
  <1>3. CASE Aside
    <2>1. retention_floor' = retention_floor /\ pruned_floor' \in {pruned_floor, 0}
      BY <1>3 DEF Aside
    <2>2. \A s \in Prunable' : s \in Prunable
      BY <2>1, NewRows DEF Prunable
    <2>3. \A n \in Clearable' : n \in Clearable
      <3>1. \A n \in Clearable' : n \in buckets'
        BY DEF Clearable
      <3>. QED
        BY <1>3, <2>1, <3>1, NewHashes DEF Aside, Clearable
    <2>4. retention_floor = 0 => Prunable = {} /\ Clearable = {}
      <3>1. kept \subseteq Nat \ {0}
        BY <1>1 DEF TypeOK, AllRows
      <3>2. ASSUME NEW n \in buckets
            PROVE  checkpoints[n].covered \in Nat
        <4>1. checkpoints[n] \in Checkpoint
          BY <1>1 DEF TypeOK
        <4>. QED
          BY <4>1 DEF Checkpoint
      <3>3. \A s \in kept : s <= retention_floor => retention_floor # 0
        BY <3>1
      <3>4. \A n \in buckets : checkpoints[n].covered < retention_floor => retention_floor # 0
        BY <3>2
      <3>. QED
        BY <3>3, <3>4 DEF Prunable, PrunableRow, Clearable
    <2>5. PruningComplete'
      BY <2>1, <2>2, <2>3, <2>4 DEF PruningComplete, Kept, Swept
    <2>6. \A i \in Instances : inst'[i].pc = "prune" =>
              \A s \in kept' : s <= inst'[i].after => ~PrunableRow(s)'
      BY <1>3, <2>1, NewRows DEF Aside, Kept, Swept
    <2>7. pruned_floor' <= retention_floor'
      BY <1>2, <2>1
    <2>. QED
      BY <2>5, <2>6, <2>7 DEF Swept
  <1>4. ASSUME NEW i \in Instances, PersistFloor(i)
        PROVE  Swept'
    <2>1. /\ retention_floor' >= retention_floor
          /\ UNCHANGED <<log, kept, dropped, checkpoints, buckets, pruned_floor>>
          /\ inst' = [inst EXCEPT ![i] = [IdlePass EXCEPT !.pc = "prune"]]
      BY <1>1, <1>4, PersistFact DEF PersistFloor, SetPass
    <2>2. \A j \in Instances : inst'[j].after = 0
      BY <1>2, <2>1 DEF OneInstance, IdlePass
    <2>3. PruningComplete'
      <3>1. CASE retention_floor' = retention_floor
        <4>1. \A s \in Prunable' : s \in Prunable
          BY <3>1, NewRows DEF Prunable
        <4>2. \A n \in Clearable' : n \in Clearable
          BY <2>1, <3>1 DEF Clearable
        <4>. QED
          BY <2>1, <3>1, <4>1, <4>2 DEF PruningComplete, Kept, Swept
      <3>2. CASE retention_floor' > retention_floor
        BY <1>2, <2>1, <3>2 DEF PruningComplete
      <3>. QED
        BY <1>2, <2>1, <3>1, <3>2
    <2>. QED
      BY <1>2, <2>1, <2>2, <2>3 DEF Swept
  <1>5. ASSUME NEW i \in Instances, PruneBatch(i)
        PROVE  Swept'
    <2>1. UNCHANGED <<checkpoints, retention_floor>> /\ inst[i].pc = "prune" /\ kept' \subseteq kept
          /\ buckets' \subseteq buckets
      BY <1>1, <1>5, PruneFact DEF PruneBatch
    <2>2. PICK last \in Nat, done \in BOOLEAN :
              /\ \A s \in kept' : PrunableRow(s) /\ s > inst[i].after => s > last /\ ~done
              /\ inst' = [inst EXCEPT ![i] =
                             IF done THEN IdlePass ELSE [inst[i] EXCEPT !.after = last]]
              /\ pruned_floor' = IF done THEN retention_floor ELSE pruned_floor
              /\ done => \A n \in buckets' : n \notin Clearable
      BY <1>1, <1>5, BatchFact
    <2>3. inst[i].after \in Nat
      BY <1>2 DEF Pass
    <2>4. \A s \in kept' : s <= inst[i].after => ~PrunableRow(s)
      BY <2>1 DEF Kept, Swept
    <2>5. \A s \in Prunable' : s \in Prunable /\ ~done
      BY <1>2, <2>1, <2>2, <2>3, <2>4, NewRows DEF Prunable
    <2>6. \A n \in Clearable' : n \in Clearable /\ ~done
      BY <2>1, <2>2 DEF Clearable
    <2>7. PruningComplete'
      BY <2>1, <2>2, <2>5, <2>6 DEF PruningComplete, Kept, Swept
    <2>8. ASSUME NEW j \in Instances, inst'[j].pc = "prune", NEW s \in kept', s <= inst'[j].after,
                 PrunableRow(s)'
          PROVE  FALSE
      <3>1. j = i
        BY DEF OneInstance
      <3>2. ~done /\ inst'[i].after = last
        BY <1>2, <2>2, <2>8, <3>1 DEF IdlePass, Pass
      <3>3. PrunableRow(s)
        BY <2>1, <2>8, NewRows
      <3>4. ~(s <= inst[i].after) /\ s \in Nat
        BY <1>2, <2>4, <3>3
      <3>. QED
        BY <2>2, <2>3, <2>8, <3>1, <3>2, <3>3, <3>4
    <2>. QED
      BY <1>2, <2>1, <2>2, <2>7, <2>8 DEF Swept
  <1>. QED
    BY <1>1, <1>3, <1>4, <1>5, AsideSteps

LEMMA InitKept == Init => Kept
  <1> SUFFICES ASSUME Init PROVE Kept
    OBVIOUS
  <1>1. \A s \in AllRows : ~IsOp(s)
    BY DEF Init, AllRows, IsOp
  <1>2. kept \subseteq Nat \ {0} /\ buckets = {} /\ retention_floor = 0 /\ pruned_floor = 0
        /\ \A i \in Instances : inst[i].pc = "idle"
    BY DEF Init, IdlePass
  <1>3. CoversStand
    BY <1>2 DEF CoversStand, CoveredAt, Covers, Init, IsOp
  <1>4. \A s \in kept : ~(s <= retention_floor)
    BY <1>2
  <1>5. Prunable = {} /\ Clearable = {}
    BY <1>2, <1>4 DEF Prunable, PrunableRow, Clearable
  <1>6. PruningComplete /\ pruned_floor <= retention_floor
    BY <1>2, <1>5 DEF PruningComplete
  <1>. QED
    BY <1>2, <1>3, <1>6 DEF Kept, Swept

LEMMA KeptHolds == ASSUME OneInstance PROVE Spec => [](Sequels /\ Kept)
  <1>1. Init => Sequels /\ Kept
    BY InitSequels, InitKept
  <1>2. Sequels /\ Kept /\ [Next]_vars => (Sequels /\ Kept)'
    BY NextSequels, NextCoversStand, NextSwept DEF Kept
  <1>. QED
    BY <1>1, <1>2, PTL DEF Spec

\* With one instance, a domain whose pruned_floor is at its floor has nothing
\* left to prune, however many pushes and commits ran beside the pass.
THEOREM PruningEnds == ASSUME OneInstance PROVE Spec => []PruningComplete
  <1>1. Sequels /\ Kept => PruningComplete
    BY DEF Kept, Swept
  <1>. QED
    BY <1>1, KeptHolds, PTL

-----------------------------------------------------------------------------
(* One instance: the rows that stand tell what the whole log tells.        *)

LEMMA RowsExact ==
    ASSUME Sequels, Kept, NEW at \in Nat, at >= retention_floor, NEW r
    PROVE  LiveAt(kept, r, at) = LiveAt(AllRows, r, at)
  <1>1. /\ kept \subseteq AllRows /\ retention_floor \in Nat /\ AllRows \subseteq Nat
        /\ GoneForGood /\ CoversStand
    BY DEF Sequels, Inductive, TypeOK, Kept, AllRows
  <1>2. ASSUME NEW s \in kept, IsOp(s), CoveredAt(AllRows, s, at)
        PROVE  CoveredAt(kept, s, at)
    <2>1. PICK c \in AllRows : c <= at /\ Covers(c, s)
      BY <1>2 DEF CoveredAt
    <2>2. CASE c \in kept
      BY <2>1, <2>2 DEF CoveredAt
    <2>3. CASE c \notin kept
      <3>1. c <= retention_floor
        BY <1>1, <2>3 DEF GoneForGood
      <3>2. CoveredAt(kept, s, retention_floor)
        BY <1>1, <1>2, <2>1, <3>1 DEF CoversStand, CoveredAt
      <3>3. PICK b \in kept : b <= retention_floor /\ Covers(b, s)
        BY <3>2 DEF CoveredAt
      <3>4. b <= at
        BY <1>1, <3>3
      <3>. QED
        BY <3>3, <3>4 DEF CoveredAt
    <2>. QED
      BY <2>2, <2>3
  <1>3. ASSUME NEW s \in LiveAt(AllRows, r, at), s \notin kept
        PROVE  FALSE
    <2>1. s \in AllRows /\ IsOp(s) /\ s \notin dropped /\ ~CoveredAt(AllRows, s, at)
      BY DEF LiveAt
    <2>2. CoveredAt(AllRows, s, retention_floor)
      BY <1>1, <1>3, <2>1 DEF GoneForGood, Gone
    <2>3. PICK c \in AllRows : c <= retention_floor /\ Covers(c, s)
      BY <2>2 DEF CoveredAt
    <2>4. c <= at
      BY <1>1, <2>3
    <2>. QED
      BY <2>1, <2>3, <2>4 DEF CoveredAt
  <1>4. \A s \in kept : CoveredAt(kept, s, at) => CoveredAt(AllRows, s, at)
    BY <1>1 DEF CoveredAt
  <1>. QED
    BY <1>1, <1>2, <1>3, <1>4 DEF LiveAt

\* With one instance, the rows that stand give the live set of the whole log at
\* every servable checkpoint and at the head.
THEOREM LiveSetExact == ASSUME OneInstance PROVE Spec => []LiveExact
  <1>1. Sequels /\ Kept => LiveExact
    <2> SUFFICES ASSUME Sequels, Kept, NEW at \in ServedAt
                 PROVE  StoreLive(at) = TrueLive(at)
      BY DEF LiveExact
    <2>1. TypeOK /\ FloorsKnown /\ CheckpointsInOrder
      BY DEF Sequels, Inductive
    <2>2. at \in Nat /\ at >= retention_floor
      <3>1. retention_floor \in Nat /\ retention_floor <= Len(log) /\ Len(log) \in Nat
        BY <2>1, FloorBelow DEF TypeOK
      <3>2. CASE at = Len(log)
        BY <3>1, <3>2
      <3>3. ASSUME NEW n \in Servable, at = checkpoints[n].covered
            PROVE  at \in Nat /\ at >= retention_floor
        <4>1. checkpoints[n] \in Checkpoint
          BY <2>1 DEF Servable, TypeOK
        <4>. QED
          BY <3>3, <4>1 DEF Servable, Checkpoint
      <3>. QED
        BY <3>2, <3>3 DEF ServedAt
    <2>3. \A r : LiveAt(kept, r, at) = LiveAt(AllRows, r, at)
      BY <2>2, RowsExact
    <2>. QED
      BY <2>3 DEF StoreLive, TrueLive
  <1>. QED
    BY <1>1, KeptHolds, PTL

\* Rids with an operation live at at, once those of without are gone.
Objects(at, without) == Cardinality({r \in Rids : LiveAt(AllRows, r, at) \ without # {}})
TrueHeads(at) == HeadsAt(AllRows, NoCheckpoint.body.heads, 0, at)

\* The latest checkpoint says what the whole log says at its covered_seq.
LatestExact ==
    /\ Latest.body.manifest = TrueLive(Latest.covered)
    /\ Latest.body.objects = Objects(Latest.covered, {})
    /\ Latest.body.heads = TrueHeads(Latest.covered)

\* What the server planned is what the device signed, and it is what the log
\* will say once the plan's deletes are dropped.
PlansExact ==
    \A p \in plans : ~Stale(p) =>
        /\ p.planned = p.signed
        /\ p.signed.manifest = TrueLive(p.covered) \ p.drops
        /\ p.signed.objects = Objects(p.covered, p.drops)
        /\ p.signed.heads = TrueHeads(p.covered)

\* A step takes from what is live at a settled place only what it drops.
LEMMA LiveStep ==
    ASSUME TypeOK, [Next]_vars, NEW r, NEW at \in Nat, at <= Len(log)
    PROVE  LiveAt(AllRows, r, at)' = LiveAt(AllRows, r, at) \ dropped'
  <1>1. /\ \A s \in AllRows : log'[s] = log[s] /\ (IsOp(s)' <=> IsOp(s))
        /\ \A s \in AllRows' : s <= at => s \in AllRows
        /\ AllRows \subseteq AllRows'
    BY LogGrows DEF IsOp, AllRows
  <1>2. dropped \subseteq dropped'
    BY CheckpointsStep, CommitFact
  <1>3. \A s \in AllRows : CoveredAt(AllRows, s, at)' <=> CoveredAt(AllRows, s, at)
    BY CoveredSettled
  <1>. QED
    BY <1>1, <1>2, <1>3 DEF LiveAt

LEMMA HeadsStep ==
    ASSUME TypeOK, [Next]_vars, NEW at \in Nat, at <= Len(log)
    PROVE  TrueHeads(at)' = TrueHeads(at)
  <1>1. /\ \A s \in AllRows : log'[s] = log[s] /\ (IsOp(s)' <=> IsOp(s))
        /\ \A s \in AllRows' : s <= at => s \in AllRows
        /\ AllRows \subseteq AllRows'
    BY LogGrows DEF IsOp, AllRows
  <1>. DEFINE X(d) == {x \in AllRows : x > 0 /\ x <= at /\ IsOp(x) /\ log[x].device = d}
              C(d) == {log[s].counter : s \in X(d)}
  <1>2. ASSUME NEW d \in Devices
        PROVE  C(d)' = C(d)
    <2>1. X(d)' = X(d)
      BY <1>1
    <2>2. \A s \in X(d) : log'[s] = log[s]
      BY <1>1
    <2>. HIDE DEF X
    <2>. QED
      BY <2>1, <2>2
  <1>. QED
    BY <1>2 DEF TrueHeads, HeadsAt, NoCheckpoint

\* What every kind of step makes of a set of live operations and its objects.
LEMMA TrueStep ==
    ASSUME TypeOK, [Next]_vars, NEW at \in Nat, at <= Len(log)
    PROVE  /\ TrueLive(at)' = TrueLive(at) \ dropped'
           /\ \A without : Objects(at, without)' = Objects(at, without \cup dropped')
           /\ TrueHeads(at)' = TrueHeads(at)
  <1>1. \A r \in Rids : LiveAt(AllRows, r, at)' = LiveAt(AllRows, r, at) \ dropped'
    BY LiveStep
  <1>2. ASSUME NEW without
        PROVE  Objects(at, without)' = Objects(at, without \cup dropped')
    <2>1. {r \in Rids : LiveAt(AllRows, r, at)' \ without # {}}
             = {r \in Rids : LiveAt(AllRows, r, at) \ (without \cup dropped') # {}}
      BY <1>1
    <2>. QED
      BY <2>1 DEF Objects
  <1>3. TrueLive(at)' = TrueLive(at) \ dropped'
    BY <1>1 DEF TrueLive
  <1>. QED
    BY <1>2, <1>3, HeadsStep

\* The greatest of 0 and some numbers, in two parts.
LEMMA MaxOfParts ==
    ASSUME NEW X, X \subseteq Nat, IsFiniteSet(X),
           NEW Y, Y \subseteq Nat, IsFiniteSet(Y)
    PROVE  MaxOf({MaxOf({0} \cup X)} \cup Y) = MaxOf({0} \cup (X \cup Y))
  <1>0. PICK a \in Nat : a = 0
    OBVIOUS
  <1>1. /\ IsFiniteSet({a} \cup X) /\ IsFiniteSet({a} \cup (X \cup Y))
    BY FS_Singleton, FS_Union
  <1>. DEFINE m == MaxOf({a} \cup X)
              n == MaxOf({a} \cup (X \cup Y))
              k == MaxOf({m} \cup Y)
  <1>2. m \in {a} \cup X /\ \A y \in {a} \cup X : y <= m
    BY <1>1, MaxOfFact
  <1>3. n \in {a} \cup (X \cup Y) /\ \A y \in {a} \cup (X \cup Y) : y <= n
    BY <1>1, MaxOfFact
  <1>4. IsFiniteSet({m} \cup Y) /\ m \in Nat
    BY <1>2, FS_Singleton, FS_Union
  <1>5. k \in {m} \cup Y /\ \A y \in {m} \cup Y : y <= k
    BY <1>4, MaxOfFact
  <1>. HIDE DEF m, n, k
  <1>6. k <= n /\ n <= k /\ k \in Nat /\ n \in Nat
    <2>1. k \in {a} \cup (X \cup Y) /\ k \in Nat /\ n \in Nat /\ m <= k
      BY <1>2, <1>3, <1>4, <1>5
    <2>2. k <= n
      BY <1>3, <2>1
    <2>3. CASE n \in {a} \cup X
      <3>1. n <= m
        BY <1>2, <2>3
      <3>. QED
        BY <1>4, <2>1, <2>2, <3>1
    <2>4. CASE n \in Y
      BY <1>5, <2>1, <2>2, <2>4
    <2>. QED
      BY <1>3, <2>1, <2>2, <2>3, <2>4
  <1>7. k = n
    BY <1>6
  <1>. QED
    BY <1>0, <1>7 DEF k, n, m

\* A pair of sets that agree outside T differ in size as they do inside T.
LEMMA CountApart ==
    ASSUME NEW A, NEW B, NEW T, IsFiniteSet(A), IsFiniteSet(B), A \ T = B \ T
    PROVE  Cardinality(B) = Cardinality(A) + Cardinality(B \cap T) - Cardinality(A \cap T)
  <1>1. IsFiniteSet(A \cap T) /\ IsFiniteSet(B \cap T)
    BY FS_Intersection
  <1>2. /\ Cardinality(A \ T) = Cardinality(A) - Cardinality(A \cap T)
        /\ Cardinality(B \ T) = Cardinality(B) - Cardinality(B \cap T)
    BY FS_Difference
  <1>3. /\ Cardinality(A) \in Nat /\ Cardinality(A \cap T) \in Nat
        /\ Cardinality(B) \in Nat /\ Cardinality(B \cap T) \in Nat
    BY <1>1, FS_CardinalityType
  <1>4. Cardinality(A \ T) = Cardinality(B \ T)
    BY Zenon
  <1>. QED
    BY <1>2, <1>3, <1>4

\* What the server plans is what the device signs.
LEMMA PlannedSigned ==
    ASSUME Sequels, Kept, LatestExact, NEW floor \in Nat, NEW covered \in Nat,
           Bounds(covered, floor), 2 <= covered, covered <= Len(log)
    PROVE  /\ Planned(floor, covered) = Signed(floor, covered)
           /\ FloorDrops(kept, floor, covered) = FloorDrops(AllRows, floor, covered)
  <1>1. TypeOK /\ FloorsKnown /\ CheckpointsInOrder /\ GoneForGood /\ NamesAbove
    BY DEF Sequels, Inductive
  <1>2. PICK low \in Nat : low = Latest.covered
    BY <1>1, LatestBelow
  <1>3. /\ retention_floor \in Nat /\ retention_floor <= low /\ low <= covered
        /\ retention_floor <= covered
        /\ kept \subseteq AllRows /\ AllRows \subseteq Nat \ {0}
    <2>1. retention_floor \in Nat /\ retention_floor <= low
      BY <1>1, <1>2, LatestBelow
    <2>2. low <= covered
      <3>1. /\ Latest.covered <= Latest.seq /\ Latest.seq \in Nat
            /\ Latest.covered \in Nat
        BY <1>1, LatestBelow
      <3>2. Latest.seq <= covered
        BY DEF Bounds
      <3>. QED
        BY <1>2, <3>1, <3>2
    <2>3. kept \subseteq AllRows /\ AllRows \subseteq Nat \ {0}
      BY <1>1 DEF TypeOK, AllRows
    <2>. QED
      BY <2>1, <2>2, <2>3
  <1>4. \A r : /\ LiveAt(kept, r, covered) = LiveAt(AllRows, r, covered)
               /\ LiveAt(kept, r, low) = LiveAt(AllRows, r, low)
    BY <1>3, RowsExact
  <1>5. FloorDrops(kept, floor, covered) = FloorDrops(AllRows, floor, covered)
    <2>1. ASSUME NEW s \in AllRows, LiveAt(AllRows, log[s].rid, covered) = {s}
          PROVE  s \in kept
      <3>1. s \in LiveAt(kept, log[s].rid, covered)
        BY <1>4, <2>1
      <3>. QED
        BY <3>1 DEF LiveAt
    <2>. QED
      BY <1>3, <1>4, <2>1 DEF FloorDrops
  <1>. DEFINE drops == FloorDrops(AllRows, floor, covered)
              touched == Touched(floor, covered)
              after == [r \in touched |-> LiveAt(kept, r, covered) \ drops]
              live == [r \in Rids |-> LiveAt(AllRows, r, covered) \ drops]
  <1>6. touched \subseteq Rids
    <2>1. \A s \in kept : IsOp(s) => log[s].rid \in Rids
      BY <1>1, <1>3, EntryType DEF TypeOK, OperationEntry
    <2>2. \A s \in FloorDrops(kept, floor, covered) : s \in kept /\ IsOp(s)
      BY DEF FloorDrops
    <2>. QED
      BY <2>1, <2>2 DEF Touched, TouchedByRecords
  <1>7. ASSUME NEW r \in touched
        PROVE  after[r] = LiveAt(AllRows, r, covered) \ drops
    BY <1>4
  <1>8. ASSUME NEW r \in Rids, r \notin touched
        PROVE  LiveAt(AllRows, r, covered) \ drops = LiveAt(AllRows, r, low)
    <2>1. ASSUME NEW x \in AllRows, x <= covered, IsOp(x), log[x].rid = r
          PROVE  x <= low
      <3>1. x > low => x \in kept
        BY <1>1, <1>3 DEF GoneForGood
      <3>2. ~(x > low /\ x \in kept)
        BY <1>2, <1>8, <2>1 DEF Touched, TouchedByRecords
      <3>. QED
        BY <1>3, <3>1, <3>2
    <2>2. \A s \in AllRows : s <= low => s <= covered
      BY <1>3
    <2>3. ASSUME NEW s \in AllRows, log[s].rid = r
          PROVE  CoveredAt(AllRows, s, covered) <=> CoveredAt(AllRows, s, low)
      BY <2>1, <2>2, <2>3 DEF CoveredAt, Covers
    <2>4. \A s \in drops : log[s].rid # r
      BY <1>5, <1>8 DEF Touched
    <2>. HIDE DEF drops
    <2>. QED
      BY <2>1, <2>2, <2>3, <2>4 DEF LiveAt
  <1>. HIDE DEF drops, touched
  <1>9. {s \in Latest.body.manifest : log[s].rid \notin touched} \cup UNION {after[r] : r \in touched}
          = UNION {live[r] : r \in Rids}
    <2>1. Latest.body.manifest = UNION {LiveAt(AllRows, r, low) : r \in Rids}
      BY <1>2 DEF LatestExact, TrueLive
    <2>2. \A r \in Rids : \A s \in LiveAt(AllRows, r, low) : log[s].rid = r
      BY DEF LiveAt
    <2>3. \A r \in Rids : \A s \in LiveAt(AllRows, r, covered) : log[s].rid = r
      BY DEF LiveAt
    <2>4. ASSUME NEW s, s \in Latest.body.manifest, log[s].rid \notin touched
          PROVE  \E r \in Rids : s \in live[r]
      <3>1. PICK r \in Rids : s \in LiveAt(AllRows, r, low)
        BY <2>1, <2>4
      <3>. QED
        BY <1>8, <2>2, <2>4, <3>1
    <2>5. ASSUME NEW r \in touched, NEW s \in after[r]
          PROVE  s \in live[r] /\ r \in Rids
      BY <1>6, <1>7, <2>5
    <2>6. ASSUME NEW r \in Rids, NEW s \in live[r], r \in touched
          PROVE  s \in after[r]
      BY <1>7, <2>6
    <2>7. ASSUME NEW r \in Rids, NEW s \in live[r], r \notin touched
          PROVE  s \in Latest.body.manifest /\ log[s].rid \notin touched
      BY <1>8, <2>1, <2>2, <2>7
    <2>. HIDE DEF after, live
    <2>. QED
      BY <2>4, <2>5, <2>6, <2>7
  <1>10. Latest.body.objects
           + Cardinality({r \in touched : after[r] # {}})
           - Cardinality({r \in touched : LiveAt(kept, r, Latest.covered) # {}})
          = Cardinality({r \in Rids : live[r] # {}})
    <2>. DEFINE A == {r \in Rids : LiveAt(AllRows, r, low) # {}}
                B == {r \in Rids : live[r] # {}}
    <2>1. Latest.body.objects = Cardinality(A)
      <3>1. A = {r \in Rids : LiveAt(AllRows, r, low) \ {} # {}}
        OBVIOUS
      <3>. QED
        BY <1>2, <3>1 DEF LatestExact, Objects
    <2>2. IsFiniteSet(A) /\ IsFiniteSet(B)
      BY FS_Subset, ConstantsAssumption DEF ConstantsAssumption
    <2>3. A \ touched = B \ touched
      BY <1>8
    <2>4. {r \in touched : after[r] # {}} = B \cap touched
      BY <1>6, <1>7
    <2>5. {r \in touched : LiveAt(kept, r, Latest.covered) # {}} = A \cap touched
      BY <1>2, <1>4, <1>6
    <2>6. Cardinality(B)
            = Cardinality(A) + Cardinality(B \cap touched) - Cardinality(A \cap touched)
      <3>. HIDE DEF A, B
      <3>. QED
        BY ONLY <2>2, <2>3, CountApart
    <2>. QED
      BY <2>1, <2>4, <2>5, <2>6
  <1>11. HeadsAt(kept, Latest.body.heads, Latest.covered, covered)
          = HeadsAt(AllRows, NoCheckpoint.body.heads, 0, covered)
    <2>. DEFINE On(E, from, to, d) ==
                    {x \in E : x > from /\ x <= to /\ IsOp(x) /\ log[x].device = d}
                Counters(E, from, to, d) == {log[s].counter : s \in On(E, from, to, d)}
    <2>1. ASSUME NEW d \in Devices
          PROVE  MaxOf({Latest.body.heads[d]} \cup Counters(kept, low, covered, d))
                   = MaxOf({0} \cup Counters(AllRows, 0, covered, d))
      <3>1. Latest.body.heads[d] = MaxOf({0} \cup Counters(AllRows, 0, low, d))
        <4>1. Latest.body.heads = HeadsAt(AllRows, NoCheckpoint.body.heads, 0, low)
          BY <1>2 DEF LatestExact, TrueHeads
        <4>2. NoCheckpoint.body.heads[d] = 0
          BY DEF NoCheckpoint
        <4>. QED
          BY <4>1, <4>2 DEF HeadsAt
      <3>2. On(kept, low, covered, d) = On(AllRows, low, covered, d)
        <4>1. \A x \in AllRows : x > low => x \in kept
          BY <1>1, <1>3 DEF GoneForGood
        <4>. QED
          BY <1>3, <4>1
      <3>3. On(AllRows, 0, covered, d) = On(AllRows, 0, low, d) \cup On(AllRows, low, covered, d)
        <4>1. \A x \in AllRows : x > 0 /\ x <= covered <=>
                  \/ x > 0 /\ x <= low
                  \/ x > low /\ x <= covered
          BY <1>3
        <4>. QED
          BY <4>1
      <3>4. \A from, to \in Nat :
                Counters(AllRows, from, to, d) \subseteq Nat /\ IsFiniteSet(Counters(AllRows, from, to, d))
        <4>1. SUFFICES ASSUME NEW from \in Nat, NEW to \in Nat
                       PROVE  /\ Counters(AllRows, from, to, d) \subseteq Nat
                              /\ IsFiniteSet(Counters(AllRows, from, to, d))
          OBVIOUS
        <4>2. IsFiniteSet(On(AllRows, from, to, d))
          BY <1>1, RowsFinite, FS_Subset DEF TypeOK
        <4>3. \A s \in On(AllRows, from, to, d) : log[s].counter \in Nat
          BY <1>1, EntryType DEF TypeOK, OperationEntry
        <4>. DEFINE S == On(AllRows, from, to, d)
                    f == [s \in S |-> log[s].counter]
                    T == {log[s].counter : s \in S}
        <4>4. f \in Surjection(S, T)
          BY DEF Surjection
        <4>5. IsFiniteSet(T)
          <5>. HIDE DEF S, T, f
          <5>. QED
            BY <4>2, <4>4, FS_Surjection DEF S
        <4>. QED
          BY <4>3, <4>5
      <3>5. Counters(AllRows, 0, covered, d)
              = Counters(AllRows, 0, low, d) \cup Counters(AllRows, low, covered, d)
        <4>. HIDE DEF On
        <4>. QED
          BY <3>3
      <3>6. Counters(kept, low, covered, d) = Counters(AllRows, low, covered, d)
        BY <3>2
      <3>7. PICK X, Y : X = Counters(AllRows, 0, low, d) /\ Y = Counters(AllRows, low, covered, d)
        OBVIOUS
      <3>8. X \subseteq Nat /\ IsFiniteSet(X) /\ Y \subseteq Nat /\ IsFiniteSet(Y)
        <4>. HIDE DEF Counters
        <4>. QED
          BY <3>4, <3>7
      <3>9. MaxOf({MaxOf({0} \cup X)} \cup Y) = MaxOf({0} \cup (X \cup Y))
        BY <3>8, MaxOfParts, Zenon
      <3>. HIDE DEF Counters
      <3>. QED
        BY <3>1, <3>5, <3>6, <3>7, <3>9, Zenon
    <2>. QED
      BY <1>2, <2>1 DEF HeadsAt, NoCheckpoint
  <1>12. ASSUME NEW type \in {"policy", "epoch"}
         PROVE  NewestAt(kept, type, covered) = NewestAt(AllRows, type, covered)
    <2>1. /\ NewestAt(kept, type, covered) \in Nat
          /\ NewestAt(kept, type, covered) \in {0} \cup {s \in kept : s <= covered /\ log[s].type = type}
          /\ \A s \in kept : s <= covered /\ log[s].type = type => s <= NewestAt(kept, type, covered)
      BY <1>1, <1>3, NewestAtFact DEF TypeOK
    <2>2. /\ NewestAt(AllRows, type, covered) \in Nat
          /\ NewestAt(AllRows, type, covered) \in {0} \cup {s \in AllRows : s <= covered /\ log[s].type = type}
          /\ \A s \in AllRows : s <= covered /\ log[s].type = type => s <= NewestAt(AllRows, type, covered)
      BY <1>1, <1>3, NewestAtFact DEF TypeOK
    <2>3. NewestAt(AllRows, type, covered) \in kept
      BY <1>3 DEF Sequels, Inductive, NamesAbove, AllRows, TypeOK
    <2>4. NewestAt(AllRows, type, covered) # 0
      BY <1>3, <2>3
    <2>5. NewestAt(AllRows, type, covered) <= NewestAt(kept, type, covered)
      BY <2>1, <2>2, <2>3, <2>4
    <2>6. NewestAt(kept, type, covered) <= NewestAt(AllRows, type, covered)
      BY <1>3, <2>1, <2>2
    <2>. QED
      BY <2>1, <2>2, <2>5, <2>6
  <1>13. Planned(floor, covered)
          = [manifest |-> {s \in Latest.body.manifest : log[s].rid \notin touched}
                            \cup UNION {after[r] : r \in touched},
             objects |-> Latest.body.objects
                           + Cardinality({r \in touched : after[r] # {}})
                           - Cardinality({r \in touched : LiveAt(kept, r, Latest.covered) # {}}),
             heads |-> HeadsAt(kept, Latest.body.heads, Latest.covered, covered),
             policy |-> NewestAt(kept, "policy", covered),
             epoch |-> NewestAt(kept, "epoch", covered)]
    BY <1>5 DEF Planned, touched, drops
  <1>14. Signed(floor, covered)
          = [manifest |-> UNION {live[r] : r \in Rids},
             objects |-> Cardinality({r \in Rids : live[r] # {}}),
             heads |-> HeadsAt(AllRows, NoCheckpoint.body.heads, 0, covered),
             policy |-> NewestAt(AllRows, "policy", covered),
             epoch |-> NewestAt(AllRows, "epoch", covered)]
    BY DEF Signed, drops
  <1>. HIDE DEF after, live
  <1>. QED
    BY <1>5, <1>9, <1>10, <1>11, <1>12, <1>13, <1>14

\* The state invariant of a domain that one instance prunes.
Exact == Sequels /\ Kept /\ LatestExact /\ PlansExact

LEMMA InitExact == Init => Exact
  <1> SUFFICES ASSUME Init PROVE Exact
    OBVIOUS
  <1>0. \A s \in AllRows : ~(s <= 0)
    BY DEF AllRows
  <1>1. Latest = NoCheckpoint /\ plans = {}
    BY DEF Init, Latest
  <1>2. \A r : LiveAt(AllRows, r, 0) = {}
    BY <1>0 DEF LiveAt
  <1>3. Objects(0, {}) = 0
    <2>1. {r \in Rids : LiveAt(AllRows, r, 0) \ {} # {}} = {}
      BY <1>2
    <2>. QED
      BY <2>1, FS_EmptySet DEF Objects
  <1>4. TrueHeads(0) = [d \in Devices |-> 0]
    <2>1. ASSUME NEW d
          PROVE  MaxOf({0} \cup {log[s].counter : s \in {x \in AllRows :
                    x > 0 /\ x <= 0 /\ IsOp(x) /\ log[x].device = d}}) = 0
      <3>1. {x \in AllRows : x > 0 /\ x <= 0 /\ IsOp(x) /\ log[x].device = d} = {}
        BY <1>0
      <3>2. {0} \cup {log[s].counter : s \in {x \in AllRows :
                    x > 0 /\ x <= 0 /\ IsOp(x) /\ log[x].device = d}} = {0}
        BY <3>1
      <3>3. MaxOf({0}) = 0
        BY DEF MaxOf
      <3>. QED
        BY <3>2, <3>3
    <2>. QED
      BY <2>1 DEF TrueHeads, HeadsAt, NoCheckpoint
  <1>. QED
    BY <1>1, <1>2, <1>3, <1>4, InitSequels, InitKept
       DEF Exact, LatestExact, PlansExact, NoCheckpoint, TrueLive

\* A plan that was there keeps saying what the log says.
LEMMA PlanStep ==
    ASSUME Exact, [Next]_vars, NEW p \in plans, ~Stale(p)
    PROVE  /\ p.planned = p.signed
           /\ p.signed.manifest \ dropped' = TrueLive(p.covered)' \ p.drops
           /\ p.signed.objects = Objects(p.covered, p.drops)
           /\ \A without : Objects(p.covered, without)' = Objects(p.covered, without \cup dropped')
           /\ p.signed.heads = TrueHeads(p.covered)'
  <1>1. TypeOK /\ PlansOpen
    BY DEF Exact, Sequels, Inductive
  <1>2. p.covered \in Nat /\ p.covered <= Len(log)
    BY <1>1 DEF TypeOK, Plan, PlansOpen
  <1>3. /\ p.planned = p.signed
        /\ p.signed.manifest = TrueLive(p.covered) \ p.drops
        /\ p.signed.objects = Objects(p.covered, p.drops)
        /\ p.signed.heads = TrueHeads(p.covered)
    BY DEF Exact, PlansExact
  <1>4. PICK at \in Nat : at = p.covered
    BY <1>2
  <1>5. /\ TrueLive(at)' = TrueLive(at) \ dropped'
        /\ \A without : Objects(at, without)' = Objects(at, without \cup dropped')
        /\ TrueHeads(at)' = TrueHeads(at)
    BY <1>1, <1>2, <1>4, TrueStep
  <1>. QED
    BY <1>3, <1>4, <1>5

\* Without the deletes that are dropped already nothing changes.
LEMMA DroppedApart ==
    ASSUME NEW at, NEW without
    PROVE  /\ Objects(at, without \cup dropped) = Objects(at, without)
           /\ TrueLive(at) \ dropped = TrueLive(at)
  <1>1. \A r : LiveAt(AllRows, r, at) \cap dropped = {}
    BY DEF LiveAt
  <1>2. {r \in Rids : LiveAt(AllRows, r, at) \ (without \cup dropped) # {}}
          = {r \in Rids : LiveAt(AllRows, r, at) \ without # {}}
    BY <1>1
  <1>. QED
    BY <1>1, <1>2 DEF Objects, TrueLive

LEMMA NextExact == ASSUME OneInstance, Exact, [Next]_vars PROVE Exact'
  <1>1. Sequels /\ Kept /\ LatestExact /\ PlansExact /\ Sequels' /\ Kept'
    BY NextSequels, NextCoversStand, NextSwept DEF Exact, Kept
  <1>2. TypeOK /\ FloorsKnown /\ CheckpointsInOrder /\ PlansOpen /\ DropsOpen
    BY <1>1 DEF Sequels, Inductive
  <1>3. PICK low \in Nat : low = Latest.covered /\ low <= Len(log)
    BY <1>2, LatestBelow
  <1>4. CASE UNCHANGED <<checkpoints, dropped>>
    <2>1. Latest' = Latest /\ \A p : Stale(p)' <=> Stale(p)
      BY <1>4 DEF Latest, NoCheckpoint, Stale
    <2>2. /\ TrueLive(low)' = TrueLive(low) \ dropped
          /\ Objects(low, {})' = Objects(low, {} \cup dropped)
          /\ TrueHeads(low)' = TrueHeads(low)
      BY <1>2, <1>3, <1>4, TrueStep
    <2>3. TrueLive(low)' = TrueLive(low) /\ Objects(low, {})' = Objects(low, {})
      BY <2>2, DroppedApart
    <2>4. LatestExact'
      BY <1>1, <1>3, <2>1, <2>2, <2>3 DEF LatestExact
    <2>5. ASSUME NEW p \in plans, ~Stale(p)
          PROVE  /\ p.planned = p.signed
                 /\ p.signed.manifest = TrueLive(p.covered)' \ p.drops
                 /\ p.signed.objects = Objects(p.covered, p.drops)'
                 /\ p.signed.heads = TrueHeads(p.covered)'
      <3>1. p.signed.manifest \ dropped = p.signed.manifest
        BY <1>1, <2>5 DEF PlansExact, TrueLive, LiveAt
      <3>2. Objects(p.covered, p.drops \cup dropped) = Objects(p.covered, p.drops)
        BY DroppedApart
      <3>. QED
        BY <1>4, <2>5, <3>1, <3>2, PlanStep
    <2>6. ASSUME NEW p \in plans', p \notin plans
          PROVE  /\ p.planned = p.signed
                 /\ p.signed.manifest = TrueLive(p.covered)' \ p.drops
                 /\ p.signed.objects = Objects(p.covered, p.drops)'
                 /\ p.signed.heads = TrueHeads(p.covered)'
      <3>1. Sign \/ SignGrant
        BY <1>2, <2>6, StepKinds, CommitFact DEF Quiet, PersistFloor, PruneBatch
      <3>2. PICK d \in Devices, covered \in AllRows, floor \in Floors, grant \in BOOLEAN :
                PlanCheckpoint(d, covered, floor, grant)
        BY <3>1 DEF Sign, SignGrant
      <3>3. /\ p.covered = covered /\ p.signed = Signed(floor, covered)
            /\ p.planned = Planned(floor, covered) /\ p.drops = FloorDrops(kept, floor, covered)
            /\ Bounds(covered, floor) /\ UNCHANGED <<log, dropped>>
        BY <2>6, <3>2 DEF PlanCheckpoint
      <3>4. covered \in Nat /\ covered <= Len(log) /\ floor \in Nat
        <4>1. \A n \in DOMAIN checkpoints : checkpoints[n] \in Checkpoint
          BY <1>2 DEF TypeOK
        <4>. QED
          BY <1>2, <4>1 DEF AllRows, Floors, TypeOK, Checkpoint
      <3>5. 2 <= covered
        BY <1>1, <3>3, <2>6 DEF Sequels, Inductive, PlansOpen
      <3>6. /\ Planned(floor, covered) = Signed(floor, covered)
            /\ p.drops = FloorDrops(AllRows, floor, covered)
        BY <1>1, <3>3, <3>4, <3>5, PlannedSigned
      <3>. DEFINE live == [r \in Rids |-> LiveAt(AllRows, r, covered) \ p.drops]
      <3>7. Signed(floor, covered)
              = [manifest |-> UNION {live[r] : r \in Rids},
                 objects |-> Cardinality({r \in Rids : live[r] # {}}),
                 heads |-> HeadsAt(AllRows, NoCheckpoint.body.heads, 0, covered),
                 policy |-> NewestAt(AllRows, "policy", covered),
                 epoch |-> NewestAt(AllRows, "epoch", covered)]
        BY <3>6 DEF Signed
      <3>8. UNION {live[r] : r \in Rids} = TrueLive(covered) \ p.drops
        BY DEF TrueLive
      <3>9. Cardinality({r \in Rids : live[r] # {}}) = Objects(covered, p.drops)
        <4>1. {r \in Rids : live[r] # {}}
                = {r \in Rids : LiveAt(AllRows, r, covered) \ p.drops # {}}
          OBVIOUS
        <4>. QED
          BY <4>1 DEF Objects
      <3>. HIDE DEF live
      <3>10. /\ p.planned = p.signed
             /\ p.signed.manifest = TrueLive(covered) \ p.drops
             /\ p.signed.objects = Objects(covered, p.drops)
             /\ p.signed.heads = TrueHeads(covered)
        BY <3>3, <3>6, <3>7, <3>8, <3>9 DEF TrueHeads
      <3>11. AllRows' = AllRows /\ \A r : LiveAt(AllRows, r, covered)' = LiveAt(AllRows, r, covered)
        BY <3>3 DEF AllRows, LiveAt, CoveredAt, Covers, IsOp
      <3>12. /\ TrueLive(covered)' = TrueLive(covered)
             /\ Objects(covered, p.drops)' = Objects(covered, p.drops)
             /\ TrueHeads(covered)' = TrueHeads(covered)
        BY <1>2, <3>4, <3>11, HeadsStep DEF TrueLive, Objects
      <3>. QED
        BY <3>3, <3>10, <3>12
    <2>7. PlansExact'
      BY <2>1, <2>5, <2>6 DEF PlansExact
    <2>. QED
      BY <1>1, <2>4, <2>7 DEF Exact
  <1>5. CASE Commit \/ CommitGrant
    <2>1. PICK p \in plans, c \in Checkpoint :
              /\ ~Stale(p) /\ c.covered = p.covered /\ c.body = p.signed
              /\ checkpoints' = Append(checkpoints, c)
              /\ dropped' = dropped \cup p.drops /\ plans' \subseteq plans
      BY <1>2, <1>5, CommitFact
    <2>2. /\ Len(checkpoints') = Len(checkpoints) + 1 /\ Len(checkpoints) \in Nat
          /\ checkpoints'[Len(checkpoints) + 1] = c
      BY <1>2, <2>1, CommitCheckpoints
    <2>3. Latest' = c
      BY <2>1, <2>2 DEF Latest
    <2>4. \A q \in plans' : Stale(q)'
      <3>1. \A q \in plans : q.previous <= Len(checkpoints) /\ q.previous \in Nat
        BY <1>2 DEF PlansOpen, TypeOK, Plan
      <3>. QED
        BY <2>1, <2>2, <3>1 DEF Stale
    <2>5. PICK at \in Nat : at = p.covered
      BY <2>1 DEF Checkpoint
    <2>6. /\ p.signed.manifest \ dropped' = TrueLive(at)' \ p.drops
          /\ p.signed.objects = Objects(at, p.drops)
          /\ Objects(at, {})' = Objects(at, {} \cup dropped')
          /\ p.signed.heads = TrueHeads(at)'
      BY <2>1, <2>5, PlanStep DEF Exact
    <2>7. c.body.manifest = TrueLive(at)'
      <3>1. p.signed.manifest = TrueLive(at) \ p.drops
        BY <1>1, <2>1, <2>5 DEF PlansExact
      <3>2. TrueLive(at) \ dropped = TrueLive(at)
        BY DroppedApart
      <3>3. TrueLive(at)' = TrueLive(at) \ dropped'
        <4>1. at <= Len(log)
          BY <1>2, <2>1, <2>5 DEF PlansOpen
        <4>. QED
          BY <1>2, <4>1, TrueStep
      <3>. QED
        BY <2>1, <3>1, <3>2, <3>3
    <2>8. c.body.objects = Objects(at, {})'
      <3>1. {} \cup dropped' = p.drops \cup dropped
        BY <2>1
      <3>2. Objects(at, p.drops \cup dropped) = Objects(at, p.drops)
        BY DroppedApart
      <3>. QED
        BY <2>1, <2>6, <3>1, <3>2
    <2>9. LatestExact'
      BY <2>1, <2>3, <2>5, <2>6, <2>7, <2>8 DEF LatestExact
    <2>. QED
      BY <1>1, <2>4, <2>9 DEF Exact, PlansExact
  <1>. QED
    BY <1>2, <1>4, <1>5, CheckpointsStep

LEMMA ExactHolds == ASSUME OneInstance PROVE Spec => []Exact
  BY InitExact, NextExact, PTL DEF Spec

\* With one instance, the live and manifest routes serve at the latest
\* checkpoint what its root commits to, whatever was pushed, dropped or pruned
\* since.
THEOREM LatestIsServed == ASSUME OneInstance PROVE Spec => []LatestServed
  <1>1. Exact => LatestServed
    <2> SUFFICES ASSUME Exact PROVE StoreLive(Latest.covered) = Latest.body.manifest
      BY DEF LatestServed
    <2>1. Latest.covered \in Nat /\ Latest.covered >= retention_floor
      BY LatestBelow DEF Exact, Sequels, Inductive
    <2>2. \A r : LiveAt(kept, r, Latest.covered) = LiveAt(AllRows, r, Latest.covered)
      BY <2>1, RowsExact DEF Exact
    <2>. QED
      BY <2>2 DEF Exact, LatestExact, StoreLive, TrueLive
  <1>. QED
    BY <1>1, ExactHolds, PTL

\* With one instance, the server never refuses an honest device's checkpoint
\* for its manifest, object count or heads: what it recomputes over the rows
\* that stand is what a device that holds every row signs.
THEOREM PlansAgree == ASSUME OneInstance PROVE Spec => []PlanAgrees
  <1>1. Exact => PlanAgrees
    BY DEF Exact, PlansExact, PlanAgrees, Matches
  <1>. QED
    BY <1>1, ExactHolds, PTL

-----------------------------------------------------------------------------
(* One instance: the log implements LiveSet.                               *)

\* What an operation on r with these covers takes out of the live set.
Leaving(r, covers) ==
    {s \in LiveAt(AllRows, r, Len(log)) :
        \E v \in covers : v.device = log[s].device /\ v.counter >= log[s].counter}

LEMMA PushLive ==
    ASSUME Sequels, Sequels', [Next]_vars, NEW d \in Devices, NEW r \in Rids, NEW delete \in BOOLEAN,
           NEW covers \in SUBSET Cover, Len(log') = Len(log) + 1,
           log'[Len(log) + 1] = Pushed(d, r, delete, covers),
           AllRows' = AllRows \cup {Len(log) + 1}, UNCHANGED dropped
    PROVE  TrueLive(Len(log))' = (TrueLive(Len(log)) \ Leaving(r, covers)) \cup {Len(log) + 1}
  <1>1. TypeOK /\ DropsOpen /\ ChainsAscend'
    BY DEF Sequels, Inductive
  <1>2. PICK n \in Nat : n = Len(log) + 1
    BY <1>1 DEF TypeOK
  <1>3. /\ \A s \in AllRows : s \in Nat /\ s < n /\ s <= n - 1 /\ log'[s] = log[s] /\ (IsOp(s)' <=> IsOp(s))
        /\ AllRows' = AllRows \cup {n} /\ n \notin AllRows
        /\ Len(log) = n - 1 /\ Len(log') = n
    BY <1>1, <1>2, LogGrows DEF AllRows, TypeOK, IsOp
  <1>4. /\ IsOp(n)' /\ log'[n].rid = r /\ log'[n].covers = covers
    BY <1>2 DEF Pushed, IsOp
  <1>5. n \notin dropped
    BY <1>1, <1>3 DEF DropsOpen
  <1>6. \A c \in AllRows' : ~Covers(c, n)'
    <2>1. \A c \in AllRows' : Covers(c, n)' => n < c
      BY <1>1, <1>3 DEF ChainsAscend
    <2>2. \A c \in AllRows' : ~(n < c)
      BY <1>3
    <2>. QED
      BY <2>1, <2>2
  <1>7. ASSUME NEW s \in AllRows
        PROVE  CoveredAt(AllRows, s, Len(log))' <=>
                  \/ CoveredAt(AllRows, s, Len(log))
                  \/ /\ IsOp(s) /\ log[s].rid = r
                     /\ \E v \in covers : v.device = log[s].device /\ v.counter >= log[s].counter
    <2>1. \A c \in AllRows : Covers(c, s)' <=> Covers(c, s)
      BY <1>3 DEF Covers
    <2>2. Covers(n, s)' <=>
              /\ IsOp(s) /\ log[s].rid = r
              /\ \E v \in covers : v.device = log[s].device /\ v.counter >= log[s].counter
      BY <1>3, <1>4 DEF Covers
    <2>3. CoveredAt(AllRows, s, Len(log))' <=> \E c \in AllRows' : Covers(c, s)'
      <3>1. \A c \in AllRows' : c <= Len(log')
        BY <1>3
      <3>. QED
        BY <3>1 DEF CoveredAt
    <2>4. CoveredAt(AllRows, s, Len(log)) <=> \E c \in AllRows : Covers(c, s)
      BY <1>3 DEF CoveredAt
    <2>. QED
      BY <1>3, <2>1, <2>2, <2>3, <2>4
  <1>8. \A s : s \in TrueLive(Len(log)) <=>
            /\ s \in AllRows /\ IsOp(s) /\ log[s].rid \in Rids /\ s \notin dropped
            /\ ~CoveredAt(AllRows, s, Len(log))
    BY <1>3 DEF TrueLive, LiveAt
  <1>9. \A s : s \in TrueLive(Len(log))' <=>
            /\ s \in AllRows' /\ IsOp(s)' /\ log'[s].rid \in Rids /\ s \notin dropped
            /\ ~CoveredAt(AllRows, s, Len(log))'
    <2>1. \A s \in AllRows' : s <= Len(log')
      BY <1>3
    <2>. QED
      BY <2>1 DEF TrueLive, LiveAt
  <1>10. n \in TrueLive(Len(log))'
    BY <1>3, <1>4, <1>5, <1>6, <1>9 DEF CoveredAt
  <1>11. ASSUME NEW s \in AllRows
         PROVE  s \in TrueLive(Len(log))' <=> s \in TrueLive(Len(log)) \ Leaving(r, covers)
    <2>1. s \in TrueLive(Len(log)) => (s \in Leaving(r, covers) <=>
              /\ log[s].rid = r
              /\ \E v \in covers : v.device = log[s].device /\ v.counter >= log[s].counter)
      BY DEF TrueLive, LiveAt, Leaving
    <2>. QED
      BY <1>3, <1>7, <1>8, <1>9, <2>1
  <1>12. \A s \in TrueLive(Len(log))' : s \in AllRows \/ s = n
    BY <1>3, <1>9
  <1>13. \A s \in TrueLive(Len(log)) : s \in AllRows
    BY <1>8
  <1>. QED
    BY <1>2, <1>10, <1>11, <1>12, <1>13

LEMMA OthersLive ==
    ASSUME Sequels, [Next]_vars, ~Push
    PROVE  TrueLive(Len(log))' = TrueLive(Len(log)) \ dropped'
  <1>1. TypeOK
    BY DEF Sequels, Inductive
  <1>2. /\ \A s \in AllRows : log'[s] = log[s] /\ (IsOp(s)' <=> IsOp(s)) /\ s <= Len(log)
        /\ AllRows \subseteq AllRows' /\ \A s \in AllRows' : s <= Len(log')
        /\ Len(log) \in Nat
    BY <1>1, LogGrows DEF IsOp, AllRows
  <1>3. \A s \in AllRows' : IsOp(s)' => s \in AllRows
    BY <1>1, OthersAppendNone
  <1>4. dropped \subseteq dropped'
    BY <1>1, CheckpointsStep, CommitFact
  <1>5. ASSUME NEW s \in AllRows
        PROVE  CoveredAt(AllRows, s, Len(log))' <=> CoveredAt(AllRows, s, Len(log))
    <2>1. \A c \in AllRows : Covers(c, s)' <=> Covers(c, s)
      BY <1>2 DEF Covers
    <2>2. \A c \in AllRows' : Covers(c, s)' => c \in AllRows
      BY <1>3 DEF Covers
    <2>. QED
      BY <1>2, <2>1, <2>2 DEF CoveredAt
  <1>6. \A s : s \in TrueLive(Len(log)) <=>
            /\ s \in AllRows /\ IsOp(s) /\ log[s].rid \in Rids /\ s \notin dropped
            /\ ~CoveredAt(AllRows, s, Len(log))
    BY <1>2 DEF TrueLive, LiveAt
  <1>7. \A s : s \in TrueLive(Len(log))' <=>
            /\ s \in AllRows' /\ IsOp(s)' /\ log'[s].rid \in Rids /\ s \notin dropped'
            /\ ~CoveredAt(AllRows, s, Len(log))'
    BY <1>2 DEF TrueLive, LiveAt
  <1>. QED
    BY <1>2, <1>3, <1>4, <1>5, <1>6, <1>7

\* A live operation as LiveSet shows it; no two look the same.
Shown(s) ==
    [rid |-> log[s].rid, device |-> log[s].device, counter |-> log[s].counter,
     delete |-> log[s].delete, class |-> log[s].class]
ShownLive == {Shown(s) : s \in TrueLive(Len(log))}

LEMMA ShownApart ==
    ASSUME Sequels, NEW s \in AllRows, NEW t \in AllRows, IsOp(s), IsOp(t), Shown(s) = Shown(t)
    PROVE  s = t
  <1>1. log[s].device = log[t].device /\ log[s].counter = log[t].counter
    BY DEF Shown
  <1>2. log[s].counter \in Nat
    BY EntryType DEF Sequels, Inductive, TypeOK, OperationEntry
  <1>3. ~(s < t) /\ ~(t < s)
    BY <1>1, <1>2 DEF Sequels, ChainsAscend
  <1>4. s \in Nat /\ t \in Nat
    BY DEF AllRows
  <1>. QED
    BY <1>3, <1>4

LEMMA ShownCount ==
    ASSUME Sequels, NEW S, S \subseteq {s \in AllRows : IsOp(s)}
    PROVE  Cardinality({Shown(s) : s \in S}) = Cardinality(S) /\ IsFiniteSet(S)
  <1>. DEFINE T == {Shown(s) : s \in S}
              f == [s \in S |-> Shown(s)]
  <1>1. IsFiniteSet(S)
    BY RowsFinite, FS_Subset DEF Sequels, Inductive, TypeOK
  <1>2. f \in [S -> T]
    OBVIOUS
  <1>3. f \in Surjection(S, T)
    BY <1>2 DEF Surjection
  <1>4. f \in Injection(S, T)
    BY <1>2, ShownApart DEF Injection, IsInjective
  <1>. HIDE DEF f, T
  <1>5. Cardinality(T) = Cardinality(S)
    BY <1>1, <1>3, <1>4, FS_Surjection
  <1>. QED
    BY <1>1, <1>5 DEF T

\* What LiveSet is shown: the live set as the rows that stand tell it.
Seen ==
    {[rid |-> log[s].rid, device |-> log[s].device, counter |-> log[s].counter,
      delete |-> log[s].delete, class |-> log[s].class] : s \in StoreLive(Len(log))}

LEMMA RowsLive ==
    ASSUME Sequels, Kept, NEW r
    PROVE  LiveAt(kept, r, Len(log)) = LiveAt(AllRows, r, Len(log))
  <1>1. retention_floor \in Nat /\ retention_floor <= Len(log) /\ Len(log) \in Nat
    BY FloorBelow DEF Sequels, Inductive, TypeOK
  <1>. QED
    BY <1>1, RowsExact

LEMMA SeenShown == Exact => Seen = ShownLive
  BY RowsLive DEF Exact, Seen, ShownLive, Shown, StoreLive, TrueLive

\* LiveSet counts with the same Cardinality.
LEMMA CardinalityAgrees == \A S : Promise!Cardinality(S) = Cardinality(S)
  BY DEF Promise!Cardinality, Cardinality

\* A push is LiveSet's Take.
LEMMA PushTakes ==
    ASSUME Exact, Exact', [Next]_vars, Seen = ShownLive, Seen' = ShownLive', Push
    PROVE  Promise!Next
  <1>1. Sequels /\ Sequels' /\ Kept /\ TypeOK
    BY DEF Exact, Sequels, Inductive
  <1>2. PICK d \in Devices, r \in Rids, delete \in BOOLEAN : \E covers \in CoverSets(r) :
            /\ covers \in SUBSET Cover
            /\ WithinLimits(d, r, covers)
            /\ log'[Len(log) + 1] = Pushed(d, r, delete, covers)
            /\ AllRows' = AllRows \cup {Len(log) + 1} /\ Len(log) + 1 \notin AllRows
            /\ Len(log') = Len(log) + 1
            /\ chain_heads' = [chain_heads EXCEPT ![d] = @ + 1]
            /\ UNCHANGED dropped
    BY <1>1, PushFact
  <1>3. PICK covers \in CoverSets(r) :
            /\ covers \in SUBSET Cover
            /\ WithinLimits(d, r, covers)
            /\ log'[Len(log) + 1] = Pushed(d, r, delete, covers)
            /\ AllRows' = AllRows \cup {Len(log) + 1} /\ Len(log) + 1 \notin AllRows
            /\ Len(log') = Len(log) + 1
            /\ chain_heads' = [chain_heads EXCEPT ![d] = @ + 1]
            /\ UNCHANGED dropped
    BY <1>2
  <1>4. PICK n : n = Len(log) + 1
    OBVIOUS
  <1>5. PICK L, gone : L = LiveAt(AllRows, r, Len(log)) /\ gone = Leaving(r, covers)
    OBVIOUS
  <1>6. /\ L \subseteq {s \in AllRows : IsOp(s)} /\ gone \subseteq L
        /\ \A s \in L : log[s].rid = r
        /\ \A s \in L : s \in gone <=>
              \E v \in covers : v.device = log[s].device /\ v.counter >= log[s].counter
        /\ \A s \in TrueLive(Len(log)) : s \in AllRows /\ IsOp(s) /\ (log[s].rid = r => s \in L)
        /\ L \subseteq TrueLive(Len(log))
    BY <1>5 DEF Leaving, LiveAt, TrueLive
  <1>7. \A s, t \in TrueLive(Len(log)) : Shown(s) = Shown(t) => s = t
    BY <1>1, <1>6, ShownApart
  <1>. DEFINE left == {Shown(s) : s \in gone}
              class == ClassOf(r, covers)
              St == {s \in L \ gone : log[s].class = "state"}
              new == [rid |-> r, device |-> d, counter |-> chain_heads[d] + 1, delete |-> delete,
                      class |-> class]
  <1>8. Promise!On(r) = {Shown(s) : s \in L}
    <2>1. Promise!On(r) = {o \in Seen : o.rid = r}
      BY DEF Promise!On, Seen
    <2>2. \A s : Shown(s).rid = log[s].rid
      BY DEF Shown
    <2>3. \A o \in Seen : o.rid = r => \E s \in L : o = Shown(s)
      BY <1>6, <2>2 DEF ShownLive
    <2>4. \A s \in L : Shown(s) \in Seen /\ Shown(s).rid = r
      BY <1>6, <2>2 DEF ShownLive
    <2>. QED
      BY <2>1, <2>3, <2>4
  <1>9. left \in SUBSET Seen
    BY <1>6 DEF ShownLive
  <1>10. Promise!Coverable(r, left)
    <2>1. left \subseteq Promise!On(r)
      BY <1>6, <1>8
    <2>2. ASSUME NEW s \in gone, NEW t \in L, log[t].device = log[s].device,
                 log[t].counter <= log[s].counter
          PROVE  t \in gone
      <3>1. PICK v \in covers : v.device = log[s].device /\ v.counter >= log[s].counter
        BY <1>6
      <3>2. v.counter \in Nat /\ log[s].counter \in Nat /\ log[t].counter \in Nat
        BY <1>1, <1>3, <1>6, EntryType DEF Cover, TypeOK, OperationEntry
      <3>3. v.device = log[t].device /\ v.counter >= log[t].counter
        BY <2>2, <3>1, <3>2
      <3>. QED
        BY <1>6, <3>3
    <2>3. \A s : Shown(s).device = log[s].device /\ Shown(s).counter = log[s].counter
      BY DEF Shown
    <2>4. ASSUME NEW o \in left, NEW p \in Promise!On(r), p.device = o.device, p.counter <= o.counter
          PROVE  p \in left
      <3>1. PICK s \in gone : o = Shown(s)
        OBVIOUS
      <3>2. PICK t \in L : p = Shown(t)
        BY <1>8
      <3>3. t \in gone
        BY <2>2, <2>3, <2>4, <3>1, <3>2
      <3>. QED
        BY <3>2, <3>3
    <2>. HIDE DEF left
    <2>. QED
      BY <2>1, <2>4 DEF Promise!Coverable
  <1>11. left # {} => class = "state"
    <2>1. left # {} => covers # {}
      BY <1>6
    <2>. QED
      BY <2>1 DEF ClassOf
  <1>12. Promise!Within(d, class, Promise!On(r) \ left)
    <2>1. L \ gone \subseteq {s \in AllRows : IsOp(s)}
      BY <1>6
    <2>2. Promise!On(r) \ left = {Shown(s) : s \in L \ gone}
      BY <1>6, <1>7, <1>8
    <2>3. PICK rest : rest = {Shown(s) : s \in L \ gone}
      OBVIOUS
    <2>4. {o \in rest : o.class = "state"} = {Shown(s) : s \in St}
      <3>1. \A s : Shown(s).class = log[s].class
        BY DEF Shown
      <3>. QED
        BY <2>3, <3>1
    <2>5. rest \ {o \in rest : o.class = "state"} = {Shown(s) : s \in (L \ gone) \ St}
      <3>1. \A s \in L \ gone, t \in St : Shown(s) = Shown(t) => s = t
        BY <1>6, <1>7
      <3>. QED
        BY <2>3, <2>4, <3>1
    <2>6. /\ Cardinality({Shown(s) : s \in St}) = Cardinality(St)
          /\ Cardinality({Shown(s) : s \in (L \ gone) \ St}) = Cardinality((L \ gone) \ St)
      <3>1. St \subseteq {s \in AllRows : IsOp(s)} /\ (L \ gone) \ St \subseteq {s \in AllRows : IsOp(s)}
        BY <2>1
      <3>. HIDE DEF St
      <3>. QED
        BY <1>1, <3>1, ShownCount
    <2>7. L \ gone = {s \in LiveAt(kept, r, Len(log)) :
                        ~\E v \in covers : v.device = log[s].device /\ v.counter >= log[s].counter}
      <3>1. L = LiveAt(kept, r, Len(log))
        BY <1>1, <1>5, RowsLive
      <3>. QED
        BY <1>6, <3>1
    <2>8. /\ class = "state" => ~\E s \in St : log[s].device = d
          /\ Cardinality((L \ gone) \ St) + (1 - (IF class = "state" THEN 1 ELSE 0)) <= MaxPatches
          /\ Cardinality(St) + (IF class = "state" THEN 1 ELSE 0) <= MaxStates
      BY <1>3, <2>7, Zenon DEF WithinLimits
    <2>9. /\ class = "state" => \A o \in {o \in rest : o.class = "state"} : o.device # d
      <3>1. \A s : Shown(s).device = log[s].device
        BY DEF Shown
      <3>. QED
        BY <2>4, <2>8, <3>1
    <2>10. /\ Cardinality((L \ gone) \ St) \in Nat /\ Cardinality(St) \in Nat
           /\ MaxPatches \in Nat
      <3>1. St \subseteq {s \in AllRows : IsOp(s)} /\ (L \ gone) \ St \subseteq {s \in AllRows : IsOp(s)}
        BY <2>1
      <3>. HIDE DEF St
      <3>. QED
        BY <1>1, <3>1, ShownCount, FS_CardinalityType, ConstantsAssumption DEF ConstantsAssumption
    <2>. HIDE DEF St, class
    <2>11. /\ Cardinality(rest \ {o \in rest : o.class = "state"})
                + 1 - (IF class = "state" THEN 1 ELSE 0) <= MaxPatches
           /\ Cardinality({o \in rest : o.class = "state"})
                + (IF class = "state" THEN 1 ELSE 0) <= MaxStates
      <3>1. /\ Cardinality(rest \ {o \in rest : o.class = "state"}) = Cardinality((L \ gone) \ St)
            /\ Cardinality({o \in rest : o.class = "state"}) = Cardinality(St)
        BY <2>4, <2>5, <2>6, Zenon
      <3>. QED
        BY <2>8, <2>10, <3>1
    <2>12. Promise!Within(d, class, rest)
      <3>. HIDE DEF new
      <3>1. /\ class = "state" => \A o \in {o \in rest : o.class = "state"} : o.device # d
            /\ Cardinality(rest \ {o \in rest : o.class = "state"})
                + 1 - (IF class = "state" THEN 1 ELSE 0) <= MaxPatches
            /\ Cardinality({o \in rest : o.class = "state"})
                + (IF class = "state" THEN 1 ELSE 0) <= MaxStates
        BY <2>9, <2>11, Zenon
      <3>. QED
        BY <3>1, CardinalityAgrees, Zenon DEF Promise!Within
    <2>. QED
      BY <2>2, <2>3, <2>12
  <1>13. Seen' = (Seen \ left) \cup {new}
    <2>1. TrueLive(Len(log))' = (TrueLive(Len(log)) \ gone) \cup {n}
      BY <1>1, <1>3, <1>4, <1>5, PushLive
    <2>2. \A s \in TrueLive(Len(log)) : Shown(s)' = Shown(s)
      BY <1>1, <1>6, LogGrows DEF Shown
    <2>3. Shown(n)' = new
      BY <1>3, <1>4 DEF Shown, Pushed
    <2>4. Seen' = {Shown(s)' : s \in TrueLive(Len(log))'}
      BY DEF ShownLive
    <2>5. Seen' = {Shown(s) : s \in TrueLive(Len(log)) \ gone} \cup {new}
      <3>. HIDE DEF new
      <3>. QED
        BY <2>1, <2>2, <2>3, <2>4
    <2>6. {Shown(s) : s \in TrueLive(Len(log)) \ gone} = Seen \ left
      BY <1>6, <1>7 DEF ShownLive
    <2>. QED
      BY <2>5, <2>6
  <1>14. class \in {"patch", "state"}
    BY DEF ClassOf
  <1>. HIDE DEF left, class
  <1>15. PICK left_0, class_0 : left_0 = left /\ class_0 = class
    OBVIOUS
  <1>16. Promise!Take(d, r, delete, class_0, left_0)
    BY <1>3, <1>10, <1>11, <1>12, <1>13, <1>15 DEF Promise!Take, Seen
  <1>. QED
    BY <1>9, <1>14, <1>15, <1>16 DEF Promise!Next, Seen

\* Any other step is LiveSet's Drop, or changes nothing that LiveSet sees.
LEMMA OthersDrop ==
    ASSUME Exact, [Next]_vars, Seen = ShownLive, Seen' = ShownLive', ~Push
    PROVE  Promise!Next \/ UNCHANGED <<Seen, chain_heads>>
  <1>1. Sequels /\ TypeOK /\ DropsOpen
    BY DEF Exact, Sequels, Inductive
  <1>2. UNCHANGED chain_heads /\ TrueLive(Len(log))' = TrueLive(Len(log)) \ dropped'
    BY <1>1, OthersAppendNone, OthersLive
  <1>3. \A s \in TrueLive(Len(log)) : s \in AllRows /\ IsOp(s) /\ s \notin dropped
    BY DEF TrueLive, LiveAt
  <1>4. \A s \in TrueLive(Len(log)) : Shown(s)' = Shown(s)
    BY <1>1, <1>3, LogGrows DEF Shown
  <1>5. Seen' = {Shown(s) : s \in TrueLive(Len(log)) \ dropped'}
    BY <1>2, <1>4 DEF ShownLive
  <1>6. CASE UNCHANGED dropped
    <2>1. TrueLive(Len(log)) \ dropped' = TrueLive(Len(log))
      BY <1>3, <1>6
    <2>. QED
      BY <1>2, <1>5, <2>1 DEF ShownLive
  <1>7. CASE Commit \/ CommitGrant
    <2>1. PICK p \in plans : dropped' = dropped \cup p.drops
      BY <1>1, <1>7, CommitFact
    <2>2. PICK G : G = p.drops \cap TrueLive(Len(log))
      OBVIOUS
    <2>. DEFINE deletes == {Shown(s) : s \in G}
    <2>3. deletes \in SUBSET Seen
      BY <2>2 DEF ShownLive
    <2>4. \A s \in G : log[s].delete
      BY <1>1, <2>2 DEF DropsOpen
    <2>5. \A s, t \in G : log[s].rid = log[t].rid => s = t
      BY <1>1, <2>2 DEF DropsOpen
    <2>6. \A s : Shown(s).delete = log[s].delete /\ Shown(s).rid = log[s].rid
      BY DEF Shown
    <2>7. Seen' = Seen \ deletes
      <3>1. \A s, t \in TrueLive(Len(log)) : Shown(s) = Shown(t) => s = t
        BY <1>1, <1>3, ShownApart
      <3>2. TrueLive(Len(log)) \ dropped' = TrueLive(Len(log)) \ G
        BY <1>3, <2>1, <2>2
      <3>3. Seen' = {Shown(s) : s \in TrueLive(Len(log)) \ G}
        BY <1>5, <3>2
      <3>. QED
        BY <2>2, <3>1, <3>3 DEF ShownLive
    <2>8. \A o \in deletes : o.delete
      BY <2>4, <2>6
    <2>9. \A o, p_1 \in deletes : o.rid = p_1.rid => o = p_1
      BY <2>5, <2>6
    <2>. HIDE DEF deletes
    <2>10. PICK deletes_0 : deletes_0 = deletes
      OBVIOUS
    <2>11. Promise!Drop(deletes_0)
      BY <1>2, <2>7, <2>8, <2>9, <2>10 DEF Promise!Drop, Seen
    <2>. QED
      BY <2>3, <2>10, <2>11 DEF Promise!Next, Seen
  <1>. QED
    BY <1>1, <1>6, <1>7, CheckpointsStep

\* With one instance, the store keeps the live set that the protocol defines:
\* every push takes out what it covers and nothing else, a checkpoint's floor
\* takes out deletes, and no batch of a pass shows at the head.
THEOREM LiveSetImplemented == ASSUME OneInstance PROVE Spec => LiveSetKept
  <1>1. Init => Promise!Init
    <2> SUFFICES ASSUME Init PROVE Promise!Init
      OBVIOUS
    <2>1. StoreLive(Len(log)) = {}
      <3>1. \A s \in kept : ~IsOp(s)
        BY DEF Init, IsOp
      <3>. QED
        BY <3>1 DEF StoreLive, LiveAt
    <2>. QED
      BY <2>1 DEF Promise!Init, Init
  <1>2. ASSUME Exact, Exact', Seen = ShownLive, Seen' = ShownLive', [Next]_vars
        PROVE  [Promise!Next]_<<Seen, chain_heads>>
    BY <1>2, PushTakes, OthersDrop
  <1>3. Exact /\ Exact' /\ (Seen = ShownLive) /\ (Seen = ShownLive)' /\ [Next]_vars
          => [Promise!Next]_<<{[rid |-> log[s].rid, device |-> log[s].device,
                                counter |-> log[s].counter, delete |-> log[s].delete,
                                class |-> log[s].class] : s \in StoreLive(Len(log))},
                              chain_heads>>
    BY <1>2 DEF Seen
  <1>. QED
    BY <1>1, <1>3, SeenShown, ExactHolds, PTL DEF Spec, LiveSetKept, Promise!Spec

-----------------------------------------------------------------------------
(* One instance: what the counters count.                                  *)

\* What covers a delete that is about to be dropped came after the checkpoint's
\* covered_seq.
LEMMA DropsUncovered ==
    ASSUME Sequels, Kept, NEW p \in plans, ~Stale(p), NEW s \in p.drops
    PROVE  /\ s \in AllRows /\ s \in kept /\ IsOp(s) /\ s \in Nat
           /\ s \notin dropped /\ s > Latest.floor /\ s <= p.floor
           /\ p.covered \in Nat /\ p.covered <= Len(log)
           /\ ~CoveredAt(AllRows, s, p.covered)
  <1>1. TypeOK /\ FloorsKnown /\ CheckpointsInOrder /\ PlansOpen /\ DropsOpen
    BY DEF Sequels, Inductive
  <1>2. /\ s \in AllRows /\ IsOp(s) /\ s \in kept /\ s <= p.floor /\ s <= p.covered
        /\ ~CoveredAt(kept, s, p.covered)
    BY <1>1 DEF DropsOpen
  <1>3. s \in Nat
    BY <1>2 DEF AllRows
  <1>4. /\ p.covered \in Nat /\ p.covered <= Len(log)
        /\ p.covered >= Latest.seq /\ s > Latest.floor
    BY <1>1 DEF PlansOpen, TypeOK, Plan
  <1>5. /\ Latest.floor \in Nat /\ retention_floor \in Nat /\ retention_floor <= Latest.covered
        /\ Latest.covered \in Nat /\ Latest.seq \in Nat /\ Latest.covered <= Latest.seq
    BY <1>1, LatestBelow
  <1>6. s \notin dropped
    <2>1. s \in dropped => s <= Latest.floor
      BY <1>1 DEF DropsOpen
    <2>. QED
      BY <1>3, <1>4, <1>5, <2>1
  <1>7. PICK at \in Nat : at = p.covered /\ at >= retention_floor
    BY <1>4, <1>5
  <1>8. s \in LiveAt(kept, log[s].rid, at)
    BY <1>2, <1>6, <1>7 DEF LiveAt
  <1>9. LiveAt(kept, log[s].rid, at) = LiveAt(AllRows, log[s].rid, at)
    BY <1>7, RowsExact
  <1>10. ~CoveredAt(AllRows, s, at)
    BY <1>8, <1>9 DEF LiveAt
  <1>. QED
    BY <1>2, <1>3, <1>4, <1>6, <1>7, <1>10

\* The sets the counters count are finite and made of rows.
LEMMA WeightsFinite ==
    ASSUME Sequels
    PROVE  /\ Live \subseteq {s \in kept : IsOp(s)} /\ IsFiniteSet(Live)
           /\ HistoryOf(kept \ Live) \subseteq kept /\ IsFiniteSet(HistoryOf(kept \ Live))
           /\ DroppedLate \subseteq dropped /\ IsFiniteSet(dropped) /\ IsFiniteSet(DroppedLate)
           /\ LiveWeight \in Nat /\ HistoryWeight \in Nat /\ Cardinality(DroppedLate) \in Nat
           /\ Cardinality(Live) \in Nat /\ Count("policy") \in Nat /\ Count("epoch") \in Nat
  <1>1. TypeOK /\ DropsOpen
    BY DEF Sequels, Inductive
  <1>2. kept \subseteq AllRows /\ dropped \subseteq AllRows /\ IsFiniteSet(AllRows)
    BY <1>1, RowsFinite DEF TypeOK, DropsOpen
  <1>3. Live \subseteq {s \in kept : IsOp(s)}
    BY InductiveManifests DEF Sequels, ManifestKept, Live, TrueLive, LiveAt
  <1>4. HistoryOf(kept \ Live) \subseteq kept /\ DroppedLate \subseteq dropped
    BY DEF HistoryOf, DroppedLate
  <1>5. IsFiniteSet(dropped) /\ IsFiniteSet(kept)
    BY <1>2, FS_Subset
  <1>6. IsFiniteSet(Live) /\ IsFiniteSet(HistoryOf(kept \ Live)) /\ IsFiniteSet(DroppedLate)
    <2>1. Live \subseteq kept
      BY <1>3
    <2>. QED
      BY <1>4, <1>5, <2>1, FS_Subset
  <1>7. ASSUME NEW type
        PROVE  Count(type) \in Nat
    <2>1. IsFiniteSet({s \in AllRows : log[s].type = type})
      BY <1>2, FS_Subset
    <2>. QED
      BY <2>1, FS_CardinalityType DEF Count
  <1>8. /\ Cardinality(Live) \in Nat /\ Cardinality(HistoryOf(kept \ Live)) \in Nat
        /\ Cardinality(DroppedLate) \in Nat
    BY <1>6, FS_CardinalityType
  <1>9. LiveWeight \in Nat /\ HistoryWeight \in Nat
    BY <1>7, <1>8 DEF LiveWeight, HistoryWeight
  <1>. QED
    BY <1>3, <1>4, <1>5, <1>6, <1>7, <1>8, <1>9

\* Sets that share nothing add up.
LEMMA ApartCount ==
    ASSUME NEW A, NEW B, IsFiniteSet(A), IsFiniteSet(B), A \cap B = {}
    PROVE  IsFiniteSet(A \cup B) /\ Cardinality(A \cup B) = Cardinality(A) + Cardinality(B)
  <1>1. /\ IsFiniteSet(A \cup B)
        /\ Cardinality(A \cup B) = Cardinality(A) + Cardinality(B) - Cardinality(A \cap B)
    BY FS_Union
  <1>2. Cardinality(A \cap B) = 0
    BY FS_EmptySet, Zenon
  <1>3. Cardinality(A) \in Nat /\ Cardinality(B) \in Nat
    BY FS_CardinalityType
  <1>. QED
    BY <1>1, <1>2, <1>3

\* A step counts an entry type once for each new entry of it.
LEMMA CountSame ==
    ASSUME TypeOK, [Next]_vars, NEW type, \A s \in AllRows' \ AllRows : log'[s].type # type
    PROVE  Count(type)' = Count(type)
  <1>1. AllRows \subseteq AllRows' /\ \A s \in AllRows : log'[s] = log[s]
    BY LogGrows
  <1>2. {s \in AllRows' : log'[s].type = type} = {s \in AllRows : log[s].type = type}
    BY <1>1
  <1>. QED
    BY <1>2 DEF Count

LEMMA CountOne ==
    ASSUME TypeOK, [Next]_vars, NEW type, NEW n \in AllRows' \ AllRows, log'[n].type = type,
           \A s \in AllRows' \ AllRows : s # n => log'[s].type # type
    PROVE  Count(type)' = Count(type) + 1
  <1>1. AllRows \subseteq AllRows' /\ \A s \in AllRows : log'[s] = log[s]
    BY LogGrows
  <1>2. PICK S : S = {s \in AllRows : log[s].type = type}
    OBVIOUS
  <1>3. {s \in AllRows' : log'[s].type = type} = S \cup {n} /\ n \notin S
    BY <1>1, <1>2
  <1>4. IsFiniteSet(S)
    BY <1>2, RowsFinite, FS_Subset DEF TypeOK
  <1>5. Cardinality(S \cup {n}) = Cardinality(S) + 1
    BY <1>3, <1>4, FS_AddElement
  <1>. QED
    BY <1>2, <1>3, <1>5 DEF Count

\* Where no row goes, history gains what leaves the live set and the new rows
\* that are neither live nor checkpoints.
LEMMA HistoryStep ==
    ASSUME Sequels, Sequels', [Next]_vars, kept' = kept \cup (AllRows' \ AllRows),
           NEW G, G = Live \ Live', NEW N,
           N = {s \in AllRows' \ AllRows : log'[s].type # "checkpoint" /\ s \notin Live'}
    PROVE  HistoryWeight' = HistoryWeight + Cardinality(G) + Cardinality(N)
  <1>1. TypeOK /\ kept \subseteq AllRows
    BY DEF Sequels, Inductive, TypeOK
  <1>2. AllRows \subseteq AllRows' /\ \A s \in AllRows : log'[s] = log[s]
    BY <1>1, LogGrows
  <1>3. Live \subseteq {s \in kept : IsOp(s)}
    BY WeightsFinite
  <1>4. \A s \in Live : log[s].type # "checkpoint" /\ s \in kept /\ s \in AllRows
    BY <1>1, <1>3 DEF IsOp
  <1>5. PICK H : H = HistoryOf(kept \ Live)
    OBVIOUS
  <1>6. \A s \in Live' : s \in AllRows => s \in Live
    <2>1. CASE Push
      <3>1. PICK d \in Devices, r \in Rids, delete \in BOOLEAN :
                \E covers \in CoverSets(r) :
                  /\ covers \in SUBSET Cover
                  /\ log'[Len(log) + 1] = Pushed(d, r, delete, covers)
                  /\ AllRows' = AllRows \cup {Len(log) + 1} /\ Len(log) + 1 \notin AllRows
                  /\ Len(log') = Len(log) + 1
                  /\ UNCHANGED dropped
        BY <1>1, <2>1, PushFact
      <3>2. PICK covers \in CoverSets(r) :
                  /\ covers \in SUBSET Cover
                  /\ log'[Len(log) + 1] = Pushed(d, r, delete, covers)
                  /\ AllRows' = AllRows \cup {Len(log) + 1} /\ Len(log) + 1 \notin AllRows
                  /\ Len(log') = Len(log) + 1
                  /\ UNCHANGED dropped
        BY <3>1
      <3>3. Live' = (Live \ Leaving(r, covers)) \cup {Len(log) + 1}
        BY <3>2, PushLive DEF Live
      <3>. QED
        BY <3>2, <3>3
    <2>2. CASE ~Push
      BY <2>2, OthersLive DEF Live
    <2>. QED
      BY <2>1, <2>2
  <1>7. HistoryOf(kept \ Live)' = (H \cup G) \cup N
    <2>1. HistoryOf(kept \ Live)' = {s \in kept' \ Live' : log'[s].type # "checkpoint"}
      BY DEF HistoryOf
    <2>2. H = {s \in kept \ Live : log[s].type # "checkpoint"}
      BY <1>5 DEF HistoryOf
    <2>3. ASSUME NEW s \in AllRows
          PROVE  s \in HistoryOf(kept \ Live)' <=> s \in (H \cup G) \cup N
      BY <1>2, <1>4, <1>6, <2>1, <2>2
    <2>4. ASSUME NEW s \in AllRows' \ AllRows
          PROVE  s \in HistoryOf(kept \ Live)' <=> s \in (H \cup G) \cup N
      BY <1>1, <1>4, <2>1, <2>2
    <2>5. HistoryOf(kept \ Live)' \subseteq AllRows' /\ (H \cup G) \cup N \subseteq AllRows'
      BY <1>1, <1>2, <1>4, <2>1, <2>2
    <2>. QED
      BY <2>3, <2>4, <2>5
  <1>8. H \cap G = {} /\ (H \cup G) \cap N = {}
    BY <1>1, <1>4, <1>5 DEF HistoryOf
  <1>9. IsFiniteSet(H) /\ IsFiniteSet(G) /\ IsFiniteSet(N)
    <2>1. IsFiniteSet(H) /\ IsFiniteSet(Live)
      BY <1>5, WeightsFinite
    <2>2. IsFiniteSet(AllRows')
      BY LogGrows, <1>1, FS_Interval DEF AllRows
    <2>3. G \subseteq Live /\ N \subseteq AllRows'
      OBVIOUS
    <2>. QED
      BY <2>1, <2>2, <2>3, FS_Subset
  <1>10. /\ Cardinality(H \cup G) = Cardinality(H) + Cardinality(G)
         /\ IsFiniteSet(H \cup G)
    BY <1>8, <1>9, ApartCount
  <1>11. Cardinality((H \cup G) \cup N) = Cardinality(H \cup G) + Cardinality(N)
    BY <1>8, <1>9, <1>10, ApartCount
  <1>12. HistoryWeight' = Cardinality((H \cup G) \cup N)
    BY <1>7 DEF HistoryWeight
  <1>. QED
    BY <1>5, <1>10, <1>11, <1>12 DEF HistoryWeight

\* A step that moves no chain head is no push.
LEMMA PushMoves ==
    ASSUME TypeOK, UNCHANGED chain_heads
    PROVE  ~Push
  <1> SUFFICES ASSUME Push PROVE FALSE
    OBVIOUS
  <1>1. PICK d \in Devices : chain_heads' = [chain_heads EXCEPT ![d] = @ + 1]
    BY PushFact
  <1>2. chain_heads' = chain_heads /\ chain_heads \in [Devices -> Nat]
    BY DEF TypeOK
  <1>3. chain_heads[d] + 1 = chain_heads[d] /\ chain_heads[d] \in Nat
    BY <1>1, <1>2
  <1>. QED
    BY <1>3

\* Whether a delete was dropped late is settled when its checkpoint commits.
LEMMA LateSettled ==
    ASSUME Sequels, [Next]_vars, UNCHANGED <<dropped, checkpoints>>
    PROVE  DroppedLate' = DroppedLate
  <1>1. TypeOK /\ CheckpointsInOrder /\ DropsOpen
    BY DEF Sequels, Inductive
  <1>2. \A s \in AllRows : log'[s] = log[s] /\ (IsOp(s)' <=> IsOp(s))
    BY <1>1, LogGrows DEF IsOp
  <1>3. ASSUME NEW s \in dropped, NEW n \in DOMAIN checkpoints,
               NEW c \in checkpoints[n].covered + 1 .. checkpoints[n].seq - 1
        PROVE  Covers(c, s)' <=> Covers(c, s)
    <2>1. s \in AllRows
      BY <1>1 DEF DropsOpen
    <2>2. checkpoints[n] \in Checkpoint /\ checkpoints[n].seq <= Len(log) /\ Len(log) \in Nat
      BY <1>1 DEF TypeOK, CheckpointsInOrder
    <2>3. c \in AllRows
      BY <2>2 DEF Checkpoint, AllRows
    <2>. QED
      BY <1>2, <2>1, <2>3 DEF Covers
  <1>. QED
    BY <1>3 DEF DroppedLate

\* A commit drops late those of its deletes that are no longer live.
LEMMA LateCommit ==
    ASSUME Sequels, Kept, [Next]_vars, ~Push, NEW p \in plans, ~Stale(p), NEW c \in Checkpoint,
           c.covered = p.covered, c.floor = p.floor, c.seq = Len(log'), Len(log) < Len(log'),
           checkpoints' = Append(checkpoints, c), dropped' = dropped \cup p.drops
    PROVE  DroppedLate' = DroppedLate \cup (p.drops \ Live)
  <1>1. TypeOK /\ CheckpointsInOrder /\ DropsOpen /\ PlansOpen /\ FloorsKnown
    BY DEF Sequels, Inductive
  <1>2. /\ \A s \in AllRows : log'[s] = log[s] /\ (IsOp(s)' <=> IsOp(s))
        /\ Len(log) \in Nat /\ Len(log') \in Nat
        /\ \A s \in AllRows : s \in Nat /\ 1 <= s /\ s <= Len(log)
    BY <1>1, LogGrows DEF IsOp, AllRows
  <1>3. /\ DOMAIN checkpoints = 1..Len(checkpoints) /\ Len(checkpoints) \in Nat
        /\ DOMAIN checkpoints' = 1..Len(checkpoints) + 1
        /\ checkpoints'[Len(checkpoints) + 1] = c
        /\ \A n \in DOMAIN checkpoints : checkpoints'[n] = checkpoints[n]
    BY <1>1, CommitCheckpoints
  <1>4. PICK L \in Nat : L = Len(checkpoints)
    BY <1>3
  <1>5. Latest.floor \in Nat
    BY <1>1, LatestBelow
  <1>6. \A n \in DOMAIN checkpoints :
            /\ checkpoints[n] \in Checkpoint /\ checkpoints[n].floor <= Latest.floor
            /\ checkpoints[n].seq <= Len(log)
    <2>1. \A n \in DOMAIN checkpoints : checkpoints # <<>>
      BY <1>1 DEF TypeOK
    <2>. QED
      BY <1>1, <2>1, LatestTop DEF TypeOK, CheckpointsInOrder
  <1>7. L >= 1 => checkpoints[L].floor = Latest.floor
    <2>1. L >= 1 => checkpoints # <<>>
      BY <1>4
    <2>. QED
      BY <1>1, <1>4, <2>1, LatestTop
  <1>8. L = 0 => Latest.floor = 0
    <2>1. L = 0 => checkpoints = <<>>
      <3>1. checkpoints # <<>> => Len(checkpoints) \in DOMAIN checkpoints
        BY <1>1, LatestTop
      <3>. QED
        BY <1>3, <1>4, <3>1
    <2>. QED
      BY <2>1 DEF Latest, NoCheckpoint
  <1>9. \A k, s : k \in AllRows' /\ s \in AllRows /\ Covers(k, s)' => k \in AllRows /\ Covers(k, s)
    BY <1>1, <1>2, OthersAppendNone DEF Covers
  <1>10. \A k, s \in AllRows : Covers(k, s) => Covers(k, s)'
    BY <1>2 DEF Covers
  <1>11. \A k : k \in Nat /\ 1 <= k /\ k <= Len(log') => k \in AllRows'
    BY <1>2 DEF AllRows
  <1>12. ASSUME NEW s \in dropped
         PROVE  s \in DroppedLate' <=> s \in DroppedLate
    <2>1. s \in AllRows /\ s <= Latest.floor
      BY <1>1 DEF DropsOpen
    <2>2. ASSUME NEW n \in DOMAIN checkpoints
          PROVE  (\E k \in checkpoints[n].covered + 1 .. checkpoints[n].seq - 1 : Covers(k, s)')
                   <=> \E k \in checkpoints[n].covered + 1 .. checkpoints[n].seq - 1 : Covers(k, s)
      <3>1. ASSUME NEW k \in checkpoints[n].covered + 1 .. checkpoints[n].seq - 1
            PROVE  k \in AllRows /\ k \in AllRows'
        BY <1>2, <1>6 DEF Checkpoint, AllRows
      <3>. QED
        BY <1>9, <1>10, <2>1, <3>1
    <2>3. s \in DroppedLate' <=>
            \E n \in DOMAIN checkpoints' :
                /\ s <= checkpoints'[n].floor
                /\ n > 1 => s > checkpoints'[n - 1].floor
                /\ \E k \in checkpoints'[n].covered + 1 .. checkpoints'[n].seq - 1 : Covers(k, s)'
      BY DEF DroppedLate
    <2>4. s \in DroppedLate <=>
            \E n \in DOMAIN checkpoints :
                /\ s <= checkpoints[n].floor
                /\ n > 1 => s > checkpoints[n - 1].floor
                /\ \E k \in checkpoints[n].covered + 1 .. checkpoints[n].seq - 1 : Covers(k, s)
      BY DEF DroppedLate
    <2>5. ~(L + 1 > 1 => s > checkpoints'[(L + 1) - 1].floor)
      <3>1. L # 0
        BY <1>2, <1>8, <2>1
      <3>2. L \in DOMAIN checkpoints /\ L >= 1 /\ (L + 1) - 1 = L /\ L + 1 > 1
        BY <1>3, <1>4, <3>1
      <3>3. checkpoints'[L].floor = Latest.floor
        BY <1>3, <1>7, <3>2
      <3>4. ~(s > checkpoints'[L].floor)
        BY <1>2, <1>5, <2>1, <3>3
      <3>. QED
        BY <3>2, <3>4
    <2>6. \A n \in DOMAIN checkpoints' : n = L + 1 \/ n \in DOMAIN checkpoints
      BY <1>3, <1>4
    <2>7. \A n \in DOMAIN checkpoints :
              /\ n \in DOMAIN checkpoints' /\ checkpoints'[n] = checkpoints[n]
              /\ n > 1 => checkpoints'[n - 1] = checkpoints[n - 1]
      BY <1>3
    <2>. QED
      BY <2>2, <2>3, <2>4, <2>5, <2>6, <2>7
  <1>13. ASSUME NEW s \in p.drops
         PROVE  s \in DroppedLate' <=> s \notin Live
    <2>1. /\ s \in AllRows /\ s \in kept /\ IsOp(s) /\ s \in Nat
          /\ s \notin dropped /\ s > Latest.floor /\ s <= p.floor
          /\ p.covered \in Nat /\ p.covered <= Len(log)
          /\ ~CoveredAt(AllRows, s, p.covered)
      BY DropsUncovered
    <2>2. log[s].rid \in Rids
      BY <1>1, <2>1, EntryType DEF TypeOK, OperationEntry
    <2>3. s \in Live <=> ~CoveredAt(AllRows, s, Len(log))
      BY <1>2, <2>1, <2>2 DEF Live, TrueLive, LiveAt
    <2>4. CoveredAt(AllRows, s, Len(log)) <=> \E k \in AllRows : k > p.covered /\ Covers(k, s)
      <3>1. \A k \in AllRows : Covers(k, s) => ~(k <= p.covered)
        BY <2>1 DEF CoveredAt
      <3>2. \A k \in AllRows : k <= Len(log) /\ (k > p.covered <=> ~(k <= p.covered))
        BY <1>2, <2>1
      <3>. QED
        BY <3>1, <3>2 DEF CoveredAt
    <2>5. (\E k \in AllRows : k > p.covered /\ Covers(k, s))
             <=> \E k \in p.covered + 1 .. Len(log') - 1 : Covers(k, s)'
      <3>1. ASSUME NEW k \in AllRows, k > p.covered, Covers(k, s)
            PROVE  k \in p.covered + 1 .. Len(log') - 1 /\ Covers(k, s)'
        <4>1. Covers(k, s)'
          BY <1>10, <2>1, <3>1
        <4>. QED
          BY <1>2, <2>1, <3>1, <4>1
      <3>2. ASSUME NEW k \in p.covered + 1 .. Len(log') - 1, Covers(k, s)'
            PROVE  k \in AllRows /\ k > p.covered /\ Covers(k, s)
        <4>1. k \in Nat /\ 1 <= k /\ k <= Len(log') /\ k > p.covered
          BY <1>2, <2>1
        <4>. QED
          BY <1>9, <1>11, <2>1, <3>2, <4>1
      <3>. QED
        BY <3>1, <3>2
    <2>6. s \in DroppedLate' <=>
            \E n \in DOMAIN checkpoints' :
                /\ s <= checkpoints'[n].floor
                /\ n > 1 => s > checkpoints'[n - 1].floor
                /\ \E k \in checkpoints'[n].covered + 1 .. checkpoints'[n].seq - 1 : Covers(k, s)'
      BY DEF DroppedLate
    <2>7. \A n \in DOMAIN checkpoints : ~(s <= checkpoints'[n].floor)
      <3>1. \A n \in DOMAIN checkpoints :
                checkpoints'[n].floor <= Latest.floor /\ checkpoints'[n].floor \in Nat
        BY <1>3, <1>6 DEF Checkpoint
      <3>. QED
        BY <1>5, <2>1, <3>1
    <2>8. L + 1 > 1 => s > checkpoints'[(L + 1) - 1].floor
      <3>1. CASE L = 0
        BY <3>1
      <3>2. CASE L # 0
        <4>1. L \in DOMAIN checkpoints /\ L >= 1 /\ (L + 1) - 1 = L
          BY <1>3, <1>4, <3>2
        <4>. QED
          BY <1>3, <1>7, <2>1, <4>1
      <3>. QED
        BY <3>1, <3>2
    <2>9. /\ L + 1 \in DOMAIN checkpoints' /\ checkpoints'[L + 1] = c
          /\ \A n \in DOMAIN checkpoints' : n = L + 1 \/ n \in DOMAIN checkpoints
      BY <1>3, <1>4
    <2>10. s \in DroppedLate' <=> \E k \in p.covered + 1 .. Len(log') - 1 : Covers(k, s)'
      BY <2>1, <2>6, <2>7, <2>8, <2>9
    <2>. QED
      BY <2>3, <2>4, <2>5, <2>10
  <1>14. DroppedLate' \subseteq dropped \cup p.drops /\ DroppedLate \subseteq dropped
    BY DEF DroppedLate
  <1>15. \A s \in p.drops : s \notin dropped
    BY DropsUncovered
  <1>. QED
    BY <1>12, <1>13, <1>14, <1>15

\* What DriftBounded measures, as numbers.
Weights ==
    LiveWeight \in Nat /\ HistoryWeight \in Nat /\ Cardinality(DroppedLate) \in Nat

\* The counters stay within the drift where they follow the sets, the deletes
\* dropped late aside.
LEMMA DriftKept ==
    ASSUME Weights, Weights', DriftBounded,
           NEW u \in Int, NEW h \in Int, Add(u, h), NEW lw \in Int, NEW hw \in Int, NEW k \in Int,
           LiveWeight' = LiveWeight + lw, HistoryWeight' = HistoryWeight + hw,
           Cardinality(DroppedLate)' = Cardinality(DroppedLate) + k,
           lw - k <= u, u <= lw, hw <= h, h <= hw + k
    PROVE  DriftBounded'
  <1>1. PICK w, g, dr \in Nat :
            w = LiveWeight /\ g = HistoryWeight /\ dr = Cardinality(DroppedLate)
    BY DEF Weights
  <1>2. PICK w1, g1, dr1 \in Nat :
            w1 = LiveWeight' /\ g1 = HistoryWeight' /\ dr1 = Cardinality(DroppedLate)'
    BY DEF Weights
  <1>3. w1 = w + lw /\ g1 = g + hw /\ dr1 = dr + k
    BY <1>1, <1>2
  <1>4. usage_bytes \in w - dr .. w /\ history_bytes \in g .. g + dr
    BY <1>1 DEF DriftBounded
  <1>5. usage_bytes' = Max2(usage_bytes + u, 0) /\ history_bytes' = Max2(history_bytes + h, 0)
    BY DEF Add
  <1>6. usage_bytes' \in w1 - dr1 .. w1
    BY <1>3, <1>4, <1>5 DEF Max2
  <1>7. history_bytes' \in g1 .. g1 + dr1
    BY <1>3, <1>4, <1>5 DEF Max2
  <1>. QED
    BY <1>2, <1>6, <1>7 DEF DriftBounded

LEMMA PushDrift ==
    ASSUME Exact, Exact', [Next]_vars, Weights, Weights', DriftBounded, CountPush
    PROVE  DriftBounded'
  <1>1. Sequels /\ Kept /\ Sequels' /\ TypeOK /\ Push
    BY DEF Exact, Sequels, Inductive, CountPush
  <1>2. PICK d \in Devices, r \in Rids, delete \in BOOLEAN :
            \E covers \in CoverSets(r) :
              /\ covers \in SUBSET Cover
              /\ log'[Len(log) + 1] = Pushed(d, r, delete, covers)
              /\ AllRows' = AllRows \cup {Len(log) + 1} /\ Len(log) + 1 \notin AllRows
              /\ Len(log') = Len(log) + 1
              /\ kept' = kept \cup {Len(log) + 1}
              /\ UNCHANGED <<dropped, checkpoints>>
    BY <1>1, PushFact
  <1>3. PICK covers \in CoverSets(r) :
              /\ covers \in SUBSET Cover
              /\ log'[Len(log) + 1] = Pushed(d, r, delete, covers)
              /\ AllRows' = AllRows \cup {Len(log) + 1} /\ Len(log) + 1 \notin AllRows
              /\ Len(log') = Len(log) + 1
              /\ kept' = kept \cup {Len(log) + 1}
              /\ UNCHANGED <<dropped, checkpoints>>
    BY <1>2
  <1>4. PICK n, gone : n = Len(log) + 1 /\ gone = Leaving(r, covers)
    OBVIOUS
  <1>5. Live' = (Live \ gone) \cup {n}
    BY <1>1, <1>3, <1>4, PushLive DEF Live
  <1>6. gone \subseteq Live /\ Live \subseteq AllRows /\ n \notin Live
    BY <1>3, <1>4 DEF Live, TrueLive, LiveAt, Leaving
  <1>7. IsFiniteSet(Live) /\ IsFiniteSet(gone) /\ IsFiniteSet(Live \ gone)
    BY <1>1, <1>6, WeightsFinite, FS_Subset, FS_Difference
  <1>8. PICK t \in Nat : t = Cardinality(gone)
    BY <1>7, FS_CardinalityType
  <1>9. /\ Cardinality(Live') = Cardinality(Live) - t + 1
        /\ Cardinality(Live) \in Nat
    <2>1. Live \cap gone = gone
      BY <1>6
    <2>2. Cardinality(Live \ gone) = Cardinality(Live) - t
      BY <1>7, <1>8, <2>1, FS_Difference
    <2>3. Cardinality((Live \ gone) \cup {n}) = Cardinality(Live \ gone) + 1
      BY <1>6, <1>7, FS_AddElement
    <2>. QED
      BY <1>5, <1>7, <2>2, <2>3, FS_CardinalityType
  <1>10. \A s \in AllRows' \ AllRows : s = n /\ log'[s].type = "operation"
    BY <1>3, <1>4 DEF Pushed
  <1>11. Count("policy")' = Count("policy") /\ Count("epoch")' = Count("epoch")
    BY <1>1, <1>10, CountSame
  <1>12. HistoryWeight' = HistoryWeight + t
    <2>1. gone = Live \ Live'
      BY <1>5, <1>6
    <2>2. {s \in AllRows' \ AllRows : log'[s].type # "checkpoint" /\ s \notin Live'} = {}
      BY <1>5, <1>10
    <2>3. kept' = kept \cup (AllRows' \ AllRows)
      BY <1>3
    <2>4. HistoryWeight' = HistoryWeight + Cardinality(gone) + Cardinality({})
      BY <1>1, <2>1, <2>2, <2>3, HistoryStep
    <2>5. HistoryWeight \in Nat
      BY DEF Weights
    <2>. QED
      BY <1>8, <2>4, <2>5, FS_EmptySet
  <1>13. Cardinality(DroppedLate)' = Cardinality(DroppedLate) + 0
    BY <1>1, <1>3, LateSettled DEF Weights
  <1>14. LiveWeight' = LiveWeight + (1 - t)
    <2>1. Count("policy") \in Nat /\ Count("epoch") \in Nat
      BY <1>1, WeightsFinite
    <2>2. LiveWeight' = Cardinality(Live') + Count("policy")' + Count("epoch")'
      BY DEF LiveWeight
    <2>. QED
      BY <1>9, <1>11, <2>1, <2>2 DEF LiveWeight
  <1>15. Left(log'[Len(log) + 1]) = gone
    <2>1. LiveAt(kept, r, Len(log)) = LiveAt(AllRows, r, Len(log))
      BY <1>1, RowsLive
    <2>2. log'[Len(log) + 1].rid = r /\ log'[Len(log) + 1].covers = covers
      BY <1>3 DEF Pushed
    <2>. QED
      BY <1>4, <2>1, <2>2 DEF Left, Leaving
  <1>16. Add(1 - t, t)
    BY <1>8, <1>15 DEF CountPush
  <1>. QED
    BY <1>12, <1>13, <1>14, <1>16, DriftKept

\* A policy change, or an epoch, counts twice: in usage and in history.
LEMMA NamesDrift ==
    ASSUME Exact, Exact', [Next]_vars, Weights, Weights', DriftBounded,
           CountPolicy \/ CountRotate
    PROVE  DriftBounded'
  <1>1. Sequels /\ Kept /\ Sequels' /\ TypeOK
    BY DEF Exact, Sequels, Inductive
  <1>2. PICK type \in {"policy", "epoch"} :
            /\ Appends([type |-> type]) /\ Add(1, 1)
            /\ UNCHANGED <<dropped, checkpoints, chain_heads>>
    BY DEF CountPolicy, CountRotate, PolicyChange, Rotate, AppendPolicy, AppendEpoch
  <1>3. [type |-> type] \in Entry
    BY DEF Entry, OtherEntry
  <1>4. PICK n : n = Len(log) + 1
    OBVIOUS
  <1>5. /\ log'[n].type = type /\ AllRows' = AllRows \cup {n} /\ n \notin AllRows
        /\ kept' = kept \cup {n}
    BY <1>1, <1>2, <1>3, <1>4, AppendsFact DEF Appends, AllRows, TypeOK
  <1>6. Live' = Live
    <2>1. Live' = Live \ dropped
      BY <1>1, <1>2, PushMoves, OthersLive DEF Live
    <2>. QED
      BY <2>1, DroppedApart DEF Live
  <1>7. Live \subseteq AllRows
    BY DEF Live, TrueLive, LiveAt
  <1>8. HistoryWeight' = HistoryWeight + 1
    <2>1. {s \in AllRows' \ AllRows : log'[s].type # "checkpoint" /\ s \notin Live'} = {n}
      BY <1>5, <1>6, <1>7
    <2>2. kept' = kept \cup (AllRows' \ AllRows) /\ {} = Live \ Live'
      BY <1>5, <1>6
    <2>3. HistoryWeight' = HistoryWeight + Cardinality({}) + Cardinality({n})
      BY <1>1, <2>1, <2>2, HistoryStep
    <2>4. HistoryWeight \in Nat
      BY DEF Weights
    <2>. QED
      <3>1. Cardinality({n}) = 1 /\ Cardinality({}) = 0
        BY FS_EmptySet, FS_Singleton, Zenon
      <3>. QED
        BY <2>3, <2>4, <3>1
  <1>9. Cardinality(DroppedLate)' = Cardinality(DroppedLate) + 0
    BY <1>1, <1>2, LateSettled DEF Weights
  <1>10. LiveWeight' = LiveWeight + 1
    <2>1. /\ Cardinality(Live) \in Nat /\ Count("policy") \in Nat /\ Count("epoch") \in Nat
      BY <1>1, WeightsFinite
    <2>2. /\ Count(type)' = Count(type) + 1
          /\ \A t \in {"policy", "epoch"} : t # type => Count(t)' = Count(t)
      BY <1>1, <1>5, CountOne, CountSame
    <2>3. LiveWeight' = Cardinality(Live') + Count("policy")' + Count("epoch")'
      BY DEF LiveWeight
    <2>. QED
      BY <1>6, <2>1, <2>2, <2>3 DEF LiveWeight
  <1>. QED
    BY <1>2, <1>8, <1>9, <1>10, DriftKept

\* The deletes a commit drops leave usage once, those dropped late a second time.
LEMMA CommitDrift ==
    ASSUME Exact, Exact', [Next]_vars, Weights, Weights', DriftBounded,
           CountCommit \/ CountCommitGrant
    PROVE  DriftBounded'
  <1>1. Sequels /\ Kept /\ Sequels' /\ TypeOK /\ DropsOpen
    BY DEF Exact, Sequels, Inductive
  <1>2. PICK p \in plans, paid \in {0, 1} :
            /\ paid = 0 => CommitCheckpoint(p)
            /\ paid = 1 => GrantCheckpoint(p)
            /\ Add(paid - Cardinality(p.drops), paid + Cardinality(p.drops))
    <2>1. CASE CountCommit
      <3>1. PICK p \in plans : CommitCheckpoint(p) /\ LeaveLive(Cardinality(p.drops))
        BY <2>1 DEF CountCommit
      <3>2. IsFiniteSet(p.drops)
        <4>1. p.drops \subseteq AllRows
          BY <1>1 DEF DropsOpen
        <4>. QED
          BY <1>1, <4>1, RowsFinite, FS_Subset DEF TypeOK
      <3>3. Cardinality(p.drops) \in Nat
        BY <3>2, FS_CardinalityType
      <3>4. Add(0 - Cardinality(p.drops), 0 + Cardinality(p.drops))
        BY <3>1, <3>3 DEF LeaveLive
      <3>. QED
        BY <3>1, <3>4
    <2>2. CASE CountCommitGrant
      BY <2>2 DEF CountCommitGrant
    <2>. QED
      BY <2>1, <2>2
  <1>3. PICK c \in Checkpoint :
            /\ ~Stale(p) /\ c.covered = p.covered /\ c.floor = p.floor
            /\ c.seq = Len(log') /\ Len(log) < Len(log')
            /\ checkpoints' = Append(checkpoints, c)
            /\ dropped' = dropped \cup p.drops
            /\ kept' = kept \cup (AllRows' \ AllRows)
    BY <1>1, <1>2, CommitOf
  <1>4. ~Push
    <2>1. UNCHANGED chain_heads
      BY <1>2 DEF CommitCheckpoint, GrantCheckpoint, Commits
    <2>. QED
      BY <1>1, <2>1, PushMoves
  <1>5. PICK drops : drops = p.drops
    OBVIOUS
  <1>6. IsFiniteSet(drops) /\ IsFiniteSet(Live) /\ Live \subseteq AllRows
    <2>1. drops \subseteq AllRows
      BY <1>1, <1>5 DEF DropsOpen
    <2>2. Live \subseteq AllRows
      BY DEF Live, TrueLive, LiveAt
    <2>. QED
      BY <1>1, <2>1, <2>2, RowsFinite, FS_Subset DEF TypeOK
  <1>7. Live' = Live \ drops
    <2>1. Live' = Live \ (dropped \cup drops)
      BY <1>1, <1>3, <1>4, <1>5, OthersLive DEF Live
    <2>2. Live \ dropped = Live
      BY DroppedApart DEF Live
    <2>. QED
      BY <2>1, <2>2
  <1>8. PICK n, k, left \in Nat :
            /\ n = Cardinality(drops) /\ k = Cardinality(drops \ Live)
            /\ left = Cardinality(drops \cap Live) /\ k = n - left
    <2>1. IsFiniteSet(drops \ Live) /\ IsFiniteSet(drops \cap Live)
      BY <1>6, FS_Difference, FS_Intersection
    <2>2. Cardinality(drops \ Live) = Cardinality(drops) - Cardinality(drops \cap Live)
      BY <1>6, FS_Difference
    <2>. QED
      BY <1>6, <2>1, <2>2, FS_CardinalityType
  <1>9. Cardinality(Live') = Cardinality(Live) - left /\ Cardinality(Live) \in Nat
    <2>1. Cardinality(Live \ drops) = Cardinality(Live) - Cardinality(Live \cap drops)
      BY <1>6, FS_Difference
    <2>2. Live \cap drops = drops \cap Live
      OBVIOUS
    <2>. QED
      BY <1>6, <1>7, <1>8, <2>1, <2>2, FS_CardinalityType
  <1>10. Cardinality(DroppedLate)' = Cardinality(DroppedLate) + k
    <2>1. DroppedLate' = DroppedLate \cup (drops \ Live)
      BY <1>1, <1>3, <1>4, <1>5, LateCommit
    <2>2. IsFiniteSet(DroppedLate) /\ IsFiniteSet(drops \ Live)
      BY <1>1, <1>6, WeightsFinite, FS_Difference
    <2>3. DroppedLate \cap (drops \ Live) = {}
      <3>1. DroppedLate \subseteq dropped
        BY DEF DroppedLate
      <3>2. \A s \in drops : s \notin dropped
        BY <1>1, <1>3, <1>5, DropsUncovered
      <3>. QED
        BY <3>1, <3>2
    <2>4. Cardinality(DroppedLate \cup (drops \ Live))
            = Cardinality(DroppedLate) + Cardinality(drops \ Live)
      BY <2>2, <2>3, ApartCount
    <2>. QED
      BY <1>8, <2>1, <2>4
  <1>11. PICK N : N = {s \in AllRows' \ AllRows : log'[s].type # "checkpoint" /\ s \notin Live'}
    OBVIOUS
  <1>12. /\ Cardinality(N) = paid
         /\ Count("policy")' = Count("policy") + paid
         /\ Count("epoch")' = Count("epoch")
    <2>0. Count("policy") \in Nat
      BY <1>1, WeightsFinite
    <2>1. CASE paid = 0
      <3>1. [type |-> "checkpoint"] \in Entry
        BY DEF Entry, OtherEntry
      <3>2. \A s \in AllRows' \ AllRows : log'[s].type = "checkpoint"
        BY <1>1, <1>2, <2>1, <3>1, AppendsFact DEF CommitCheckpoint
      <3>3. N = {}
        BY <1>11, <3>2
      <3>4. Count("policy")' = Count("policy") /\ Count("epoch")' = Count("epoch")
        BY <1>1, <3>2, CountSame
      <3>. QED
        BY <2>0, <2>1, <3>3, <3>4, FS_EmptySet
    <2>2. CASE paid = 1
      <3>1. PICK m : m = Len(log) + 1
        OBVIOUS
      <3>2. /\ m \in AllRows' \ AllRows /\ log'[m].type = "policy"
            /\ \A s \in AllRows' \ AllRows : s # m => log'[s].type = "checkpoint"
        BY <1>1, <1>2, <2>2, <3>1, GrantFact DEF AllRows, TypeOK
      <3>3. N = {m}
        BY <1>6, <1>7, <1>11, <3>2
      <3>4. Count("policy")' = Count("policy") + 1
        BY <1>1, <3>2, CountOne
      <3>5. Count("epoch")' = Count("epoch")
        <4>1. \A s \in AllRows' \ AllRows : log'[s].type # "epoch"
          BY <3>2
        <4>. QED
          BY <1>1, <4>1, CountSame
      <3>6. Cardinality({m}) = 1
        BY FS_Singleton, Zenon
      <3>. QED
        BY <2>2, <3>3, <3>4, <3>5, <3>6
    <2>. QED
      BY <2>1, <2>2
  <1>13. HistoryWeight' = HistoryWeight + (left + paid)
    <2>1. drops \cap Live = Live \ Live'
      BY <1>7
    <2>2. HistoryWeight' = HistoryWeight + Cardinality(drops \cap Live) + Cardinality(N)
      BY <1>1, <1>3, <1>11, <2>1, HistoryStep
    <2>3. HistoryWeight \in Nat
      BY DEF Weights
    <2>. QED
      BY <1>8, <1>12, <2>2, <2>3
  <1>14. LiveWeight' = LiveWeight + (paid - left)
    <2>1. Count("policy") \in Nat /\ Count("epoch") \in Nat
      BY <1>1, WeightsFinite
    <2>2. LiveWeight' = Cardinality(Live') + Count("policy")' + Count("epoch")'
      BY DEF LiveWeight
    <2>. QED
      BY <1>8, <1>9, <1>12, <2>1, <2>2 DEF LiveWeight
  <1>15. Add(paid - n, paid + n)
    BY <1>2, <1>5, <1>8
  <1>16. /\ paid - n \in Int /\ paid + n \in Int /\ paid - left \in Int /\ left + paid \in Int
         /\ (paid - left) - k <= paid - n /\ paid - n <= paid - left
         /\ left + paid <= paid + n /\ paid + n <= (left + paid) + k
    BY <1>8
  <1>17. PICK u, h, lw, hw \in Int :
            u = paid - n /\ h = paid + n /\ lw = paid - left /\ hw = left + paid
    BY <1>16
  <1>. QED
    <2>1. /\ Add(u, h) /\ LiveWeight' = LiveWeight + lw /\ HistoryWeight' = HistoryWeight + hw
          /\ Cardinality(DroppedLate)' = Cardinality(DroppedLate) + k
      BY <1>10, <1>13, <1>14, <1>15, <1>17
    <2>2. k \in Int /\ lw - k <= u /\ u <= lw /\ hw <= h /\ h <= hw + k
      BY <1>8, <1>16, <1>17
    <2>. QED
      BY <2>1, <2>2, DriftKept

\* What a batch deletes counts as history, for nothing live goes.
LEMMA PruneDrift ==
    ASSUME Exact, Exact', [Next]_vars, Weights, Weights', DriftBounded,
           NEW i \in Instances, CountPrune(i)
    PROVE  DriftBounded'
  <1>1. Sequels /\ Sequels' /\ TypeOK /\ kept \subseteq AllRows
    BY DEF Exact, Sequels, Inductive, TypeOK
  <1>2. /\ UNCHANGED <<log, dropped, checkpoints>>
        /\ kept' \subseteq kept
        /\ Add(0, -Cardinality(HistoryOf(kept \ kept')))
    BY <1>1, PruneFact DEF CountPrune, PruneBatch
  <1>3. Live' = Live
    BY <1>2 DEF Live, TrueLive, LiveAt, AllRows, CoveredAt, Covers, IsOp
  <1>4. Live \subseteq kept'
    <2>1. Live \subseteq kept /\ \A s \in kept \ kept' : PrunableRow(s)
      BY <1>1, <1>2, WeightsFinite, PruneFact DEF CountPrune
    <2>2. retention_floor \in Nat /\ retention_floor <= Len(log) /\ Len(log) \in Nat
      BY <1>1, FloorBelow DEF Sequels, Inductive, TypeOK
    <2>3. ASSUME NEW s \in Live
          PROVE  ~PrunableRow(s)
      <3>1. /\ IsOp(s) /\ s \notin dropped /\ ~CoveredAt(AllRows, s, Len(log))
        BY DEF Live, TrueLive, LiveAt
      <3>2. ~CoveredAt(kept, s, retention_floor)
        <4>1. \A k \in kept : k \in AllRows /\ k <= Len(log)
          BY <1>1 DEF AllRows
        <4>. QED
          BY <3>1, <4>1 DEF CoveredAt
      <3>. QED
        BY <3>1, <3>2 DEF PrunableRow, IsOp
    <2>. QED
      BY <2>1, <2>3
  <1>5. PICK H, B : H = HistoryOf(kept \ Live) /\ B = HistoryOf(kept \ kept')
    OBVIOUS
  <1>6. HistoryOf(kept \ Live)' = H \ B /\ B \subseteq H
    <2>1. HistoryOf(kept \ Live)' = {s \in kept' \ Live : log[s].type # "checkpoint"}
      BY <1>2, <1>3 DEF HistoryOf
    <2>. QED
      BY <1>2, <1>4, <1>5, <2>1 DEF HistoryOf
  <1>7. PICK h, b \in Nat :
            /\ h = Cardinality(H) /\ b = Cardinality(B)
            /\ Cardinality(HistoryOf(kept \ Live)') = h - b
    <2>1. IsFiniteSet(H) /\ IsFiniteSet(B)
      BY <1>1, <1>5, <1>6, WeightsFinite, FS_Subset
    <2>2. H \cap B = B
      BY <1>6
    <2>3. Cardinality(H \ B) = Cardinality(H) - Cardinality(B)
      BY <2>1, <2>2, FS_Difference
    <2>. QED
      BY <1>6, <2>1, <2>3, FS_CardinalityType
  <1>8. HistoryWeight' = HistoryWeight + (-b)
    BY <1>5, <1>7 DEF HistoryWeight
  <1>9. LiveWeight' = LiveWeight + 0
    <2>1. Count("policy")' = Count("policy") /\ Count("epoch")' = Count("epoch")
      BY <1>2 DEF Count, AllRows
    <2>2. LiveWeight' = Cardinality(Live') + Count("policy")' + Count("epoch")'
      BY DEF LiveWeight
    <2>3. LiveWeight' = LiveWeight
      BY <1>3, <2>1, <2>2 DEF LiveWeight
    <2>. QED
      BY <2>3 DEF Weights
  <1>10. Cardinality(DroppedLate)' = Cardinality(DroppedLate) + 0
    BY <1>1, <1>2, LateSettled DEF Weights
  <1>11. Add(0, -b)
    BY <1>2, <1>5, <1>7
  <1>. QED
    BY <1>7, <1>8, <1>9, <1>10, <1>11, DriftKept

\* With one instance, the counters that no query ever recounts stay within the
\* deletes that were dropped late: usage is never above what is live, and
\* history never below what retention holds.
THEOREM CountersDrift == ASSUME OneInstance PROVE UsageSpec => []DriftBounded
  <1>1. UsageInit => DriftBounded
    <2> SUFFICES ASSUME UsageInit PROVE DriftBounded
      OBVIOUS
    <2>1. /\ AllRows = {1, 2} /\ kept = {1, 2} /\ dropped = {}
          /\ log[1].type = "policy" /\ log[2].type = "epoch"
          /\ usage_bytes = 2 /\ history_bytes = 2
      BY DEF UsageInit, Init, AllRows
    <2>2. Live = {}
      <3>1. \A s \in AllRows : ~IsOp(s)
        BY <2>1 DEF IsOp
      <3>. QED
        BY <3>1 DEF Live, TrueLive, LiveAt
    <2>3. /\ {s \in AllRows : log[s].type = "policy"} = {1}
          /\ {s \in AllRows : log[s].type = "epoch"} = {2}
      BY <2>1
    <2>4. Count("policy") = 1 /\ Count("epoch") = 1
      BY <2>3, FS_Singleton DEF Count
    <2>5. HistoryOf(kept \ Live) = {1} \cup {2} /\ DroppedLate = {}
      BY <2>1, <2>2 DEF HistoryOf, DroppedLate
    <2>6. Cardinality({1} \cup {2}) = 2
      <3>1. /\ IsFiniteSet({1}) /\ Cardinality({1}) = 1 /\ IsFiniteSet({2}) /\ Cardinality({2}) = 1
        BY FS_Singleton
      <3>2. {1} \cap {2} = {}
        OBVIOUS
      <3>. QED
        BY <3>1, <3>2, ApartCount
    <2>7. LiveWeight = 2 /\ HistoryWeight = 2 /\ Cardinality(DroppedLate) = 0
      BY <2>2, <2>4, <2>5, <2>6, FS_EmptySet DEF LiveWeight, HistoryWeight
    <2>. QED
      BY <2>1, <2>7 DEF DriftBounded
  <1>2. Exact => Weights
    BY WeightsFinite DEF Exact, Weights
  <1>3. ASSUME Exact, Exact', Weights, Weights', DriftBounded, [UsageNext]_usageVars
        PROVE  DriftBounded'
    <2>1. [Next]_vars
      BY <1>3 DEF UsageNext, usageVars, Next, CountPush, CountPolicy, CountRotate, CountCommit,
           CountCommitGrant, CountPrune, Uncounted, Commit, CommitGrant, Maintain
    <2>2. CASE Uncounted \/ UNCHANGED usageVars
      <3>1. UNCHANGED <<log, kept, dropped, checkpoints, usage_bytes, history_bytes>>
        BY <2>2 DEF Uncounted, usageVars, vars, CrossQuota, Sign, SignGrant, PlanCheckpoint, Refuse,
                    RefuseCheckpoint, MaintainStart, PersistFloor, RelieveStart, CrashPass
      <3>2. AllRows' = AllRows /\ Live' = Live /\ DroppedLate' = DroppedLate
        BY <3>1 DEF Live, TrueLive, LiveAt, AllRows, CoveredAt, Covers, IsOp, DroppedLate
      <3>3. LiveWeight' = LiveWeight /\ HistoryWeight' = HistoryWeight
        BY <3>1, <3>2 DEF LiveWeight, HistoryWeight, HistoryOf, Count
      <3>. QED
        BY <1>3, <3>1, <3>2, <3>3 DEF DriftBounded
    <2>. QED
      BY <1>3, <2>1, <2>2, PushDrift, NamesDrift, CommitDrift, PruneDrift DEF UsageNext
  <1>. QED
    BY <1>1, <1>2, <1>3, UsageImplements, ExactHolds, PTL DEF UsageSpec

=============================================================================
