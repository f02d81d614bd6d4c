-------------------------- MODULE DomainLogProofs --------------------------
(***************************************************************************)
(* Theorems about DomainLog, for every number of devices, objects, server  *)
(* instances and entries.                                                  *)
(***************************************************************************)
EXTENDS DomainLog, FiniteNaturals, FiniteSetTheorems, SequenceTheorems, TLAPS

\* MaxOf is the greatest member, MinOf the least.
LEMMA MaxOfFact ==
    ASSUME NEW S, S \subseteq Nat, IsFiniteSet(S), S # {}
    PROVE  MaxOf(S) \in S /\ \A y \in S : y <= MaxOf(S)
BY GreatestExists DEF MaxOf

LEMMA MinOfFact ==
    ASSUME NEW S, S \subseteq Nat, IsFiniteSet(S), S # {}
    PROVE  MinOf(S) \in S /\ \A y \in S : MinOf(S) <= y
BY LeastExists DEF MinOf

\* The greatest of 0 and some rows.
LEMMA MaxOfRows ==
    ASSUME NEW n \in Nat, NEW X, X \subseteq 1..n
    PROVE  MaxOf({0} \cup X) \in {0} \cup X /\ \A y \in X : y <= MaxOf({0} \cup X)
<1>1. X \subseteq Nat
  OBVIOUS
<1>2. IsFiniteSet(1..n)
  BY FS_Interval
<1>3. IsFiniteSet(X \cup {0})
  BY <1>2, FS_Subset, FS_AddElement
<1> DEFINE S == {0} \cup X
<1>4. S = X \cup {0}
  OBVIOUS
<1>5. S \subseteq Nat /\ IsFiniteSet(S) /\ S # {}
  BY <1>1, <1>3, <1>4
<1> HIDE DEF S
<1>6. MaxOf(S) \in S /\ \A y \in S : y <= MaxOf(S)
  BY <1>5, MaxOfFact
<1> QED BY <1>6 DEF S

-----------------------------------------------------------------------------
(* Types.                                                                  *)

LEMMA RowsFinite == log \in Seq(Entry) => AllRows \subseteq Nat /\ IsFiniteSet(AllRows)
BY FS_Interval DEF AllRows

LEMMA EntryType ==
    ASSUME log \in Seq(Entry), NEW s \in AllRows
    PROVE  /\ log[s] \in Entry
           /\ IsOp(s) => log[s] \in OperationEntry
BY DEF AllRows, IsOp, Entry, OtherEntry, OperationEntry

LEMMA NewestAtFact ==
    ASSUME log \in Seq(Entry), NEW E, E \subseteq AllRows, NEW type, NEW at \in Nat
    PROVE  /\ NewestAt(E, type, at) \in Nat
           /\ NewestAt(E, type, at) \in {0} \cup {s \in E : s <= at /\ log[s].type = type}
           /\ \A s \in E : s <= at /\ log[s].type = type => s <= NewestAt(E, type, at)
<1> DEFINE X == {s \in E : s <= at /\ log[s].type = type}
<1>1. X \subseteq 1..Len(log) /\ Len(log) \in Nat
  <2>1. Len(log) \in Nat
    OBVIOUS
  <2> QED BY <2>1 DEF AllRows
<1>2. NewestAt(E, type, at) = MaxOf({0} \cup X)
  BY DEF NewestAt
<1> HIDE DEF X
<1>3. /\ NewestAt(E, type, at) \in {0} \cup X
      /\ \A y \in X : y <= NewestAt(E, type, at)
  BY <1>1, <1>2, MaxOfRows
<1> QED BY <1>1, <1>3 DEF X

LEMMA HeadsAtType ==
    ASSUME log \in Seq(Entry), NEW E, E \subseteq AllRows,
           NEW heads \in [Devices -> Nat], NEW from \in Nat, NEW covered \in Nat
    PROVE  HeadsAt(E, heads, from, covered) \in [Devices -> Nat]
<1> SUFFICES ASSUME NEW d \in Devices
             PROVE  MaxOf({heads[d]} \cup {log[s].counter : s \in {x \in E :
                        x > from /\ x <= covered /\ IsOp(x) /\ log[x].device = d}}) \in Nat
  BY DEF HeadsAt
<1> DEFINE X == {x \in E : x > from /\ x <= covered /\ IsOp(x) /\ log[x].device = d}
           C == {log[s].counter : s \in X}
           f == [s \in X |-> log[s].counter]
<1>1. IsFiniteSet(X)
  BY RowsFinite, FS_Subset
<1>2. C \subseteq Nat
  BY EntryType DEF OperationEntry
<1>3. f \in Surjection(X, C)
  BY DEF Surjection
<1>4. IsFiniteSet(C)
  BY <1>1, <1>3, FS_Surjection
<1>5. IsFiniteSet(C \cup {heads[d]})
  BY <1>4, FS_AddElement
<1>6. C \cup {heads[d]} = {heads[d]} \cup C
  OBVIOUS
<1>7. MaxOf({heads[d]} \cup C) \in {heads[d]} \cup C
  BY <1>2, <1>5, <1>6, MaxOfFact
<1> QED BY <1>2, <1>7

LEMMA LiveAtRows ==
    ASSUME NEW E, NEW r, NEW at
    PROVE  LiveAt(E, r, at) \subseteq E
BY DEF LiveAt

LEMMA SomeRids ==
    ASSUME NEW R, R \subseteq Rids
    PROVE  Cardinality(R) \in Nat
BY FS_Subset, FS_CardinalityType, ConstantsAssumption DEF ConstantsAssumption

LEMMA LatestType ==
    checkpoints \in Seq(Checkpoint) => Latest \in Checkpoint
<1> SUFFICES ASSUME checkpoints \in Seq(Checkpoint) PROVE Latest \in Checkpoint
  OBVIOUS
<1>1. CASE checkpoints = <<>>
  BY <1>1 DEF Latest, NoCheckpoint, Checkpoint, Body
<1>2. CASE checkpoints # <<>>
  BY <1>2 DEF Latest
<1> QED BY <1>1, <1>2

LEMMA SignedType ==
    ASSUME log \in Seq(Entry), NEW floor \in Nat, NEW covered \in Nat
    PROVE  Signed(floor, covered) \in Body
<1> DEFINE drops == FloorDrops(AllRows, floor, covered)
           live == [r \in Rids |-> LiveAt(AllRows, r, covered) \ drops]
<1>1. UNION {live[r] : r \in Rids} \in SUBSET Nat
  BY LiveAtRows, RowsFinite
<1>2. Cardinality({r \in Rids : live[r] # {}}) \in Int
  BY SomeRids
<1>3. NoCheckpoint.body.heads \in [Devices -> Nat]
  BY DEF NoCheckpoint
<1>4. HeadsAt(AllRows, NoCheckpoint.body.heads, 0, covered) \in [Devices -> Nat]
  BY <1>3, HeadsAtType
<1>5. NewestAt(AllRows, "policy", covered) \in Nat /\ NewestAt(AllRows, "epoch", covered) \in Nat
  BY NewestAtFact
<1> HIDE DEF live, drops
<1> QED BY <1>1, <1>2, <1>4, <1>5 DEF Signed, Body, live, drops

LEMMA PlannedType ==
    ASSUME log \in Seq(Entry), kept \subseteq AllRows, checkpoints \in Seq(Checkpoint),
           NEW floor \in Nat, NEW covered \in Nat
    PROVE  Planned(floor, covered) \in Body /\ FloorDrops(kept, floor, covered) \in SUBSET Nat
<1> DEFINE drops == FloorDrops(kept, floor, covered)
           touched == Touched(floor, covered)
           after == [r \in touched |-> LiveAt(kept, r, covered) \ drops]
           manifest == {s \in Latest.body.manifest : log[s].rid \notin touched}
                          \cup UNION {after[r] : r \in touched}
           rest == {r \in touched : after[r] # {}}
           before == {r \in touched : LiveAt(kept, r, Latest.covered) # {}}
<1>1. Latest \in Checkpoint
  BY LatestType
<1>2. drops \subseteq kept /\ kept \subseteq Nat
  BY RowsFinite DEF FloorDrops
<1>3. touched \subseteq Rids
  BY EntryType DEF Touched, TouchedByRecords, FloorDrops, OperationEntry
<1>4. manifest \in SUBSET Nat
  <2>1. Latest.body.manifest \subseteq Nat
    BY <1>1 DEF Checkpoint, Body
  <2> QED BY <1>2, <2>1, LiveAtRows
<1>5. Cardinality(rest) \in Nat /\ Cardinality(before) \in Nat
  BY <1>3, SomeRids
<1>6. Latest.body.objects \in Int /\ Latest.body.heads \in [Devices -> Nat] /\ Latest.covered \in Nat
  BY <1>1 DEF Checkpoint, Body
<1>7. HeadsAt(kept, Latest.body.heads, Latest.covered, covered) \in [Devices -> Nat]
  BY <1>6, HeadsAtType
<1>8. NewestAt(kept, "policy", covered) \in Nat /\ NewestAt(kept, "epoch", covered) \in Nat
  BY NewestAtFact
<1>9. Planned(floor, covered) =
        [manifest |-> manifest,
         objects |-> Latest.body.objects + Cardinality(rest) - Cardinality(before),
         heads |-> HeadsAt(kept, Latest.body.heads, Latest.covered, covered),
         policy |-> NewestAt(kept, "policy", covered),
         epoch |-> NewestAt(kept, "epoch", covered)]
  BY DEF Planned
<1>10. Latest.body.objects + Cardinality(rest) - Cardinality(before) \in Int
  BY <1>5, <1>6
<1> HIDE DEF manifest, rest, before
<1>11. Planned(floor, covered) \in Body
  BY <1>4, <1>7, <1>8, <1>9, <1>10 DEF Body
<1> QED BY <1>2, <1>11

-----------------------------------------------------------------------------
(* Every step keeps the types.                                             *)

LEMMA InitType == Init => TypeOK
<1> SUFFICES ASSUME Init PROVE TypeOK
  OBVIOUS
<1>1. log \in Seq(Entry) /\ Len(log) = 2
  BY DEF Init, Entry, OtherEntry
<1>2. kept \subseteq AllRows /\ dropped \subseteq Nat
  BY <1>1 DEF Init, AllRows
<1>3. checkpoints \in Seq(Checkpoint) /\ buckets \subseteq DOMAIN checkpoints
  BY DEF Init
<1>4. chain_heads \in [Devices -> Nat]
  BY DEF Init
<1>5. {retention_floor, pruned_floor, checkpoint_due, entries_since_checkpoint,
        quota_crossings, crossing_seen} \subseteq Nat
  BY ConstantsAssumption DEF Init, ConstantsAssumption
<1>6. plans \subseteq Plan /\ inst \in [Instances -> Pass]
  BY DEF Init, IdlePass, Pass
<1> QED BY <1>1, <1>2, <1>3, <1>4, <1>5, <1>6 DEF TypeOK

\* An appended entry leaves the rows below it as they were.
LEMMA AppendsFact ==
    ASSUME TypeOK, NEW e \in Entry, Appends(e)
    PROVE  /\ log' \in Seq(Entry) /\ Len(log') = Len(log) + 1
           /\ log'[Len(log) + 1] = e
           /\ \A s \in AllRows : log'[s] = log[s]
           /\ AllRows' = AllRows \cup {Len(log) + 1}
           /\ kept' \subseteq AllRows'
           /\ AllRows \subseteq AllRows'
<1>1. log \in Seq(Entry) /\ log' = Append(log, e) /\ kept \subseteq AllRows
      /\ kept' = kept \cup {Len(log) + 1}
  BY DEF TypeOK, Appends
<1>2. log' \in Seq(Entry) /\ Len(log') = Len(log) + 1 /\ Len(log) \in Nat
  BY <1>1
<1>3. log'[Len(log) + 1] = e /\ \A s \in AllRows : log'[s] = log[s]
  BY <1>1 DEF AllRows
<1>4. AllRows' = AllRows \cup {Len(log) + 1}
  BY <1>2 DEF AllRows
<1> QED BY <1>1, <1>2, <1>3, <1>4

LEMMA ProgressType ==
    ASSUME TypeOK, NEW seq \in Nat, NEW dueNow, Progress(seq, dueNow)
    PROVE  {checkpoint_due', entries_since_checkpoint', crossing_seen'} \subseteq Nat
BY DEF TypeOK, Progress, Max2

LEMMA PushType ==
    ASSUME TypeOK, Push
    PROVE  TypeOK'
<1>0. PICK d \in Devices, r \in Rids, delete \in BOOLEAN :
          \E covers \in CoverSets(r) : PushOperation(d, r, delete, covers)
  BY DEF Push
<1>1. PICK covers \in CoverSets(r) : PushOperation(d, r, delete, covers)
  BY <1>0
<1> DEFINE e == [type |-> "operation", device |-> d, counter |-> chain_heads[d] + 1,
                 rid |-> r, delete |-> delete, class |-> ClassOf(r, covers),
                 covers |-> covers]
<1>2. covers \in SUBSET Cover
  <2>1. KnownCovers(r) \subseteq Cover
    BY EntryType DEF KnownCovers, Cover, TypeOK, OperationEntry
  <2> QED BY <2>1 DEF CoverSets
<1>3. e \in Entry
  BY <1>2 DEF Entry, OperationEntry, ClassOf, TypeOK
<1>4. Appends(e)
  BY <1>1 DEF PushOperation
<1>5. Progress(Len(log) + 1, FALSE) /\ Len(log) + 1 \in Nat
  <2>1. Len(log) + 1 \in Nat
    BY DEF TypeOK
  <2> QED BY <1>1, <2>1 DEF PushOperation
<1>6. chain_heads' \in [Devices -> Nat]
  BY <1>1 DEF PushOperation, TypeOK
<1> HIDE DEF e
<1>7. UNCHANGED <<dropped, checkpoints, buckets, retention_floor, pruned_floor,
                   quota_crossings, plans, inst>>
  BY <1>1 DEF PushOperation
<1> QED BY <1>3, <1>4, <1>5, <1>6, <1>7, AppendsFact, ProgressType DEF TypeOK

LEMMA PolicyType ==
    ASSUME TypeOK, PolicyChange
    PROVE  TypeOK'
<1>1. PICK dueNow \in BOOLEAN : AppendPolicy(dueNow)
  BY DEF PolicyChange
<1>2. [type |-> "policy"] \in Entry
  BY DEF Entry, OtherEntry
<1>3. Appends([type |-> "policy"]) /\ Progress(Len(log) + 1, dueNow) /\ Len(log) + 1 \in Nat
  BY <1>1 DEF AppendPolicy, TypeOK
<1>4. UNCHANGED <<dropped, checkpoints, buckets, chain_heads, retention_floor,
                  pruned_floor, quota_crossings, plans, inst>>
  BY <1>1 DEF AppendPolicy
<1> QED BY <1>2, <1>3, <1>4, AppendsFact, ProgressType DEF TypeOK

LEMMA EpochType ==
    ASSUME TypeOK, Rotate
    PROVE  TypeOK'
<1>1. PICK replacement \in BOOLEAN : AppendEpoch(replacement)
  BY DEF Rotate
<1>2. [type |-> "epoch"] \in Entry
  BY DEF Entry, OtherEntry
<1>3. /\ Appends([type |-> "epoch"]) /\ Progress(Len(log) + 1, replacement)
      /\ Len(log) + 1 \in Nat
  BY <1>1 DEF AppendEpoch, TypeOK
<1>4. UNCHANGED <<dropped, checkpoints, buckets, chain_heads, retention_floor,
                  pruned_floor, quota_crossings, plans, inst>>
  BY <1>1 DEF AppendEpoch
<1> QED BY <1>2, <1>3, <1>4, AppendsFact, ProgressType DEF TypeOK

LEMMA CrossType ==
    ASSUME TypeOK, CrossQuota
    PROVE  TypeOK'
BY DEF TypeOK, CrossQuota, AllRows

LEMMA PlanType ==
    ASSUME TypeOK, NEW d \in Devices, NEW covered \in AllRows, NEW floor \in Floors,
           NEW grant \in BOOLEAN, PlanCheckpoint(d, covered, floor, grant)
    PROVE  TypeOK'
<1> DEFINE p == [device |-> d, previous |-> Len(checkpoints), covered |-> covered,
                 floor |-> floor, grant |-> grant, signed |-> Signed(floor, covered),
                 planned |-> Planned(floor, covered),
                 drops |-> FloorDrops(kept, floor, covered)]
<1>1. covered \in Nat /\ floor \in Nat
  <2>1. covered \in Nat
    BY RowsFinite DEF TypeOK
  <2>2. floor \in Nat
    <3>1. \A n \in DOMAIN checkpoints : checkpoints[n] \in Checkpoint
      BY DEF TypeOK
    <3> QED BY <3>1 DEF Floors, Checkpoint
  <2> QED BY <2>1, <2>2
<1>2. Len(checkpoints) \in Nat
  BY DEF TypeOK
<1>3. Signed(floor, covered) \in Body
  BY <1>1, SignedType DEF TypeOK
<1>4. Planned(floor, covered) \in Body /\ FloorDrops(kept, floor, covered) \in SUBSET Nat
  BY <1>1, PlannedType DEF TypeOK
<1>5. p \in Plan
  BY <1>1, <1>2, <1>3, <1>4 DEF Plan
<1>6. plans' = plans \cup {p} /\ UNCHANGED <<log, kept, dropped, checkpoints, buckets,
                                           chain_heads, row, inst>>
  BY DEF PlanCheckpoint
<1> HIDE DEF p
<1> QED BY <1>5, <1>6 DEF TypeOK, row, AllRows

LEMMA SignType ==
    ASSUME TypeOK, Sign \/ SignGrant
    PROVE  TypeOK'
<1>1. PICK d \in Devices, covered \in AllRows, floor \in Floors, grant \in BOOLEAN :
          PlanCheckpoint(d, covered, floor, grant)
  BY DEF Sign, SignGrant
<1> QED BY <1>1, PlanType

LEMMA CommitsType ==
    ASSUME TypeOK, NEW p \in plans, NEW seq \in Nat, Commits(p, seq)
    PROVE  /\ checkpoints' \in Seq(Checkpoint)
           /\ checkpoints' =
                 Append(checkpoints, [seq |-> seq, covered |-> p.covered, floor |-> p.floor,
                                      body |-> p.signed])
           /\ dropped' \subseteq Nat
           /\ buckets' \subseteq DOMAIN checkpoints'
           /\ chain_heads' \in [Devices -> Nat]
           /\ {retention_floor', pruned_floor', checkpoint_due', entries_since_checkpoint',
               quota_crossings', crossing_seen'} \subseteq Nat
           /\ plans' \subseteq Plan
           /\ inst' \in [Instances -> Pass]
<1> DEFINE c == [seq |-> seq, covered |-> p.covered, floor |-> p.floor, body |-> p.signed]
<1>1. p \in Plan
  BY DEF TypeOK
<1>2. c \in Checkpoint
  BY <1>1 DEF Plan, Checkpoint
<1>3. checkpoints' = Append(checkpoints, c) /\ checkpoints \in Seq(Checkpoint)
  BY DEF Commits, TypeOK
<1> HIDE DEF c
<1>4. checkpoints' \in Seq(Checkpoint) /\ Len(checkpoints') = Len(checkpoints) + 1
      /\ Len(checkpoints) \in Nat
  BY <1>2, <1>3
<1>5. buckets' \subseteq DOMAIN checkpoints'
  <2>1. buckets' = buckets \cup {Len(checkpoints) + 1} /\ buckets \subseteq DOMAIN checkpoints
    BY DEF Commits, TypeOK
  <2>2. DOMAIN checkpoints = 1..Len(checkpoints) /\ DOMAIN checkpoints' = 1..Len(checkpoints')
    BY <1>3, <1>4
  <2> QED BY <1>4, <2>1, <2>2
<1>6. dropped' \subseteq Nat
  BY <1>1 DEF Commits, TypeOK, Plan
<1>7. /\ chain_heads' \in [Devices -> Nat]
      /\ {retention_floor', pruned_floor', checkpoint_due', entries_since_checkpoint',
          quota_crossings', crossing_seen'} \subseteq Nat
      /\ plans' \subseteq Plan
      /\ inst' \in [Instances -> Pass]
  BY DEF Commits, TypeOK
<1> QED BY <1>3, <1>4, <1>5, <1>6, <1>7 DEF c

LEMMA CommitType ==
    ASSUME TypeOK, Commit
    PROVE  TypeOK'
<1>1. PICK p \in plans : CommitCheckpoint(p)
  BY DEF Commit
<1>2. [type |-> "checkpoint"] \in Entry
  BY DEF Entry, OtherEntry
<1>3. Appends([type |-> "checkpoint"]) /\ Commits(p, Len(log) + 1)
  BY <1>1 DEF CommitCheckpoint
<1>4. Len(log) + 1 \in Nat
  BY DEF TypeOK
<1>5. log' \in Seq(Entry) /\ kept' \subseteq AllRows'
  BY <1>2, <1>3, AppendsFact
<1> QED BY <1>3, <1>4, <1>5, CommitsType DEF TypeOK

\* A grant's two entries are two appended in order.
LEMMA GrantFact ==
    ASSUME TypeOK, NEW p, GrantCheckpoint(p)
    PROVE  /\ log' \in Seq(Entry) /\ Len(log') = Len(log) + 2
           /\ log'[Len(log) + 1] = [type |-> "policy"]
           /\ log'[Len(log) + 2] = [type |-> "checkpoint"]
           /\ \A s \in AllRows : log'[s] = log[s]
           /\ AllRows' = AllRows \cup {Len(log) + 1, Len(log) + 2}
           /\ kept' \subseteq AllRows'
<1> DEFINE tail == <<[type |-> "policy"], [type |-> "checkpoint"]>>
<1>1. tail \in Seq(Entry) /\ Len(tail) = 2
  BY DEF Entry, OtherEntry
<1>2. log \in Seq(Entry) /\ kept \subseteq AllRows
  BY DEF TypeOK
<1>3. log' = log \o tail /\ kept' = kept \cup {Len(log) + 1, Len(log) + 2}
  BY DEF GrantCheckpoint
<1>4. tail[1] = [type |-> "policy"] /\ tail[2] = [type |-> "checkpoint"]
  OBVIOUS
<1> HIDE DEF tail
<1>5. log' \in Seq(Entry) /\ Len(log') = Len(log) + 2 /\ Len(log) \in Nat
  <2>1. log \o tail \in Seq(Entry)
    BY <1>1, <1>2, ConcatProperties
  <2>2. Len(log \o tail) = Len(log) + Len(tail)
    BY <1>1, <1>2, ConcatProperties
  <2>3. Len(log) \in Nat
    BY <1>2
  <2> QED BY <1>1, <1>3, <2>1, <2>2, <2>3
<1>6. /\ \A s \in AllRows : log'[s] = log[s]
      /\ log'[Len(log) + 1] = tail[1] /\ log'[Len(log) + 2] = tail[2]
  <2>1. \A s \in 1..Len(log) + Len(tail) :
            (log \o tail)[s] = IF s <= Len(log) THEN log[s] ELSE tail[s - Len(log)]
    BY <1>1, <1>2, ConcatProperties, Zenon
  <2>2. \A s \in 1..Len(log) + 2 :
            log'[s] = IF s <= Len(log) THEN log[s] ELSE tail[s - Len(log)]
    BY <1>1, <1>3, <2>1, Zenon
  <2> QED BY <1>5, <2>2 DEF AllRows
<1>7. AllRows' = AllRows \cup {Len(log) + 1, Len(log) + 2}
  BY <1>5 DEF AllRows
<1> QED BY <1>2, <1>3, <1>4, <1>5, <1>6, <1>7

LEMMA CommitGrantType ==
    ASSUME TypeOK, CommitGrant
    PROVE  TypeOK'
<1>1. PICK p \in plans : GrantCheckpoint(p)
  BY DEF CommitGrant
<1>2. Commits(p, Len(log) + 2)
  BY <1>1 DEF GrantCheckpoint
<1>3. Len(log) + 2 \in Nat
  BY DEF TypeOK
<1>4. log' \in Seq(Entry) /\ kept' \subseteq AllRows'
  BY <1>1, GrantFact
<1> QED BY <1>2, <1>3, <1>4, CommitsType DEF TypeOK

LEMMA RefuseType ==
    ASSUME TypeOK, Refuse
    PROVE  TypeOK'
BY DEF TypeOK, Refuse, RefuseCheckpoint, AllRows, row

LEMMA PassesKept ==
    ASSUME TypeOK, NEW i \in Instances, NEW pass \in Pass, SetPass(i, pass)
    PROVE  inst' \in [Instances -> Pass]
BY DEF TypeOK, SetPass

LEMMA MaintainStartType ==
    ASSUME TypeOK, NEW i \in Instances, MaintainStart(i)
    PROVE  TypeOK'
<1>1. [IdlePass EXCEPT !.pc = "persist"] \in Pass
  BY DEF IdlePass, Pass
<1>2. inst' \in [Instances -> Pass]
  BY <1>1, PassesKept DEF MaintainStart
<1> QED BY <1>2 DEF TypeOK, MaintainStart, AllRows, row

\* Over a nonempty set of covered_seqs above the floor.
LEMMA RelieveForced ==
    ASSUME TypeOK, NEW i \in Instances, RelieveStart(i)
    PROVE  \E forced \in Floors \cap Nat :
              SetPass(i, [IdlePass EXCEPT !.pc = "persist", !.forced = forced])
<1> DEFINE all == {checkpoints[n].covered : n \in DOMAIN checkpoints}
           above == all \ 0..retention_floor
           f == [n \in DOMAIN checkpoints |-> checkpoints[n].covered]
<1>1. IsFiniteSet(DOMAIN checkpoints)
  <2>1. DOMAIN checkpoints = 1..Len(checkpoints) /\ Len(checkpoints) \in Int
    BY DEF TypeOK
  <2> QED BY <2>1, FS_Interval
<1>2. f \in Surjection(DOMAIN checkpoints, all)
  BY DEF Surjection
<1>3. IsFiniteSet(all)
  BY <1>1, <1>2, FS_Surjection
<1>4. all \subseteq Nat
  <2>1. \A n \in DOMAIN checkpoints : checkpoints[n] \in Checkpoint
    BY DEF TypeOK
  <2> QED BY <2>1 DEF Checkpoint
<1>5. IsFiniteSet(above) /\ above \subseteq Nat
  BY <1>3, <1>4, FS_Subset
<1>6. above # {} /\ SetPass(i, [IdlePass EXCEPT !.pc = "persist", !.forced = MinOf(above)])
  BY DEF RelieveStart
<1> HIDE DEF above
<1>7. MinOf(above) \in above
  BY <1>5, <1>6, MinOfFact
<1> QED BY <1>5, <1>6, <1>7 DEF above, Floors

LEMMA RelieveType ==
    ASSUME TypeOK, NEW i \in Instances, RelieveStart(i)
    PROVE  TypeOK'
<1>1. PICK forced \in Nat : SetPass(i, [IdlePass EXCEPT !.pc = "persist", !.forced = forced])
  BY RelieveForced
<1>2. [IdlePass EXCEPT !.pc = "persist", !.forced = forced] \in Pass
  BY DEF IdlePass, Pass
<1>3. inst' \in [Instances -> Pass]
  BY <1>1, <1>2, PassesKept
<1> QED BY <1>3 DEF TypeOK, RelieveStart, AllRows, row

LEMMA CrashType ==
    ASSUME TypeOK, NEW i \in Instances, CrashPass(i)
    PROVE  TypeOK'
<1>1. IdlePass \in Pass
  BY DEF IdlePass, Pass
<1>2. inst' \in [Instances -> Pass]
  BY <1>1, PassesKept DEF CrashPass
<1> QED BY <1>2 DEF TypeOK, CrashPass, AllRows, row

LEMMA RuleFloorFact ==
    ASSUME TypeOK
    PROVE  RuleFloor \in {retention_floor} \cup Floors /\ RuleFloor \in Nat
<1> DEFINE C == {checkpoints[n].covered : n \in Retired}
           f == [n \in Retired |-> checkpoints[n].covered]
<1>1. IsFiniteSet(Retired)
  <2>1. DOMAIN checkpoints = 1..Len(checkpoints) /\ Len(checkpoints) \in Int
    BY DEF TypeOK
  <2>2. IsFiniteSet(DOMAIN checkpoints) /\ Retired \subseteq DOMAIN checkpoints
    BY <2>1, FS_Interval DEF Retired
  <2> QED BY <2>2, FS_Subset
<1>2. f \in Surjection(Retired, C)
  BY DEF Surjection
<1>3. IsFiniteSet(C)
  BY <1>1, <1>2, FS_Surjection
<1>4. C \subseteq Nat /\ C \subseteq Floors
  <2>1. \A n \in DOMAIN checkpoints : checkpoints[n] \in Checkpoint
    BY DEF TypeOK
  <2> QED BY <2>1 DEF Checkpoint, Retired, Floors
<1> HIDE DEF C
<1>5. IsFiniteSet(C \cup {retention_floor}) /\ retention_floor \in Nat
  BY <1>3, FS_AddElement DEF TypeOK
<1>6. C \cup {retention_floor} = {retention_floor} \cup C
  OBVIOUS
<1>7. MaxOf({retention_floor} \cup C) \in {retention_floor} \cup C
  BY <1>4, <1>5, <1>6, MaxOfFact
<1> QED BY <1>4, <1>5, <1>7 DEF RuleFloor, C

\* The new floor is the one that stood, 0, a covered_seq or the one the quota gave.
LEMMA PersistFact ==
    ASSUME TypeOK, NEW i \in Instances, PersistFloor(i)
    PROVE  /\ retention_floor' \in {retention_floor, inst[i].forced, Latest.covered} \cup Floors
           /\ retention_floor' \in Nat /\ retention_floor' >= retention_floor
           /\ retention_floor' > retention_floor => retention_floor' <= Latest.covered
<1>1. RuleFloor \in {retention_floor} \cup Floors /\ RuleFloor \in Nat
  BY RuleFloorFact
<1>2. Latest.covered \in Nat
  BY LatestType DEF TypeOK, Checkpoint
<1>3. inst[i].forced \in Nat /\ retention_floor \in Nat
  BY DEF TypeOK, Pass
<1>4. retention_floor' = Max2(retention_floor, Min2(Max2(RuleFloor, inst[i].forced), Latest.covered))
  BY DEF PersistFloor
<1> QED BY <1>1, <1>2, <1>3, <1>4 DEF Max2, Min2

LEMMA PersistType ==
    ASSUME TypeOK, NEW i \in Instances, PersistFloor(i)
    PROVE  TypeOK'
<1>1. [IdlePass EXCEPT !.pc = "prune"] \in Pass
  BY DEF IdlePass, Pass
<1>2. inst' \in [Instances -> Pass]
  BY <1>1, PassesKept DEF PersistFloor
<1>3. retention_floor' \in Nat
  BY PersistFact
<1> QED BY <1>2, <1>3 DEF TypeOK, PersistFloor, AllRows

\* What a batch deletes was prunable.
LEMMA PruneFact ==
    ASSUME TypeOK, NEW i \in Instances, PruneBatch(i)
    PROVE  /\ kept' \subseteq kept
           /\ \A s \in kept \ kept' : PrunableRow(s)
           /\ buckets' \subseteq buckets
           /\ pruned_floor' \in {pruned_floor, retention_floor}
           /\ inst' \in [Instances -> Pass]
<1> DEFINE after == inst[i].after
           batch == Lowest({s \in Prunable : s > after}, Batch)
           full == Cardinality(batch) = Batch
           last == IF batch = {} THEN after ELSE MaxOf(batch)
           cleared == IF full THEN {} ELSE Lowest(Clearable, Batch)
           done == ~full /\ Cardinality(cleared) < Batch
           pass == IF done THEN IdlePass ELSE [inst[i] EXCEPT !.after = last]
<1>1. batch \subseteq Prunable
  BY DEF Lowest
<1>2. last \in Nat
  <2>1. CASE batch = {}
    BY <2>1 DEF TypeOK, Pass
  <2>2. CASE batch # {}
    <3>1. batch \subseteq AllRows
      BY <1>1 DEF Prunable, TypeOK
    <3>2. batch \subseteq Nat /\ IsFiniteSet(batch)
      BY <3>1, RowsFinite, FS_Subset DEF TypeOK
    <3>3. MaxOf(batch) \in batch
      BY <2>2, <3>2, MaxOfFact
    <3> QED BY <2>2, <3>2, <3>3
  <2> QED BY <2>1, <2>2
<1>3. inst[i] \in Pass
  BY DEF TypeOK
<1> HIDE DEF batch, last, done
<1>4. [inst[i] EXCEPT !.after = last] \in Pass
  BY <1>2, <1>3 DEF Pass
<1>5. pass \in Pass
  BY <1>4 DEF IdlePass, Pass
<1>6. /\ kept' = kept \ batch
      /\ buckets' = buckets \ cleared
      /\ pruned_floor' = IF done THEN retention_floor ELSE pruned_floor
      /\ SetPass(i, pass)
  BY DEF PruneBatch, batch, last, done
<1> HIDE DEF cleared, pass
<1>7. inst' \in [Instances -> Pass]
  BY <1>5, <1>6, PassesKept
<1> QED BY <1>1, <1>6, <1>7 DEF Prunable

LEMMA PruneType ==
    ASSUME TypeOK, NEW i \in Instances, PruneBatch(i)
    PROVE  TypeOK'
BY PruneFact DEF TypeOK, PruneBatch, AllRows

\* TypeOK is inductive, stuttering included.
LEMMA NextType == TypeOK /\ [Next]_vars => TypeOK'
<1> SUFFICES ASSUME TypeOK, [Next]_vars PROVE TypeOK'
  OBVIOUS
<1>1. CASE Push
  BY <1>1, PushType
<1>2. CASE PolicyChange
  BY <1>2, PolicyType
<1>3. CASE Rotate
  BY <1>3, EpochType
<1>4. CASE CrossQuota
  BY <1>4, CrossType
<1>5. CASE Sign \/ SignGrant
  BY <1>5, SignType
<1>6. CASE Commit
  BY <1>6, CommitType
<1>7. CASE CommitGrant
  BY <1>7, CommitGrantType
<1>8. CASE Refuse
  BY <1>8, RefuseType
<1>9. ASSUME NEW i \in Instances, Maintain(i) \/ RelieveStart(i) \/ CrashPass(i)
      PROVE  TypeOK'
  BY <1>9, MaintainStartType, PersistType, PruneType, RelieveType, CrashType DEF Maintain
<1>10. CASE UNCHANGED vars
  BY <1>10 DEF TypeOK, vars, row, AllRows
<1> QED BY <1>1, <1>2, <1>3, <1>4, <1>5, <1>6, <1>7, <1>8, <1>9, <1>10 DEF Next

\* The type invariant.
THEOREM TypeInvariant == Spec => []TypeOK
<1>1. Init => TypeOK
  BY InitType
<1>2. TypeOK /\ [Next]_vars => TypeOK'
  BY NextType
<1> QED BY <1>1, <1>2, PTL DEF Spec

-----------------------------------------------------------------------------
(* The floor.                                                              *)

\* Rows go only at or below a floor that an earlier transaction published, and a
\* published floor never falls, whatever else runs at the same time.
THEOREM FloorFirst == Spec => FloorBeforeDelete
<1> DEFINE Step == /\ retention_floor' >= retention_floor
                   /\ \A s \in kept \ kept' : s <= retention_floor
<1>1. ASSUME TypeOK, [Next]_vars PROVE Step \/ UNCHANGED vars
  <2>1. CASE Push
    BY <1>1, <2>1 DEF Push, PushOperation, Appends, TypeOK
  <2>2. CASE PolicyChange \/ Rotate
    BY <1>1, <2>2 DEF PolicyChange, Rotate, AppendPolicy, AppendEpoch, Appends, TypeOK
  <2>3. CASE CrossQuota \/ Sign \/ SignGrant \/ Refuse
    BY <1>1, <2>3 DEF CrossQuota, Sign, SignGrant, PlanCheckpoint, Refuse, RefuseCheckpoint,
                      row, TypeOK
  <2>4. CASE Commit \/ CommitGrant
    <3>1. PICK p \in plans : CommitCheckpoint(p) \/ GrantCheckpoint(p)
      BY <2>4 DEF Commit, CommitGrant
    <3>2. kept \subseteq kept'
      BY <3>1 DEF CommitCheckpoint, GrantCheckpoint, Appends
    <3>3. retention_floor' = retention_floor /\ retention_floor \in Nat
      BY <1>1, <3>1 DEF CommitCheckpoint, GrantCheckpoint, Commits, TypeOK
    <3> QED BY <3>2, <3>3
  <2>5. ASSUME NEW i \in Instances, MaintainStart(i) \/ RelieveStart(i) \/ CrashPass(i)
        PROVE  Step
    BY <1>1, <2>5 DEF MaintainStart, RelieveStart, CrashPass, row, TypeOK
  <2>6. ASSUME NEW i \in Instances, PersistFloor(i)
        PROVE  Step
    BY <1>1, <2>6, PersistFact DEF PersistFloor
  <2>7. ASSUME NEW i \in Instances, PruneBatch(i)
        PROVE  Step
    <3>1. retention_floor' = retention_floor /\ retention_floor \in Nat
      BY <1>1, <2>7 DEF PruneBatch, TypeOK
    <3>2. \A s \in kept \ kept' : PrunableRow(s)
      BY <1>1, <2>7, PruneFact
    <3> QED BY <3>1, <3>2 DEF PrunableRow
  <2> QED BY <1>1, <2>1, <2>2, <2>3, <2>4, <2>5, <2>6, <2>7 DEF Next, Maintain
<1>2. ASSUME TypeOK, [Next]_vars PROVE [Step]_vars
  BY <1>1, <1>2
<1> HIDE DEF Step
<1>3. Spec => [][Step]_vars
  BY <1>2, TypeInvariant, PTL DEF Spec
<1> QED BY <1>3 DEF FloorBeforeDelete, Step

\* Covered_seqs only join the floors a device or the server may know.
LEMMA FloorsGrow ==
    ASSUME TypeOK, [Next]_vars
    PROVE  Floors \subseteq Floors'
<1>1. CASE UNCHANGED checkpoints
  BY <1>1 DEF Floors
<1>2. CASE \E p \in plans, seq \in Nat : Commits(p, seq)
  <2>1. PICK p \in plans, seq \in Nat : Commits(p, seq)
    BY <1>2
  <2> DEFINE c == [seq |-> seq, covered |-> p.covered, floor |-> p.floor, body |-> p.signed]
  <2>2. checkpoints' = Append(checkpoints, c) /\ checkpoints \in Seq(Checkpoint)
    BY <2>1 DEF Commits, TypeOK
  <2>3. c \in Checkpoint
    BY DEF TypeOK, Plan, Checkpoint
  <2> HIDE DEF c
  <2>4. \A n \in DOMAIN checkpoints : n \in DOMAIN checkpoints' /\ checkpoints'[n] = checkpoints[n]
    BY <2>2, <2>3
  <2> QED BY <2>4 DEF Floors
<1>3. (UNCHANGED checkpoints) \/ \E p \in plans, seq \in Nat : Commits(p, seq)
  <2>1. Len(log) + 1 \in Nat /\ Len(log) + 2 \in Nat
    BY DEF TypeOK
  <2> QED BY <2>1 DEF Next, vars, row, Push, PushOperation, PolicyChange, AppendPolicy, Rotate,
                  AppendEpoch, CrossQuota, Sign, SignGrant, PlanCheckpoint, Commit,
                  CommitCheckpoint, CommitGrant, GrantCheckpoint, Refuse, RefuseCheckpoint,
                  Maintain, MaintainStart, PersistFloor, PruneBatch, RelieveStart, CrashPass
<1> QED BY <1>1, <1>2, <1>3

LEMMA InitFloors == Init => FloorsKnown
BY DEF Init, FloorsKnown, Floors, IdlePass

LEMMA NextFloors == TypeOK /\ FloorsKnown /\ [Next]_vars => FloorsKnown'
<1> SUFFICES ASSUME TypeOK, FloorsKnown, [Next]_vars PROVE FloorsKnown'
  OBVIOUS
<1>1. Floors \subseteq Floors' /\ 0 \in Floors
  BY FloorsGrow DEF Floors
<1>2. CASE UNCHANGED <<retention_floor, inst>>
  BY <1>1, <1>2 DEF FloorsKnown
<1>3. ASSUME NEW i \in Instances, NEW pass \in Pass, SetPass(i, pass), pass.forced \in Floors
      PROVE  \A j \in Instances : inst'[j].forced \in Floors
  BY <1>3 DEF SetPass, FloorsKnown, TypeOK
<1>4. /\ IdlePass \in Pass /\ [IdlePass EXCEPT !.pc = "persist"] \in Pass
      /\ [IdlePass EXCEPT !.pc = "prune"] \in Pass
      /\ IdlePass.forced = 0 /\ [IdlePass EXCEPT !.pc = "persist"].forced = 0
      /\ [IdlePass EXCEPT !.pc = "prune"].forced = 0
  BY DEF IdlePass, Pass
<1>5. ASSUME NEW i \in Instances, MaintainStart(i) \/ CrashPass(i)
      PROVE  FloorsKnown'
  BY <1>1, <1>3, <1>4, <1>5 DEF MaintainStart, CrashPass, row, FloorsKnown
<1>6. ASSUME NEW i \in Instances, RelieveStart(i)
      PROVE  FloorsKnown'
  <2>1. PICK forced \in Floors \cap Nat :
            SetPass(i, [IdlePass EXCEPT !.pc = "persist", !.forced = forced])
    BY <1>6, RelieveForced
  <2>2. /\ [IdlePass EXCEPT !.pc = "persist", !.forced = forced] \in Pass
        /\ [IdlePass EXCEPT !.pc = "persist", !.forced = forced].forced = forced
    BY DEF IdlePass, Pass
  <2>3. \A j \in Instances : inst'[j].forced \in Floors
    BY <1>3, <2>1, <2>2
  <2> QED BY <1>1, <1>6, <2>3 DEF RelieveStart, row, FloorsKnown
<1>7. ASSUME NEW i \in Instances, PersistFloor(i)
      PROVE  FloorsKnown'
  <2>1. Latest.covered \in Floors
    BY DEF Latest, NoCheckpoint, Floors, TypeOK
  <2>2. retention_floor' \in Floors
    BY <1>7, <2>1, PersistFact DEF FloorsKnown
  <2>3. \A j \in Instances : inst'[j].forced \in Floors
    BY <1>1, <1>3, <1>4, <1>7 DEF PersistFloor
  <2> QED BY <1>1, <2>2, <2>3 DEF FloorsKnown
<1>8. ASSUME NEW i \in Instances, PruneBatch(i)
      PROVE  FloorsKnown'
  <2>1. inst' \in [Instances -> Pass] /\ retention_floor' = retention_floor
    BY <1>8, PruneFact DEF PruneBatch
  <2>2. PICK pass : SetPass(i, pass) /\ pass.forced \in {0, inst[i].forced}
    BY <1>8 DEF PruneBatch, IdlePass, TypeOK, Pass
  <2>3. \A j \in Instances : inst'[j].forced \in Floors
    BY <1>1, <2>2 DEF SetPass, FloorsKnown, TypeOK
  <2> QED BY <1>1, <2>1, <2>3 DEF FloorsKnown
<1>9. (UNCHANGED <<retention_floor, inst>>) \/ \E i \in Instances :
          MaintainStart(i) \/ PersistFloor(i) \/ PruneBatch(i) \/ RelieveStart(i) \/ CrashPass(i)
  BY DEF Next, vars, row, Push, PushOperation, PolicyChange, AppendPolicy, Rotate,
         AppendEpoch, CrossQuota, Sign, SignGrant, PlanCheckpoint, Commit,
         CommitCheckpoint, CommitGrant, GrantCheckpoint, Commits, Refuse, RefuseCheckpoint,
         Maintain
<1> QED BY <1>2, <1>5, <1>6, <1>7, <1>8, <1>9

\* A published floor always has a checkpoint at it that the store can serve.
THEOREM FloorServable == Spec => []FloorIsServable
<1>1. Init => FloorsKnown
  BY InitFloors
<1>2. TypeOK /\ FloorsKnown /\ [Next]_vars => FloorsKnown'
  BY NextFloors
<1>3. TypeOK /\ FloorsKnown => FloorIsServable
  BY DEF TypeOK, FloorsKnown, Floors, FloorIsServable, Servable
<1> QED BY <1>1, <1>2, <1>3, TypeInvariant, PTL DEF Spec

=============================================================================
