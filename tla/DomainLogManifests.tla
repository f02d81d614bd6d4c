------------------------- MODULE DomainLogManifests -------------------------
(***************************************************************************)
(* Whatever any number of instances prunes while pushes, checkpoints and   *)
(* floors go on, no row that a servable checkpoint or the head needs is    *)
(* deleted: the inductive invariant of DomainLog, and what follows.        *)
(***************************************************************************)
EXTENDS DomainLogProofs

-----------------------------------------------------------------------------
(* Steps.                                                                  *)

\* No step changes an entry that was appended.
LEMMA LogGrows ==
    ASSUME TypeOK, [Next]_vars
    PROVE  /\ Len(log) \in Nat /\ Len(log') \in Nat /\ Len(log) <= Len(log')
           /\ AllRows \subseteq AllRows'
           /\ \A s \in AllRows : log'[s] = log[s]
<1>1. CASE \E e \in Entry : Appends(e)
  BY <1>1, AppendsFact DEF TypeOK
<1>2. CASE \E p \in plans : GrantCheckpoint(p)
  BY <1>2, GrantFact DEF TypeOK
<1>3. CASE UNCHANGED log
  BY <1>3 DEF TypeOK, AllRows
<1>4. CASE Push
  <2>1. UNCHANGED plans
    BY <1>4 DEF Push, PushOperation
  <2>2. PICK d \in Devices, r \in Rids, delete \in BOOLEAN :
            \E covers \in CoverSets(r) : PushOperation(d, r, delete, covers)
    BY <1>4 DEF Push
  <2>3. PICK covers \in CoverSets(r) : PushOperation(d, r, delete, covers)
    BY <2>2
  <2>4. KnownCovers(r) \subseteq Cover
    BY EntryType DEF KnownCovers, Cover, TypeOK, OperationEntry
  <2>5. [type |-> "operation", device |-> d, counter |-> chain_heads[d] + 1,
         rid |-> r, delete |-> delete, class |-> ClassOf(r, covers),
         covers |-> covers] \in Entry
    BY <2>4 DEF CoverSets, Entry, OperationEntry, ClassOf, TypeOK
  <2> QED BY <1>1, <2>3, <2>5 DEF PushOperation
<1>5. CASE PolicyChange \/ Rotate \/ Commit
  <2>1. \A type \in {"policy", "epoch", "checkpoint"} : [type |-> type] \in Entry
    BY DEF Entry, OtherEntry
  <2> QED BY <1>1, <1>5, <2>1 DEF PolicyChange, AppendPolicy, Rotate, AppendEpoch, Commit,
                                  CommitCheckpoint
<1>6. CASE CommitGrant
  BY <1>2, <1>6 DEF CommitGrant
<1> QED BY <1>3, <1>4, <1>5, <1>6 DEF Next, vars, row, CrossQuota, Sign, SignGrant, PlanCheckpoint,
           Refuse, RefuseCheckpoint, Maintain, MaintainStart, PersistFloor, PruneBatch,
           RelieveStart, CrashPass

\* A step that neither plans nor commits a checkpoint, moves the floor nor prunes.
Quiet ==
    /\ UNCHANGED <<dropped, checkpoints, retention_floor>>
    /\ plans' \subseteq plans
    /\ kept' = kept \cup (AllRows' \ AllRows)

LEMMA StepKinds ==
    ASSUME TypeOK, [Next]_vars
    PROVE  \/ Quiet \/ Sign \/ SignGrant \/ Commit \/ CommitGrant
           \/ \E i \in Instances : PersistFloor(i) \/ PruneBatch(i)
<1>1. kept \subseteq AllRows /\ Len(log) \in Nat /\ log \in Seq(Entry)
  BY DEF TypeOK
<1>2. ASSUME NEW e, Appends(e)
      PROVE  kept' = kept \cup (AllRows' \ AllRows)
  <2>1. Len(log') = Len(log) + 1 /\ kept' = kept \cup {Len(log) + 1}
    BY <1>1, <1>2 DEF Appends
  <2>2. AllRows' = AllRows \cup {Len(log) + 1} /\ Len(log) + 1 \notin AllRows
    BY <1>1, <2>1 DEF AllRows
  <2> QED BY <2>1, <2>2
<1>3. CASE Push
  <2>1. \E e : Appends(e)
    BY <1>3 DEF Push, PushOperation
  <2>2. UNCHANGED <<dropped, checkpoints, retention_floor, plans>>
    BY <1>3 DEF Push, PushOperation
  <2> QED BY <1>2, <2>1, <2>2 DEF Quiet
<1>4. CASE PolicyChange \/ Rotate
  BY <1>2, <1>4 DEF PolicyChange, Rotate, AppendPolicy, AppendEpoch, Quiet
<1>5. CASE UNCHANGED <<log, kept, dropped, checkpoints, retention_floor>> /\ plans' \subseteq plans
  BY <1>1, <1>5 DEF Quiet, AllRows
<1> QED BY <1>3, <1>4, <1>5 DEF Next, vars, row, CrossQuota, Refuse, RefuseCheckpoint, Maintain,
                            MaintainStart, RelieveStart, CrashPass

\* What either kind of commit does.
LEMMA CommitOf ==
    ASSUME TypeOK, NEW p \in plans, CommitCheckpoint(p) \/ GrantCheckpoint(p)
    PROVE  \E c \in Checkpoint :
              /\ ~Stale(p) /\ Matches(p)
              /\ c.covered = p.covered /\ c.floor = p.floor /\ c.body = p.signed
              /\ c.seq = Len(log') /\ Len(log) < Len(log')
              /\ checkpoints' = Append(checkpoints, c)
              /\ dropped' = dropped \cup p.drops
              /\ plans' \subseteq plans
              /\ retention_floor' = retention_floor
              /\ kept' = kept \cup (AllRows' \ AllRows)
<1>1. CommitCheckpoint(p) \/ GrantCheckpoint(p)
  OBVIOUS
<1>2. p \in Plan /\ Len(log) \in Nat /\ kept \subseteq AllRows
  BY DEF TypeOK
<1>3. ~Stale(p) /\ Matches(p)
  BY <1>1 DEF CommitCheckpoint, GrantCheckpoint
<1>4. /\ Commits(p, Len(log')) /\ Len(log) < Len(log') /\ Len(log') \in Nat
      /\ kept' = kept \cup (AllRows' \ AllRows)
  <2>1. CASE CommitCheckpoint(p)
    <3>1. [type |-> "checkpoint"] \in Entry
      BY DEF Entry, OtherEntry
    <3>2. Len(log') = Len(log) + 1 /\ AllRows' = AllRows \cup {Len(log) + 1}
      BY <2>1, <3>1, AppendsFact DEF CommitCheckpoint
    <3>3. Len(log) + 1 \notin AllRows
      BY <1>2 DEF AllRows
    <3> QED BY <1>2, <2>1, <3>2, <3>3 DEF CommitCheckpoint, Appends
  <2>2. CASE GrantCheckpoint(p)
    <3>1. Len(log') = Len(log) + 2 /\ AllRows' = AllRows \cup {Len(log) + 1, Len(log) + 2}
      BY <2>2, GrantFact
    <3>2. Len(log) + 1 \notin AllRows /\ Len(log) + 2 \notin AllRows
      BY <1>2 DEF AllRows
    <3> QED BY <1>2, <2>2, <3>1, <3>2 DEF GrantCheckpoint
  <2> QED BY <1>1, <2>1, <2>2
<1> DEFINE c == [seq |-> Len(log'), covered |-> p.covered, floor |-> p.floor, body |-> p.signed]
<1>5. c \in Checkpoint
  BY <1>2, <1>4 DEF Plan, Checkpoint
<1>6. /\ checkpoints' = Append(checkpoints, c)
      /\ dropped' = dropped \cup p.drops
      /\ plans' \subseteq plans
      /\ retention_floor' = retention_floor
  BY <1>4 DEF Commits
<1>7. c.covered = p.covered /\ c.floor = p.floor /\ c.body = p.signed /\ c.seq = Len(log')
  OBVIOUS
<1> HIDE DEF c
<1> QED BY <1>3, <1>4, <1>5, <1>6, <1>7

LEMMA CommitFact ==
    ASSUME TypeOK, Commit \/ CommitGrant
    PROVE  \E p \in plans, c \in Checkpoint :
              /\ ~Stale(p) /\ Matches(p)
              /\ c.covered = p.covered /\ c.floor = p.floor /\ c.body = p.signed
              /\ c.seq = Len(log') /\ Len(log) < Len(log')
              /\ checkpoints' = Append(checkpoints, c)
              /\ dropped' = dropped \cup p.drops
              /\ plans' \subseteq plans
              /\ retention_floor' = retention_floor
              /\ kept' = kept \cup (AllRows' \ AllRows)
<1>1. PICK p \in plans : CommitCheckpoint(p) \/ GrantCheckpoint(p)
  BY DEF Commit, CommitGrant
<1> QED BY <1>1, CommitOf

\* What an operation at or below the head covers is settled.
LEMMA CoveredSettled ==
    ASSUME TypeOK, [Next]_vars, NEW s \in AllRows, NEW at \in Nat, at <= Len(log)
    PROVE  CoveredAt(AllRows, s, at)' <=> CoveredAt(AllRows, s, at)
<1>1. ASSUME NEW c \in AllRows
      PROVE  Covers(c, s)' <=> Covers(c, s)
  BY LogGrows DEF Covers, IsOp
<1>2. \A c \in AllRows' : c <= at => c \in AllRows
  BY LogGrows DEF AllRows
<1> QED BY <1>1, <1>2, LogGrows DEF CoveredAt

LEMMA OpenSettled ==
    ASSUME TypeOK, [Next]_vars, NEW s, NEW at \in Nat, at <= Len(log), OpenAt(s, at)
    PROVE  OpenAt(s, at)'
<1>1. s \in AllRows /\ IsOp(s) /\ s <= at /\ ~CoveredAt(AllRows, s, at)
  BY DEF OpenAt
<1>2. ~CoveredAt(AllRows, s, at)'
  BY <1>1, CoveredSettled
<1>3. s \in AllRows' /\ IsOp(s)'
  BY <1>1, LogGrows DEF IsOp
<1> QED BY <1>1, <1>2, <1>3 DEF OpenAt

\* Each checkpoint starts at or above the ones before it.
LEMMA LatestTop ==
    ASSUME TypeOK, CheckpointsInOrder, checkpoints # <<>>
    PROVE  /\ Len(checkpoints) \in DOMAIN checkpoints
           /\ Latest = checkpoints[Len(checkpoints)]
           /\ \A n \in DOMAIN checkpoints :
                 /\ checkpoints[n].seq <= Latest.seq
                 /\ checkpoints[n].covered <= Latest.covered
                 /\ checkpoints[n].floor <= Latest.floor
<1>1. Len(checkpoints) \in DOMAIN checkpoints /\ Latest = checkpoints[Len(checkpoints)]
  BY DEF TypeOK, Latest
<1>2. ASSUME NEW n \in DOMAIN checkpoints
      PROVE  /\ checkpoints[n].seq <= Latest.seq
             /\ checkpoints[n].covered <= Latest.covered
             /\ checkpoints[n].floor <= Latest.floor
  <2>1. \A m \in DOMAIN checkpoints : checkpoints[m] \in Checkpoint
    BY DEF TypeOK
  <2>2. n = Len(checkpoints) \/ n < Len(checkpoints)
    BY DEF TypeOK
  <2>3. CASE n = Len(checkpoints)
    BY <1>1, <2>1, <2>3 DEF Checkpoint
  <2>4. CASE n < Len(checkpoints)
    <3>1. /\ checkpoints[n].seq <= Latest.covered /\ checkpoints[n].floor <= Latest.floor
          /\ Latest.covered < Latest.seq /\ checkpoints[n].covered < checkpoints[n].seq
      BY <1>1, <2>4 DEF CheckpointsInOrder
    <3>2. checkpoints[n] \in Checkpoint /\ Latest \in Checkpoint
      BY <1>1, <2>1
    <3> QED BY <3>1, <3>2 DEF Checkpoint
  <2> QED BY <2>2, <2>3, <2>4
<1> QED BY <1>1, <1>2

\* The floor stays below the head and the latest checkpoint.
LEMMA FloorBelow ==
    ASSUME TypeOK, FloorsKnown, CheckpointsInOrder
    PROVE  /\ retention_floor \in Nat /\ retention_floor <= Len(log)
           /\ retention_floor <= Latest.covered
<1>1. retention_floor \in Nat /\ Len(log) \in Nat
  BY DEF TypeOK
<1>2. Latest \in Checkpoint
  BY LatestType DEF TypeOK
<1>3. CASE retention_floor = 0
  BY <1>1, <1>2, <1>3 DEF Checkpoint
<1>4. CASE retention_floor # 0
  <2>1. PICK n \in DOMAIN checkpoints : retention_floor = checkpoints[n].covered
    BY <1>4 DEF FloorsKnown, Floors
  <2>2. checkpoints[n] \in Checkpoint /\ checkpoints # <<>>
    BY <2>1 DEF TypeOK
  <2>3. checkpoints[n].covered < checkpoints[n].seq /\ checkpoints[n].seq <= Len(log)
    BY DEF CheckpointsInOrder
  <2>4. retention_floor <= Len(log)
    BY <1>1, <2>1, <2>2, <2>3 DEF Checkpoint
  <2>5. retention_floor <= Latest.covered
    BY <2>1, <2>2, LatestTop
  <2> QED BY <1>1, <2>4, <2>5
<1> QED BY <1>3, <1>4

-----------------------------------------------------------------------------
(* Every step keeps the invariant.                                         *)

LEMMA InitInductive == Init => Inductive
<1> SUFFICES ASSUME Init PROVE Inductive
  OBVIOUS
<1>1. TypeOK /\ FloorsKnown
  BY InitType, InitFloors
<1>2. CheckpointsInOrder /\ ManifestsOpen /\ PlansOpen
  BY DEF Init, CheckpointsInOrder, ManifestsOpen, PlansOpen
<1>3. Len(log) = 2 /\ log[1].type = "policy" /\ log[2].type = "epoch" /\ AllRows = {1, 2}
      /\ kept = {1, 2}
  BY DEF Init, AllRows
<1>4. GoneForGood
  BY <1>3 DEF GoneForGood
<1>5. ASSUME NEW type \in {"policy", "epoch"}, NEW at \in AllRows, 2 <= at
      PROVE  NewestAt(AllRows, type, at) \in kept
  <2>1. at \in Nat /\ log \in Seq(Entry)
    BY <1>1, <1>3 DEF TypeOK
  <2>2. NewestAt(AllRows, type, at) \in {0} \cup {s \in AllRows : s <= at /\ log[s].type = type}
    BY <2>1, NewestAtFact
  <2>3. \A s \in AllRows : s <= at /\ log[s].type = type => s <= NewestAt(AllRows, type, at)
    BY <2>1, NewestAtFact
  <2>4. \E s \in AllRows : s <= at /\ log[s].type = type
    BY <1>3, <1>5
  <2> QED BY <1>3, <2>2, <2>3, <2>4
<1>6. NamesAbove
  BY <1>3, <1>5 DEF NamesAbove
<1> QED BY <1>1, <1>2, <1>4, <1>6 DEF Inductive

\* A step leaves the checkpoints alone, or a commit adds one.
LEMMA CheckpointsStep ==
    ASSUME TypeOK, [Next]_vars
    PROVE  UNCHANGED <<checkpoints, dropped>> \/ Commit \/ CommitGrant
BY StepKinds DEF Quiet, Sign, SignGrant, PlanCheckpoint, PersistFloor, PruneBatch

\* The checkpoints a commit leaves: those there were, and a new one.
LEMMA CommitCheckpoints ==
    ASSUME TypeOK, NEW c \in Checkpoint, checkpoints' = Append(checkpoints, c)
    PROVE  /\ DOMAIN checkpoints = 1..Len(checkpoints) /\ Len(checkpoints) \in Nat
           /\ Len(checkpoints') = Len(checkpoints) + 1
           /\ DOMAIN checkpoints' = 1..Len(checkpoints) + 1
           /\ checkpoints'[Len(checkpoints) + 1] = c
           /\ \A n \in DOMAIN checkpoints : checkpoints'[n] = checkpoints[n]
<1>1. checkpoints \in Seq(Checkpoint)
  BY DEF TypeOK
<1> QED BY <1>1

LEMMA NextOrder ==
    ASSUME Inductive, [Next]_vars
    PROVE  CheckpointsInOrder'
<1> USE DEF Inductive
<1>1. CASE UNCHANGED checkpoints
  <2>1. \A n \in DOMAIN checkpoints : checkpoints[n] \in Checkpoint
    BY DEF TypeOK
  <2> QED BY <1>1, <2>1, LogGrows DEF CheckpointsInOrder, Checkpoint
<1>2. CASE Commit \/ CommitGrant
  <2>1. PICK p \in plans, c \in Checkpoint :
              /\ ~Stale(p) /\ Matches(p)
              /\ c.covered = p.covered /\ c.floor = p.floor /\ c.body = p.signed
              /\ c.seq = Len(log') /\ Len(log) < Len(log')
              /\ checkpoints' = Append(checkpoints, c)
              /\ dropped' = dropped \cup p.drops
              /\ plans' \subseteq plans
              /\ retention_floor' = retention_floor
              /\ kept' = kept \cup (AllRows' \ AllRows)
    BY <1>2, CommitFact
  <2>2. /\ 2 <= c.covered /\ c.covered <= Len(log)
        /\ c.covered >= Latest.seq /\ c.floor >= Latest.floor
    BY <2>1 DEF PlansOpen
  <2> DEFINE L == Len(checkpoints)
  <2>3. /\ DOMAIN checkpoints = 1..L /\ L \in Nat
        /\ DOMAIN checkpoints' = 1..L + 1 /\ checkpoints'[L + 1] = c
        /\ \A n \in DOMAIN checkpoints : checkpoints'[n] = checkpoints[n]
    BY <2>1, CommitCheckpoints
  <2> HIDE DEF L
  <2>4. \A n \in DOMAIN checkpoints : checkpoints[n] \in Checkpoint
    BY DEF TypeOK
  <2>5. ASSUME NEW n \in DOMAIN checkpoints'
        PROVE  /\ 2 <= checkpoints'[n].covered
               /\ checkpoints'[n].covered < checkpoints'[n].seq
               /\ checkpoints'[n].seq <= Len(log')
    <3>1. CASE n \in DOMAIN checkpoints
      BY <2>3, <2>4, <3>1, LogGrows DEF CheckpointsInOrder, Checkpoint
    <3>2. CASE n = L + 1
      BY <2>1, <2>2, <2>3, <3>2, LogGrows DEF Checkpoint
    <3> QED BY <2>3, <3>1, <3>2
  <2>6. ASSUME NEW m \in DOMAIN checkpoints', NEW n \in DOMAIN checkpoints', m < n
        PROVE  /\ checkpoints'[m].seq <= checkpoints'[n].covered
               /\ checkpoints'[m].floor <= checkpoints'[n].floor
    <3>1. m \in DOMAIN checkpoints
      BY <2>3, <2>6
    <3>2. CASE n \in DOMAIN checkpoints
      BY <2>3, <2>6, <3>1, <3>2 DEF CheckpointsInOrder
    <3>3. CASE n = L + 1
      <4>1. checkpoints[m].seq <= Latest.seq /\ checkpoints[m].floor <= Latest.floor
        BY <3>1, LatestTop DEF TypeOK
      <4>2. Latest \in Checkpoint
        BY LatestType DEF TypeOK
      <4> QED BY <2>2, <2>3, <2>4, <3>1, <3>3, <4>1, <4>2 DEF Checkpoint
    <3> QED BY <2>3, <3>2, <3>3
  <2> QED BY <2>5, <2>6 DEF CheckpointsInOrder
<1> QED BY <1>1, <1>2, CheckpointsStep

LEMMA NextManifests ==
    ASSUME Inductive, [Next]_vars
    PROVE  ManifestsOpen'
<1>0. TypeOK /\ CheckpointsInOrder /\ ManifestsOpen /\ PlansOpen
  BY DEF Inductive
<1>1. ASSUME NEW n \in DOMAIN checkpoints, NEW s \in checkpoints[n].body.manifest
      PROVE  /\ \E at \in Nat : at = checkpoints[n].covered /\ OpenAt(s, at)'
             /\ s \in Nat
             /\ s \in dropped => s > checkpoints[n].floor
  <2>1. checkpoints[n] \in Checkpoint
    BY <1>0 DEF TypeOK
  <2>2. PICK at \in Nat : at = checkpoints[n].covered
    BY <2>1 DEF Checkpoint
  <2>3. at <= Len(log)
    BY <1>0, <2>1, <2>2 DEF CheckpointsInOrder, TypeOK, Checkpoint
  <2>4. OpenAt(s, at) /\ (s \in dropped => s > checkpoints[n].floor)
    BY <1>0, <2>2 DEF ManifestsOpen
  <2>5. OpenAt(s, at)'
    BY <1>0, <2>3, <2>4, OpenSettled
  <2>6. s \in Nat
    BY <2>4, RowsFinite, <1>0 DEF OpenAt, TypeOK
  <2> QED BY <2>2, <2>4, <2>5, <2>6
<1>2. CASE UNCHANGED <<checkpoints, dropped>>
  <2> SUFFICES ASSUME NEW n \in DOMAIN checkpoints, NEW s \in checkpoints[n].body.manifest
               PROVE  /\ OpenAt(s, checkpoints[n].covered)'
                      /\ s \in dropped => s > checkpoints[n].floor
    BY <1>2 DEF ManifestsOpen
  <2>1. PICK at \in Nat : at = checkpoints[n].covered /\ OpenAt(s, at)'
    BY <1>1
  <2>2. checkpoints'[n].covered = at
    BY <1>2, <2>1
  <2> QED BY <1>1, <2>1, <2>2 DEF OpenAt, CoveredAt
<1>3. CASE Commit \/ CommitGrant
  <2>1. PICK p \in plans, c \in Checkpoint :
              /\ ~Stale(p) /\ Matches(p)
              /\ c.covered = p.covered /\ c.floor = p.floor /\ c.body = p.signed
              /\ c.seq = Len(log') /\ Len(log) < Len(log')
              /\ checkpoints' = Append(checkpoints, c)
              /\ dropped' = dropped \cup p.drops
              /\ plans' \subseteq plans
              /\ retention_floor' = retention_floor
              /\ kept' = kept \cup (AllRows' \ AllRows)
    BY <1>0, <1>3, CommitFact
  <2>2. /\ p.drops \cap p.signed.manifest = {}
        /\ \A s \in p.drops : s > Latest.floor
        /\ p.covered <= Len(log)
        /\ \A s \in p.signed.manifest : OpenAt(s, p.covered) /\ s \notin dropped
    BY <1>0, <2>1 DEF PlansOpen
  <2> DEFINE L == Len(checkpoints)
  <2>3. /\ DOMAIN checkpoints = 1..L /\ L \in Nat
        /\ DOMAIN checkpoints' = 1..L + 1 /\ checkpoints'[L + 1] = c
        /\ \A n \in DOMAIN checkpoints : checkpoints'[n] = checkpoints[n]
    BY <1>0, <2>1, CommitCheckpoints
  <2> HIDE DEF L
  <2> SUFFICES ASSUME NEW n \in DOMAIN checkpoints', NEW s \in checkpoints'[n].body.manifest
               PROVE  /\ OpenAt(s, checkpoints[n].covered)'
                      /\ s \in dropped' => s > checkpoints'[n].floor
    BY DEF ManifestsOpen
  <2>4. CASE n \in DOMAIN checkpoints
    <3>1. s \in checkpoints[n].body.manifest /\ checkpoints'[n] = checkpoints[n]
      BY <2>3, <2>4
    <3>2. PICK at \in Nat : at = checkpoints[n].covered /\ OpenAt(s, at)'
      BY <1>1, <2>4, <3>1
    <3>3. checkpoints'[n].covered = at
      BY <3>1, <3>2
    <3>4. OpenAt(s, checkpoints[n].covered)'
      BY <3>2, <3>3 DEF OpenAt, CoveredAt
    <3>5. checkpoints[n].floor <= Latest.floor
      BY <1>0, <2>4, LatestTop DEF TypeOK
    <3>6. checkpoints[n].floor \in Nat /\ Latest.floor \in Nat
      <4>1. checkpoints[n] \in Checkpoint /\ Latest \in Checkpoint
        BY <1>0, <2>4, LatestType DEF TypeOK
      <4> QED BY <4>1 DEF Checkpoint
    <3>7. s \in p.drops => s > checkpoints[n].floor
      BY <1>1, <2>2, <2>4, <3>1, <3>5, <3>6
    <3> QED BY <1>1, <2>1, <2>4, <3>1, <3>4, <3>7
  <2>5. CASE n = L + 1
    <3>1. s \in p.signed.manifest /\ checkpoints'[n] = c
      BY <2>1, <2>3, <2>5
    <3>2. PICK at \in Nat : at = p.covered
      BY <2>1 DEF Checkpoint
    <3>3. OpenAt(s, at)'
      BY <1>0, <2>2, <3>1, <3>2, OpenSettled
    <3>4. checkpoints'[n].covered = at
      BY <2>1, <3>1, <3>2
    <3>5. OpenAt(s, checkpoints[n].covered)'
      BY <3>3, <3>4 DEF OpenAt, CoveredAt
    <3> QED BY <2>1, <2>2, <3>1, <3>5
  <2> QED BY <2>3, <2>4, <2>5
<1> QED BY <1>0, <1>2, <1>3, CheckpointsStep

\* The server's recomputation leaves out the deletes it drops.
LEMMA PlannedAvoids ==
    ASSUME NEW floor, NEW covered
    PROVE  FloorDrops(kept, floor, covered) \cap Planned(floor, covered).manifest = {}
<1> DEFINE drops == FloorDrops(kept, floor, covered)
           touched == Touched(floor, covered)
           after == [r \in touched |-> LiveAt(kept, r, covered) \ drops]
           manifest == {s \in Latest.body.manifest : log[s].rid \notin touched}
                          \cup UNION {after[r] : r \in touched}
<1>1. Planned(floor, covered).manifest = manifest
  BY DEF Planned
<1>2. ASSUME NEW s \in drops
      PROVE  s \notin manifest
  <2>1. log[s].rid \in touched
    BY DEF Touched
  <2> QED BY <2>1
<1> QED BY <1>1, <1>2

LEMMA SignedOpen ==
    ASSUME NEW floor, NEW covered, NEW s \in Signed(floor, covered).manifest
    PROVE  OpenAt(s, covered) /\ s \notin dropped
<1> DEFINE drops == FloorDrops(AllRows, floor, covered)
           live == [r \in Rids |-> LiveAt(AllRows, r, covered) \ drops]
<1>1. Signed(floor, covered).manifest = UNION {live[r] : r \in Rids}
  BY DEF Signed
<1>2. PICK r \in Rids : s \in LiveAt(AllRows, r, covered)
  BY <1>1
<1> QED BY <1>2 DEF LiveAt, OpenAt

LEMMA NextPlans ==
    ASSUME Inductive, [Next]_vars
    PROVE  PlansOpen'
<1>0. TypeOK /\ PlansOpen /\ NamesAbove
  BY DEF Inductive
<1>1. plans \subseteq Plan /\ Len(checkpoints) \in Nat /\ Len(log) \in Nat
  BY <1>0 DEF TypeOK
<1>2. ASSUME UNCHANGED <<checkpoints, dropped>>, NEW p \in plans
      PROVE  /\ p.previous <= Len(checkpoints')
             /\ 2 <= p.covered /\ p.covered <= Len(log')
             /\ ~Stale(p)' =>
                  /\ p.covered >= Latest'.seq /\ p.floor >= Latest'.floor
                  /\ \A s \in p.drops : s > Latest'.floor
                  /\ Matches(p)' => p.drops \cap p.signed.manifest = {}
                  /\ \A s \in p.signed.manifest : OpenAt(s, p.covered)' /\ s \notin dropped'
  <2>1. Latest' = Latest /\ (Stale(p)' <=> Stale(p)) /\ (Matches(p)' <=> Matches(p))
    BY <1>2 DEF Latest, NoCheckpoint, Stale, Matches
  <2>2. /\ p.previous <= Len(checkpoints) /\ 2 <= p.covered /\ p.covered <= Len(log)
        /\ p.covered \in Nat
    BY <1>0, <1>1, <1>2 DEF PlansOpen, Plan
  <2>3. p.covered <= Len(log')
    BY <1>0, <1>1, <2>2, LogGrows
  <2>4. ASSUME ~Stale(p), NEW s \in p.signed.manifest
        PROVE  OpenAt(s, p.covered)' /\ s \notin dropped'
    <3>1. OpenAt(s, p.covered) /\ s \notin dropped
      BY <1>0, <1>2, <2>4 DEF PlansOpen
    <3> QED BY <1>0, <1>2, <2>2, <3>1, OpenSettled
  <2>5. ~Stale(p) =>
                  /\ p.covered >= Latest.seq /\ p.floor >= Latest.floor
                  /\ \A s \in p.drops : s > Latest.floor
                  /\ Matches(p) => p.drops \cap p.signed.manifest = {}
    BY <1>0, <1>2 DEF PlansOpen
  <2> HIDE DEF Inductive
  <2> QED BY <1>2, <2>1, <2>2, <2>3, <2>4, <2>5
<1>3. CASE UNCHANGED <<checkpoints, dropped>> /\ plans' \subseteq plans
  BY <1>2, <1>3 DEF PlansOpen
<1>4. CASE Sign \/ SignGrant
  <2>1. PICK d \in Devices, covered \in AllRows, floor \in Floors, grant \in BOOLEAN :
            PlanCheckpoint(d, covered, floor, grant)
    BY <1>4 DEF Sign, SignGrant
  <2>0. PICK q :
          q = [device |-> d, previous |-> Len(checkpoints), covered |-> covered,
               floor |-> floor, grant |-> grant, signed |-> Signed(floor, covered),
               planned |-> Planned(floor, covered),
               drops |-> FloorDrops(kept, floor, covered)]
    OBVIOUS
  <2>2. plans' = plans \cup {q} /\ UNCHANGED <<log, kept, dropped, checkpoints>>
    BY <2>0, <2>1 DEF PlanCheckpoint
  <2>3. 2 <= covered /\ covered <= Len(log)
    <3>1. covered \in Nat /\ covered <= Len(log)
      BY <1>1 DEF AllRows
    <3>2. NewestAt(AllRows, "epoch", covered) > 0
      BY <2>1 DEF PlanCheckpoint
    <3>3. NewestAt(AllRows, "epoch", covered)
            \in {0} \cup {s \in AllRows : s <= covered /\ log[s].type = "epoch"}
      <4>1. log \in Seq(Entry) /\ AllRows \subseteq AllRows
        BY <1>0 DEF TypeOK
      <4> QED BY <3>1, <4>1, NewestAtFact, ZenonT(60)
    <3>4. \E s \in AllRows : s <= covered /\ log[s].type = "epoch"
      BY <3>2, <3>3
    <3> QED BY <1>0, <3>1, <3>4 DEF NamesAbove, AllRows
  <2>4. covered >= Latest.seq /\ floor >= Latest.floor
    BY <2>1 DEF PlanCheckpoint, Bounds
  <2>5. \A s \in FloorDrops(kept, floor, covered) : s > Latest.floor
    BY DEF FloorDrops
  <2>6. Planned(floor, covered) = Signed(floor, covered)
          => FloorDrops(kept, floor, covered) \cap Signed(floor, covered).manifest = {}
    BY PlannedAvoids
  <2>7. \A s \in Signed(floor, covered).manifest : OpenAt(s, covered) /\ s \notin dropped
    BY SignedOpen
  <2>8. /\ q.previous = Len(checkpoints) /\ q.covered = covered /\ q.floor = floor
        /\ q.drops = FloorDrops(kept, floor, covered)
        /\ q.signed = Signed(floor, covered) /\ q.planned = Planned(floor, covered)
    BY <2>0
  <2>9. /\ q.previous <= Len(checkpoints')
        /\ 2 <= q.covered /\ q.covered <= Len(log')
        /\ q.covered >= Latest'.seq /\ q.floor >= Latest'.floor
        /\ \A s \in q.drops : s > Latest'.floor
        /\ Matches(q)' => q.drops \cap q.signed.manifest = {}
        /\ \A s \in q.signed.manifest : OpenAt(s, q.covered)' /\ s \notin dropped'
    <3>1. Latest' = Latest
      BY <2>2 DEF Latest, NoCheckpoint
    <3>2. \A s \in q.signed.manifest : OpenAt(s, q.covered)' /\ s \notin dropped'
      BY <2>2, <2>7, <2>8 DEF OpenAt, CoveredAt, Covers, IsOp, AllRows
    <3>3. Matches(q)' => q.drops \cap q.signed.manifest = {}
      BY <2>6, <2>8 DEF Matches
    <3> QED BY <1>1, <2>2, <2>3, <2>4, <2>5, <2>8, <3>1, <3>2, <3>3
  <2> QED BY <1>2, <2>2, <2>9 DEF PlansOpen
<1>5. CASE Commit \/ CommitGrant
  <2>1. PICK c \in Checkpoint : checkpoints' = Append(checkpoints, c) /\ plans' \subseteq plans
    BY <1>0, <1>5, CommitFact
  <2>2. Len(checkpoints') = Len(checkpoints) + 1
    BY <1>0, <2>1, CommitCheckpoints
  <2>3. ASSUME NEW p \in plans'
        PROVE  /\ p.previous <= Len(checkpoints') /\ Stale(p)'
               /\ 2 <= p.covered /\ p.covered <= Len(log')
    <3>1. p \in plans /\ p \in Plan
      BY <1>1, <2>1, <2>3
    <3>2. p.previous <= Len(checkpoints) /\ 2 <= p.covered /\ p.covered <= Len(log)
      BY <1>0, <3>1 DEF PlansOpen
    <3> QED BY <1>0, <1>1, <2>2, <3>1, <3>2, LogGrows DEF Plan, Stale
  <2> QED BY <2>3 DEF PlansOpen
<1>6. plans' \subseteq plans \/ Sign \/ SignGrant \/ Commit \/ CommitGrant
  BY <1>0, StepKinds DEF Quiet, PersistFloor, PruneBatch
<1> QED BY <1>0, <1>3, <1>4, <1>5, <1>6, CheckpointsStep

\* Pruning takes a dropped delete only below the floor of every servable checkpoint.
LEMMA DeleteFloorLowest ==
    ASSUME TypeOK, CheckpointsInOrder, NEW s \in Nat \ {0}, s <= DeleteFloor
    PROVE  checkpoints # <<>> /\ \A n \in Servable : s <= checkpoints[n].floor
<1>1. \A n \in DOMAIN checkpoints : checkpoints[n] \in Checkpoint
  BY DEF TypeOK
<1>2. Servable # {}
  BY DEF DeleteFloor
<1>3. Servable \subseteq Nat /\ IsFiniteSet(Servable)
  <2>1. DOMAIN checkpoints = 1..Len(checkpoints) /\ Len(checkpoints) \in Int
    BY DEF TypeOK
  <2>2. IsFiniteSet(DOMAIN checkpoints)
    BY <2>1, FS_Interval
  <2>3. Servable \subseteq DOMAIN checkpoints
    BY DEF Servable
  <2> QED BY <2>1, <2>2, <2>3, FS_Subset
<1> DEFINE low == MinOf(Servable)
<1>4. low \in Servable /\ \A n \in Servable : low <= n
  BY <1>2, <1>3, MinOfFact
<1>5. low \in DOMAIN checkpoints /\ checkpoints # <<>>
  BY <1>4 DEF Servable, TypeOK
<1>6. s <= checkpoints[low].floor
  <2>1. DeleteFloor = Min2(checkpoints[low].floor, retention_floor)
    BY <1>2 DEF DeleteFloor
  <2>2. checkpoints[low].floor \in Nat /\ retention_floor \in Nat
    BY <1>1, <1>5 DEF TypeOK, Checkpoint
  <2> HIDE DEF low
  <2> QED BY <2>1, <2>2 DEF Min2
<1>7. ASSUME NEW n \in Servable
      PROVE  s <= checkpoints[n].floor
  <2> HIDE DEF low
  <2>1. n \in DOMAIN checkpoints /\ low <= n
    BY <1>4 DEF Servable
  <2>2. n = low \/ low < n
    BY <1>3, <1>4, <2>1
  <2>3. checkpoints[low].floor <= checkpoints[n].floor \/ n = low
    BY <1>5, <2>1, <2>2 DEF CheckpointsInOrder
  <2>4. checkpoints[low].floor \in Nat /\ checkpoints[n].floor \in Nat
    BY <1>1, <1>5, <2>1 DEF Checkpoint
  <2> QED BY <1>6, <2>3, <2>4
<1> QED BY <1>5, <1>7

LEMMA NextGone ==
    ASSUME Inductive, [Next]_vars
    PROVE  GoneForGood'
<1>0. TypeOK /\ FloorsKnown /\ CheckpointsInOrder /\ PlansOpen /\ GoneForGood
  BY DEF Inductive
<1>1. /\ retention_floor \in Nat /\ retention_floor <= Len(log)
      /\ retention_floor <= Latest.covered
  BY <1>0, FloorBelow
<1>2. PICK floor \in Nat : floor = retention_floor
  BY <1>1
<1>3. ASSUME NEW s \in AllRows
      PROVE  /\ IsOp(s)' <=> IsOp(s)
             /\ CoveredAt(AllRows, s, floor)' <=> CoveredAt(AllRows, s, retention_floor)
  BY <1>0, <1>1, <1>2, CoveredSettled, LogGrows DEF IsOp
<1>4. AllRows \subseteq Nat \ {0} /\ kept \subseteq AllRows
  BY <1>0, RowsFinite DEF TypeOK, AllRows
<1>5. \A n \in DOMAIN checkpoints : checkpoints[n] \in Checkpoint
  BY <1>0 DEF TypeOK
<1>6. CASE Quiet \/ Sign \/ SignGrant
  <2>1. AllRows' \ kept' \subseteq AllRows \ kept /\ UNCHANGED <<dropped, checkpoints, retention_floor>>
    BY <1>4, <1>6 DEF Quiet, Sign, SignGrant, PlanCheckpoint, row, AllRows
  <2>2. Servable' = Servable
    BY <2>1 DEF Servable
  <2> QED BY <1>0, <1>2, <1>3, <2>1, <2>2 DEF GoneForGood, Gone, CoveredAt
<1>7. CASE Commit \/ CommitGrant
  <2>1. PICK p \in plans, c \in Checkpoint :
              /\ ~Stale(p) /\ Matches(p)
              /\ c.covered = p.covered /\ c.floor = p.floor /\ c.body = p.signed
              /\ c.seq = Len(log') /\ Len(log) < Len(log')
              /\ checkpoints' = Append(checkpoints, c)
              /\ dropped' = dropped \cup p.drops
              /\ plans' \subseteq plans
              /\ retention_floor' = retention_floor
              /\ kept' = kept \cup (AllRows' \ AllRows)
    BY <1>0, <1>7, CommitFact
  <2> DEFINE L == Len(checkpoints)
  <2>2. /\ DOMAIN checkpoints = 1..L /\ L \in Nat
        /\ DOMAIN checkpoints' = 1..L + 1 /\ checkpoints'[L + 1] = c
        /\ \A n \in DOMAIN checkpoints : checkpoints'[n] = checkpoints[n]
    BY <1>0, <2>1, CommitCheckpoints
  <2>3. c.floor >= Latest.floor
    BY <1>0, <2>1 DEF PlansOpen
  <2> HIDE DEF L
  <2> SUFFICES ASSUME NEW s \in AllRows' \ kept'
               PROVE  s <= retention_floor' /\ Gone(s)'
    BY DEF GoneForGood
  <2>4. s \in AllRows \ kept
    BY <2>1
  <2>5. s <= retention_floor /\ Gone(s)
    BY <1>0, <2>4 DEF GoneForGood
  <2>6. CASE CoveredAt(AllRows, s, retention_floor)
    <3>1. CoveredAt(AllRows, s, retention_floor)'
      BY <1>2, <1>3, <2>1, <2>4, <2>6 DEF CoveredAt
    <3> QED BY <2>1, <2>5, <3>1 DEF Gone
  <2>7. CASE s \in dropped /\ checkpoints # <<>> /\ \A n \in Servable : s <= checkpoints[n].floor
    <3>1. L \in Servable /\ Latest = checkpoints[L]
      BY <1>0, <1>1, <2>7, LatestTop DEF Servable, L
    <3>2. s <= c.floor
      BY <1>4, <1>5, <2>3, <2>4, <2>7, <3>1 DEF Checkpoint, Servable
    <3>3. ASSUME NEW n \in Servable'
          PROVE  s <= checkpoints'[n].floor
      <4>1. CASE n = L + 1
        BY <2>2, <3>2, <4>1
      <4>2. CASE n \in DOMAIN checkpoints
        BY <2>1, <2>2, <2>7, <4>2 DEF Servable
      <4> QED BY <2>2, <4>1, <4>2 DEF Servable
    <3>4. s \in dropped' /\ checkpoints' # <<>>
      BY <2>1, <2>7, <1>0 DEF TypeOK
    <3> QED BY <2>1, <2>5, <3>3, <3>4 DEF Gone
  <2>8. CASE ~IsOp(s)
    BY <1>3, <2>1, <2>4, <2>5, <2>8 DEF Gone
  <2> QED BY <2>5, <2>6, <2>7, <2>8 DEF Gone
<1>8. ASSUME NEW i \in Instances, PersistFloor(i)
      PROVE  GoneForGood'
  <2>1. UNCHANGED <<log, kept, dropped, checkpoints>>
    BY <1>8 DEF PersistFloor
  <2>2. retention_floor' \in Nat /\ retention_floor' >= retention_floor
    BY <1>0, <1>8, PersistFact
  <2>3. Servable' \subseteq Servable
    BY <1>1, <1>5, <2>1, <2>2 DEF Servable, Checkpoint
  <2> SUFFICES ASSUME NEW s \in AllRows \ kept
               PROVE  s <= retention_floor' /\ Gone(s)'
    BY <2>1 DEF GoneForGood, AllRows
  <2>4. s <= retention_floor /\ Gone(s) /\ s \in Nat
    BY <1>0, <1>4 DEF GoneForGood
  <2>5. CoveredAt(AllRows, s, retention_floor) => CoveredAt(AllRows, s, retention_floor)'
    BY <1>1, <1>4, <2>1, <2>2 DEF CoveredAt, Covers, IsOp, AllRows
  <2> QED BY <1>1, <2>1, <2>2, <2>3, <2>4, <2>5 DEF Gone, IsOp
<1>9. ASSUME NEW i \in Instances, PruneBatch(i)
      PROVE  GoneForGood'
  <2>1. UNCHANGED <<log, dropped, checkpoints, retention_floor>>
    BY <1>9 DEF PruneBatch
  <2>2. \A s \in kept \ kept' : PrunableRow(s)
    BY <1>0, <1>9, PruneFact
  <2>3. ASSUME NEW s \in AllRows \ kept'
        PROVE  s <= retention_floor /\ Gone(s)
    <3>1. CASE s \in kept
      <4>1. PrunableRow(s)
        BY <2>2, <2>3, <3>1
      <4>2. s <= retention_floor
        BY <4>1 DEF PrunableRow
      <4>3. CASE IsOp(s) /\ s \in dropped /\ s <= DeleteFloor
        BY <1>0, <1>4, <4>2, <4>3, DeleteFloorLowest DEF Gone
      <4>4. CASE CoveredAt(kept, s, retention_floor)
        BY <1>4, <4>2, <4>4 DEF CoveredAt, Gone
      <4> QED BY <4>1, <4>2, <4>3, <4>4 DEF PrunableRow, Gone, IsOp
    <3>2. CASE s \notin kept
      BY <1>0, <2>3, <3>2 DEF GoneForGood
    <3> QED BY <3>1, <3>2
  <2> QED BY <2>1, <2>3 DEF GoneForGood, Gone, Servable, CoveredAt, Covers, IsOp, AllRows
<1> QED BY <1>0, <1>6, <1>7, <1>8, <1>9, StepKinds

LEMMA NextNames ==
    ASSUME Inductive, [Next]_vars
    PROVE  NamesAbove'
<1>0. TypeOK /\ FloorsKnown /\ CheckpointsInOrder /\ NamesAbove
  BY DEF Inductive
<1>1. /\ retention_floor \in Nat /\ retention_floor <= Len(log)
      /\ Len(log) \in Nat /\ Len(log) >= 2
  BY <1>0, FloorBelow DEF TypeOK, NamesAbove
<1>2. /\ log \in Seq(Entry) /\ kept \subseteq AllRows /\ AllRows \subseteq AllRows
      /\ AllRows \subseteq Nat \ {0} /\ \A s \in AllRows : s <= Len(log)
  BY <1>0, <1>1, RowsFinite DEF TypeOK, AllRows
<1>3. Len(log') \in Nat /\ AllRows' \subseteq Nat \ {0}
  BY <1>0, LogGrows DEF AllRows
<1>4. /\ Len(log') >= 2 /\ log'[1].type = "policy" /\ log'[2].type = "epoch"
  <2>1. 1 \in AllRows /\ 2 \in AllRows
    BY <1>1 DEF AllRows
  <2> QED BY <1>0, <1>1, <2>1, LogGrows DEF NamesAbove
<1>5. ASSUME NEW type \in {"policy", "epoch"}, NEW at \in AllRows
      PROVE  NewestAt(AllRows, type, at)' = NewestAt(AllRows, type, at)
  <2>1. {s \in AllRows' : s <= at /\ log'[s].type = type} = {s \in AllRows : s <= at /\ log[s].type = type}
    <3>1. \A s \in AllRows' : s <= at => s \in AllRows
      BY <1>1, <1>2 DEF AllRows
    <3> QED BY <1>0, <3>1, LogGrows
  <2> QED BY <2>1 DEF NewestAt
<1>6. CASE Quiet \/ Sign \/ SignGrant \/ Commit \/ CommitGrant
  <2>1. retention_floor' = retention_floor /\ kept' = kept \cup (AllRows' \ AllRows)
    BY <1>0, <1>2, <1>6, CommitFact DEF Quiet, Sign, SignGrant, PlanCheckpoint, row, AllRows
  <2>2. ASSUME NEW type \in {"policy", "epoch"}, NEW at \in AllRows', 2 <= at, retention_floor <= at
        PROVE  NewestAt(AllRows, type, at)' \in kept'
    <3>1. CASE at \in AllRows
      BY <1>0, <1>5, <2>1, <2>2, <3>1 DEF NamesAbove
    <3>2. CASE at \notin AllRows
      <4> DEFINE old == NewestAt(AllRows, type, Len(log))
                 new == NewestAt(AllRows, type, at)'
      <4>1. at > Len(log)
        BY <1>1, <1>3, <3>2 DEF AllRows
      <4>2. old \in kept
        BY <1>0, <1>1 DEF NamesAbove, AllRows
      <4>3. log[old].type = type
        BY <1>1, <1>2, <4>2, NewestAtFact
      <4>4. \A s \in AllRows : log[s].type = type => s <= old
        BY <1>1, <1>2, NewestAtFact
      <4>5. at \in Nat
        BY <1>3
      <4>6. /\ new \in {0} \cup {s \in AllRows' : s <= at /\ log'[s].type = type}
            /\ \A s \in AllRows' : s <= at /\ log'[s].type = type => s <= new
        <5> DEFINE X == {s \in AllRows' : s <= at /\ log'[s].type = type}
        <5>1. X \subseteq 1..Len(log') /\ Len(log') \in Nat
          BY <1>3 DEF AllRows
        <5>2. new = MaxOf({0} \cup X)
          BY DEF NewestAt
        <5> HIDE DEF X, new
        <5>3. new \in {0} \cup X /\ \A s \in X : s <= new
          BY <5>1, <5>2, MaxOfRows
        <5> QED BY <5>3 DEF X
      <4> HIDE DEF old, new
      <4>7. old \in AllRows /\ old \in AllRows' /\ old <= at /\ log'[old].type = type
        <5>1. old \in AllRows
          BY <1>1, <1>2, <4>2
        <5>2. old \in AllRows' /\ log'[old].type = type
          BY <1>0, <4>3, <5>1, LogGrows
        <5>3. old <= at
          BY <1>3, <4>1, <4>5, <5>1 DEF AllRows
        <5> QED BY <5>1, <5>2, <5>3
      <4>8. CASE new \in AllRows
        <5>1. log[new].type = type /\ old <= new /\ new <= old
          BY <1>0, <1>2, <4>4, <4>6, <4>7, <4>8, LogGrows
        <5>2. new = old
          <6>1. new \in Nat /\ old \in Nat
            BY <1>2, <4>7, <4>8
          <6> QED BY <5>1, <6>1
        <5> QED BY <2>1, <4>2, <5>2 DEF new
      <4>9. CASE new \notin AllRows
        <5>1. new \in AllRows'
          BY <1>2, <4>6, <4>7
        <5> QED BY <2>1, <4>9, <5>1 DEF new
      <4> QED BY <4>8, <4>9
    <3> QED BY <3>1, <3>2
  <2> QED BY <1>4, <2>1, <2>2 DEF NamesAbove
<1>7. ASSUME NEW i \in Instances, PersistFloor(i)
      PROVE  NamesAbove'
  <2>1. UNCHANGED <<log, kept>>
    BY <1>7 DEF PersistFloor
  <2>2. retention_floor' \in Nat /\ retention_floor' >= retention_floor
    BY <1>0, <1>7, PersistFact
  <2>3. \A at \in AllRows : retention_floor' <= at => retention_floor <= at
    BY <1>1, <1>2, <2>2
  <2> QED BY <1>0, <1>4, <1>5, <2>1, <2>3 DEF NamesAbove, AllRows
<1>8. ASSUME NEW i \in Instances, PruneBatch(i)
      PROVE  NamesAbove'
  <2>1. UNCHANGED <<log, retention_floor>>
    BY <1>8 DEF PruneBatch
  <2>2. \A s \in kept \ kept' : PrunableRow(s)
    BY <1>0, <1>8, PruneFact
  <2>3. ASSUME NEW type \in {"policy", "epoch"}, NEW at \in AllRows, 2 <= at, retention_floor <= at
        PROVE  NewestAt(AllRows, type, at) \in kept'
    <3> DEFINE N == NewestAt(AllRows, type, at)
               M == NewestAt(kept, type, retention_floor)
    <3>1. N \in kept
      BY <1>0, <2>3 DEF NamesAbove
    <3>2. /\ log[N].type = type
          /\ \A s \in AllRows : s <= at /\ log[s].type = type => s <= N
      BY <1>2, <3>1, NewestAtFact
    <3>3. M \in {0} \cup {s \in kept : s <= retention_floor /\ log[s].type = type}
      BY <1>1, <1>2, NewestAtFact
    <3> HIDE DEF N, M
    <3>4. ~(N < M)
      <4>1. N \in Nat \ {0} /\ at \in Nat
        BY <1>2, <3>1
      <4>2. CASE M = 0
        BY <4>1, <4>2
      <4>3. CASE M \in kept /\ M <= retention_floor /\ log[M].type = type
        <5>1. M \in AllRows /\ M \in Nat
          BY <1>2, <4>3
        <5>2. M <= at
          BY <1>1, <2>3, <4>1, <4>3, <5>1
        <5> QED BY <3>2, <4>1, <4>3, <5>1, <5>2
      <4> QED BY <3>3, <4>2, <4>3
    <3>5. ~PrunableRow(N)
      BY <3>2, <3>4 DEF PrunableRow, IsOp, M
    <3> QED BY <2>2, <3>1, <3>5 DEF N
  <2>4. \A at \in AllRows' : at \in AllRows
    BY <2>1 DEF AllRows
  <2> QED BY <1>4, <1>5, <2>1, <2>3, <2>4 DEF NamesAbove
<1> QED BY <1>0, <1>6, <1>7, <1>8, StepKinds

-----------------------------------------------------------------------------
(* What follows.                                                           *)

LEMMA NextInductive == Inductive /\ [Next]_vars => Inductive'
<1> SUFFICES ASSUME Inductive, [Next]_vars PROVE Inductive'
  OBVIOUS
<1>1. TypeOK' /\ FloorsKnown'
  BY NextType, NextFloors DEF Inductive
<1>2. CheckpointsInOrder' /\ ManifestsOpen' /\ PlansOpen' /\ GoneForGood' /\ NamesAbove'
  BY NextOrder, NextManifests, NextPlans, NextGone, NextNames
<1> QED BY <1>1, <1>2 DEF Inductive

\* The inductive invariant holds in every reachable state.
THEOREM InductiveHolds == Spec => []Inductive
BY InitInductive, NextInductive, PTL DEF Spec

LEMMA InductiveManifests == Inductive => ManifestKept
<1> SUFFICES ASSUME Inductive PROVE ManifestKept
  OBVIOUS
<1>0. TypeOK /\ FloorsKnown /\ CheckpointsInOrder /\ ManifestsOpen /\ GoneForGood
  BY DEF Inductive
<1>1. retention_floor \in Nat /\ retention_floor <= Len(log) /\ Len(log) \in Nat
  BY <1>0, FloorBelow DEF TypeOK
<1>2. AllRows \subseteq Nat /\ \A n \in DOMAIN checkpoints : checkpoints[n] \in Checkpoint
  BY <1>0, RowsFinite DEF TypeOK
<1>3. ASSUME NEW n \in Servable, NEW s \in checkpoints[n].body.manifest, s \notin kept
      PROVE  FALSE
  <2>1. n \in DOMAIN checkpoints /\ retention_floor <= checkpoints[n].covered
    BY <1>1, <1>2 DEF Servable, Checkpoint
  <2>2. OpenAt(s, checkpoints[n].covered) /\ (s \in dropped => s > checkpoints[n].floor)
    BY <1>0, <2>1 DEF ManifestsOpen
  <2>3. s \in AllRows /\ IsOp(s) /\ Gone(s)
    BY <1>0, <1>3, <2>2 DEF OpenAt, GoneForGood
  <2>4. CASE CoveredAt(AllRows, s, retention_floor)
    <3>1. CoveredAt(AllRows, s, checkpoints[n].covered)
      BY <1>1, <1>2, <2>1, <2>4 DEF CoveredAt, Checkpoint
    <3> QED BY <2>2, <3>1 DEF OpenAt
  <2>5. CASE s \in dropped /\ s <= checkpoints[n].floor
    BY <1>2, <2>1, <2>2, <2>3, <2>5 DEF Checkpoint
  <2> QED BY <1>3, <2>3, <2>4, <2>5 DEF Gone
<1>4. ASSUME NEW s \in TrueLive(Len(log)), s \notin kept
      PROVE  FALSE
  <2>1. s \in AllRows /\ IsOp(s) /\ s \notin dropped /\ ~CoveredAt(AllRows, s, Len(log))
    BY <1>4 DEF TrueLive, LiveAt
  <2>2. CoveredAt(AllRows, s, retention_floor)
    BY <1>0, <1>4, <2>1 DEF GoneForGood, Gone
  <2> QED BY <1>1, <1>2, <2>1, <2>2 DEF CoveredAt
<1> QED BY <1>3, <1>4 DEF ManifestKept

\* Whatever any number of instances prunes and wherever each stops, every
\* operation that a servable checkpoint commits to, or that is live at the head,
\* keeps its row.
THEOREM ManifestsKept == Spec => []ManifestKept
BY InductiveHolds, InductiveManifests, PTL

LEMMA InductiveNames == Inductive => NamesKept
<1> SUFFICES ASSUME Inductive, NEW at \in ServedAt, NEW type \in {"policy", "epoch"}
             PROVE  NewestAt(AllRows, type, at) \in kept
  BY DEF NamesKept
<1>0. TypeOK /\ FloorsKnown /\ CheckpointsInOrder /\ NamesAbove
  BY DEF Inductive
<1>1. retention_floor \in Nat /\ retention_floor <= Len(log) /\ Len(log) \in Nat
  BY <1>0, FloorBelow DEF TypeOK
<1>2. CASE at = Len(log)
  BY <1>0, <1>1, <1>2 DEF NamesAbove, AllRows
<1>3. ASSUME NEW n \in Servable, at = checkpoints[n].covered
      PROVE  NewestAt(AllRows, type, at) \in kept
  <2>1. /\ checkpoints[n] \in Checkpoint /\ 2 <= at /\ at < checkpoints[n].seq
        /\ checkpoints[n].seq <= Len(log) /\ retention_floor <= at
    <3>1. n \in DOMAIN checkpoints /\ checkpoints[n].covered >= retention_floor
      BY DEF Servable
    <3>2. checkpoints[n] \in Checkpoint
      BY <1>0, <3>1 DEF TypeOK
    <3> QED BY <1>0, <1>1, <1>3, <3>1, <3>2 DEF CheckpointsInOrder, Checkpoint
  <2>2. at \in AllRows
    BY <1>1, <1>3, <2>1 DEF AllRows, Checkpoint
  <2> QED BY <1>0, <2>1, <2>2 DEF NamesAbove
<1> QED BY <1>2, <1>3 DEF ServedAt

\* The newest policy and epoch entries at each servable checkpoint, and at the
\* head, keep their rows.
THEOREM NamesStand == Spec => []NamesKept
BY InductiveHolds, InductiveNames, PTL

=============================================================================
