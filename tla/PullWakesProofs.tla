-------------------------- MODULE PullWakesProofs --------------------------
(***************************************************************************)
(* Theorems about PullWakes, for any instances, pushes, pulls and routes,  *)
(* and any number of faults: no push is stranded, and no pull sleeps over  *)
(* a record that nobody will wake it for.                                  *)
(***************************************************************************)
EXTENDS PullWakes, FiniteSetTheorems, SequenceTheorems, TLAPS

-----------------------------------------------------------------------------
(* The inductive invariant.                                                *)

PullStates == [pc : {"none", "read", "judge", "asleep", "dropped"},
               changed : BOOLEAN, late : BOOLEAN, head : Nat]

Typed ==
    /\ route \in Routes
    /\ records \in Seq(Pushes \cap DOMAIN route)
    /\ push \in [Pushes -> {"none", "queued", "committed", "notified", "merged", "done", "gone"}]
    /\ queue \in [Instances -> SUBSET Pushes]
    /\ worker \in [Instances -> {"none", "take", "check"}]
    /\ hub \in [Instances -> {"entry", "empty"}]
    /\ receivers \in [Instances -> SUBSET Pulls]
    /\ pull \in [Pulls -> PullStates]
    /\ cursor \in [Pulls -> Nat]
    /\ pending \in [Instances -> SUBSET Nat] /\ sending \in [Instances -> SUBSET Nat]
    /\ wake \in [Instances -> BOOLEAN]
    /\ announcer \in [Instances -> {"wait", "take", "send"}]
    /\ notices \subseteq [to : Instances, records : SUBSET Nat]

\* What an instance's worker will commit was pushed there.
Queued ==
    /\ \A w \in Pushes : push[w] # "none" => w \in DOMAIN route
    /\ \A i \in Instances :
          /\ IsFiniteSet(queue[i])
          /\ \A w \in queue[i] : w \in PushesAt(i) /\ push[w] \in {"queued", "gone"}

\* A pull that goes on holds a receiver on its instance, and no receiver is
\* without an entry of the hub.
Heeded ==
    /\ \A p \in Pulls : pull[p].pc \in {"read", "judge", "asleep"} =>
          p \in DOMAIN route /\ p \in receivers[route[p]]
    /\ \A i \in Instances : receivers[i] # {} => hub[i] = "entry"

SendsWhole == \A i \in Instances : sending[i] # {} => announcer[i] = "send"

\* A pull that found nothing, asleep or about to be, is owed a wake for what
\* came since it read.
Tells(r, i) == Owed(r, i) \/ <<r, i>> \in lost
Told == {x \in (1..LogHead) \X Instances : Tells(x[1], x[2])}
Seen(p) == IF pull[p].pc = "judge" THEN pull[p].head ELSE cursor[p]
Waiting(p) == pull[p].pc \in {"judge", "asleep"} /\ ~pull[p].changed
OwedAfterRead ==
    \A p \in Pulls : Waiting(p) => \A r \in Seen(p) + 1 .. LogHead : <<r, route[p]>> \in Told

Inductive == Typed /\ Queued /\ Heeded /\ SendsWhole /\ NoneStranded /\ OwedAfterRead

-----------------------------------------------------------------------------
(* Facts about the routes and the log.                                     *)

LEMMA RouteType ==
    ASSUME Typed
    PROVE  /\ DOMAIN route \subseteq Pushes \cup Pulls
           /\ \A x \in DOMAIN route : route[x] \in Instances
  BY ReachAssumption DEF Typed

LEMMA LogType ==
    ASSUME Typed
    PROVE  /\ LogHead \in Nat /\ DOMAIN records = 1..LogHead
           /\ \A r \in 1..LogHead :
                 /\ records[r] \in Pushes /\ records[r] \in DOMAIN route
                 /\ route[records[r]] \in Instances
                 /\ records[r] \in PushesAt(route[records[r]])
  <1>1. LogHead \in Nat /\ DOMAIN records = 1..LogHead
        /\ \A r \in 1..LogHead : records[r] \in Pushes \cap DOMAIN route
    BY DEF Typed, LogHead
  <1>. QED
    BY <1>1, RouteType DEF PushesAt

LEMMA ToldMember ==
    ASSUME NEW r \in Nat, NEW k \in Instances
    PROVE  /\ <<r, k>> \in Told <=> r \in 1..LogHead /\ Tells(r, k)
           /\ <<r, k>> \in Told' <=> r \in 1..LogHead' /\ Tells(r, k)'
  BY DEF Told, Tells, Owed, WillAnnounce

-----------------------------------------------------------------------------
(* A step that changes no pull but wakes some: it is enough that it owes   *)
(* the others what was owed before.                                        *)

LEMMA WakesOnly ==
    ASSUME Typed, Heeded, OwedAfterRead,
           UNCHANGED <<route, cursor, records>>,
           \A p \in Pulls : /\ pull'[p].pc = pull[p].pc /\ pull'[p].head = pull[p].head
                            /\ pull[p].changed => pull'[p].changed,
           \A p \in Pulls : p \in DOMAIN route /\ p \in receivers[route[p]] /\ ~pull'[p].changed =>
               \A r \in 1..LogHead : <<r, route[p]>> \in Told => <<r, route[p]>> \in Told'
    PROVE  OwedAfterRead'
  <1>1. SUFFICES ASSUME NEW p \in Pulls, Waiting(p)', NEW r \in Seen(p)' + 1 .. LogHead'
                 PROVE  <<r, route[p]>> \in Told'
    BY DEF OwedAfterRead
  <1>2. Waiting(p) /\ Seen(p)' = Seen(p) /\ LogHead' = LogHead /\ ~pull'[p].changed
    BY <1>1 DEF Waiting, Seen, LogHead, Typed, PullStates
  <1>3. p \in DOMAIN route /\ p \in receivers[route[p]]
    BY <1>2 DEF Waiting, Heeded
  <1>5. Seen(p) \in Nat /\ LogHead \in Nat
    BY LogType DEF Seen, Typed, PullStates
  <1>6. r \in Seen(p) + 1 .. LogHead /\ r \in 1..LogHead
    BY <1>1, <1>2, <1>5
  <1>7. <<r, route[p]>> \in Told
    BY <1>2, <1>6 DEF OwedAfterRead
  <1>. QED
    BY <1>2, <1>3, <1>6, <1>7

LEMMA WakesReach ==
    ASSUME Typed, Heeded, NEW i \in Instances
    PROVE  /\ Wakes(i) \in [Pulls -> PullStates]
           /\ \A p \in Pulls : /\ Wakes(i)[p].pc = pull[p].pc /\ Wakes(i)[p].head = pull[p].head
                               /\ pull[p].changed => Wakes(i)[p].changed
                               /\ p \in receivers[i] => Wakes(i)[p].changed
  <1>1. CASE hub[i] = "entry"
    <2>1. Wakes(i) = [p \in Pulls |-> IF p \in receivers[i]
                                      THEN [pull[p] EXCEPT !.changed = TRUE] ELSE pull[p]]
      BY <1>1 DEF Wakes
    <2>2. ASSUME NEW p \in Pulls
          PROVE  /\ pull[p] \in PullStates
                 /\ [pull[p] EXCEPT !.changed = TRUE] \in PullStates
                 /\ [pull[p] EXCEPT !.changed = TRUE].pc = pull[p].pc
                 /\ [pull[p] EXCEPT !.changed = TRUE].head = pull[p].head
                 /\ [pull[p] EXCEPT !.changed = TRUE].changed
      BY DEF Typed, PullStates
    <2>. QED
      BY <2>1, <2>2
  <1>2. CASE hub[i] # "entry"
    BY <1>2 DEF Wakes, Typed, Heeded
  <1>. QED
    BY <1>1, <1>2

-----------------------------------------------------------------------------
(* Every step keeps the types.                                             *)

LEMMA WritesTyped ==
    ASSUME Typed, Queued,
           \/ \E w \in Pushes : Queue(w) \/ Announce(w) \/ WakeAnnouncer(w) \/ CallerGoes(w)
           \/ \E i \in Instances : WorkerIdles(i) \/ WorkerEnds(i)
    PROVE  Typed'
  <1>1. ASSUME NEW w \in Pushes, Queue(w) PROVE Typed'
    BY <1>1, RouteType DEF Queue, Typed, pulling, announcing
  <1>2. ASSUME NEW w \in Pushes, Announce(w) PROVE Typed'
    <2>1. RecordsOf({w}) \in SUBSET Nat
      BY LogType DEF RecordsOf
    <2>. QED
      BY <1>2, <2>1 DEF Announce, Typed, pulling
  <1>3. ASSUME NEW w \in Pushes, WakeAnnouncer(w) PROVE Typed'
    BY <1>3 DEF WakeAnnouncer, Typed, pulling
  <1>4. ASSUME NEW w \in Pushes, CallerGoes(w) PROVE Typed'
    BY <1>4 DEF CallerGoes, Typed, pulling, announcing
  <1>5. ASSUME NEW i \in Instances, WorkerIdles(i) \/ WorkerEnds(i) PROVE Typed'
    BY <1>5 DEF WorkerIdles, WorkerEnds, Typed, pulling, announcing
  <1>. QED
    BY <1>1, <1>2, <1>3, <1>4, <1>5

\* What a transaction of the worker adds to the log.
LEMMA CommitAdds ==
    ASSUME Typed, Queued, NEW i \in Instances, NEW n \in Nat,
           NEW order \in [1..n -> queue[i]]
    PROVE  /\ records \o order \in Seq(Pushes \cap DOMAIN route)
           /\ Len(records \o order) = LogHead + n
           /\ \A r \in 1..LogHead : (records \o order)[r] = records[r]
           /\ \A k \in 1..n : (records \o order)[LogHead + k] = order[k]
  <1>1. queue[i] \subseteq Pushes \cap DOMAIN route
    BY DEF Typed, Queued, PushesAt
  <1>2. order \in Seq(Pushes \cap DOMAIN route) /\ Len(order) = n
    BY <1>1
  <1>3. /\ records \in Seq(Pushes \cap DOMAIN route) /\ LogHead = Len(records)
        /\ LogHead \in Nat
    BY DEF Typed, LogHead
  <1>. DEFINE S == Pushes \cap DOMAIN route
  <1>4. /\ records \o order \in Seq(S) /\ Len(records \o order) = LogHead + n
        /\ \A k \in 1..(LogHead + n) :
              (records \o order)[k] = IF k <= LogHead THEN records[k] ELSE order[k - LogHead]
    <2>. HIDE DEF S
    <2>1. records \in Seq(S) /\ order \in Seq(S)
      BY <1>2, <1>3 DEF S
    <2>. QED
      BY <1>2, <1>3, <2>1, ConcatProperties
  <1>5. ASSUME NEW r \in 1..LogHead PROVE (records \o order)[r] = records[r]
    BY <1>3, <1>4
  <1>6. ASSUME NEW k \in 1..n PROVE (records \o order)[LogHead + k] = order[k]
    <2>1. LogHead + k \in 1..(LogHead + n) /\ ~(LogHead + k <= LogHead)
          /\ (LogHead + k) - LogHead = k
      BY <1>3
    <2>. QED
      BY <1>4, <2>1
  <1>. QED
    BY <1>4, <1>5, <1>6

LEMMA CommitsTyped ==
    ASSUME Typed, Queued, NEW i \in Instances, WorkerCommits(i)
    PROVE  Typed'
  <1>1. Cardinality(queue[i]) \in Nat
    BY FS_CardinalityType DEF Queued
  <1>2. records' \in Seq(Pushes \cap DOMAIN route)
    <2>1. PICK order \in [1..Cardinality(queue[i]) -> queue[i]] : records' = records \o order
      BY DEF WorkerCommits
    <2>. QED
      BY <1>1, <2>1, CommitAdds
  <1>3. push' \in [Pushes -> {"none", "queued", "committed", "notified", "merged", "done", "gone"}]
    BY DEF WorkerCommits, Typed
  <1>4. queue' \in [Instances -> SUBSET Pushes]
    BY DEF WorkerCommits, Typed
  <1>. QED
    BY <1>2, <1>3, <1>4 DEF WorkerCommits, Typed, pulling, announcing

LEMMA TellingTyped ==
    ASSUME Typed, Queued, Heeded,
           \/ \E w \in Pushes : Notify(w)
           \/ \E i \in Instances : Announcer(i) \/ SendFails(i)
           \/ \E n \in notices : Listen(n) \/ NoticeLost(n)
    PROVE  Typed'
  <1>1. ASSUME NEW w \in Pushes, Notify(w) PROVE Typed'
    <2>1. route[w] \in Instances
      BY <1>1, RouteType DEF Notify, Queued
    <2>. QED
      BY <1>1, <2>1, WakesReach DEF Notify, Typed, announcing
  <1>2. ASSUME NEW i \in Instances, TakeWake(i) PROVE Typed'
    BY <1>2 DEF TakeWake, Typed, writing, pulling
  <1>6. ASSUME NEW i \in Instances, TakePending(i) PROVE Typed'
    BY <1>6 DEF TakePending, Typed, writing, pulling
  <1>7. ASSUME NEW i \in Instances, Rests(i) PROVE Typed'
    BY <1>7 DEF Rests, Typed, writing, pulling
  <1>8. ASSUME NEW i \in Instances, SendFails(i) PROVE Typed'
    <2>1. pending[i] \cup sending[i] \in SUBSET Nat
      BY DEF Typed
    <2>. QED
      BY <1>8, <2>1 DEF SendFails, Typed, writing, pulling
  <1>3. ASSUME NEW i \in Instances, Sends(i) PROVE Typed'
    <2>1. notices' \subseteq [to : Instances, records : SUBSET Nat]
      BY <1>3 DEF Sends, Typed
    <2>. QED
      BY <1>3, <2>1 DEF Sends, Typed, writing, pulling
  <1>4. ASSUME NEW n \in notices, Listen(n) PROVE Typed'
    <2>1. n.to \in Instances /\ notices' \subseteq notices
      BY <1>4 DEF Listen, Typed
    <2>. QED
      BY <1>4, <2>1, WakesReach DEF Listen, Typed, writing
  <1>5. ASSUME NEW n \in notices, NoticeLost(n) PROVE Typed'
    BY <1>5 DEF NoticeLost, Typed, writing, pulling
  <1>. QED
    BY <1>1, <1>2, <1>3, <1>4, <1>5, <1>6, <1>7, <1>8 DEF Announcer

LEMMA PullsTyped ==
    ASSUME Typed, NEW p \in Pulls, Subscribe(p) \/ Pull(p) \/ Deadline(p)
    PROVE  Typed'
  <1>0. pull[p] \in PullStates /\ NoPull \in PullStates /\ LogHead \in Nat
    BY LogType DEF Typed, PullStates, NoPull
  <1>1. CASE Subscribe(p)
    <2>1. [NoPull EXCEPT !.pc = "read"] \in PullStates
      BY DEF PullStates, NoPull
    <2>. QED
      BY <1>1, <2>1, RouteType DEF Subscribe, Typed, writing, announcing
  <1>2. CASE Read(p)
    <2>1. [[pull[p] EXCEPT !.pc = "judge"] EXCEPT !.head = LogHead] \in PullStates
      BY <1>0 DEF PullStates
    <2>2. pull' \in [Pulls -> PullStates]
      BY <1>2, <1>0, <2>1 DEF Read, Typed, PullStates
    <2>. QED
      BY <1>2, <2>2 DEF Read, Typed, writing, announcing
  <1>3. CASE Answer(p)
    <2>1. [NoPull EXCEPT !.pc = "dropped"] \in PullStates
      BY DEF PullStates, NoPull
    <2>2. pull[p].head \in Nat
      BY <1>0 DEF PullStates
    <2>. QED
      BY <1>3, <2>1, <2>2 DEF Answer, Drops, Typed, writing, announcing
  <1>4. CASE Sleep(p)
    <2>2. pull' \in [Pulls -> PullStates]
      BY <1>4, <1>0 DEF Sleep, Typed, PullStates
    <2>. QED
      BY <1>4, <2>2 DEF Sleep, Typed, writing, announcing
  <1>5. CASE Wake(p)
    <2>2. pull' \in [Pulls -> PullStates]
      BY <1>5, <1>0 DEF Wake, Typed, PullStates
    <2>. QED
      BY <1>5, <2>2 DEF Wake, Typed, writing, announcing
  <1>6. CASE Deadline(p)
    <2>2. pull' \in [Pulls -> PullStates]
      BY <1>6, <1>0 DEF Deadline, Typed, PullStates
    <2>. QED
      BY <1>6, <2>2 DEF Deadline, Typed, writing, announcing
  <1>7. CASE Release(p)
    BY <1>0, <1>7 DEF Release, Typed, writing, announcing
  <1>. QED
    BY <1>1, <1>2, <1>3, <1>4, <1>5, <1>6, <1>7 DEF Pull

LEMMA CrashTyped ==
    ASSUME Typed, NEW i \in Instances, Crash(i)
    PROVE  Typed'
  <1>1. NoPull \in PullStates
    BY DEF PullStates, NoPull
  <1>2. pull' \in [Pulls -> PullStates]
    BY <1>1 DEF Crash, Typed
  <1>3. notices' \subseteq notices
    BY DEF Crash
  <1>4. push' \in [Pushes -> {"none", "queued", "committed", "notified", "merged", "done", "gone"}]
    BY DEF Crash, Typed
  <1>5. wake' \in [Instances -> BOOLEAN]
    BY DEF Crash, Typed
  <1>. QED
    BY <1>2, <1>3, <1>4, <1>5 DEF Crash, Typed

LEMMA TypedStep ==
    ASSUME Inductive, [Next]_vars
    PROVE  Typed'
  <1>. USE DEF Inductive
  <1>1. CASE UNCHANGED vars
    BY <1>1 DEF vars, writing, pulling, announcing, Typed
  <1>2. CASE Next
    BY <1>2, WritesTyped, CommitsTyped, TellingTyped, PullsTyped, CrashTyped DEF Next, Work, Tell
  <1>. QED
    BY <1>1, <1>2

-----------------------------------------------------------------------------
(* Every step keeps the smaller invariants.                                *)

LEMMA QueuedStep ==
    ASSUME Inductive, [Next]_vars
    PROVE  Queued' /\ NoneStranded'
  <1>. USE DEF Inductive, PushesAt
  <1>1. ASSUME NEW w \in Pushes, Queue(w) PROVE Queued' /\ NoneStranded'
    <2>1. IsFiniteSet(queue[route[w]] \cup {w}) /\ route[w] \in Instances
      BY <1>1, RouteType, FS_AddElement DEF Queue, Queued
    <2>. QED
      BY <1>1, <2>1 DEF Queue, Queued, NoneStranded, Typed
  <1>2. ASSUME NEW i \in Instances, WorkerCommits(i) PROVE Queued' /\ NoneStranded'
    <2>1. IsFiniteSet({})
      BY FS_EmptySet
    <2>. QED
      BY <1>2, <2>1 DEF WorkerCommits, Queued, NoneStranded, Typed
  <1>3. ASSUME NEW i \in Instances, WorkerIdles(i) \/ WorkerEnds(i) PROVE Queued' /\ NoneStranded'
    <2>1. /\ UNCHANGED <<route, push, queue>>
          /\ \A j \in Instances \ {i} : worker'[j] = worker[j]
          /\ queue[i] # {} => worker'[i] # "none"
      BY <1>3 DEF WorkerIdles, WorkerEnds, Typed
    <2>. QED
      BY <2>1 DEF Queued, NoneStranded
  <1>4. ASSUME NEW w \in Pushes, Notify(w) \/ Announce(w) \/ WakeAnnouncer(w) \/ CallerGoes(w)
        PROVE  Queued' /\ NoneStranded'
    <2>1. UNCHANGED <<route, queue, worker>>
      BY <1>4 DEF Notify, Announce, WakeAnnouncer, CallerGoes
    <2>2. push[w] # "none" /\ \A v \in Pushes \ {w} : push'[v] = push[v]
      BY <1>4 DEF Notify, Announce, WakeAnnouncer, CallerGoes, Typed
    <2>3. (\E i \in Instances : w \in queue[i]) => push'[w] = "gone"
      BY <1>4 DEF Notify, Announce, WakeAnnouncer, CallerGoes, Queued, Typed
    <2>4. \A i \in Instances : IsFiniteSet(queue'[i])
      BY <2>1 DEF Queued
    <2>. QED
      BY <2>1, <2>2, <2>3, <2>4 DEF Queued, NoneStranded, Typed
  <1>5. ASSUME NEW i \in Instances, Crash(i) PROVE Queued' /\ NoneStranded'
    <2>1. IsFiniteSet({})
      BY FS_EmptySet
    <2>. QED
      BY <1>5, <2>1 DEF Crash, Queued, NoneStranded, Typed
  <1>6. ASSUME \/ UNCHANGED vars
               \/ \E i \in Instances : Announcer(i) \/ SendFails(i)
               \/ \E n \in notices : Listen(n) \/ NoticeLost(n)
               \/ \E p \in Pulls : Subscribe(p) \/ Pull(p) \/ Deadline(p)
        PROVE  UNCHANGED <<route, push, queue, worker>>
    BY <1>6 DEF vars, writing, Announcer, TakeWake, TakePending, Rests, Sends, SendFails, Listen,
        NoticeLost, Subscribe, Pull, Read, Answer, Sleep, Wake, Release, Deadline
  <1>7. ASSUME UNCHANGED <<route, push, queue, worker>> PROVE Queued' /\ NoneStranded'
    BY <1>7 DEF Queued, NoneStranded
  <1>. QED
    BY <1>1, <1>2, <1>3, <1>4, <1>5, <1>6, <1>7 DEF Next, Work, Tell

LEMMA HeededStep ==
    ASSUME Inductive, [Next]_vars
    PROVE  Heeded' /\ SendsWhole'
  <1>. USE DEF Inductive
  <1>1. ASSUME NEW i \in Instances, Announcer(i) \/ SendFails(i) PROVE Heeded' /\ SendsWhole'
    <2>1. UNCHANGED <<route, hub, receivers, pull>>
      BY <1>1 DEF Announcer, TakeWake, TakePending, Rests, Sends, SendFails, pulling
    <2>2. SendsWhole'
      <3>2. CASE TakeWake(i) \/ Rests(i)
        BY <3>2 DEF TakeWake, Rests, SendsWhole, Typed
      <3>3. CASE TakePending(i)
        BY <3>3 DEF TakePending, SendsWhole, Typed
      <3>4. CASE Sends(i)
        BY <3>4 DEF Sends, SendsWhole, Typed
      <3>5. CASE SendFails(i)
        BY <3>5 DEF SendFails, SendsWhole, Typed
      <3>. QED
        BY <1>1, <3>2, <3>3, <3>4, <3>5 DEF Announcer
    <2>. QED
      BY <2>1, <2>2 DEF Heeded
  <1>2. ASSUME NEW j \in Instances, pull' = Wakes(j), UNCHANGED <<route, hub, receivers>>
        PROVE  Heeded'
    BY <1>2, WakesReach DEF Heeded
  <1>3. ASSUME NEW w \in Pushes, Notify(w) PROVE Heeded' /\ SendsWhole'
    <2>1. route[w] \in Instances
      BY <1>3, RouteType DEF Notify, Queued
    <2>. QED
      BY <1>3, <2>1, <1>2 DEF Notify, SendsWhole, announcing
  <1>4. ASSUME NEW n \in notices, Listen(n) PROVE Heeded' /\ SendsWhole'
    <2>1. n.to \in Instances
      BY DEF Typed
    <2>. QED
      BY <1>4, <2>1, <1>2 DEF Listen, SendsWhole
  <1>5. ASSUME NEW p \in Pulls, Subscribe(p) PROVE Heeded'
    BY <1>5, RouteType DEF Subscribe, Heeded, Typed, PullStates, NoPull
  <1>6. ASSUME NEW p \in Pulls, Read(p) \/ Sleep(p) \/ Wake(p) \/ Deadline(p) PROVE Heeded'
    <2>1. UNCHANGED <<route, hub, receivers>>
      BY <1>6 DEF Read, Sleep, Wake, Deadline
    <2>2. pull[p].pc \in {"read", "judge", "asleep"} /\ \A q \in Pulls \ {p} : pull'[q] = pull[q]
      BY <1>6 DEF Read, Sleep, Wake, Deadline, Typed
    <2>. QED
      BY <2>1, <2>2 DEF Heeded
  <1>7. ASSUME NEW p \in Pulls, Answer(p) PROVE Heeded'
    <2>1. route[p] \in Instances
      BY <1>7, RouteType DEF Answer, Heeded
    <2>. QED
      BY <1>7, <2>1 DEF Answer, Drops, Heeded, Typed, PullStates, NoPull
  <1>8. ASSUME NEW p \in Pulls, Release(p) PROVE Heeded'
    BY <1>8 DEF Release, Heeded, Typed, PullStates, NoPull
  <1>9. ASSUME NEW p \in Pulls, Subscribe(p) \/ Pull(p) \/ Deadline(p) PROVE SendsWhole'
    BY <1>9 DEF Subscribe, Pull, Read, Answer, Sleep, Wake, Release, Deadline, announcing, SendsWhole
  <1>10. ASSUME NEW i \in Instances, Crash(i) PROVE Heeded' /\ SendsWhole'
    <2>1. SendsWhole'
      BY <1>10 DEF Crash, SendsWhole, Typed
    <2>2. \A k \in Instances \ {i} : receivers'[k] = receivers[k] /\ hub'[k] = hub[k]
      BY <1>10 DEF Crash, Typed
    <2>3. receivers'[i] = {} /\ route' = route
      BY <1>10 DEF Crash, Typed
    <2>4. ASSUME NEW p \in Pulls, pull'[p].pc \in {"read", "judge", "asleep"}
          PROVE  pull[p].pc \in {"read", "judge", "asleep"} /\ (p \in DOMAIN route => route[p] # i)
      BY <1>10, <2>4 DEF Crash, NoPull, PullsAt
    <2>. QED
      BY <2>1, <2>2, <2>3, <2>4, RouteType DEF Heeded
  <1>11. ASSUME \/ UNCHANGED vars
                \/ \E w \in Pushes : Queue(w) \/ Announce(w) \/ WakeAnnouncer(w) \/ CallerGoes(w)
                \/ \E i \in Instances : Work(i)
                \/ \E n \in notices : NoticeLost(n)
         PROVE  UNCHANGED <<route, hub, receivers, pull, sending, announcer>>
    BY <1>11 DEF vars, pulling, announcing, Queue, Announce, WakeAnnouncer, CallerGoes, Work,
        WorkerCommits, WorkerIdles, WorkerEnds, NoticeLost
  <1>12. ASSUME UNCHANGED <<route, hub, receivers, pull, sending, announcer>>
         PROVE  Heeded' /\ SendsWhole'
    BY <1>12 DEF Heeded, SendsWhole
  <1>. QED
    BY <1>1, <1>3, <1>4, <1>5, <1>6, <1>7, <1>8, <1>9, <1>10, <1>11, <1>12 DEF Next, Tell, Pull

-----------------------------------------------------------------------------
(* What is owed is still owed after a step, or the pull was woken.         *)

LEMMA PushesOwe ==
    ASSUME Inductive, NEW w \in Pushes,
           \/ Queue(w) \/ Announce(w) \/ WakeAnnouncer(w) \/ CallerGoes(w)
    PROVE  OwedAfterRead'
  <1>. USE DEF Inductive
  <1>1. UNCHANGED <<route, records, pull, cursor, sending, notices, announcer>>
    BY DEF Queue, Announce, WakeAnnouncer, CallerGoes, pulling, announcing
  <1>2. ASSUME NEW r \in 1..LogHead, NEW k \in Instances, Tells(r, k) PROVE Tells(r, k)'
    <2>. DEFINE v == records[r]
                j == route[records[r]]
    <2>0. v \in PushesAt(j) /\ j \in Instances /\ r \in DOMAIN records /\ PushesAt(j)' = PushesAt(j)
          /\ v \in Pushes
      BY <1>1, LogType DEF PushesAt
    <2>1. CASE Queue(w)
      BY <1>1, <1>2, <2>0, <2>1 DEF Queue, Tells, Owed, WillAnnounce, Typed, announcing, PushesAt
    <2>2. CASE Announce(w)
      BY <1>1, <1>2, <2>0, <2>2 DEF Announce, Tells, Owed, WillAnnounce, Typed, RecordsOf, PushesAt
    <2>3. CASE WakeAnnouncer(w)
      BY <1>1, <1>2, <2>0, <2>3 DEF WakeAnnouncer, Tells, Owed, WillAnnounce, Typed, PushesAt
    <2>4. CASE CallerGoes(w)
      <3>1. CASE v = w
        BY <2>4, <2>0, <3>1 DEF CallerGoes, Tells, HeardNowhere, RecordsOf
      <3>2. CASE v # w
        BY <1>1, <1>2, <2>0, <2>4, <3>2
           DEF CallerGoes, Tells, Owed, WillAnnounce, Typed, announcing, PushesAt
      <3>. QED
        BY <3>1, <3>2
    <2>. QED
      BY <2>1, <2>2, <2>3, <2>4
  <1>3. ASSUME NEW p \in Pulls, p \in DOMAIN route, NEW r \in 1..LogHead, <<r, route[p]>> \in Told
        PROVE  <<r, route[p]>> \in Told'
    BY <1>1, <1>2, <1>3, ToldMember, RouteType, LogType DEF LogHead
  <1>. QED
    BY <1>1, <1>3, WakesOnly

LEMMA CommitsOwe ==
    ASSUME Inductive, NEW i \in Instances, WorkerCommits(i)
    PROVE  OwedAfterRead'
  <1>. USE DEF Inductive
  <1>1. PICK order \in [1..Cardinality(queue[i]) -> queue[i]] :
            /\ records' = records \o order
            /\ lost' = lost \cup HeardNowhere(
                 {LogHead + x : x \in {x \in DOMAIN order : push[order[x]] = "gone"}})
    BY DEF WorkerCommits
  <1>. DEFINE n == Cardinality(queue[i])
  <1>2. n \in Nat /\ LogHead \in Nat
    BY FS_CardinalityType, LogType DEF Queued
  <1>3. /\ LogHead' = LogHead + n
        /\ \A r \in 1..LogHead : records'[r] = records[r]
        /\ \A x \in 1..n : records'[LogHead + x] = order[x]
    BY <1>1, <1>2, CommitAdds DEF LogHead
  <1>4. /\ UNCHANGED <<route, pull, cursor, pending, sending, wake, announcer, notices>>
        /\ push' = [w \in Pushes |->
                      IF w \in queue[i] /\ push[w] = "queued" THEN "committed" ELSE push[w]]
    BY DEF WorkerCommits, pulling, announcing
  <1>5. ASSUME NEW r \in 1..LogHead, NEW k \in Instances, Tells(r, k) PROVE Tells(r, k)'
    <2>0. records[r] \in Pushes /\ records'[r] = records[r]
      BY <1>3, LogType
    <2>1. lost \subseteq lost'
      BY <1>1
    <2>2. CASE <<r, k>> \in lost
      BY <2>1, <2>2 DEF Tells
    <2>3. CASE Owed(r, k)
      <3>1. \A w \in Pushes : push[w] \in {"committed", "notified", "merged"} => push'[w] = push[w]
        BY <1>4
      <3>2. \A j \in Instances : WillAnnounce(j) => WillAnnounce(j)'
        BY <1>4, <3>1 DEF WillAnnounce, PushesAt
      <3>3. route[records[r]] \in Instances
        BY LogType
      <3>. QED
        BY <1>4, <2>0, <2>3, <3>1, <3>2, <3>3 DEF Owed, Tells
    <2>. QED
      BY <1>5, <2>2, <2>3 DEF Tells
  <1>6. ASSUME NEW r \in LogHead + 1 .. LogHead', NEW k \in Instances PROVE Tells(r, k)'
    <2>1. PICK x \in 1..n : r = LogHead + x
      <3>1. r - LogHead \in 1..n /\ r = LogHead + (r - LogHead)
        BY <1>2, <1>3
      <3>. QED
        BY <3>1
    <2>2. records'[r] = order[x] /\ order[x] \in queue[i] /\ order[x] \in Pushes
      BY <2>1, <1>3 DEF Typed
    <2>3. CASE push[order[x]] = "queued"
      BY <1>4, <2>2, <2>3 DEF Tells, Owed
    <2>4. CASE push[order[x]] = "gone"
      BY <1>1, <2>1, <2>4 DEF Tells, HeardNowhere
    <2>. QED
      BY <2>2, <2>3, <2>4 DEF Queued
  <1>7. SUFFICES ASSUME NEW p \in Pulls, Waiting(p), NEW r \in Seen(p) + 1 .. LogHead'
                 PROVE  <<r, route[p]>> \in Told'
    BY <1>4 DEF OwedAfterRead, Waiting, Seen
  <1>8. Seen(p) \in Nat /\ route[p] \in Instances
    BY <1>7, RouteType DEF Seen, Typed, PullStates, Waiting, Heeded
  <1>9. CASE r <= LogHead
    <2>1. r \in Seen(p) + 1 .. LogHead /\ r \in 1..LogHead
      BY <1>2, <1>3, <1>8, <1>9
    <2>. QED
      BY <1>2, <1>3, <1>4, <1>5, <1>7, <1>8, <2>1, ToldMember DEF OwedAfterRead
  <1>10. CASE ~(r <= LogHead)
    <2>1. r \in LogHead + 1 .. LogHead'
      BY <1>2, <1>3, <1>8, <1>10
    <2>. QED
      BY <1>2, <1>3, <1>4, <1>6, <1>8, <2>1, ToldMember
  <1>. QED
    BY <1>9, <1>10

LEMMA WokenOwe ==
    ASSUME Inductive,
           (\E w \in Pushes : Notify(w)) \/ (\E n \in notices : Listen(n))
    PROVE  OwedAfterRead'
  <1>. USE DEF Inductive
  <1>1. ASSUME NEW w \in Pushes, Notify(w) PROVE OwedAfterRead'
    <2>. DEFINE woken == {route[w]}
    <2>1. route[w] \in Instances
      BY <1>1, RouteType DEF Notify, Queued
    <2>2. /\ UNCHANGED <<route, records, cursor, pending, sending, wake, announcer, notices, lost>>
          /\ pull' = Wakes(route[w]) /\ push[w] = "committed"
          /\ push' = [push EXCEPT ![w] = "notified"]
      BY <1>1 DEF Notify, announcing
    <2>3. ASSUME NEW r \in 1..LogHead, NEW k \in Instances \ woken, Tells(r, k) PROVE Tells(r, k)'
      <3>1. records[r] \in Pushes /\ route[records[r]] \in Instances /\ records'[r] = records[r]
        BY <2>2, LogType
      <3>2. \A j \in Instances : WillAnnounce(j) => WillAnnounce(j)'
        BY <2>2 DEF WillAnnounce, PushesAt, Typed
      <3>3. CASE records[r] = w
        BY <2>2, <3>1, <3>3 DEF Tells, Owed, Typed
      <3>4. CASE records[r] # w
        BY <2>2, <2>3, <3>1, <3>2, <3>4 DEF Tells, Owed, Typed
      <3>. QED
        BY <3>3, <3>4
    <2>4. ASSUME NEW p \in Pulls, p \in DOMAIN route, p \in receivers[route[p]], ~pull'[p].changed,
                 NEW r \in 1..LogHead, <<r, route[p]>> \in Told
          PROVE  <<r, route[p]>> \in Told'
      <3>1. route[p] \in Instances \ woken
        BY <2>1, <2>2, <2>4, WakesReach, RouteType
      <3>. QED
        BY <2>2, <2>3, <2>4, <3>1, ToldMember, LogType DEF LogHead
    <2>. QED
      BY <2>1, <2>2, <2>4, WakesOnly, WakesReach
  <1>2. ASSUME NEW n \in notices, Listen(n) PROVE OwedAfterRead'
    <2>. DEFINE woken == {n.to}
    <2>1. n.to \in Instances
      BY DEF Typed
    <2>2. /\ UNCHANGED <<route, records, push, cursor, pending, sending, wake, announcer, lost>>
          /\ pull' = Wakes(n.to) /\ notices' = notices \ {n}
      BY <1>2 DEF Listen, writing
    <2>3. ASSUME NEW r \in 1..LogHead, NEW k \in Instances \ woken, Tells(r, k) PROVE Tells(r, k)'
      <3>1. route[records[r]] \in Instances
        BY LogType
      <3>2. \A j \in Instances : WillAnnounce(j) => WillAnnounce(j)'
        BY <2>2 DEF WillAnnounce, PushesAt
      <3>. QED
        BY <2>2, <2>3, <3>1, <3>2 DEF Tells, Owed
    <2>4. ASSUME NEW p \in Pulls, p \in DOMAIN route, p \in receivers[route[p]], ~pull'[p].changed,
                 NEW r \in 1..LogHead, <<r, route[p]>> \in Told
          PROVE  <<r, route[p]>> \in Told'
      <3>1. route[p] \in Instances \ woken
        BY <2>1, <2>2, <2>4, WakesReach, RouteType
      <3>. QED
        BY <2>2, <2>3, <2>4, <3>1, ToldMember, LogType DEF LogHead
    <2>. QED
      BY <2>1, <2>2, <2>4, WakesOnly, WakesReach
  <1>. QED
    BY <1>1, <1>2

LEMMA AnnouncersOwe ==
    ASSUME Inductive,
           \/ \E i \in Instances : Announcer(i) \/ SendFails(i)
           \/ \E n \in notices : NoticeLost(n)
    PROVE  OwedAfterRead'
  <1>. USE DEF Inductive
  <1>1. UNCHANGED <<route, records, push, pull, cursor>> /\ lost \subseteq lost'
    BY DEF Announcer, TakeWake, TakePending, Rests, Sends, SendFails, NoticeLost, writing, pulling
  <1>2. ASSUME NEW r \in 1..LogHead, NEW k \in Instances, Tells(r, k) PROVE Tells(r, k)'
    <2>. DEFINE j == route[records[r]]
    <2>1. j \in Instances /\ PushesAt(j)' = PushesAt(j)
      BY <1>1, LogType DEF PushesAt
    <2>2. ASSUME NEW i \in Instances, TakeWake(i) PROVE Tells(r, k)'
      BY <1>1, <1>2, <2>1, <2>2 DEF TakeWake, Tells, Owed, WillAnnounce, Typed
    <2>3. ASSUME NEW i \in Instances, TakePending(i) PROVE Tells(r, k)'
      <3>1. CASE i = j
        BY <1>1, <1>2, <2>1, <2>3, <3>1
           DEF TakePending, Tells, Owed, WillAnnounce, Typed, SendsWhole
      <3>2. CASE i # j
        BY <1>1, <1>2, <2>1, <2>3, <3>2 DEF TakePending, Tells, Owed, WillAnnounce, Typed
      <3>. QED
        BY <3>1, <3>2
    <2>4. ASSUME NEW i \in Instances, Rests(i) PROVE Tells(r, k)'
      BY <1>1, <1>2, <2>1, <2>4 DEF Rests, Tells, Owed, WillAnnounce, Typed
    <2>5. ASSUME NEW i \in Instances, Sends(i) PROVE Tells(r, k)'
      <3>1. CASE i = j /\ j # k
        <4>1. [to |-> k, records |-> sending[i]] \in notices'
          BY <2>5, <3>1 DEF Sends
        <4>2. notices \subseteq notices' /\ UNCHANGED <<pending, wake>> /\ announcer'[i] = "take"
          BY <2>5 DEF Sends, Typed
        <4>. QED
          BY <1>1, <1>2, <2>1, <3>1, <4>1, <4>2 DEF Tells, Owed, WillAnnounce
      <3>2. CASE i # j \/ j = k
        <4>1. notices \subseteq notices' /\ UNCHANGED <<pending, wake>>
              /\ (i # j => announcer'[j] = announcer[j] /\ sending'[j] = sending[j])
          BY <2>1, <2>5 DEF Sends, Typed
        <4>. QED
          BY <1>1, <1>2, <2>1, <3>2, <4>1 DEF Tells, Owed, WillAnnounce
      <3>. QED
        BY <3>1, <3>2
    <2>6. ASSUME NEW i \in Instances, SendFails(i) PROVE Tells(r, k)'
      <3>1. /\ UNCHANGED <<wake, notices>> /\ announcer'[i] = "take"
            /\ pending[j] \subseteq pending'[j] /\ (i = j => sending[j] \subseteq pending'[j])
            /\ (i # j => announcer'[j] = announcer[j] /\ sending'[j] = sending[j])
        BY <2>1, <2>6 DEF SendFails, Typed
      <3>. QED
        BY <1>1, <1>2, <2>1, <3>1 DEF Tells, Owed, WillAnnounce
    <2>7. ASSUME NEW n \in notices, NoticeLost(n) PROVE Tells(r, k)'
      <3>1. /\ UNCHANGED <<pending, wake, announcer, sending>>
            /\ notices' = notices \ {n} /\ n.records \X {n.to} \subseteq lost'
        BY <2>7 DEF NoticeLost
      <3>2. n.to = k /\ r \in n.records => <<r, k>> \in lost'
        BY <3>1
      <3>. QED
        BY <1>1, <1>2, <2>1, <3>1, <3>2 DEF Tells, Owed, WillAnnounce
    <2>. QED
      BY <2>2, <2>3, <2>4, <2>5, <2>6, <2>7 DEF Announcer
  <1>3. ASSUME NEW p \in Pulls, p \in DOMAIN route, NEW r \in 1..LogHead, <<r, route[p]>> \in Told
        PROVE  <<r, route[p]>> \in Told'
    BY <1>1, <1>2, <1>3, ToldMember, RouteType, LogType DEF LogHead
  <1>. QED
    BY <1>1, <1>3, WakesOnly

\* A pull that reads has seen all there is; one that goes to sleep saw what
\* it had read; any other step of a pull ends the wait.
LEMMA PullsOwe ==
    ASSUME Inductive, NEW p \in Pulls, Subscribe(p) \/ Pull(p) \/ Deadline(p)
    PROVE  OwedAfterRead'
  <1>. USE DEF Inductive
  <1>1. UNCHANGED <<route, records, push, pending, wake, announcer, sending, notices, lost>>
    BY DEF Subscribe, Pull, Read, Answer, Sleep, Wake, Release, Deadline, writing, announcing
  <1>2. Told' = Told /\ LogHead' = LogHead
    BY <1>1 DEF Told, Tells, Owed, WillAnnounce, PushesAt, LogHead
  <1>3. \A q \in Pulls \ {p} : pull'[q] = pull[q] /\ cursor'[q] = cursor[q]
    BY DEF Subscribe, Pull, Read, Answer, Sleep, Wake, Release, Deadline, Drops, Typed
  <1>4. ASSUME NEW q \in Pulls \ {p}, Waiting(q)', NEW r \in Seen(q)' + 1 .. LogHead'
        PROVE  <<r, route[q]>> \in Told'
    <2>1. Waiting(q) /\ Seen(q)' = Seen(q)
      BY <1>3, <1>4 DEF Waiting, Seen
    <2>. QED
      BY <1>1, <1>2, <1>4, <2>1 DEF OwedAfterRead
  <1>5. ASSUME Waiting(p)', NEW r \in Seen(p)' + 1 .. LogHead'
        PROVE  <<r, route[p]>> \in Told'
    <2>1. CASE Read(p)
      <3>1. Seen(p)' = LogHead /\ LogHead \in Nat
        BY <2>1, LogType DEF Read, Seen, Typed, PullStates
      <3>. QED
        BY <1>2, <1>5, <3>1
    <2>2. CASE Sleep(p)
      <3>1. Waiting(p) /\ Seen(p)' = Seen(p)
        BY <1>5, <2>2 DEF Sleep, Waiting, Seen, Typed, PullStates
      <3>. QED
        BY <1>1, <1>2, <1>5, <3>1 DEF OwedAfterRead
    <2>3. CASE Subscribe(p) \/ Answer(p) \/ Wake(p) \/ Release(p) \/ Deadline(p)
      <3>1. pull'[p].pc \in {"none", "read", "dropped"}
        BY <2>3 DEF Subscribe, Answer, Drops, Wake, Release, Deadline, NoPull, Typed, PullStates
      <3>. QED
        BY <1>5, <3>1 DEF Waiting
    <2>. QED
      BY <2>1, <2>2, <2>3 DEF Pull
  <1>. QED
    BY <1>1, <1>4, <1>5 DEF OwedAfterRead

LEMMA CrashOwes ==
    ASSUME Inductive, NEW i \in Instances, Crash(i)
    PROVE  OwedAfterRead'
  <1>. USE DEF Inductive
  <1>1. /\ UNCHANGED <<route, records, cursor>> /\ LogHead' = LogHead
        /\ lost' = lost \cup Untold(i) \X (Instances \ {i})
        /\ \A p \in Pulls : pull'[p] = IF p \in PullsAt(i) THEN NoPull ELSE pull[p]
    BY DEF Crash, LogHead
  <1>2. ASSUME NEW r \in 1..LogHead, NEW k \in Instances \ {i}, Tells(r, k) PROVE Tells(r, k)'
    <2>. DEFINE j == route[records[r]]
    <2>1. /\ j \in Instances /\ records[r] \in PushesAt(j) /\ records[r] \in Pushes
          /\ r \in DOMAIN records /\ lost \subseteq lost'
      BY <1>1, LogType
    <2>2. CASE j = i
      <3>1. r \in Untold(i) => <<r, k>> \in lost'
        BY <1>1
      <3>2. push[records[r]] \in {"committed", "notified"} => r \in Untold(i)
        BY <2>1, <2>2 DEF Untold, RecordsOf
      <3>3. r \in pending[i] \cup sending[i] => r \in Untold(i)
        BY DEF Untold
      <3>4. ASSUME NEW n \in notices, n.to = k PROVE n \in notices'
        BY <3>4 DEF Crash
      <3>. QED
        BY <1>1, <1>2, <2>1, <2>2, <3>1, <3>2, <3>3, <3>4 DEF Tells, Owed
    <2>3. CASE j # i
      <3>1. \A w \in PushesAt(j) : push'[w] = push[w]
        BY <2>3 DEF Crash, PushesAt
      <3>2. /\ pending'[j] = pending[j] /\ sending'[j] = sending[j]
            /\ announcer'[j] = announcer[j] /\ wake'[j] = wake[j]
        BY <2>1, <2>3 DEF Crash, Typed
      <3>3. WillAnnounce(j) => WillAnnounce(j)'
        BY <1>1, <3>1, <3>2 DEF WillAnnounce, PushesAt
      <3>4. ASSUME NEW n \in notices, n.to = k PROVE n \in notices'
        BY <3>4 DEF Crash
      <3>. QED
        BY <1>1, <1>2, <2>1, <2>3, <3>1, <3>2, <3>3, <3>4 DEF Tells, Owed
    <2>. QED
      BY <2>2, <2>3
  <1>3. SUFFICES ASSUME NEW p \in Pulls, Waiting(p)', NEW r \in Seen(p)' + 1 .. LogHead'
                 PROVE  <<r, route[p]>> \in Told'
    BY <1>1 DEF OwedAfterRead
  <1>4. p \notin PullsAt(i) /\ pull'[p] = pull[p]
    BY <1>1, <1>3 DEF Waiting, NoPull
  <1>5. Waiting(p) /\ Seen(p)' = Seen(p)
    BY <1>1, <1>3, <1>4 DEF Waiting, Seen
  <1>6. p \in DOMAIN route /\ route[p] \in Instances \ {i}
    BY <1>4, <1>5, RouteType DEF Waiting, Heeded, PullsAt
  <1>7. <<r, route[p]>> \in Told /\ r \in Nat
    BY <1>1, <1>3, <1>5, LogType DEF OwedAfterRead, Seen, Typed, PullStates
  <1>. QED
    BY <1>1, <1>2, <1>6, <1>7, ToldMember

-----------------------------------------------------------------------------
(* The theorems.                                                           *)

LEMMA InitInductive == Init => Inductive
  <1>. SUFFICES ASSUME Init PROVE Inductive
    OBVIOUS
  <1>1. Typed
    BY DEF Init, Typed, NoPull, PullStates
  <1>2. Queued
    BY FS_EmptySet DEF Init, Queued
  <1>3. Heeded /\ SendsWhole /\ NoneStranded /\ OwedAfterRead
    BY DEF Init, Heeded, SendsWhole, NoneStranded, OwedAfterRead, Waiting, NoPull
  <1>. QED
    BY <1>1, <1>2, <1>3 DEF Inductive

LEMMA StepInductive == Inductive /\ [Next]_vars => Inductive'
  <1>. SUFFICES ASSUME Inductive, [Next]_vars PROVE Inductive'
    OBVIOUS
  <1>1. ASSUME \/ UNCHANGED vars
               \/ \E i \in Instances : WorkerIdles(i) \/ WorkerEnds(i)
        PROVE  OwedAfterRead'
    <2>1. UNCHANGED <<route, records, push, pull, cursor, pending, wake, announcer, sending,
                      notices, lost>>
      BY <1>1 DEF WorkerIdles, WorkerEnds, vars, writing, pulling, announcing
    <2>2. Told' = Told /\ LogHead' = LogHead
      BY <2>1 DEF Told, Tells, Owed, WillAnnounce, PushesAt, LogHead
    <2>. QED
      BY <2>1, <2>2 DEF Inductive, OwedAfterRead, Waiting, Seen
  <1>2. OwedAfterRead'
    BY <1>1, PushesOwe, CommitsOwe, WokenOwe, AnnouncersOwe, PullsOwe, CrashOwes
       DEF Next, Work, Tell
  <1>. QED
    BY <1>2, TypedStep, QueuedStep, HeededStep DEF Inductive

\* Whatever happens, a push that waits in a queue has a worker to commit it.
THEOREM NoneStrandedHolds == Spec => []NoneStranded
<1>1. Inductive => NoneStranded
  BY DEF Inductive
<1>. QED
  BY <1>1, InitInductive, StepInductive, PTL DEF Spec

\* However many instances, pushes and pulls there are, and whatever fails: a
\* pull that sleeps over a record will be woken for it, or nobody was told.
THEOREM WakeOwedHolds == Spec => []WakeOwed
<1>1. Inductive => WakeOwed
  <2>. SUFFICES ASSUME Inductive, NEW p \in Pulls, pull[p].pc = "asleep", ~pull[p].changed,
                       NEW r \in cursor[p] + 1 .. LogHead
                PROVE  Owed(r, route[p]) \/ <<r, route[p]>> \in lost
    BY DEF WakeOwed
  <2>1. Waiting(p) /\ Seen(p) = cursor[p] /\ cursor[p] \in Nat /\ LogHead \in Nat
    BY LogType DEF Inductive, Waiting, Seen, Typed
  <2>2. <<r, route[p]>> \in Told /\ r \in Nat /\ route[p] \in Instances
    BY <2>1, RouteType DEF Inductive, OwedAfterRead, Heeded, Waiting
  <2>. QED
    BY <2>2, ToldMember DEF Tells
<1>. QED
  BY <1>1, InitInductive, StepInductive, PTL DEF Spec

=============================================================================
