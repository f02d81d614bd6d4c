----------------------------- MODULE PullWakes -----------------------------
(***************************************************************************)
(* How a committed push wakes the pulls that wait for it, on its own       *)
(* instance through the event hub (sync-store, hub.rs and lib.rs) and on   *)
(* the others through the announcer and NOTIFY (sync-store-postgres,       *)
(* lib.rs), with the workers that commit the pushes there.                 *)
(*                                                                         *)
(* One workspace with one domain.  A push adds one record.  A watch        *)
(* receiver is kept as whether it has a change it has not seen.  What      *)
(* waits to be announced is the set of records whose commits it stands for *)
(* (the code keeps their highest sequence, and any notification wakes).    *)
(* A store on SQLite is one instance, which has nobody to announce to.     *)
(***************************************************************************)
EXTENDS Naturals, Sequences, FiniteSets

CONSTANTS
    Instances,
    Pushes,
    Pulls,          \* devices that pull, one request at a time
    Routes,         \* which pushes and pulls there are, and the instance of each
    MaxFaults       \* bound: callers gone, notices and sends that fail, crashes

ASSUME ReachAssumption ==
    /\ Routes \subseteq UNION {[S -> Instances] : S \in SUBSET (Pushes \cup Pulls)}
    /\ Pushes \cap Pulls = {}
    /\ MaxFaults \in Nat

VARIABLES
    route,          \* the one of Routes that the requests take
    records,        \* the log: pushes in the order they committed
    push,           \* how far each push has come
    queue,          \* the pushes that wait for an instance's worker
    worker,         \* the worker of the domain's group on an instance
    hub,            \* whether the hub has an entry for the workspace
    receivers,      \* the pulls subscribed to that entry
    pull,           \* each pull: where it is, and whether its receiver saw a change
    cursor,         \* what each device has read
    pending,        \* records that wait for the announcer
    wake,           \* whether its channel of one holds a wake
    announcer,      \* where its task stands
    sending,        \* the records it is sending
    notices,        \* notifications on their way
    lost,           \* history: records of whose commit an instance hears nothing
    faults

writing == <<records, push, queue, worker>>
pulling == <<hub, receivers, pull, cursor>>
announcing == <<pending, wake, announcer, sending, notices>>
vars == <<route, writing, pulling, announcing, lost, faults>>

NoPull == [pc |-> "none", changed |-> FALSE, late |-> FALSE, head |-> 0]

Init ==
    /\ route \in Routes
    /\ records = <<>>
    /\ push = [w \in Pushes |-> "none"]
    /\ queue = [i \in Instances |-> {}]
    /\ worker = [i \in Instances |-> "none"]
    /\ hub = [i \in Instances |-> "empty"]
    /\ receivers = [i \in Instances |-> {}]
    /\ pull = [p \in Pulls |-> NoPull]
    /\ cursor = [p \in Pulls |-> 0]
    /\ pending = [i \in Instances |-> {}]
    /\ wake = [i \in Instances |-> FALSE]
    /\ announcer = [i \in Instances |-> "wait"]
    /\ sending = [i \in Instances |-> {}]
    /\ notices = {}
    /\ lost = {}
    /\ faults = 0

Fault == faults < MaxFaults /\ faults' = faults + 1
LogHead == Len(records)
RecordsOf(S) == {r \in DOMAIN records : records[r] \in S}
HeardNowhere(S) == S \X Instances
PushesAt(i) == {w \in Pushes \cap DOMAIN route : route[w] = i}
PullsAt(i) == {p \in Pulls \cap DOMAIN route : route[p] = i}

-----------------------------------------------------------------------------
(* Pushes, and the worker that commits them.                               *)

\* write_grouped: queues the push under the lock, where it starts a worker if
\* there is none.
Queue(w) ==
    LET i == route[w] IN
    /\ w \in DOMAIN route /\ push[w] = "none"
    /\ push' = [push EXCEPT ![w] = "queued"]
    /\ queue' = [queue EXCEPT ![i] = @ \cup {w}]
    /\ worker' = [worker EXCEPT ![i] = IF @ = "none" THEN "take" ELSE @]
    /\ UNCHANGED <<route, records, pulling, announcing, lost, faults>>

\* The worker's transaction commits what is queued, in some order, and the
\* callers that are still there hear.
WorkerCommits(i) ==
    /\ worker[i] = "take" /\ queue[i] # {}
    /\ \E order \in [1..Cardinality(queue[i]) -> queue[i]] :
        /\ \A j, k \in DOMAIN order : order[j] = order[k] => j = k
        /\ records' = records \o order
        /\ lost' = lost \cup HeardNowhere(
             {LogHead + k : k \in {x \in DOMAIN order : push[order[x]] = "gone"}})
    /\ push' = [w \in Pushes |->
                  IF w \in queue[i] /\ push[w] = "queued" THEN "committed" ELSE push[w]]
    /\ queue' = [queue EXCEPT ![i] = {}]
    /\ UNCHANGED <<route, worker, pulling, announcing, faults>>

\* It finds its queue empty.
WorkerIdles(i) ==
    /\ worker[i] = "take" /\ queue[i] = {}
    /\ worker' = [worker EXCEPT ![i] = "check"]
    /\ UNCHANGED <<route, records, push, queue, pulling, announcing, lost, faults>>

\* Slip: it ends on what it found, without another look under the lock.
WorkerJustEnds(i) ==
    /\ worker[i] = "check"
    /\ worker' = [worker EXCEPT ![i] = "none"]
    /\ UNCHANGED <<route, records, push, queue, pulling, announcing, lost, faults>>

\* It looks again under the lock, and ends if nothing came.
WorkerEnds(i) ==
    /\ worker[i] = "check"
    /\ worker' = [worker EXCEPT ![i] = IF queue[i] = {} THEN "none" ELSE "take"]
    /\ UNCHANGED <<route, records, push, queue, pulling, announcing, lost, faults>>

Wakes(i) ==
    IF hub[i] = "entry"
    THEN [p \in Pulls |-> IF p \in receivers[i] THEN [pull[p] EXCEPT !.changed = TRUE] ELSE pull[p]]
    ELSE pull

\* Store::push goes on: it wakes the pulls of its instance,
Notify(w) ==
    /\ push[w] = "committed"
    /\ push' = [push EXCEPT ![w] = "notified"]
    /\ pull' = Wakes(route[w])
    /\ UNCHANGED <<route, records, queue, worker, hub, receivers, cursor, announcing, lost, faults>>

\* and announces the commit to the others: announce merges it into what is
\* pending,
Announce(w) ==
    /\ push[w] = "notified"
    /\ push' = [push EXCEPT ![w] = "merged"]
    /\ pending' = [pending EXCEPT ![route[w]] = @ \cup RecordsOf({w})]
    /\ UNCHANGED <<route, records, queue, worker, pulling, wake, announcer, sending, notices, lost, faults>>

\* and leaves a wake for the announcer, if none is there.
WakeAnnouncer(w) ==
    /\ push[w] = "merged"
    /\ push' = [push EXCEPT ![w] = "done"]
    /\ wake' = [wake EXCEPT ![route[w]] = TRUE]
    /\ UNCHANGED <<route, records, queue, worker, pulling, pending, announcer, sending, notices,
                   lost, faults>>

\* The caller goes away before it hears: the push is committed all the same,
\* and nobody tells of it.
CallerGoes(w) ==
    /\ push[w] \in {"queued", "committed"} /\ Fault
    /\ push' = [push EXCEPT ![w] = "gone"]
    /\ lost' = lost \cup HeardNowhere(RecordsOf({w}))
    /\ UNCHANGED <<route, records, queue, worker, pulling, announcing>>

-----------------------------------------------------------------------------
(* The announcer, and the listeners of the other instances.                *)

TakeWake(i) ==
    /\ announcer[i] = "wait" /\ wake[i]
    /\ wake' = [wake EXCEPT ![i] = FALSE]
    /\ announcer' = [announcer EXCEPT ![i] = "take"]
    /\ UNCHANGED <<route, writing, pulling, pending, sending, notices, lost, faults>>

TakePending(i) ==
    /\ announcer[i] = "take" /\ pending[i] # {}
    /\ sending' = [sending EXCEPT ![i] = pending[i]]
    /\ pending' = [pending EXCEPT ![i] = {}]
    /\ announcer' = [announcer EXCEPT ![i] = "send"]
    /\ UNCHANGED <<route, writing, pulling, wake, notices, lost, faults>>

\* Nothing pends, so it waits for the next wake.
Rests(i) ==
    /\ announcer[i] = "take" /\ pending[i] = {}
    /\ announcer' = [announcer EXCEPT ![i] = "wait"]
    /\ UNCHANGED <<route, writing, pulling, pending, wake, sending, notices, lost, faults>>

Sends(i) ==
    /\ announcer[i] = "send"
    /\ notices' = notices \cup {[to |-> j, records |-> sending[i]] : j \in Instances \ {i}}
    /\ sending' = [sending EXCEPT ![i] = {}]
    /\ announcer' = [announcer EXCEPT ![i] = "take"]
    /\ UNCHANGED <<route, writing, pulling, pending, wake, lost, faults>>

\* What could not be sent pends again.
SendFails(i) ==
    /\ announcer[i] = "send" /\ Fault
    /\ pending' = [pending EXCEPT ![i] = @ \cup sending[i]]
    /\ sending' = [sending EXCEPT ![i] = {}]
    /\ announcer' = [announcer EXCEPT ![i] = "take"]
    /\ UNCHANGED <<route, writing, pulling, wake, notices, lost>>

\* listen_loop takes a notification of another instance.
Listen(n) ==
    /\ n \in notices
    /\ notices' = notices \ {n}
    /\ pull' = Wakes(n.to)
    /\ UNCHANGED <<route, writing, hub, receivers, cursor, pending, wake, announcer, sending, lost, faults>>

\* The listener's connection broke, and what was sent meanwhile is gone.
NoticeLost(n) ==
    /\ n \in notices /\ Fault
    /\ notices' = notices \ {n}
    /\ lost' = lost \cup n.records \X {n.to}
    /\ UNCHANGED <<route, writing, pulling, pending, wake, announcer, sending>>

-----------------------------------------------------------------------------
(* Pulls.                                                                  *)

\* A device pulls: its receiver is there before the first read.
Subscribe(p) ==
    LET i == route[p] IN
    /\ p \in DOMAIN route /\ pull[p].pc = "none"
    /\ pull' = [pull EXCEPT ![p] = [NoPull EXCEPT !.pc = "read"]]
    /\ hub' = [hub EXCEPT ![i] = "entry"]
    /\ receivers' = [receivers EXCEPT ![i] = @ \cup {p}]
    /\ UNCHANGED <<route, writing, cursor, announcing, lost, faults>>

\* One snapshot of the log.
Read(p) ==
    /\ pull[p].pc = "read"
    /\ pull' = [pull EXCEPT ![p].pc = "judge", ![p].head = LogHead]
    /\ UNCHANGED <<route, writing, hub, receivers, cursor, announcing, lost, faults>>

\* The request ends, and its subscription drops the receiver.
Drops(p) ==
    /\ pull' = [pull EXCEPT ![p] = [NoPull EXCEPT !.pc = "dropped"]]
    /\ receivers' = [receivers EXCEPT ![route[p]] = @ \ {p}]

\* It answers with records, or at its deadline without.
Answer(p) ==
    /\ pull[p].pc = "judge"
    /\ pull[p].head > cursor[p] \/ pull[p].late
    /\ cursor' = [cursor EXCEPT ![p] = pull[p].head]
    /\ Drops(p)
    /\ UNCHANGED <<route, writing, hub, announcing, lost, faults>>

\* Slip: what changed by the time it sleeps counts as seen.
SleepsAfresh(p) ==
    /\ pull[p].pc = "judge"
    /\ pull[p].head = cursor[p] /\ ~pull[p].late
    /\ pull' = [pull EXCEPT ![p].pc = "asleep", ![p].head = 0, ![p].changed = FALSE]
    /\ UNCHANGED <<route, writing, hub, receivers, cursor, announcing, lost, faults>>

\* Nothing to read: it waits.
Sleep(p) ==
    /\ pull[p].pc = "judge"
    /\ pull[p].head = cursor[p] /\ ~pull[p].late
    /\ pull' = [pull EXCEPT ![p].pc = "asleep", ![p].head = 0]
    /\ UNCHANGED <<route, writing, hub, receivers, cursor, announcing, lost, faults>>

\* changed() returns at once for a change the receiver has not seen.
Wake(p) ==
    /\ pull[p].pc = "asleep" /\ pull[p].changed
    /\ pull' = [pull EXCEPT ![p].pc = "read", ![p].changed = FALSE]
    /\ UNCHANGED <<route, writing, hub, receivers, cursor, announcing, lost, faults>>

\* Slip: the deadline passes while the pull sleeps on.
DeadlineUnheard(p) ==
    /\ pull[p].pc = "asleep" /\ ~pull[p].late
    /\ pull' = [pull EXCEPT ![p].late = TRUE]
    /\ UNCHANGED <<route, writing, hub, receivers, cursor, announcing, lost, faults>>

\* The wait ends, and one more read follows.  (A deadline that comes during a
\* read ends the wait after it at once.)
Deadline(p) ==
    /\ pull[p].pc = "asleep"
    /\ pull' = [pull EXCEPT ![p].late = TRUE, ![p].pc = "read"]
    /\ UNCHANGED <<route, writing, hub, receivers, cursor, announcing, lost, faults>>

\* Slip: the entry goes, whoever else holds it.
ReleaseAlways(p) ==
    LET i == route[p] IN
    /\ pull[p].pc = "dropped"
    /\ pull' = [pull EXCEPT ![p] = NoPull]
    /\ hub' = [hub EXCEPT ![i] = "empty"]
    /\ receivers' = [receivers EXCEPT ![i] = {}]
    /\ UNCHANGED <<route, writing, cursor, announcing, lost, faults>>

\* The request's subscription drops its receiver first, and then removes the
\* hub's entry under the lock unless somebody holds it.
Release(p) ==
    LET i == route[p] IN
    /\ pull[p].pc = "dropped"
    /\ pull' = [pull EXCEPT ![p] = NoPull]
    /\ hub' = [hub EXCEPT ![i] = IF receivers[i] = {} THEN "empty" ELSE @]
    /\ UNCHANGED <<route, writing, receivers, cursor, announcing, lost, faults>>

-----------------------------------------------------------------------------
\* An instance stops, and starts again.  What it had not sent is gone.
Untold(i) ==
    RecordsOf({w \in PushesAt(i) : push[w] \in {"committed", "notified"}})
        \cup pending[i] \cup sending[i]

Crash(i) ==
    /\ Fault
    /\ push' = [w \in Pushes |->
                  IF w \in PushesAt(i) /\ push[w] \notin {"none", "done"} THEN "gone" ELSE push[w]]
    /\ queue' = [queue EXCEPT ![i] = {}]
    /\ worker' = [worker EXCEPT ![i] = "none"]
    /\ hub' = [hub EXCEPT ![i] = "empty"]
    /\ receivers' = [receivers EXCEPT ![i] = {}]
    /\ pull' = [p \in Pulls |->
                  IF p \in PullsAt(i)
                  THEN NoPull ELSE pull[p]]
    /\ pending' = [pending EXCEPT ![i] = {}]
    /\ wake' = [wake EXCEPT ![i] = FALSE]
    /\ announcer' = [announcer EXCEPT ![i] = "wait"]
    /\ sending' = [sending EXCEPT ![i] = {}]
    /\ notices' = {n \in notices : n.to # i}
    /\ lost' = lost \cup Untold(i) \X (Instances \ {i})
    /\ UNCHANGED <<route, records, cursor>>

Work(i) == WorkerCommits(i) \/ WorkerIdles(i) \/ WorkerEnds(i)
Tell(w) == Notify(w) \/ Announce(w) \/ WakeAnnouncer(w)
Announcer(i) == TakeWake(i) \/ TakePending(i) \/ Rests(i) \/ Sends(i)
Pull(p) == Read(p) \/ Answer(p) \/ Sleep(p) \/ Wake(p) \/ Release(p)

Next ==
    \/ \E w \in Pushes : Queue(w) \/ Tell(w) \/ CallerGoes(w)
    \/ \E i \in Instances : Work(i) \/ Announcer(i) \/ SendFails(i) \/ Crash(i)
    \/ \E n \in notices : Listen(n) \/ NoticeLost(n)
    \/ \E p \in Pulls : Subscribe(p) \/ Pull(p) \/ Deadline(p)

Spec == Init /\ [][Next]_vars

\* Every task goes on while it can, and the devices pull again.  A deadline
\* is left to come or not, so that nothing is read in time because of one.
FairSpec ==
    /\ Spec
    /\ \A w \in Pushes : WF_vars(Tell(w))
    /\ \A i \in Instances : WF_vars(Work(i)) /\ WF_vars(Announcer(i))
    /\ WF_vars(\E n \in notices : Listen(n))
    /\ \A p \in Pulls : WF_vars(Subscribe(p)) /\ WF_vars(Pull(p))

-----------------------------------------------------------------------------
(* Properties.                                                             *)

\* No push is left in a queue that no worker will look at again: a worker
\* ends only under the lock that a push queues under (group_loop).
NoneStranded == \A i \in Instances : queue[i] # {} => worker[i] # "none"

\* Somebody is still about to wake instance i over the record r.
WillAnnounce(j) ==
    \/ announcer[j] # "wait" \/ wake[j]
    \/ \E w \in PushesAt(j) : push[w] = "merged"
Owed(r, i) ==
    LET w == records[r]
        j == route[w]
    IN  \/ push[w] = "committed"
        \/ /\ j # i
           /\ \/ push[w] = "notified"
              \/ r \in pending[j] /\ WillAnnounce(j)
              \/ r \in sending[j]
              \/ \E n \in notices : n.to = i /\ r \in n.records

\* A pull that sleeps over a record it has not read will be woken, however
\* reads, commits, sleeps, wakes and the end of other pulls interleave, unless
\* the wake was lost to a crash, a broken connection or a caller who left
\* (hub.rs, subscribe: "no commit slips between the read and the wait").
WakeOwed ==
    \A p \in Pulls : pull[p].pc = "asleep" /\ ~pull[p].changed =>
        \A r \in cursor[p] + 1 .. LogHead :
            Owed(r, route[p]) \/ <<r, route[p]>> \in lost

\* And it is woken, without waiting for its deadline.
Missed(p) == \E r \in cursor[p] + 1 .. LogHead : <<r, route[p]>> \notin lost
Woken == \A p \in Pulls :
    pull[p].pc = "asleep" /\ Missed(p) ~> pull[p].pc # "asleep" \/ ~Missed(p)

\* What is never heard of costs a pull at most its wait: where deadlines come,
\* every device that goes on pulling reads every record.
CaughtUp ==
    (\A p \in Pulls : WF_vars(Deadline(p))) =>
        \A p \in Pulls : []<>(p \in DOMAIN route => cursor[p] = LogHead)

=============================================================================
