---------------------------- MODULE GroupCommit ----------------------------
(***************************************************************************)
(* The one writer of the SQLite store (sync-store-sqlite, lib.rs): callers *)
(* queue writes, the writer takes them in groups, runs each under a        *)
(* savepoint of one transaction, commits, and only then answers.  A write  *)
(* sees those before it in its group, which nobody else sees yet.          *)
(*                                                                         *)
(* A write stands for a job that a caller hands to Backend::write.  Of what *)
(* jobs do it keeps that one may refuse over what another has written: a   *)
(* push over a record at its position, a creation over one under its ID.   *)
(***************************************************************************)
EXTENDS Integers, Sequences, FiniteSets

CONSTANTS
    Writes,
    Conflicts,      \* pairs of writes that exclude each other
    Capacity,       \* of the queue
    MaxGroup,       \* MAX_GROUP
    MaxFaults       \* bound: statements and jobs that fail, panics, crashes

ASSUME WriterAssumption ==
    /\ Conflicts \subseteq Writes \X Writes
    /\ \A v, w \in Writes : <<v, w>> \in Conflicts => <<w, v>> \in Conflicts /\ v # w
    /\ Capacity \in Nat \ {0}
    /\ MaxGroup \in Nat \ {0}
    /\ MaxFaults \in Nat

VARIABLES
    stored,         \* the writes committed to the database
    answer,         \* what each caller has been told
    sending,        \* callers waiting for room in the queue
    queue,          \* the queued writes
    backend,        \* open, or closed: whether it still hands out its sender
    writer,         \* where the writer task stands
    group,          \* the writes it has taken
    verdict,        \* what the jobs of the group that ran have said
    working,        \* the store as the open transaction sees it
    faults

calls == <<answer, sending, queue, backend>>
task == <<writer, group, verdict, working>>
vars == <<stored, calls, task, faults>>

-----------------------------------------------------------------------------
Init ==
    /\ stored = {}
    /\ answer = [w \in Writes |-> "none"]
    /\ sending = {}
    /\ queue = <<>>
    /\ backend = "open"
    /\ writer = "receive"
    /\ group = <<>>
    /\ verdict = <<>>
    /\ working = {}
    /\ faults = 0

Ended == writer \in {"closed", "stopped"}
Members(s) == {s[k] : k \in DOMAIN s}
Fault == faults < MaxFaults /\ faults' = faults + 1

-----------------------------------------------------------------------------
(* Callers.                                                                *)

\* A call takes a sender; a backend that was closed has none.
Ask(w) ==
    /\ answer[w] = "none"
    /\ IF backend = "open"
       THEN answer' = [answer EXCEPT ![w] = "waiting"] /\ sending' = sending \cup {w}
       ELSE answer' = [answer EXCEPT ![w] = "failed"] /\ UNCHANGED sending
    /\ UNCHANGED <<stored, queue, backend, task, faults>>

Send(w) ==
    /\ w \in sending /\ ~Ended
    /\ Len(queue) < Capacity
    /\ queue' = Append(queue, w)
    /\ sending' = sending \ {w}
    /\ UNCHANGED <<stored, answer, backend, task, faults>>

\* The writer has gone, and its end of the queue with it.
SendFails(w) ==
    /\ w \in sending /\ Ended
    /\ answer' = [answer EXCEPT ![w] = "failed"]
    /\ sending' = sending \ {w}
    /\ UNCHANGED <<stored, queue, backend, task, faults>>

\* A cancelled request: one that is queued runs all the same.
GiveUp(w) ==
    /\ answer[w] = "waiting"
    /\ answer' = [answer EXCEPT ![w] = "gone"]
    /\ sending' = sending \ {w}
    /\ UNCHANGED <<stored, queue, backend, task, faults>>

\* The server shuts the store down.
Close ==
    /\ backend = "open" /\ backend' = "closed"
    /\ UNCHANGED <<stored, answer, sending, queue, task, faults>>

-----------------------------------------------------------------------------
(* The writer.                                                             *)

\* recv for the first write of a group, try_recv for more.
Receive ==
    /\ writer = "receive" /\ queue # <<>> /\ Len(group) < MaxGroup
    /\ group' = Append(group, Head(queue))
    /\ queue' = Tail(queue)
    /\ UNCHANGED <<stored, answer, sending, backend, writer, verdict, working, faults>>

\* BEGIN IMMEDIATE, once the group is full or the queue is empty.
Begin ==
    /\ writer = "receive" /\ group # <<>>
    /\ queue = <<>> \/ Len(group) = MaxGroup
    /\ writer' = "run"
    /\ working' = stored
    /\ verdict' = <<>>
    /\ UNCHANGED <<stored, calls, group, faults>>

\* The group's transaction rolls back: BEGIN, a savepoint's statement or
\* COMMIT failed.
GroupFails ==
    /\ writer = "run" /\ Fault
    /\ writer' = "failed"
    /\ UNCHANGED <<stored, calls, group, verdict, working>>

Refuses(w, store) == \E v \in store : <<v, w>> \in Conflicts

\* Slip: a job sees only what is committed.
RunsOnStored(w, said) ==
    /\ verdict' = Append(verdict, said)
    /\ CASE said = "ok" -> ~Refuses(w, stored) /\ working' = working \cup {w}
         [] said = "refused" -> Refuses(w, stored) /\ UNCHANGED working
         [] OTHER -> UNCHANGED working

\* A job runs under its savepoint, which is released when it is done and
\* rolled back when it refused or failed.
Runs(w, said) ==
    /\ verdict' = Append(verdict, said)
    /\ CASE said = "ok" -> ~Refuses(w, working) /\ working' = working \cup {w}
         [] said = "refused" -> Refuses(w, working) /\ UNCHANGED working
         [] OTHER -> UNCHANGED working

RunNext ==
    /\ writer = "run" /\ Len(verdict) < Len(group)
    /\ \E said \in {"ok", "refused", "failed"} :
          /\ Runs(group[Len(verdict) + 1], said)
          /\ IF said = "failed" THEN Fault ELSE UNCHANGED faults
    /\ UNCHANGED <<stored, calls, writer, group>>

Commit ==
    /\ writer = "run" /\ Len(verdict) = Len(group)
    /\ stored' = working
    /\ writer' = "committed"
    /\ UNCHANGED <<calls, group, verdict, working, faults>>

\* Slip: a job that said it was done is told so, whatever the commit says.
AnswerAtOnce(k) == IF k \in DOMAIN verdict THEN verdict[k] ELSE "failed"

\* Request::finish: a refusal stands even when the group failed.
AnswerOf(k) ==
    IF k \in DOMAIN verdict /\ (writer = "committed" \/ verdict[k] # "ok") THEN verdict[k] ELSE "failed"

\* Slip: only the writes that ran are answered.
TellsThoseThatRan(w) == \E k \in DOMAIN verdict : group[k] = w

Tells(w) == \E k \in DOMAIN group : group[k] = w

\* Every write of the group is answered, if its caller is still there.
Finish ==
    /\ writer \in {"committed", "failed"}
    /\ answer' = [w \in Writes |->
          IF Tells(w) /\ answer[w] = "waiting"
          THEN AnswerOf(CHOOSE k \in DOMAIN group : group[k] = w) ELSE answer[w]]
    /\ writer' = "receive"
    /\ group' = <<>>
    /\ verdict' = <<>>
    /\ UNCHANGED <<stored, sending, queue, backend, working, faults>>

\* Slip: a call that went away leaves its sender behind.
NoSendersKept == backend = "closed" /\ \A w \in Writes : answer[w] \notin {"waiting", "gone"}

\* Each call holds a sender until its answer.
NoSenders == backend = "closed" /\ \A w \in Writes : answer[w] # "waiting"

\* recv finds an empty queue that nobody can send to, and the writer returns.
Drain ==
    /\ writer = "receive" /\ group = <<>> /\ queue = <<>> /\ NoSenders
    /\ writer' = "closed"
    /\ UNCHANGED <<stored, calls, group, verdict, working, faults>>

\* A job panics: the task ends, its connection rolls back, and the replies of
\* its group and its queue are dropped.
Panic ==
    /\ writer = "run" /\ Len(verdict) < Len(group) /\ Fault
    /\ writer' = "stopped"
    /\ answer' = [w \in Writes |->
          IF answer[w] = "waiting" /\ w \in Members(group) \cup Members(queue)
          THEN "failed" ELSE answer[w]]
    /\ queue' = <<>>
    /\ group' = <<>>
    /\ verdict' = <<>>
    /\ UNCHANGED <<stored, sending, backend, working>>

\* The process stops, at once or because its writer ended, and starts again on
\* what the database holds.
Restart ==
    /\ Fault
    /\ answer' = [w \in Writes |-> IF answer[w] = "waiting" THEN "lost" ELSE answer[w]]
    /\ sending' = {}
    /\ queue' = <<>>
    /\ backend' = "open"
    /\ writer' = "receive"
    /\ group' = <<>>
    /\ verdict' = <<>>
    /\ UNCHANGED <<stored, working>>

-----------------------------------------------------------------------------
WriterSteps == Receive \/ Begin \/ RunNext \/ Commit \/ Finish \/ Drain

Next ==
    \/ \E w \in Writes : Ask(w) \/ Send(w) \/ SendFails(w) \/ GiveUp(w)
    \/ Close \/ WriterSteps \/ GroupFails \/ Panic \/ Restart

Spec == Init /\ [][Next]_vars

\* The writer task runs while it can; waiting senders get room in turn.
Fairness ==
    /\ WF_vars(WriterSteps)
    /\ \A w \in Writes : SF_vars(Send(w)) /\ WF_vars(SendFails(w))

FairSpec == Spec /\ Fairness

-----------------------------------------------------------------------------
(* Properties.                                                             *)

TypeOK ==
    /\ stored \subseteq Writes /\ working \subseteq Writes /\ sending \subseteq Writes
    /\ answer \in [Writes -> {"none", "waiting", "gone", "lost", "ok", "refused", "failed"}]
    /\ queue \in Seq(Writes) /\ group \in Seq(Writes)
    /\ verdict \in Seq({"ok", "refused", "failed"})
    /\ backend \in {"open", "closed"}
    /\ writer \in {"receive", "run", "committed", "failed", "closed", "stopped"}
    /\ faults \in Nat

\* A write waits in one place, and while it does its caller waits or has gone.
InOnePlace ==
    /\ \A j, k \in DOMAIN queue : queue[j] = queue[k] => j = k
    /\ \A j, k \in DOMAIN group : group[j] = group[k] => j = k
    /\ \A j \in DOMAIN queue, k \in DOMAIN group : queue[j] # group[k]
    /\ \A w \in sending : answer[w] = "waiting" /\ w \notin Members(queue) \cup Members(group)
    /\ \A w \in Members(queue) \cup Members(group) : answer[w] \in {"waiting", "gone"}
    /\ \A w \in Writes : answer[w] = "waiting" =>
          w \in sending \cup Members(queue) \cup Members(group)

\* Of the group, the transaction holds what its jobs said they did.
Ran == {group[k] : k \in {x \in DOMAIN verdict : verdict[x] = "ok"}}

\* A refusal in the group is over a write in the store or before it in the group.
RefusedOver(k) ==
    \E v \in Writes : <<v, group[k]>> \in Conflicts /\ v \in stored \cup Ran

GroupRuns ==
    /\ Len(verdict) <= Len(group)
    /\ writer \notin {"run", "committed", "failed"} => verdict = <<>>
    /\ writer \in {"closed", "stopped"} => group = <<>> /\ queue = <<>>
    /\ writer = "run" => working = stored \cup Ran
    /\ \A k \in DOMAIN verdict : verdict[k] = "refused" => RefusedOver(k)
    /\ writer = "committed" => Len(verdict) = Len(group) /\ Ran \subseteq stored
    /\ \A k \in DOMAIN group : group[k] \in stored =>
          writer = "committed" /\ verdict[k] = "ok"

\* What is stored was asked for and not denied, and no two of it exclude each
\* other, nor would they if the transaction committed.
StoreSound ==
    /\ \A w \in stored : answer[w] \in {"waiting", "gone", "lost", "ok"}
    /\ \A w \in Writes : answer[w] = "ok" => w \in stored
    /\ \A w \in sending \cup Members(queue) : w \notin stored
    /\ \A v, w \in stored : <<v, w>> \notin Conflicts
    /\ writer = "run" => \A v, w \in working : <<v, w>> \notin Conflicts

\* The inductive invariant behind AnswersKept: where each write is, what the
\* open transaction holds, and what has been said of it agree at every step
\* (lib.rs, write_loop and commit_group).
Consistent == TypeOK /\ InOnePlace /\ GroupRuns /\ StoreSound

\* Whatever shares its group, an answer is true of the store for good, but for
\* a refusal over a write whose group failed (lib.rs, commit_group and finish).
Promise == INSTANCE AtomicWrites
AnswersKept == Promise!Spec

\* A store that has been closed has answered every write it had taken or was
\* about to take (lib.rs, close: "Finishes the queued writes").
CloseDrains == writer = "closed" => \A w \in Writes : answer[w] # "waiting"

\* A shutdown does not hang: close waits for the writer, which waits for every
\* call's sender, and each call for the writer's answer or its place in a full
\* queue, yet the writer ends (lib.rs, close and write).
CloseEnds == backend = "closed" ~> writer \in {"closed", "stopped"} \/ backend = "open"

\* Whoever waits hears in the end, also when its group or the writer fails.
Answered == \A w \in Writes : answer[w] = "waiting" ~> answer[w] # "waiting"

=============================================================================
