------------------------- MODULE GroupCommitProofs -------------------------
(***************************************************************************)
(* Theorems about GroupCommit, for any writes, any exclusions between      *)
(* them, and any sizes of the queue and of a group: every step keeps       *)
(* Consistent, and the writer implements AtomicWrites.                     *)
(***************************************************************************)
EXTENDS GroupCommit, SequenceTheorems, TLAPS

USE DEF Members

-----------------------------------------------------------------------------
(* Sequences.                                                              *)

LEMMA Appended ==
    ASSUME NEW S, NEW s \in Seq(S), NEW e \in S
    PROVE  /\ Append(s, e) \in Seq(S)
           /\ Len(Append(s, e)) = Len(s) + 1
           /\ DOMAIN Append(s, e) = 1..(Len(s) + 1)
           /\ \A k \in DOMAIN s : Append(s, e)[k] = s[k]
           /\ Append(s, e)[Len(s) + 1] = e
           /\ Members(Append(s, e)) = Members(s) \cup {e}
  <1>1. /\ Append(s, e) \in Seq(S)
        /\ Len(Append(s, e)) = Len(s) + 1
        /\ DOMAIN Append(s, e) = 1..(Len(s) + 1)
        /\ DOMAIN s = 1..Len(s) /\ Len(s) \in Nat
        /\ \A k \in 1..Len(s) : Append(s, e)[k] = s[k]
        /\ Append(s, e)[Len(s) + 1] = e
    OBVIOUS
  <1>2. Members(Append(s, e)) \subseteq Members(s) \cup {e}
    BY <1>1
  <1>3. Members(s) \cup {e} \subseteq Members(Append(s, e))
    BY <1>1
  <1>. QED
    BY <1>1, <1>2, <1>3

\* Without its head a sequence without repetitions has lost just that.
LEMMA HeadTaken ==
    ASSUME NEW S, NEW s \in Seq(S), s # <<>>
    PROVE  /\ Tail(s) \in Seq(S) /\ Head(s) \in S
           /\ Head(s) = s[1] /\ 1 \in DOMAIN s
           /\ DOMAIN Tail(s) = 1..(Len(s) - 1)
           /\ \A k \in DOMAIN Tail(s) : k + 1 \in DOMAIN s /\ Tail(s)[k] = s[k + 1]
           /\ Members(s) = Members(Tail(s)) \cup {Head(s)}
  <1>1. /\ Tail(s) \in Seq(S) /\ Head(s) \in S /\ Head(s) = s[1]
        /\ Len(s) \in Nat /\ Len(s) >= 1 /\ DOMAIN s = 1..Len(s)
        /\ Len(Tail(s)) = Len(s) - 1
        /\ DOMAIN Tail(s) = 1..(Len(s) - 1)
    OBVIOUS
  <1>2. \A k \in 1..(Len(s) - 1) : Tail(s)[k] = s[k + 1]
    BY <1>1
  <1>3. Members(s) \subseteq Members(Tail(s)) \cup {Head(s)}
    <2>1. ASSUME NEW k \in DOMAIN s PROVE s[k] \in Members(Tail(s)) \cup {Head(s)}
      <3>1. CASE k = 1
        BY <1>1, <3>1
      <3>2. CASE k # 1
        <4>1. k - 1 \in 1..(Len(s) - 1) /\ s[k] = Tail(s)[k - 1]
          BY <1>1, <1>2, <3>2
        <4>. QED
          BY <4>1, <1>1
      <3>. QED
        BY <3>1, <3>2
    <2>. QED
      BY <2>1
  <1>4. Members(Tail(s)) \cup {Head(s)} \subseteq Members(s)
    BY <1>1, <1>2
  <1>. QED
    BY <1>1, <1>2, <1>3, <1>4

-----------------------------------------------------------------------------
(* Steps that leave the group and its transaction alone.                   *)

LEMMA GroupLeftAlone ==
    ASSUME GroupRuns, UNCHANGED <<stored, group, verdict, working>>,
           writer' = writer, queue' = queue \/ writer \notin {"closed", "stopped"}
    PROVE  GroupRuns'
  <1>1. Ran' = Ran
    BY DEF Ran
  <1>2. ASSUME NEW k PROVE RefusedOver(k)' = RefusedOver(k)
    BY <1>1 DEF RefusedOver
  <1>. QED
    BY <1>1, <1>2 DEF GroupRuns

-----------------------------------------------------------------------------
(* Consistent is inductive.                                                *)

LEMMA InitConsistent == Init => Consistent
  BY WriterAssumption DEF Init, Consistent, TypeOK, InOnePlace, GroupRuns, StoreSound, Ran,
     RefusedOver

LEMMA AskKeeps ==
    ASSUME Consistent, NEW w \in Writes, Ask(w)
    PROVE  Consistent'
  <1>. USE DEF Consistent
  <1>1. TypeOK'
    BY SMT DEF TypeOK, Ask, calls, task
  <1>2. InOnePlace'
    <2>1. \A x \in Members(queue) \cup Members(group) : x # w
      BY DEF InOnePlace, Ask
    <2>2. sending' \subseteq sending \cup {w}
      BY DEF Ask
    <2>3. \A x \in Writes \ {w} : answer'[x] = answer[x]
      BY DEF Ask, TypeOK
    <2>4. \A x \in sending' : answer'[x] = "waiting"
      BY DEF Ask, TypeOK, InOnePlace
    <2>5. answer'[w] = "waiting" => w \in sending'
      BY DEF Ask, TypeOK
    <2>. QED
      <3>1. UNCHANGED <<queue, group>> /\ sending \subseteq sending' /\ sending' \subseteq Writes
        BY DEF Ask, task, TypeOK
      <3>2. \A x \in sending' : x \notin Members(queue) \cup Members(group)
        BY <2>1, <2>2 DEF InOnePlace
      <3>3. \A x \in Members(queue) \cup Members(group) : answer'[x] \in {"waiting", "gone"}
        <4>1. Members(queue) \cup Members(group) \subseteq Writes
          BY DEF TypeOK
        <4>. QED
          BY <4>1, <2>1, <2>3 DEF InOnePlace
      <3>4. \A x \in Writes : answer'[x] = "waiting" =>
                x \in sending' \cup Members(queue) \cup Members(group)
        BY <2>3, <2>5, <3>1 DEF InOnePlace
      <3>. QED
        BY <2>4, <3>1, <3>2, <3>3, <3>4 DEF InOnePlace
  <1>3. GroupRuns'
    BY GroupLeftAlone DEF Ask, calls, task
  <1>4. StoreSound'
    BY WriterAssumption, SMT DEF TypeOK, InOnePlace, GroupRuns, StoreSound, Ran, RefusedOver, Ask, calls, task
  <1>. QED
    BY <1>1, <1>2, <1>3, <1>4

LEMMA SendKeeps ==
    ASSUME Consistent, NEW w \in Writes, Send(w)
    PROVE  Consistent'
  <1>. USE DEF Consistent
  <1>1. TypeOK'
    BY Appended, SMT DEF TypeOK, Send, Ended, calls, task
  <1>2. InOnePlace'
    <2>1. /\ Members(queue') = Members(queue) \cup {w}
          /\ DOMAIN queue' = 1..(Len(queue) + 1) /\ DOMAIN queue = 1..Len(queue)
          /\ \A k \in DOMAIN queue : queue'[k] = queue[k]
          /\ queue'[Len(queue) + 1] = w
          /\ Len(queue) \in Nat
      <3>1. w \in Writes /\ queue \in Seq(Writes) /\ queue' = Append(queue, w)
        BY DEF Send, TypeOK
      <3>. QED
        BY <3>1, Appended
    <2>2. w \notin Members(queue) \cup Members(group) /\ answer[w] = "waiting"
      BY DEF Send, InOnePlace
    <2>3. \A j, k \in DOMAIN queue' : queue'[j] = queue'[k] => j = k
      BY <2>1, <2>2 DEF InOnePlace
    <2>4. \A j \in DOMAIN queue', k \in DOMAIN group : queue'[j] # group[k]
      BY <2>1, <2>2 DEF InOnePlace
    <2>5. UNCHANGED <<answer, group>> /\ sending' = sending \ {w}
      BY DEF Send, task
    <2>. QED
      BY <2>1, <2>2, <2>3, <2>4, <2>5 DEF InOnePlace
  <1>3. GroupRuns'
    BY GroupLeftAlone DEF Send, calls, task, Ended
  <1>4. StoreSound'
    BY Appended, WriterAssumption, SMT DEF TypeOK, InOnePlace, GroupRuns, StoreSound, Ran, RefusedOver, Send, Ended, calls, task
  <1>. QED
    BY <1>1, <1>2, <1>3, <1>4

LEMMA SendFailsKeeps ==
    ASSUME Consistent, NEW w \in Writes, SendFails(w)
    PROVE  Consistent'
  <1>. USE DEF Consistent
  <1>1. TypeOK'
    BY SMT DEF TypeOK, SendFails, Ended, calls, task
  <1>2. InOnePlace'
    BY SMT DEF TypeOK, InOnePlace, GroupRuns, SendFails, Ended, calls, task
  <1>3. GroupRuns'
    BY GroupLeftAlone DEF SendFails, calls, task, Ended
  <1>4. StoreSound'
    BY WriterAssumption, SMT DEF TypeOK, InOnePlace, GroupRuns, StoreSound, Ran, RefusedOver, SendFails, Ended, calls, task
  <1>. QED
    BY <1>1, <1>2, <1>3, <1>4

LEMMA GiveUpKeeps ==
    ASSUME Consistent, NEW w \in Writes, GiveUp(w)
    PROVE  Consistent'
  <1>. USE DEF Consistent
  <1>1. TypeOK'
    BY SMT DEF TypeOK, GiveUp, calls, task
  <1>2. InOnePlace'
    BY SMT DEF TypeOK, InOnePlace, GroupRuns, GiveUp, calls, task
  <1>3. GroupRuns'
    BY GroupLeftAlone DEF GiveUp, calls, task
  <1>4. StoreSound'
    BY WriterAssumption, SMT DEF TypeOK, InOnePlace, GroupRuns, StoreSound, Ran, RefusedOver, GiveUp, calls, task
  <1>. QED
    BY <1>1, <1>2, <1>3, <1>4

LEMMA CloseKeeps ==
    ASSUME Consistent, Close
    PROVE  Consistent'
  <1>. USE DEF Consistent
  <1>1. TypeOK'
    BY SMT DEF TypeOK, Close, calls, task
  <1>2. InOnePlace'
    BY SMT DEF TypeOK, InOnePlace, GroupRuns, Close, calls, task
  <1>3. GroupRuns'
    BY GroupLeftAlone DEF Close, calls, task
  <1>4. StoreSound'
    BY WriterAssumption, SMT DEF TypeOK, InOnePlace, GroupRuns, StoreSound, Ran, RefusedOver, Close, calls, task
  <1>. QED
    BY <1>1, <1>2, <1>3, <1>4

LEMMA ReceiveKeeps ==
    ASSUME Consistent, Receive
    PROVE  Consistent'
  <1>. USE DEF Consistent
  <1>1. TypeOK'
    BY Appended, HeadTaken, SMT DEF TypeOK, Receive, calls, task
  <1>2. InOnePlace'
    <2> DEFINE w == Head(queue)
    <2>1. /\ queue \in Seq(Writes) /\ queue # <<>> /\ group \in Seq(Writes)
          /\ queue' = Tail(queue) /\ group' = Append(group, w)
          /\ UNCHANGED <<answer, sending>>
      BY DEF Receive, TypeOK
    <2>2. /\ w \in Writes /\ w = queue[1] /\ 1 \in DOMAIN queue
          /\ DOMAIN queue' = 1..(Len(queue) - 1) /\ Len(queue) \in Nat
          /\ \A k \in DOMAIN queue' : k + 1 \in DOMAIN queue /\ queue'[k] = queue[k + 1]
          /\ Members(queue) = Members(queue') \cup {w}
      <3>1. Len(queue) \in Nat
        BY <2>1
      <3>2. /\ Head(queue) \in Writes
            /\ Head(queue) = queue[1] /\ 1 \in DOMAIN queue
            /\ DOMAIN Tail(queue) = 1..(Len(queue) - 1)
            /\ \A k \in DOMAIN Tail(queue) :
                  k + 1 \in DOMAIN queue /\ Tail(queue)[k] = queue[k + 1]
            /\ Members(queue) = Members(Tail(queue)) \cup {Head(queue)}
        <4>. HIDE DEF Members
        <4>. QED
          BY <2>1, HeadTaken
      <3>. QED
        BY <2>1, <3>1, <3>2
    <2>3. /\ DOMAIN group' = 1..(Len(group) + 1) /\ DOMAIN group = 1..Len(group)
          /\ Len(group) \in Nat
          /\ \A k \in DOMAIN group : group'[k] = group[k]
          /\ group'[Len(group) + 1] = w
          /\ Members(group') = Members(group) \cup {w}
      <3>1. Len(group) \in Nat /\ DOMAIN group = 1..Len(group)
        BY <2>1
      <3>. QED
        BY <2>1, <2>2, <3>1, Appended
    <2>4. \A j, k \in DOMAIN queue' : queue'[j] = queue'[k] => j = k
      <3>1. ASSUME NEW j \in DOMAIN queue', NEW k \in DOMAIN queue', queue'[j] = queue'[k]
            PROVE  j = k
        <4>1. j + 1 = k + 1
          BY <2>2, <3>1 DEF InOnePlace
        <4>. QED
          BY <4>1, <2>2
      <3>. QED
        BY <3>1
    <2>5. \A j \in DOMAIN queue' : queue'[j] # w
      <3>1. ASSUME NEW j \in DOMAIN queue', queue'[j] = w PROVE FALSE
        <4>1. j + 1 = 1
          BY <2>2, <3>1 DEF InOnePlace
        <4>. QED
          BY <4>1, <2>2
      <3>. QED
        BY <3>1
    <2>6. \A j \in DOMAIN group : group[j] # w
      BY <2>2 DEF InOnePlace
    <2>7. \A j, k \in DOMAIN group' : group'[j] = group'[k] => j = k
      BY <2>3, <2>6 DEF InOnePlace
    <2>8. \A j \in DOMAIN queue', k \in DOMAIN group' : queue'[j] # group'[k]
      BY <2>2, <2>3, <2>5 DEF InOnePlace
    <2>9. Members(queue') \cup Members(group') = Members(queue) \cup Members(group)
      BY <2>2, <2>3
    <2>. QED
      BY <2>1, <2>4, <2>7, <2>8, <2>9 DEF InOnePlace
  <1>3. GroupRuns'
    BY Appended, HeadTaken, SMT DEF TypeOK, InOnePlace, GroupRuns, StoreSound, Ran, RefusedOver, Receive, calls, task
  <1>4. StoreSound'
    BY Appended, HeadTaken, WriterAssumption, SMT DEF TypeOK, InOnePlace, GroupRuns, StoreSound, Ran, RefusedOver, Receive, calls, task
  <1>. QED
    BY <1>1, <1>2, <1>3, <1>4

LEMMA BeginKeeps ==
    ASSUME Consistent, Begin
    PROVE  Consistent'
  <1>. USE DEF Consistent
  <1>1. TypeOK'
    BY SMT DEF TypeOK, Begin, calls, task
  <1>2. InOnePlace'
    BY SMT DEF TypeOK, InOnePlace, GroupRuns, Begin, calls, task
  <1>3. GroupRuns'
    BY SMT DEF TypeOK, InOnePlace, GroupRuns, StoreSound, Ran, RefusedOver, Begin, calls, task
  <1>4. StoreSound'
    BY WriterAssumption, SMT DEF TypeOK, InOnePlace, GroupRuns, StoreSound, Ran, RefusedOver, Begin, calls, task
  <1>. QED
    BY <1>1, <1>2, <1>3, <1>4

LEMMA GroupFailsKeeps ==
    ASSUME Consistent, GroupFails
    PROVE  Consistent'
  <1>. USE DEF Consistent
  <1>1. TypeOK'
    BY SMT DEF TypeOK, GroupFails, Fault, calls, task
  <1>2. InOnePlace'
    BY SMT DEF TypeOK, InOnePlace, GroupRuns, GroupFails, Fault, calls, task
  <1>3. GroupRuns'
    <2>1. UNCHANGED <<stored, group, verdict, working>> /\ writer = "run" /\ writer' = "failed"
      BY DEF GroupFails
    <2>2. Ran' = Ran
      BY <2>1 DEF Ran
    <2>3. ASSUME NEW k PROVE RefusedOver(k)' = RefusedOver(k)
      BY <2>1, <2>2 DEF RefusedOver
    <2>. QED
      BY <2>1, <2>2, <2>3 DEF GroupRuns
  <1>4. StoreSound'
    BY WriterAssumption, SMT DEF TypeOK, InOnePlace, GroupRuns, StoreSound, Ran, RefusedOver, GroupFails, Fault, calls, task
  <1>. QED
    BY <1>1, <1>2, <1>3, <1>4

LEMMA RunNextKeeps ==
    ASSUME Consistent, RunNext
    PROVE  Consistent'
  <1>. USE DEF Consistent
  <1> DEFINE n == Len(verdict) + 1
             w == group[n]
  <1>1. PICK said \in {"ok", "refused", "failed"} : Runs(w, said)
    BY DEF RunNext
  <1>2. /\ writer = "run" /\ Len(verdict) \in Nat /\ Len(verdict) < Len(group)
        /\ UNCHANGED <<stored, calls, writer, group>>
        /\ n \in DOMAIN group /\ w \in Writes
        /\ working = stored \cup Ran
    BY DEF RunNext, TypeOK, GroupRuns
  <1>3. /\ DOMAIN verdict' = 1..n /\ DOMAIN verdict = 1..Len(verdict) /\ Len(verdict') = n
        /\ verdict' \in Seq({"ok", "refused", "failed"})
        /\ verdict'[n] = said
        /\ \A k \in DOMAIN verdict : verdict'[k] = verdict[k] /\ k # n
    <2>1. verdict \in Seq({"ok", "refused", "failed"}) /\ verdict' = Append(verdict, said)
      BY <1>1 DEF Runs, TypeOK
    <2>. QED
      BY <2>1, Appended
  <1>4. Ran' = IF said = "ok" THEN Ran \cup {w} ELSE Ran
    <2>1. DOMAIN verdict' = DOMAIN verdict \cup {n}
      BY <1>2, <1>3
    <2>. QED
      BY <1>2, <1>3, <2>1 DEF Ran
  <1>5. working' = stored \cup Ran'
    BY <1>1, <1>2, <1>4 DEF Runs
  <1>6. TypeOK'
    BY <1>2, <1>3, <1>5, <1>4 DEF TypeOK, RunNext, Runs, calls, Fault, GroupRuns
  <1>7. InOnePlace'
    BY <1>2 DEF InOnePlace, calls
  <1>8. ASSUME NEW k \in DOMAIN verdict', verdict'[k] = "refused"
        PROVE  RefusedOver(k)'
    <2>1. CASE k = n
      BY <1>1, <1>2, <1>3, <1>4, <1>8, <2>1 DEF Runs, Refuses, RefusedOver, TypeOK
    <2>2. CASE k # n
      <3>1. k \in DOMAIN verdict /\ verdict[k] = "refused"
        BY <1>2, <1>3, <1>8, <2>2
      <3>2. RefusedOver(k)
        BY <3>1 DEF GroupRuns
      <3>. QED
        BY <3>2, <1>2, <1>4 DEF RefusedOver
    <2>. QED
      BY <2>1, <2>2
  <1>9. GroupRuns'
    BY <1>2, <1>3, <1>5, <1>8 DEF GroupRuns, TypeOK, calls
  <1>10. \A v, x \in working' : <<v, x>> \notin Conflicts
    <2>1. \A v, x \in working : <<v, x>> \notin Conflicts
      BY <1>2 DEF StoreSound
    <2>2. CASE said # "ok"
      BY <2>1, <2>2, <1>1 DEF Runs
    <2>3. CASE said = "ok"
      <3>1. working' = working \cup {w} /\ \A v \in working : <<v, w>> \notin Conflicts
        BY <2>3, <1>1 DEF Runs, Refuses
      <3>2. <<w, w>> \notin Conflicts /\ \A v \in working : <<w, v>> \notin Conflicts
        BY <3>1, <1>2, WriterAssumption DEF TypeOK
      <3>. QED
        BY <2>1, <3>1, <3>2
    <2>. QED
      BY <2>2, <2>3
  <1>11. StoreSound'
    BY <1>2, <1>10 DEF StoreSound, calls
  <1>. QED
    BY <1>6, <1>7, <1>9, <1>11

LEMMA CommitKeeps ==
    ASSUME Consistent, Commit
    PROVE  Consistent'
  <1>. USE DEF Consistent
  <1>1. TypeOK'
    BY SMT DEF TypeOK, Commit, calls, task
  <1>2. InOnePlace'
    BY SMT DEF TypeOK, InOnePlace, GroupRuns, Commit, calls, task
  <1>3. GroupRuns'
    <2>1. /\ UNCHANGED <<group, verdict>> /\ writer = "run" /\ writer' = "committed"
          /\ stored' = stored \cup Ran /\ Len(verdict) = Len(group)
      BY DEF Commit, GroupRuns
    <2>2. Ran' = Ran
      BY <2>1 DEF Ran
    <2>3. ASSUME NEW k \in DOMAIN verdict, RefusedOver(k) PROVE RefusedOver(k)'
      BY <2>1, <2>2, <2>3 DEF RefusedOver
    <2>4. ASSUME NEW k \in DOMAIN group, group[k] \in stored' PROVE verdict[k] = "ok"
      <3>1. group[k] \in Ran
        BY <2>1, <2>4 DEF GroupRuns
      <3>2. PICK x \in DOMAIN verdict : verdict[x] = "ok" /\ group[x] = group[k]
        BY <3>1 DEF Ran
      <3>3. x \in DOMAIN group
        BY <2>1 DEF TypeOK
      <3>. QED
        BY <3>2, <3>3 DEF InOnePlace
    <2>. QED
      BY <2>1, <2>2, <2>3, <2>4 DEF GroupRuns, TypeOK
  <1>4. StoreSound'
    BY WriterAssumption, SMT DEF TypeOK, InOnePlace, GroupRuns, StoreSound, Ran, RefusedOver, Commit, calls, task
  <1>. QED
    BY <1>1, <1>2, <1>3, <1>4

LEMMA FinishKeeps ==
    ASSUME Consistent, Finish
    PROVE  Consistent'
  <1>. USE DEF Consistent
  <1>1. TypeOK'
    BY SMT DEF TypeOK, Finish, Tells, AnswerOf, calls, task
  <1>2. InOnePlace'
    BY SMT DEF TypeOK, InOnePlace, GroupRuns, Finish, Tells, AnswerOf, calls, task
  <1>3. GroupRuns'
    BY SMT DEF TypeOK, InOnePlace, GroupRuns, StoreSound, Ran, RefusedOver, Finish, Tells, AnswerOf, calls, task
  <1>4. StoreSound'
    BY WriterAssumption, SMT DEF TypeOK, InOnePlace, GroupRuns, StoreSound, Ran, RefusedOver, Finish, Tells, AnswerOf, calls, task
  <1>. QED
    BY <1>1, <1>2, <1>3, <1>4

LEMMA DrainKeeps ==
    ASSUME Consistent, Drain
    PROVE  Consistent'
  <1>. USE DEF Consistent
  <1>1. TypeOK'
    BY SMT DEF TypeOK, Drain, NoSenders, calls, task
  <1>2. InOnePlace'
    BY SMT DEF TypeOK, InOnePlace, GroupRuns, Drain, NoSenders, calls, task
  <1>3. GroupRuns'
    BY SMT DEF TypeOK, InOnePlace, GroupRuns, StoreSound, Ran, RefusedOver, Drain, NoSenders, calls, task
  <1>4. StoreSound'
    BY WriterAssumption, SMT DEF TypeOK, InOnePlace, GroupRuns, StoreSound, Ran, RefusedOver, Drain, NoSenders, calls, task
  <1>. QED
    BY <1>1, <1>2, <1>3, <1>4

LEMMA PanicKeeps ==
    ASSUME Consistent, Panic
    PROVE  Consistent'
  <1>. USE DEF Consistent
  <1>1. TypeOK'
    BY SMT DEF TypeOK, Panic, Fault, calls, task
  <1>2. InOnePlace'
    BY SMT DEF TypeOK, InOnePlace, GroupRuns, Panic, Fault, calls, task
  <1>3. GroupRuns'
    BY SMT DEF TypeOK, InOnePlace, GroupRuns, StoreSound, Ran, RefusedOver, Panic, Fault, calls, task
  <1>4. StoreSound'
    BY WriterAssumption, SMT DEF TypeOK, InOnePlace, GroupRuns, StoreSound, Ran, RefusedOver, Panic, Fault, calls, task
  <1>. QED
    BY <1>1, <1>2, <1>3, <1>4

LEMMA RestartKeeps ==
    ASSUME Consistent, Restart
    PROVE  Consistent'
  <1>. USE DEF Consistent
  <1>1. TypeOK'
    BY SMT DEF TypeOK, Restart, Fault, calls, task
  <1>2. InOnePlace'
    BY SMT DEF TypeOK, InOnePlace, GroupRuns, Restart, Fault, calls, task
  <1>3. GroupRuns'
    BY SMT DEF TypeOK, InOnePlace, GroupRuns, StoreSound, Ran, RefusedOver, Restart, Fault, calls, task
  <1>4. StoreSound'
    BY WriterAssumption, SMT DEF TypeOK, InOnePlace, GroupRuns, StoreSound, Ran, RefusedOver, Restart, Fault, calls, task
  <1>. QED
    BY <1>1, <1>2, <1>3, <1>4

THEOREM ConsistentHolds == Spec => []Consistent
<1>1. ASSUME Consistent, Next PROVE Consistent'
  BY <1>1, AskKeeps, SendKeeps, SendFailsKeeps, GiveUpKeeps, CloseKeeps, ReceiveKeeps, BeginKeeps,
     GroupFailsKeeps, RunNextKeeps, CommitKeeps, FinishKeeps, DrainKeeps, PanicKeeps, RestartKeeps
     DEF Next, WriterSteps
<1>2. ASSUME Consistent, UNCHANGED vars PROVE Consistent'
  <2>. USE DEF Consistent, vars, calls, task
  <2>1. TypeOK'
    BY <1>2 DEF TypeOK
  <2>2. InOnePlace'
    BY <1>2 DEF InOnePlace
  <2>3. GroupRuns'
    BY <1>2, GroupLeftAlone
  <2>4. StoreSound'
    BY <1>2 DEF StoreSound
  <2>. QED
    BY <2>1, <2>2, <2>3, <2>4
<1>. QED
  BY InitConsistent, <1>1, <1>2, PTL DEF Spec

\* Nobody can call a store whose writer has drained its queue.
Closed == writer = "closed" => NoSenders

LEMMA ClosedKept ==
    ASSUME TypeOK, Closed, Next
    PROVE  Closed'
  <1>. USE DEF Closed, NoSenders
  <1>1. ASSUME NEW w \in Writes, Ask(w) \/ Send(w) \/ SendFails(w) \/ GiveUp(w) PROVE Closed'
    BY <1>1 DEF TypeOK, Ask, Send, SendFails, GiveUp, task, Ended
  <1>2. CASE Close \/ Receive \/ Begin \/ RunNext \/ Commit \/ Finish \/ GroupFails \/ Panic \/ Restart
    BY <1>2 DEF Close, Receive, Begin, RunNext, Commit, Finish, GroupFails, Panic, Restart, task
  <1>3. CASE Drain
    BY <1>3 DEF Drain, calls
  <1>. QED
    BY <1>1, <1>2, <1>3 DEF Next, WriterSteps

\* A store that has been closed has answered every write.
THEOREM CloseDrainsHolds == Spec => []CloseDrains
<1>1. Init => Closed
  BY DEF Init, Closed
<1>2. Closed /\ UNCHANGED vars => Closed'
  BY DEF Closed, NoSenders, vars, calls, task
<1>3. Closed => CloseDrains
  BY DEF Closed, NoSenders, CloseDrains
<1>4. Consistent => TypeOK
  BY DEF Consistent
<1>. QED
  BY <1>1, <1>2, <1>3, <1>4, ClosedKept, ConsistentHolds, PTL DEF Spec

-----------------------------------------------------------------------------
(* The refinement.                                                         *)

\* Answering the group is a Tell: what its transaction did decides.
LEMMA FinishTells ==
    ASSUME Consistent, Finish
    PROVE  Promise!Next
  <1>. USE DEF Consistent
  <1>1. answer' \in [Writes -> Promise!Answers]
    BY DEF Finish, TypeOK, AnswerOf, Promise!Answers
  <1>2. ASSUME NEW w \in Writes, answer'[w] # answer[w]
        PROVE  answer[w] = "waiting" /\ Promise!Truthful(w, answer'[w], answer')
    <2> DEFINE k == CHOOSE x \in DOMAIN group : group[x] = w
    <2>1. answer[w] = "waiting" /\ Tells(w) /\ answer'[w] = AnswerOf(k)
      BY <1>2 DEF Finish
    <2>2. k \in DOMAIN group /\ group[k] = w
      BY <2>1 DEF Tells
    <2>3. writer \in {"committed", "failed"}
      BY DEF Finish
    <2>4. CASE writer = "committed"
      <3>1. k \in DOMAIN verdict /\ answer'[w] = verdict[k]
            /\ verdict[k] \in {"ok", "refused", "failed"}
        BY <2>1, <2>2, <2>4 DEF AnswerOf, GroupRuns, TypeOK
      <3>2. CASE verdict[k] = "ok"
        BY <2>1, <2>2, <2>4, <3>1, <3>2 DEF GroupRuns, Ran, Promise!Truthful
      <3>3. CASE verdict[k] = "failed"
        BY <2>1, <2>2, <3>1, <3>3 DEF GroupRuns, Promise!Truthful
      <3>4. CASE verdict[k] = "refused"
        <4>1. PICK v \in Writes : <<v, w>> \in Conflicts /\ v \in stored
          BY <2>2, <2>4, <3>1, <3>4 DEF GroupRuns, RefusedOver
        <4>2. w \notin stored
          BY <2>2, <3>4 DEF GroupRuns
        <4>. QED
          BY <3>1, <3>4, <4>1, <4>2, <2>1 DEF Promise!Truthful
      <3>. QED
        BY <3>1, <3>2, <3>3, <3>4, <2>1
    <2>5. CASE writer = "failed"
      <3>1. w \notin stored
        BY <2>2, <2>5 DEF GroupRuns
      <3>2. CASE answer'[w] = "failed"
        BY <3>1, <3>2, <2>1 DEF Promise!Truthful
      <3>3. CASE answer'[w] # "failed"
        <4>1. k \in DOMAIN verdict /\ verdict[k] = "refused" /\ answer'[w] = "refused"
          BY <2>1, <2>2, <2>5, <3>3 DEF AnswerOf, TypeOK
        <4>2. PICK v \in Writes : <<v, w>> \in Conflicts /\ v \in stored \cup Ran
          BY <2>2, <4>1 DEF GroupRuns, RefusedOver
        <4>3. CASE v \in stored
          BY <4>1, <4>2, <4>3, <3>1, <2>1 DEF Promise!Truthful
        <4>4. CASE v \in Ran
          <5>1. PICK x \in DOMAIN verdict : verdict[x] = "ok" /\ group[x] = v
            BY <4>4 DEF Ran
          <5>2. x \in DOMAIN group
            BY <5>1 DEF GroupRuns, TypeOK
          <5>3. answer[v] \in {"waiting", "gone"} /\ Tells(v)
            BY <5>1, <5>2 DEF InOnePlace, Tells
          <5>4. (CHOOSE y \in DOMAIN group : group[y] = v) = x
            BY <5>1, <5>2 DEF InOnePlace
          <5>5. answer'[v] \in {"failed", "gone"}
            BY <5>1, <5>3, <5>4, <2>5, <4>2 DEF Finish, AnswerOf
          <5>. QED
            BY <4>1, <4>2, <5>5, <3>1, <2>1 DEF Promise!Truthful
        <4>. QED
          BY <4>2, <4>3, <4>4
      <3>. QED
        BY <3>2, <3>3
    <2>. QED
      BY <2>3, <2>4, <2>5
  <1>3. Promise!Tell(answer')
    BY <1>2 DEF Finish, Promise!Tell
  <1>. QED
    BY <1>1, <1>3 DEF Promise!Next

\* A step is one of AtomicWrites, or changes nothing that AtomicWrites shows.
LEMMA StepImplements ==
    ASSUME Consistent, Consistent', [Next]_vars
    PROVE  [Promise!Next]_<<stored, answer>>
  <1>. USE DEF Consistent
  <1>1. ASSUME NEW w \in Writes, Ask(w) PROVE Promise!Next
    BY <1>1 DEF Ask, Promise!Ask, Promise!Next
  <1>2. ASSUME NEW w \in Writes, GiveUp(w) PROVE Promise!Next
    BY <1>2 DEF GiveUp, Promise!GiveUp, Promise!Next
  <1>3. ASSUME NEW w \in Writes, SendFails(w) PROVE Promise!Next
    <2>1. /\ answer[w] = "waiting" /\ w \notin stored
          /\ answer' = [answer EXCEPT ![w] = "failed"] /\ stored' = stored
      BY <1>3 DEF SendFails, InOnePlace, StoreSound
    <2>2. Promise!Tell(answer')
      BY <2>1 DEF Promise!Tell, Promise!Truthful, TypeOK
    <2>3. answer' \in [Writes -> Promise!Answers]
      BY <2>1 DEF TypeOK, Promise!Answers
    <2>. QED
      BY <2>2, <2>3 DEF Promise!Next
  <1>4. ASSUME Commit PROVE Promise!Next
    <2> DEFINE S == Ran
    <2>1. stored' = stored \cup S /\ answer' = answer /\ working = stored \cup S
      BY <1>4 DEF Commit, GroupRuns, calls
    <2>2. \A w \in S : w \in Members(group)
      BY DEF Ran, GroupRuns, TypeOK
    <2>3. S \subseteq Writes /\ \A w \in S : answer[w] \in {"waiting", "gone"}
      BY <2>2 DEF InOnePlace, TypeOK
    <2>4. \A v, w \in stored \cup S : <<v, w>> \notin Conflicts
      BY <2>1, <1>4 DEF StoreSound, Commit
    <2>5. Promise!Write(S)
      BY <2>1, <2>3, <2>4 DEF Promise!Write
    <2>. QED
      BY <2>3, <2>5 DEF Promise!Next
  <1>5. ASSUME Panic PROVE Promise!Next
    <2>1. \A w \in Members(group) \cup Members(queue) : w \notin stored
      BY <1>5 DEF Panic, GroupRuns, StoreSound
    <2>2. \A w \in Writes : answer'[w] # answer[w] =>
              answer[w] = "waiting" /\ answer'[w] = "failed" /\ w \notin stored
      BY <1>5, <2>1 DEF Panic
    <2>3. answer' \in [Writes -> Promise!Answers]
      BY <1>5 DEF Panic, TypeOK, Promise!Answers
    <2>4. Promise!Tell(answer')
      BY <2>2, <1>5 DEF Promise!Tell, Promise!Truthful, Panic
    <2>. QED
      BY <2>3, <2>4 DEF Promise!Next
  <1>6. ASSUME Restart PROVE Promise!Next
    BY <1>6 DEF Restart, Promise!Lose, Promise!Next
  <1>7. ASSUME \/ \E w \in Writes : Send(w)
               \/ Close \/ Receive \/ Begin \/ GroupFails \/ RunNext \/ Drain \/ UNCHANGED vars
        PROVE  UNCHANGED <<stored, answer>>
    BY <1>7 DEF Send, Close, Receive, Begin, GroupFails, RunNext, Drain, vars, calls
  <1>. QED
    BY <1>1, <1>2, <1>3, <1>4, <1>5, <1>6, <1>7, FinishTells DEF Next, WriterSteps

\* The writer implements AtomicWrites, whatever shares a group, fails, panics
\* or stops.
THEOREM Implements == Spec => AnswersKept
<1>1. Init => Promise!Init
  BY DEF Init, Promise!Init
<1>. QED
  BY <1>1, StepImplements, ConsistentHolds, PTL DEF Spec, AnswersKept, Promise!Spec

=============================================================================
