---------------------------- MODULE DeviceChain ----------------------------
(***************************************************************************)
(* One device's own chain in one domain: how the app signs its changes     *)
(* into an outbox, pushes them, takes receipts and refusals, and compares  *)
(* its chain with the server's after a restart (app-core, sync/workspace   *)
(* .rs, marks.rs, workspace/rebuild.rs), and how the server admits and     *)
(* serves the records (sync-store, push.rs, reads.rs).                     *)
(*                                                                         *)
(* A change is an edit of one file; the files outlive every crash.  Every  *)
(* encryption takes a fresh nonce, so the n-th sealed record has digest n; *)
(* 0 is the zero digest.  The device's handlers run one at a time and save *)
(* their work in one write, so a handler is one action, and an app that    *)
(* dies in one leaves what stood before it, or that and a raised           *)
(* reservation.  The requests of a push and of a comparison are apart.     *)
(***************************************************************************)
EXTENDS Naturals, Sequences, FiniteSets

CONSTANTS
    Edits,
    Block,          \* counters one reservation takes
    ResealLimit,    \* RESEAL_LIMIT
    MaxSeals,       \* bound: records sealed
    MaxEpoch,       \* bound: epochs
    MaxFaults,      \* bound: crashes, lost answers, failed requests
    MaxRefusals,    \* bound: refusals the model does not derive
    MaxPruned,      \* bound: records the server prunes
    MaxLosses,      \* bound: journals lost
    MaxCopies       \* bound: backups of the journal, one of which may return

ASSUME ChainAssumption ==
    /\ Block \in Nat \ {0}
    /\ {ResealLimit, MaxSeals, MaxEpoch, MaxFaults, MaxRefusals, MaxPruned,
        MaxLosses, MaxCopies} \subseteq Nat

VARIABLES
    chain,          \* the records the server committed, in order
    pruned,         \* the digests of those it pruned
    epoch,          \* the domain's latest epoch
    request,        \* the batch on its way to the server
    late,           \* batches given up on, which may still reach it
    answer,         \* its answer on the way back
    memory,         \* the sync state the app holds while it runs
    journal,        \* the sync state on disk
    copy,           \* a backup of the journal
    reserved,       \* the counter reservation in the credential store
    phase,          \* what the app does
    upto,           \* the server's head that a comparison reads up to
    cap,            \* whether the app stopped at the re-seal limit
    alarm,          \* what the app reported about the server
    signed,         \* history: every record sealed and saved
    seals, faults, refusals, losses, copies

server == <<chain, pruned, epoch>>
network == <<request, late, answer>>
disk == <<journal, copy, reserved>>
bounds == <<faults, refusals, losses, copies>>
history == <<signed, seals>>
vars == <<server, network, memory, disk, phase, upto, cap, alarm, history, bounds>>

-----------------------------------------------------------------------------
(* Chains.                                                                 *)

None == [counter |-> 0, digest |-> 0]
Mark(r) == [counter |-> r.counter, digest |-> r.digest]
At(c, d) == [counter |-> c, digest |-> d]

\* The server's head row, which outlives the record it names.
ChainHead == IF chain = <<>> THEN None ELSE Mark(chain[Len(chain)])
Kept == {k \in DOMAIN chain : chain[k].digest \notin pruned}

Records(outbox) == [k \in DOMAIN outbox |-> outbox[k].rec]
EditsOf(outbox) == {outbox[k].rec.edit : k \in DOMAIN outbox}
OnChain == {chain[k].edit : k \in DOMAIN chain}

\* own.head, wherever the code sets it anew after a record left the outbox.
HeadOf(outbox, acked) ==
    IF outbox = <<>> THEN acked ELSE Mark(outbox[Len(outbox)].rec)

Init ==
    /\ chain = <<>> /\ pruned = {} /\ epoch = 1
    /\ request = <<>> /\ late = {} /\ answer = [kind |-> "none"]
    /\ memory = [outbox |-> <<>>, next |-> 1, head |-> None, acked |-> None,
                 changed |-> Edits, accepted |-> 1]
    /\ journal = memory /\ copy = memory
    /\ reserved = 0
    /\ phase = "closed" /\ upto = 0 /\ cap = "no" /\ alarm = "no"
    /\ signed = {} /\ seals = 0
    /\ faults = 0 /\ refusals = 0 /\ losses = 0 /\ copies = 0

Save(m) == memory' = m /\ journal' = m
Fault == faults < MaxFaults /\ faults' = faults + 1

-----------------------------------------------------------------------------
(* Signing.                                                                *)

\* Mark::needs_block and Mark::reserve, for the counter a device signs next,
\* which is at most one above the reservation.
Reserve(counter) == IF counter > reserved THEN reserved + Block ELSE reserved

\* A change enters the outbox, at the end of the chain as the device knows it.
Sign(e) ==
    LET rec == [digest |-> seals + 1, counter |-> memory.next,
                previous |-> memory.head.digest, attempt |-> 0,
                epoch |-> memory.accepted, edit |-> e]
    IN  /\ phase \in {"offline", "online"} /\ cap = "no"
        /\ e \in memory.changed
        /\ seals < MaxSeals
        /\ reserved' = Reserve(memory.next)
        /\ Save([memory EXCEPT
                    !.outbox = Append(@, [rec |-> rec, reseals |-> 0]),
                    !.next = @ + 1,
                    !.head = Mark(rec),
                    !.changed = @ \ {e}])
        /\ signed' = signed \cup {rec} /\ seals' = seals + 1
        /\ UNCHANGED <<server, network, copy, phase, upto, cap, alarm, bounds>>

\* Slip: under the epoch the record had.
ResealedUnderItsEpoch(m, i, place) ==
    [k \in DOMAIN m.outbox |->
        IF k < i THEN m.outbox[k]
        ELSE [rec |-> [m.outbox[k].rec EXCEPT
                          !.digest = seals + (k - i) + 1,
                          !.previous = IF k > i THEN seals + (k - i) ELSE @,
                          !.attempt = IF k = i THEN place.digest ELSE m.outbox[k].rec.digest],
              reseals |-> m.outbox[k].reseals]]

\* The outbox with the records from i on sealed again, the first of them at
\* `place`: its position, and the attempt that held it.
Resealed(m, i, place) ==
    [k \in DOMAIN m.outbox |->
        IF k < i THEN m.outbox[k]
        ELSE [rec |-> [digest |-> seals + (k - i) + 1,
                       counter |-> IF k = i THEN place.counter ELSE m.outbox[k].rec.counter,
                       previous |-> IF k > i THEN seals + (k - i)
                                    ELSE IF i = 1 THEN m.acked.digest
                                    ELSE m.outbox[i - 1].rec.digest,
                       attempt |-> IF k = i THEN place.digest ELSE m.outbox[k].rec.digest,
                       epoch |-> m.accepted,
                       edit |-> m.outbox[k].rec.edit],
              reseals |-> m.outbox[k].reseals]]

\* reseal_covering: seal again from i on, and save.
Reseal(m, i, place) ==
    LET outbox == Resealed(m, i, place)
        count == IF i > Len(outbox) THEN 0 ELSE Len(outbox) - i + 1
    IN  /\ seals + count <= MaxSeals
        /\ seals' = seals + count
        /\ signed' = signed \cup {outbox[k].rec : k \in {j \in DOMAIN outbox : j >= i}}
        /\ Save([m EXCEPT !.outbox = outbox,
                          !.head = IF outbox = <<>> THEN @ ELSE HeadOf(outbox, m.acked)])

\* At their own positions.
ResealFrom(m, i) ==
    Reseal(m, i, IF i \in DOMAIN m.outbox THEN Mark(m.outbox[i].rec) ELSE None)

\* The push first seals again what an older epoch sealed.
ResealStale ==
    /\ phase = "online"
    /\ \E i \in DOMAIN memory.outbox :
        /\ memory.outbox[i].rec.epoch # memory.accepted
        /\ \A k \in 1..(i - 1) : memory.outbox[k].rec.epoch = memory.accepted
        /\ ResealFrom(memory, i)
    /\ UNCHANGED <<server, network, copy, reserved, phase, upto, cap, alarm, bounds>>

-----------------------------------------------------------------------------
(* Starting and stopping.                                                  *)

\* Slip: signs on where the journal stood.
OpenAtJournal ==
    /\ phase = "closed"
    /\ reserved' = reserved + Block
    /\ Save(journal)
    /\ phase' = "offline" /\ cap' = "no"
    /\ UNCHANGED <<server, network, copy, upto, alarm, history, bounds>>

\* The app reads its journal.  Each start takes a new block and signs its
\* next record at the start of it.
Open ==
    /\ phase = "closed"
    /\ reserved' = reserved + Block
    /\ Save([journal EXCEPT !.next = IF @ > reserved + 1 THEN @ ELSE reserved + 1])
    /\ phase' = "offline" /\ cap' = "no"
    /\ UNCHANGED <<server, network, copy, upto, alarm, history, bounds>>

\* The app dies.  The credential store may hold a block the journal lacks:
\* of a start that died, or of a record that was never saved.
Crash ==
    /\ Fault
    /\ phase' = "closed" /\ memory' = journal
    /\ reserved' \in (IF phase = "closed" THEN {reserved + Block}
                      ELSE {reserved, Reserve(memory.next)})
    /\ late' = IF request = <<>> THEN late ELSE late \cup {request}
    /\ request' = <<>> /\ answer' = [kind |-> "none"]
    /\ UNCHANGED <<server, journal, copy, upto, cap, alarm, history, refusals, losses, copies>>

\* A backup of the folder, and its return.  A journal of an older epoch than
\* the mark's is refused, and the folder starts as after a lost journal.
Copy ==
    /\ copies < MaxCopies /\ copies' = copies + 1
    /\ copy' = journal
    /\ UNCHANGED <<server, network, memory, journal, reserved, phase, upto, cap, alarm,
                   history, faults, refusals, losses>>

RestoreCopy ==
    /\ phase = "closed"
    /\ copies \in 1..MaxCopies /\ copies' = MaxCopies + 1
    /\ copy.accepted >= journal.accepted
    /\ Save(copy)
    /\ UNCHANGED <<server, network, copy, reserved, phase, upto, cap, alarm, history,
                   faults, refusals, losses>>

\* The device starts without its journal.  The journal it saves at once maps
\* no file yet, so by it every file is new.
Rebuild ==
    /\ phase = "closed" /\ losses < MaxLosses /\ losses' = losses + 1
    /\ reserved' = reserved + Block
    /\ Save([outbox |-> <<>>, next |-> reserved + 1, head |-> None, acked |-> None,
             changed |-> Edits, accepted |-> epoch])
    /\ phase' = "rebuilding" /\ upto' = ChainHead.counter /\ cap' = "no"
    /\ UNCHANGED <<server, network, copy, alarm, history, faults, refusals, copies>>

-----------------------------------------------------------------------------
(* Comparing the chain with the server's head.                             *)

\* Slip: holds the server to what is still in the outbox.
StartCompareOwnHead(m) ==
    /\ upto' = ChainHead.counter
    /\ IF ChainHead.counter < m.head.counter
       THEN alarm' = "sync_server_rollback" /\ phase' = "halted" /\ UNCHANGED journal
       ELSE IF ChainHead.counter = m.acked.counter
       THEN phase' = "online" /\ journal' = m /\ UNCHANGED alarm
       ELSE phase' = "comparing" /\ UNCHANGED <<journal, alarm>>
    /\ memory' = m

\* A comparison starts from the head the server answers.
StartCompare(m) ==
    /\ upto' = ChainHead.counter
    /\ IF ChainHead.counter < m.acked.counter
       THEN alarm' = "sync_server_rollback" /\ phase' = "halted" /\ UNCHANGED journal
       ELSE IF ChainHead.counter = m.acked.counter
       THEN phase' = "online" /\ journal' = m /\ UNCHANGED alarm
       ELSE phase' = "comparing" /\ UNCHANGED <<journal, alarm>>
    /\ memory' = m

Connect ==
    /\ phase = "offline"
    /\ StartCompare([memory EXCEPT !.accepted = epoch])
    /\ UNCHANGED <<server, network, copy, reserved, cap, history, bounds>>

\* chain_record: the first record at or above the counter, and whether the
\* server can show that nothing it pruned lay between.
Above(c) == {k \in Kept : chain[k].counter >= c}
Below(c) == {k \in Kept : chain[k].counter < c}
Nearest(c) == CHOOSE k \in Above(c) : \A j \in Above(c) : k <= j
DigestBelow(c) ==
    IF Below(c) = {} THEN 0
    ELSE chain[CHOOSE k \in Below(c) : \A j \in Below(c) : j <= k].digest
Served(c) ==
    /\ Above(c) # {}
    /\ \/ chain[Nearest(c)].counter = c
       \/ chain[Nearest(c)].previous = DigestBelow(c)

Comparing == phase \in {"comparing", "rebuilding"}

\* Takes one record back from the server.
TakeBack ==
    LET c == memory.acked.counter + 1
        rec == chain[Nearest(c)]
    IN  /\ Comparing /\ memory.acked.counter < upto
        /\ Served(c)
        /\ IF rec.previous = memory.acked.digest
           THEN memory' = [memory EXCEPT !.acked = Mark(rec)] /\ UNCHANGED <<alarm, phase>>
           ELSE alarm' = "sync_chain_forked" /\ phase' = "halted" /\ UNCHANGED memory
        /\ UNCHANGED <<server, network, disk, upto, cap, history, bounds>>

Followed(m) ==
    [m EXCEPT !.head = IF @.counter < m.acked.counter THEN m.acked ELSE @,
              !.next = IF @ > m.acked.counter + 1 THEN @ ELSE m.acked.counter + 1]

\* Slip: leaves the outbox as it is.
FollowHeadOnly == Save(Followed(memory)) /\ UNCHANGED history

\* Seals the outbox again behind the head it took back.
FollowHead == ResealFrom(Followed(memory), 1)

CompareDone ==
    /\ phase = "comparing" /\ memory.acked.counter >= upto
    /\ FollowHead
    /\ phase' = "online"
    /\ UNCHANGED <<server, network, copy, reserved, upto, cap, alarm, bounds>>

\* A request failed, or the server pruned the position.
Fails ==
    \/ ~Served(memory.acked.counter + 1) /\ UNCHANGED faults
    \/ Fault

\* What the journal took back so far is saved with the next capture, and the
\* next round goes on without a new comparison.
CompareFails ==
    /\ phase = "comparing" /\ memory.acked.counter < upto
    /\ Fails
    /\ Save(memory) /\ phase' = "online"
    /\ UNCHANGED <<server, network, copy, reserved, upto, cap, alarm, history,
                   refusals, losses, copies>>

\* A rebuild keeps what it compared in memory, pulls the domain and matches
\* its files: what is on the chain it maps.
Pull ==
    /\ phase = "rebuilding" /\ memory.acked.counter >= upto
    /\ memory' = Followed(memory)
    /\ phase' = "matching"
    /\ UNCHANGED <<server, network, disk, upto, cap, alarm, history, bounds>>

\* Slip: maps every file, also one the chain does not hold.
MatchAll ==
    /\ phase = "matching"
    /\ Save([memory EXCEPT !.changed = {}])
    /\ phase' = "online"
    /\ UNCHANGED <<server, network, copy, reserved, upto, cap, alarm, history, bounds>>

Match ==
    /\ phase = "matching"
    /\ Save([memory EXCEPT !.changed = Edits \ OnChain])
    /\ phase' = "online"
    /\ UNCHANGED <<server, network, copy, reserved, upto, cap, alarm, history, bounds>>

\* A rebuild that fails is dropped.  The journal it began stays for the next
\* start of the app, which opens it like any other.
RebuildFails ==
    /\ \/ phase = "rebuilding" /\ memory.acked.counter < upto /\ Fails
       \/ phase = "matching" /\ Fault
    /\ memory' = journal /\ phase' = "closed"
    /\ UNCHANGED <<server, network, disk, upto, cap, alarm, history, refusals, losses, copies>>

-----------------------------------------------------------------------------
(* Pushing.                                                                *)

\* As many records as fit one request.  A push begins once nothing is left to
\* seal again; its further requests carry what it then finds in the outbox,
\* which a refresh in between may have left behind the accepted epoch.
Send ==
    /\ \/ /\ phase = "online"
          /\ \A k \in DOMAIN memory.outbox : memory.outbox[k].rec.epoch = memory.accepted
       \/ phase = "pushing"
    /\ memory.outbox # <<>>
    /\ \E n \in DOMAIN memory.outbox :
        request' = SubSeq(Records(memory.outbox), 1, n)
    /\ phase' = "sent"
    /\ UNCHANGED <<server, late, answer, memory, disk, upto, cap, alarm, history, bounds>>

\* The server's checks of one operation (§13), in its order.
Held(r) == \E k \in Kept : chain[k].digest = r.digest
Taken(r) == \E k \in Kept : chain[k].counter = r.counter /\ chain[k].digest # r.digest
Follows(batch, k) ==
    LET before == IF k > 1 /\ ~Held(batch[k - 1]) THEN Mark(batch[k - 1]) ELSE ChainHead
    IN  batch[k].counter > before.counter /\ batch[k].previous = before.digest
Passes(batch, k) ==
    Held(batch[k]) \/ (~Taken(batch[k]) /\ batch[k].epoch = epoch /\ Follows(batch, k))
AllPass(batch) == \A k \in DOMAIN batch : Passes(batch, k)

\* What it answers to the first record that fails, and, where the model
\* leaves out what decides (access, policy, covers, quota, blobs), to any
\* record that isn't held: kinds of refusal that the device treats alike.
Code(batch, k) ==
    IF Taken(batch[k]) THEN "chain_conflict"
    ELSE IF batch[k].epoch # epoch THEN "epoch_stale"
    ELSE "chain_conflict"
Others == {"fix", "drop", "forbidden", "wait"}

Refusal(code, k) == [kind |-> "refused", code |-> code, at |-> k, head |-> ChainHead]

\* The records that are not held yet join the chain, in the batch's order.
Commits(batch) ==
    LET new == {k \in DOMAIN batch : ~Held(batch[k])} IN
    \E f \in [1..Cardinality(new) -> new] :
        /\ \A k \in new : \E j \in DOMAIN f : f[j] = k
        /\ \A i, j \in DOMAIN f : i < j => f[i] < f[j]
        /\ chain' = chain \o [j \in DOMAIN f |-> batch[f[j]]]

Accept ==
    /\ request # <<>> /\ AllPass(request)
    /\ Commits(request)
    /\ answer' = [kind |-> "receipts", batch |-> request]
    /\ request' = <<>>
    /\ UNCHANGED <<pruned, epoch, late, memory, disk, phase, upto, cap, alarm, history, bounds>>

Refuse ==
    /\ \E k \in DOMAIN request :
        /\ \A j \in 1..(k - 1) : Passes(request, j)
        /\ \/ ~Passes(request, k) /\ answer' = Refusal(Code(request, k), k) /\ UNCHANGED refusals
           \/ /\ ~Held(request[k]) /\ ~Taken(request[k])
              /\ refusals < MaxRefusals /\ refusals' = refusals + 1
              /\ \E code \in Others : answer' = Refusal(code, k)
    /\ request' = <<>>
    /\ UNCHANGED <<server, late, memory, disk, phase, upto, cap, alarm, history,
                   faults, losses, copies>>

\* The answer is lost, or the request is slow: the push fails, and the
\* server may yet take what was sent.
GiveUp ==
    /\ phase = "sent" /\ Fault
    /\ phase' = "online"
    /\ late' = IF request = <<>> THEN late ELSE late \cup {request}
    /\ request' = <<>> /\ answer' = [kind |-> "none"]
    /\ UNCHANGED <<server, memory, disk, upto, cap, alarm, history, refusals, losses, copies>>

ArriveLate ==
    /\ \E batch \in late :
        /\ late' = late \ {batch}
        /\ IF AllPass(batch) THEN Commits(batch) ELSE UNCHANGED chain
    /\ UNCHANGED <<pruned, epoch, request, answer, memory, disk, phase, upto, cap, alarm,
                   history, bounds>>

\* Other devices' rotations, and the server's pruning.
Rotate ==
    /\ epoch < MaxEpoch /\ epoch' = epoch + 1
    /\ UNCHANGED <<chain, pruned, network, memory, disk, phase, upto, cap, alarm, history, bounds>>

Prune ==
    /\ Cardinality(pruned) < MaxPruned
    /\ \E k \in Kept : pruned' = pruned \cup {chain[k].digest}
    /\ UNCHANGED <<chain, epoch, network, memory, disk, phase, upto, cap, alarm, history, bounds>>

-----------------------------------------------------------------------------
(* Taking the server's answer.                                             *)

\* refresh: the round takes the policy and keys again.
Refresh ==
    /\ phase = "online" /\ memory.accepted # epoch
    /\ memory' = [memory EXCEPT !.accepted = epoch]
    /\ UNCHANGED <<server, network, disk, phase, upto, cap, alarm, history, bounds>>

Answered(kind) ==
    /\ phase = "sent" /\ answer.kind = kind
    /\ answer' = [kind |-> "none"]
    /\ UNCHANGED <<server, request, late, copy, reserved>>

\* The push goes on with what is left in the outbox, or ends with its 64th
\* attempt or a refresh that fails.
GoesOn(outbox) ==
    phase' \in {"online"} \cup (IF outbox = <<>> THEN {} ELSE {"pushing"})

\* The epoch accepted after a refresh within a push, which may fail or be left
\* out.
Refreshed == {memory.accepted, epoch}

\* Slip: takes the receipts for the whole outbox.
TakeReceiptsForAll ==
    /\ Answered("receipts")
    /\ Save([memory EXCEPT !.outbox = <<>>, !.acked = memory.head])
    /\ phase' = "online" /\ cap' = "no"
    /\ UNCHANGED <<upto, alarm, history, bounds>>

\* acknowledge: the records that were sent leave the outbox, and the last
\* of them is the head the server acknowledged.  A response that tells of a
\* later policy has the device refresh once the journal is saved.
TakeReceipts ==
    /\ Answered("receipts")
    /\ LET n == Len(answer.batch)
           m == [memory EXCEPT !.outbox = SubSeq(@, n + 1, Len(@)),
                               !.acked = Mark(answer.batch[n])]
       IN  /\ journal' = m
           /\ \E accepted \in Refreshed : memory' = [m EXCEPT !.accepted = accepted]
           /\ GoesOn(m.outbox)
    /\ cap' = "no"
    /\ UNCHANGED <<upto, alarm, history, bounds>>

\* Leaves the record at its place and the push for the next round.
Waits == phase' = "online" /\ Save(memory) /\ UNCHANGED <<upto, cap, alarm, history>>

Goes == GoesOn(memory'.outbox) /\ UNCHANGED <<upto, cap, alarm>>

\* epoch_stale: seals again only if a newer epoch is there to take.
RefusedEpoch(i) ==
    IF epoch = memory.accepted THEN Waits
    ELSE ResealFrom([memory EXCEPT !.accepted = epoch], i) /\ Goes

\* A reason the device fixes by sealing again, at most ResealLimit times, and
\* for some with a refresh before.
RefusedFix(i) ==
    \E accepted \in Refreshed :
        LET m == [memory EXCEPT !.outbox[i].reseals = @ + 1, !.accepted = accepted] IN
        IF m.outbox[i].reseals > ResealLimit
        THEN /\ Save(m) /\ cap' = "reseal_limit" /\ phase' = "online"
             /\ UNCHANGED <<upto, alarm, history>>
        ELSE ResealFrom(m, i) /\ Goes

\* Slip: the change does not go back to its file.
TakeOutOnly(m, i) ==
    [m EXCEPT !.outbox = SubSeq(@, 1, i - 1) \o SubSeq(@, i + 1, Len(@))]

TakeOut(m, i) ==
    [m EXCEPT !.outbox = SubSeq(@, 1, i - 1) \o SubSeq(@, i + 1, Len(@)),
              !.changed = @ \cup {m.outbox[i].rec.edit}]

\* The change stays in its file and the next record takes its position.
RefusedDrop(i) ==
    LET m == TakeOut(memory, i) IN
    /\ Reseal([m EXCEPT !.head = HeadOf(m.outbox, m.acked)], i, Mark(memory.outbox[i].rec))
    /\ Goes

\* Slip: the next record takes the dropped one's place.
RefusedForbiddenRewinds(i) ==
    LET kept == SubSeq(memory.outbox, 1, i - 1) IN
    /\ Save([memory EXCEPT !.outbox = kept,
                           !.next = HeadOf(kept, memory.acked).counter + 1,
                           !.head = HeadOf(kept, memory.acked),
                           !.changed = @ \cup EditsOf(SubSeq(memory.outbox, i,
                                                             Len(memory.outbox)))])
    /\ Goes /\ UNCHANGED history

\* Write access is gone: the changes from here on stay in their files.  A
\* refresh follows, and one that fails is only logged.
RefusedForbidden(i) ==
    LET kept == SubSeq(memory.outbox, 1, i - 1) IN
    /\ \E accepted \in Refreshed :
        Save([memory EXCEPT !.outbox = kept,
                            !.head = HeadOf(kept, memory.acked),
                            !.changed = @ \cup EditsOf(SubSeq(memory.outbox, i,
                                                              Len(memory.outbox))),
                            !.accepted = accepted])
    /\ Goes /\ UNCHANGED history

\* chain_conflict: compares where the server's head lies above the device's.
RefusedConflict(head) ==
    IF head.counter > memory.acked.counter
    THEN StartCompare(memory) /\ UNCHANGED <<cap, history>>
    ELSE IF head.counter < memory.acked.counter
    THEN /\ alarm' = "sync_server_rollback" /\ phase' = "halted"
         /\ Save(memory) /\ UNCHANGED <<upto, cap, history>>
    ELSE Waits

\* At the cap the device only retries the last attempt's bytes.
TakeRefusal ==
    /\ Answered("refused")
    /\ LET i == answer.at IN
        IF cap # "no" THEN Waits
        ELSE CASE answer.code = "epoch_stale" -> RefusedEpoch(i)
               [] answer.code = "fix" -> RefusedFix(i)
               [] answer.code = "drop" -> RefusedDrop(i)
               [] answer.code = "forbidden" -> RefusedForbidden(i)
               [] answer.code = "chain_conflict" -> RefusedConflict(answer.head)
               [] OTHER -> Waits
    /\ UNCHANGED bounds

-----------------------------------------------------------------------------
App ==
    \/ \E e \in Edits : Sign(e)
    \/ ResealStale \/ Open
    \/ Connect \/ TakeBack \/ CompareDone \/ CompareFails
    \/ Pull \/ Match \/ RebuildFails
    \/ Send \/ TakeReceipts \/ TakeRefusal \/ Refresh
Server == Accept \/ Refuse \/ ArriveLate \/ Rotate \/ Prune
World == Crash \/ GiveUp \/ Copy \/ RestoreCopy \/ Rebuild

Next == App \/ Server \/ World

Spec == Init /\ [][Next]_vars

\* The app's rounds go on, each with a capture, a push and a pull, and a
\* refusal that waits costs the round no pull; requests get an answer in the
\* end; the app is started again after it died.
FairSpec ==
    /\ Spec
    /\ WF_vars(Open \/ Connect \/ TakeBack \/ CompareDone \/ CompareFails
               \/ Pull \/ Match \/ RebuildFails)
    /\ WF_vars(ResealStale) /\ WF_vars(Send) /\ WF_vars(TakeReceipts \/ TakeRefusal)
    /\ SF_vars(\E e \in Edits : Sign(e)) /\ SF_vars(Refresh)
    /\ WF_vars(Accept \/ Refuse)

-----------------------------------------------------------------------------
(* Properties.                                                             *)

\* No counter is signed twice as a new record, whatever a crash, a lost
\* journal or a restored backup of it leaves behind (marks.rs); and unless a
\* backup came back, no two records replace one attempt at one position, so
\* what readers see of the chain never forks.
SignsOnce ==
    \A r, s \in signed :
        /\ r.counter = s.counter /\ r.attempt = s.attempt
        /\ r.attempt = 0 \/ copies = 0
        => r = s

\* What the device takes as acknowledged, in memory or on disk, the server
\* committed: receipts settle the records that were sent, no others, and a
\* comparison takes back only what is there.
Stands(mark) == mark = None \/ \E k \in DOMAIN chain : Mark(chain[k]) = mark
AcknowledgedStands == Stands(memory.acked) /\ Stands(journal.acked)

\* Whatever is refused, dropped, given up on or lost in a crash, every change
\* is on the server, in the outbox, or still to be signed from its file.
NothingLost ==
    \A m \in {memory, journal} : Edits = m.changed \cup EditsOf(m.outbox) \cup OnChain

\* The server never goes back here, and no order of crashes, lost answers and
\* late requests makes the device report that it did, or that its own chain
\* forked: the device would stop the workspace over it.
NoFalseAlarm == alarm = "no"

\* Every change reaches the server in the end, through every refusal, crash
\* and late request, except on a device whose outbox starts behind the head
\* it took back, or one that the server pruned below its own next record.
Behind == memory.outbox # <<>> /\ memory.outbox[1].rec.counter <= memory.acked.counter
Unserved ==
    memory.acked.counter < ChainHead.counter /\ ~Served(memory.acked.counter + 1)
Delivered == <>[](OnChain = Edits \/ Behind \/ Unserved)

\* What the comment at workspace.rs:1918 says of the comparison: the outbox's
\* first record follows the head that the device knows the server has.
OutboxFollowsHead == request # <<>> => request[1].counter > journal.acked.counter

=============================================================================
