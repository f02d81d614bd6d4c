------------------------------ MODULE LiveSet ------------------------------
(***************************************************************************)
(* What a domain promises its writers, whatever the server has pruned: the *)
(* live set of sync-protocol's live.rs.  An operation joins the live set   *)
(* and takes out what it covers, within the limits on one object; a        *)
(* checkpoint's floor takes out deletes that were alone on their object;   *)
(* and nothing else ever changes it.                                       *)
(***************************************************************************)
EXTENDS Integers, FiniteSets

CONSTANTS
    Devices,
    Rids,
    MaxPatches,     \* MAX_LIVE_PATCHES
    MaxStates       \* MAX_LIVE_STATES

VARIABLES
    live,           \* the operations live now
    chain           \* each device's last counter

Operation ==
    [rid : Rids, device : Devices, counter : Nat, delete : BOOLEAN,
     class : {"patch", "state"}]

On(r) == {o \in live : o.rid = r}

Init == live = {} /\ chain = [d \in Devices |-> 0]

\* What covers can take: of each device the live operations up to a counter.
Coverable(r, left) ==
    /\ left \subseteq On(r)
    /\ \A o \in left, p \in On(r) :
          p.device = o.device /\ p.counter <= o.counter => p \in left

\* An object's live operations after d's operation of a class joins rest: one
\* live state of each device, and limits on both classes.
Within(d, class, rest) ==
    LET states == {o \in rest : o.class = "state"}
        new == IF class = "state" THEN 1 ELSE 0
    IN  /\ class = "state" => \A o \in states : o.device # d
        /\ Cardinality(rest \ states) + 1 - new <= MaxPatches
        /\ Cardinality(states) + new <= MaxStates

\* Device d's next operation joins the live set and takes out left.
Take(d, r, delete, class, left) ==
    /\ Coverable(r, left)
    /\ left # {} => class = "state"
    /\ Within(d, class, On(r) \ left)
    /\ chain' = [chain EXCEPT ![d] = @ + 1]
    /\ live' = (live \ left) \cup
          {[rid |-> r, device |-> d, counter |-> chain[d] + 1, delete |-> delete,
            class |-> class]}

\* A checkpoint's floor takes out deletes, one of an object: it was alone there
\* at the checkpoint, whatever has joined it since.
Drop(deletes) ==
    /\ \A o \in deletes : o.delete
    /\ \A o, p \in deletes : o.rid = p.rid => o = p
    /\ live' = live \ deletes
    /\ UNCHANGED chain

Next ==
    \/ \E d \in Devices, r \in Rids, delete \in BOOLEAN, class \in {"patch", "state"} :
          \E left \in SUBSET live : Take(d, r, delete, class, left)
    \/ \E deletes \in SUBSET live : Drop(deletes)

Spec == Init /\ [][Next]_<<live, chain>>

=============================================================================
