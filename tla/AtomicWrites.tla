---------------------------- MODULE AtomicWrites ----------------------------
(***************************************************************************)
(* What Backend::write promises those who call it, whatever writes share a *)
(* commit with theirs: writes reach the store whole, never two that        *)
(* exclude each other, and an answer says for good whether the write is    *)
(* there.                                                                  *)
(***************************************************************************)
CONSTANTS
    Writes,
    Conflicts       \* pairs of writes that exclude each other

VARIABLES
    stored,         \* the writes in the store
    answer          \* what each caller has been told

Init == stored = {} /\ answer = [w \in Writes |-> "none"]

\* A call, which may fail at once.
Ask(w) ==
    /\ answer[w] = "none"
    /\ \E told \in {"waiting", "failed"} : answer' = [answer EXCEPT ![w] = told]
    /\ UNCHANGED stored

\* The caller goes away; its write may still happen.
GiveUp(w) ==
    /\ answer[w] = "waiting"
    /\ answer' = [answer EXCEPT ![w] = "gone"]
    /\ UNCHANGED stored

\* Writes that nobody has been told of reach the store together, as if one
\* after the other.
Write(S) ==
    /\ \A w \in S : answer[w] \in {"waiting", "gone"}
    /\ \A v, w \in stored \cup S : <<v, w>> \notin Conflicts
    /\ stored' = stored \cup S
    /\ UNCHANGED answer

\* A write is refused over one in the store, or over one that has failed by
\* then: the write that ruled it out may itself never come to be.
Truthful(w, told, after) ==
    \/ told = "ok" /\ w \in stored
    \/ told = "failed" /\ w \notin stored
    \/ /\ told = "refused" /\ w \notin stored
       /\ \E v \in Writes : <<v, w>> \in Conflicts
                              /\ (v \in stored \/ after[v] \in {"failed", "gone"})

Tell(told) ==
    /\ \A w \in Writes : told[w] # answer[w] => answer[w] = "waiting" /\ Truthful(w, told[w], told)
    /\ answer' = told
    /\ UNCHANGED stored

\* The process stops: whoever waits hears nothing.
Lose ==
    /\ answer' = [w \in Writes |-> IF answer[w] = "waiting" THEN "lost" ELSE answer[w]]
    /\ UNCHANGED stored

Answers == {"none", "waiting", "gone", "lost", "ok", "refused", "failed"}

Next ==
    \/ \E w \in Writes : Ask(w) \/ GiveUp(w)
    \/ \E S \in SUBSET Writes : Write(S)
    \/ \E told \in [Writes -> Answers] : Tell(told)
    \/ Lose

Spec == Init /\ [][Next]_<<stored, answer>>

=============================================================================
