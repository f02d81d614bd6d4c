--------------------------- MODULE FiniteNaturals ---------------------------
(***************************************************************************)
(* Finite sets of naturals have a greatest and a least member: two facts   *)
(* that the proofs about DomainLog and DeviceChain share.                  *)
(***************************************************************************)
EXTENDS Naturals, FiniteSets, FiniteSetTheorems, TLAPS

\* A nonempty finite set of naturals has a greatest member.
LEMMA GreatestExists ==
    ASSUME NEW S, S \subseteq Nat, IsFiniteSet(S), S # {}
    PROVE  \E x \in S : \A y \in S : y <= x
<1> DEFINE R == StrictSubsetOrdering(S)
           HasNone(X) == \A x \in X : \E y \in X : x < y
           T == {X \in SUBSET S : X # {} /\ HasNone(X)}
<1>1. SUFFICES ASSUME ~\E x \in S : \A y \in S : y <= x
               PROVE  FALSE
  OBVIOUS
<1>2. S \in T
  BY <1>1
<1>3. IsWellFoundedOn(R, SUBSET S)
  BY FS_StrictSubsetOrderingWellFounded, FS_FiniteSubsetsOfFinite
<1>4. PICK X \in T : \A Y \in T : ~(<<Y, X>> \in R)
  BY <1>2, <1>3, WFMin, Zenon
<1>5. PICK x \in X : TRUE
  OBVIOUS
<1>6. PICK y \in X : x < y
  BY <1>5
<1>7. X \ {x} \in T
  <2>1. y \in X \ {x}
    BY <1>6, S \subseteq Nat
  <2>2. ASSUME NEW u \in X \ {x} PROVE \E v \in X \ {x} : u < v
    <3>1. PICK v \in X : u < v
      OBVIOUS
    <3>2. CASE v = x
      BY <3>1, <3>2, <1>6, <2>1, S \subseteq Nat
    <3>3. CASE v # x
      BY <3>1, <3>3
    <3> QED BY <3>2, <3>3
  <2> QED BY <2>1, <2>2
<1>8. <<X \ {x}, X>> \in R
  BY <1>5 DEF StrictSubsetOrdering
<1> QED BY <1>4, <1>7, <1>8

\* And a least one.
LEMMA LeastExists ==
    ASSUME NEW S, S \subseteq Nat, IsFiniteSet(S), S # {}
    PROVE  \E x \in S : \A y \in S : x <= y
<1> DEFINE R == StrictSubsetOrdering(S)
           HasNone(X) == \A x \in X : \E y \in X : y < x
           T == {X \in SUBSET S : X # {} /\ HasNone(X)}
<1>1. SUFFICES ASSUME ~\E x \in S : \A y \in S : x <= y
               PROVE  FALSE
  OBVIOUS
<1>2. S \in T
  BY <1>1
<1>3. IsWellFoundedOn(R, SUBSET S)
  BY FS_StrictSubsetOrderingWellFounded, FS_FiniteSubsetsOfFinite
<1>4. PICK X \in T : \A Y \in T : ~(<<Y, X>> \in R)
  BY <1>2, <1>3, WFMin, Zenon
<1>5. PICK x \in X : TRUE
  OBVIOUS
<1>6. PICK y \in X : y < x
  BY <1>5
<1>7. X \ {x} \in T
  <2>1. y \in X \ {x}
    BY <1>6, S \subseteq Nat
  <2>2. ASSUME NEW u \in X \ {x} PROVE \E v \in X \ {x} : v < u
    <3>1. PICK v \in X : v < u
      OBVIOUS
    <3>2. CASE v = x
      BY <3>1, <3>2, <1>6, <2>1, S \subseteq Nat
    <3>3. CASE v # x
      BY <3>1, <3>3
    <3> QED BY <3>2, <3>3
  <2> QED BY <2>1, <2>2
<1>8. <<X \ {x}, X>> \in R
  BY <1>5 DEF StrictSubsetOrdering
<1> QED BY <1>4, <1>7, <1>8

=============================================================================
