---------------------------- MODULE MCDomainLog ----------------------------
(* DomainLog for TLC: small sets of model values, and their symmetry.      *)
EXTENDS DomainLog, TLC

Symmetric == Permutations(Devices) \cup Permutations(Rids) \cup Permutations(Instances)

=============================================================================
