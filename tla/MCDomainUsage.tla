--------------------------- MODULE MCDomainUsage ---------------------------
(* DomainUsage for TLC: small sets of model values, and their symmetry.    *)
EXTENDS DomainUsage, TLC

Symmetric == Permutations(Devices) \cup Permutations(Rids) \cup Permutations(Instances)

=============================================================================
