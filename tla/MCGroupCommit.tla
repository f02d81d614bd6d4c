--------------------------- MODULE MCGroupCommit ---------------------------
(* GroupCommit for TLC: of the writes, the first two exclude each other.   *)
EXTENDS GroupCommit

CONSTANTS w1, w2

TwoExclude == {<<w1, w2>>, <<w2, w1>>}

=============================================================================
