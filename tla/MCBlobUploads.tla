--------------------------- MODULE MCBlobUploads ---------------------------
(* BlobUploads for TLC: small sets of model values, and their symmetry.    *)
EXTENDS BlobUploads, TLC

Symmetric == Permutations(Requests) \cup Permutations(Instances)

=============================================================================
