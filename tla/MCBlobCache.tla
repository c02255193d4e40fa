---------------------------- MODULE MCBlobCache ----------------------------
(* Finite instances of BlobCache. *)
EXTENDS BlobCache, TLC

Symmetry == Permutations(Blobs) \cup Permutations(Clients) \cup Permutations(Jobs)
=============================================================================
