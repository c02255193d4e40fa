----------------------------- MODULE MCBlobTail -----------------------------
(* Finite instances of BlobTail. *)
EXTENDS BlobTail, TLC
=============================================================================
