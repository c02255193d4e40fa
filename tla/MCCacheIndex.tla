---------------------------- MODULE MCCacheIndex ----------------------------
EXTENDS CacheIndex, TLC

CONSTANTS a, b

(* No page has a link to blob 3 any more. *)
MCBlobOf == a :> 1 @@ b :> 2

Symmetry == Permutations(Projects)
=============================================================================
