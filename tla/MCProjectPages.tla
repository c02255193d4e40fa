--------------------------- MODULE MCProjectPages ---------------------------
(* Finite instances of ProjectPages, with a history variable.              *)
EXTENDS ProjectPages, TLC

VARIABLE overtaken  \* the index entry was written past somebody with an older page

Symmetry == Permutations(Tasks)

(* The entry changes while somebody other than its writer, who is at       *)
(* "store" or "touch", has a page of the index in hand, or while a dropped *)
(* handler's write is under way.                                           *)
Overtakes ==
  /\ row' # row
  /\ \/ late # {}
     \/ \E a \in Actors : hand[a] # None /\ pc[a] \notin {"store", "touch"}

MCInit == Init /\ overtaken = FALSE
MCNext == Next /\ overtaken' = (overtaken \/ Overtakes)
MCSpec == MCInit /\ [][MCNext]_<<vars, overtaken>>

(* The page in memory is the one of the index, its expiry too, once the    *)
(* refresh that wrote the index has put it there; but for a handler or a   *)
(* late write that was overtaken with an older page in hand, and when no   *)
(* page is too large for memory (server.rs:1475-1490).                     *)
HotIsIndex ==
  \/ overtaken \/ hot = None \/ hot = row
  \/ \E a \in Actors : pc[a] \in {"respondFetched", "cacheFetched"}
=============================================================================
