--------------------------- MODULE MCRequestLocks ---------------------------
(***************************************************************************)
(* Three parts of the server checked in one run: the locks, the liveness of*)
(* one project's page with its refresh task, and the bounded cache.  part, *)
(* chosen at the start, says which of them runs; the others keep still.    *)
(***************************************************************************)
EXTENDS RequestLocks

CONSTANTS PageClients, PageTasks, LruKeys, LruValues, LruCapacity, MaxSequence

VARIABLES
  part,
  upstream, now, row, resp, hot, refreshing, lock, late,   \* ProjectPages
  page_pc, hand, fetched, etag, known,
  entries, order, next_sequence                            \* BoundedLru

P == INSTANCE ProjectPages WITH
       pc <- page_pc, Clients <- PageClients, Tasks <- PageTasks, MaxVersion <- 2,
       MaxTime <- 1, Ttl <- 1, Oversized <- {2}, IoErrors <- TRUE, Drops <- TRUE,
       MaxLate <- 0
L == INSTANCE BoundedLru WITH
       Keys <- LruKeys, Values <- LruValues, Capacity <- LruCapacity

ASSUME LruAssumption ==
  /\ LruCapacity \in Nat /\ None \notin LruValues
  /\ None \notin [value : LruValues, sequence : Nat]

pageVars == <<upstream, now, row, resp, hot, refreshing, lock, late,
              page_pc, hand, fetched, etag, known>>
lruVars == <<entries, order, next_sequence>>
mcVars == <<part, vars, pageVars, lruVars>>

MCInit == /\ part \in {"locks", "pages", "lru"}
          /\ Init /\ P!Init /\ L!Init

Finished == part = "lru" /\ next_sequence = MaxSequence /\ UNCHANGED lruVars

MCNext ==
  /\ UNCHANGED part
  /\ \/ part = "locks" /\ Next /\ UNCHANGED <<pageVars, lruVars>>
     \/ part = "pages" /\ P!Next /\ UNCHANGED <<vars, lruVars>>
     \/ part = "lru" /\ (L!Next \/ Finished) /\ UNCHANGED <<vars, pageVars>>

(* A part that keeps still has no fair action enabled: its handlers are idle. *)
MCSpec == MCInit /\ [][MCNext]_mcVars /\ Fairness /\ P!Fairness

(* Every request for a project's page is answered (see ProjectPages).      *)
PageAnswered == P!RequestAnswered

(* A refresh ends and is taken out of the registry (see ProjectPages).     *)
RefreshEnds == P!RefreshEnds

(* The bounded cache with its lazily cleaned queue drops the least recently *)
(* used entry, and only that (see BoundedLru).                             *)
ImplementsLru == L!ImplementsLru
=============================================================================
