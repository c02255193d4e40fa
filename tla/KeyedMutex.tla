----------------------------- MODULE KeyedMutex -----------------------------
(***************************************************************************)
(* What the request locks of server.rs promise to their callers: for every *)
(* key, at most one caller at a time is inside the section that            *)
(* project_guard or blob_guard opens and the drop of the guard closes.     *)
(* Nothing is said of lock objects, of the map that holds them or of its   *)
(* cleanup.  RequestLocks implements this specification; BlobCache is      *)
(* built on it.                                                            *)
(***************************************************************************)
CONSTANTS Keys,      \* lock keys: "blob_kind:blob_id", or a project name
          Clients    \* request handlers

VARIABLE holders     \* holders[k]: the handlers inside the section of k

TypeOK == holders \in [Keys -> SUBSET Clients]

Init == holders = [k \in Keys |-> {}]

Acquire(c, k) == /\ holders[k] = {}
                 /\ holders' = [holders EXCEPT ![k] = {c}]

Release(c, k) == /\ c \in holders[k]
                 /\ holders' = [holders EXCEPT ![k] = @ \ {c}]

Next == \E c \in Clients, k \in Keys : Acquire(c, k) \/ Release(c, k)

Spec == Init /\ [][Next]_holders

(* No two handlers are ever inside the section of one key. *)
MutualExclusion == \A k \in Keys : \A c, d \in holders[k] : c = d
=============================================================================
