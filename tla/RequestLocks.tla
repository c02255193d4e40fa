---------------------------- MODULE RequestLocks ----------------------------
(***************************************************************************)
(* struct RequestLocks of server.rs: a concurrent map from a key to an     *)
(* Arc<Mutex>, filled on demand.  Before it looks its key up, guard() drops*)
(* from a map that reached the cleanup threshold every mutex whose Arc is  *)
(* held by the map alone.  The hazard is that cleanup: removing a mutex    *)
(* that a handler still waits for or holds would give the next handler of  *)
(* the key a fresh mutex, and two downloads of one blob.                   *)
(*                                                                         *)
(* DashMap runs the closure of retain, and the entry().or_insert().clone() *)
(* chain, under the lock of the shard of the key: each is one atomic step  *)
(* per key, and nothing is atomic across keys.  tokio's Mutex serves its   *)
(* waiters in the order of their first poll.  A handler whose client goes  *)
(* away is dropped at any await, and drops its Arc and its guard.          *)
(***************************************************************************)
EXTENDS Naturals, Sequences, FiniteSets, SequencesExt

CONSTANTS Keys, Clients,
          LockIds,     \* identities of the heap-allocated mutexes
          Threshold,   \* REQUEST_LOCK_CLEANUP_THRESHOLD
          None

ASSUME NoneAssumption == None \notin LockIds \cup Clients \cup Keys
ASSUME BoundAssumption == Threshold \in Nat \ {0} /\ IsFiniteSet(Clients)

VARIABLES
  map,     \* map[k]: the mutex the map holds for k, or None
  pc,      \* where each handler is in guard()
  want,    \* the key it asks for
  scan,    \* while it runs retain: the keys retain has not visited
  arc,     \* the Arc the handler cloned, or None
  owner,   \* owner[l]: the handler whose guard locks l, or None
  queue    \* queue[l]: the handlers waiting for l, in tokio's FIFO order

vars == <<map, pc, want, scan, arc, owner, queue>>

PC == {"idle", "len", "retain", "entry", "lock", "wait", "held"}

(* pcs of a handler between its clone of the Arc and the drop of it.       *)
HasArc == {"lock", "wait", "held"}

(* Types, and which handlers have a key and an Arc: a handler that is done *)
(* with its guard holds no Arc, so that cleanup can drop the mutex.        *)
TypeOK ==
  /\ map \in [Keys -> LockIds \cup {None}]
  /\ pc \in [Clients -> PC]
  /\ want \in [Clients -> Keys \cup {None}]
  /\ scan \in [Clients -> SUBSET Keys]
  /\ arc \in [Clients -> LockIds \cup {None}]
  /\ owner \in [LockIds -> Clients \cup {None}]
  /\ queue \in [LockIds -> Seq(Clients)]
  /\ \A c \in Clients : /\ pc[c] = "idle" => want[c] = None
                        /\ pc[c] # "idle" => want[c] \in Keys
                        /\ pc[c] \in HasArc <=> arc[c] # None

Init ==
  /\ map = [k \in Keys |-> None]
  /\ pc = [c \in Clients |-> "idle"]
  /\ want = [c \in Clients |-> None]
  /\ scan = [c \in Clients |-> {}]
  /\ arc = [c \in Clients |-> None]
  /\ owner = [l \in LockIds |-> None]
  /\ queue = [l \in LockIds |-> <<>>]

-----------------------------------------------------------------------------
Present == {k \in Keys : map[k] # None}

(* Mutant: the cleanup starts one entry late. *)
NeedsCleanupLate == Cardinality(Present) > Threshold

NeedsCleanup == Cardinality(Present) >= Threshold

(* Mutants: strong_count(lock) > 2, and a mutex counted in use only while  *)
(* it is locked.                                                           *)
InUseTwice(l) == \E c, d \in Clients : c # d /\ arc[c] = l /\ arc[d] = l
InUseLocked(l) == owner[l] # None

(* Arc::strong_count(lock) > 1: besides the map, a handler holds a clone. *)
InUse(l) == \E c \in Clients : arc[c] = l

(* An unused identity for a mutex that is allocated now. *)
FreeLocks == {l \in LockIds : /\ \A k \in Keys : map[k] # l
                              /\ \A c \in Clients : arc[c] # l}

Goto(c, label) == pc' = [pc EXCEPT ![c] = label]

(* A handler calls project_guard or blob_guard. *)
Request(c, k) ==
  /\ pc[c] = "idle"
  /\ Goto(c, "len")
  /\ want' = [want EXCEPT ![c] = k]
  /\ UNCHANGED <<map, scan, arc, owner, queue>>

(* map.len() >= REQUEST_LOCK_CLEANUP_THRESHOLD *)
CheckLen(c) ==
  /\ pc[c] = "len"
  /\ IF NeedsCleanup
       THEN Goto(c, "retain") /\ scan' = [scan EXCEPT ![c] = Keys]
       ELSE Goto(c, "entry") /\ UNCHANGED scan
  /\ UNCHANGED <<map, want, arc, owner, queue>>

(* One key visited by map.retain. *)
RetainOne(c, k) ==
  /\ pc[c] = "retain"
  /\ k \in scan[c]
  /\ scan' = [scan EXCEPT ![c] = @ \ {k}]
  /\ map' = IF map[k] # None /\ ~InUse(map[k])
              THEN [map EXCEPT ![k] = None] ELSE map
  /\ UNCHANGED <<pc, want, arc, owner, queue>>

RetainEnd(c) ==
  /\ pc[c] = "retain"
  /\ scan[c] = {}
  /\ Goto(c, "entry")
  /\ UNCHANGED <<map, want, scan, arc, owner, queue>>

(* map.entry(key).or_insert_with(new mutex).clone() *)
CloneEntry(c) ==
  /\ pc[c] = "entry"
  /\ Goto(c, "lock")
  /\ \/ /\ map[want[c]] # None
        /\ arc' = [arc EXCEPT ![c] = map[want[c]]]
        /\ UNCHANGED map
     \/ /\ map[want[c]] = None
        /\ \E l \in FreeLocks : /\ map' = [map EXCEPT ![want[c]] = l]
                                /\ arc' = [arc EXCEPT ![c] = l]
  /\ UNCHANGED <<want, scan, owner, queue>>

(* The first poll of lock_owned(): take a free mutex nobody queues for, or *)
(* join the queue.                                                         *)
LockNow(c) ==
  /\ pc[c] = "lock"
  /\ owner[arc[c]] = None
  /\ queue[arc[c]] = <<>>
  /\ owner' = [owner EXCEPT ![arc[c]] = c]
  /\ Goto(c, "held")
  /\ UNCHANGED <<map, want, scan, arc, queue>>

Enqueue(c) ==
  /\ pc[c] = "lock"
  /\ owner[arc[c]] # None \/ queue[arc[c]] # <<>>
  /\ queue' = [queue EXCEPT ![arc[c]] = Append(@, c)]
  /\ Goto(c, "wait")
  /\ UNCHANGED <<map, want, scan, arc, owner>>

LockQueued(c) ==
  /\ pc[c] = "wait"
  /\ owner[arc[c]] = None
  /\ queue[arc[c]] # <<>>
  /\ Head(queue[arc[c]]) = c
  /\ queue' = [queue EXCEPT ![arc[c]] = Tail(@)]
  /\ owner' = [owner EXCEPT ![arc[c]] = c]
  /\ Goto(c, "held")
  /\ UNCHANGED <<map, want, scan, arc>>

Forget(c) ==
  /\ Goto(c, "idle")
  /\ want' = [want EXCEPT ![c] = None]
  /\ arc' = [arc EXCEPT ![c] = None]

(* Mutant: the guard is leaked. *)
Leak(c) == UNCHANGED owner

Unlock(c) == owner' = [owner EXCEPT ![arc[c]] = None]

(* The OwnedMutexGuard is dropped: unlock, then drop the Arc. *)
Release(c) ==
  /\ pc[c] = "held"
  /\ Unlock(c)
  /\ Forget(c)
  /\ UNCHANGED <<map, scan, queue>>

(* The handler is dropped while its lock_owned() future waits. *)
Cancel(c) ==
  /\ pc[c] = "wait"
  /\ \E i \in 1 .. Len(queue[arc[c]]) :
       /\ queue[arc[c]][i] = c
       /\ queue' = [queue EXCEPT ![arc[c]] = RemoveAt(@, i)]
  /\ Forget(c)
  /\ UNCHANGED <<map, scan, owner>>

Lock(c) == LockNow(c) \/ Enqueue(c) \/ LockQueued(c)

Guard(c) == CheckLen(c) \/ RetainEnd(c) \/ CloneEntry(c)
            \/ \E k \in Keys : RetainOne(c, k)

Next == \E c \in Clients : \/ \E k \in Keys : Request(c, k)
                           \/ Guard(c) \/ Lock(c) \/ Release(c) \/ Cancel(c)

(* Every handler that can run is eventually polled, and every holder drops *)
(* its guard: its section awaits SQLite and the response start only.       *)
Fairness == \A c \in Clients : /\ WF_vars(Guard(c))
                               /\ WF_vars(Lock(c))
                               /\ WF_vars(Release(c))

Spec == Init /\ [][Next]_vars

FairSpec == Spec /\ Fairness

-----------------------------------------------------------------------------
Holding(k) == {c \in Clients : pc[c] = "held" /\ want[c] = k}

(* Two handlers never hold the lock of one key, although the mutex of a    *)
(* key may be removed from the map and made anew (server.rs:223-232).      *)
MutualExclusion == \A k \in Keys : \A c, d \in Holding(k) : c = d

(* The lock map with its cleanup behaves as a plain mutex per key.         *)
Mutexes == INSTANCE KeyedMutex WITH holders <- [k \in Keys |-> Holding(k)]

ImplementsKeyedMutex == Mutexes!Spec

(* The cleanup bounds the map: it never exceeds the threshold by more than *)
(* the number of handlers that are past their length check.                *)
MapBounded == Cardinality(Present) + 1 <= Threshold + Cardinality(Clients)

(* Every handler that asks for a lock obtains it or goes away: cleanup     *)
(* never strands a waiter, and waiters are served in order.                *)
NoStarvation == \A c \in Clients : (pc[c] = "len") ~> (pc[c] \in {"held", "idle"})
=============================================================================
