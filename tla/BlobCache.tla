------------------------------ MODULE BlobCache ------------------------------
(***************************************************************************)
(* Requests for package files against the four places that know of a file: *)
(* the row in SQLite, the file in the cache directory, the in-memory map   *)
(* hot_blobs, and the registry of running downloads active_blobs.          *)
(*                                                                         *)
(* A client step is one stretch of ensure_link_blob between two awaits (or *)
(* between two accesses to shared state); a job step is one such stretch   *)
(* of download_blob_task.  Every table and map is accessed atomically, and *)
(* nothing makes two accesses atomic together except the lock of the blob  *)
(* (KeyedMutex).  A job holds no lock: it is registered under the lock and *)
(* runs on its own.                                                        *)
(*                                                                         *)
(* Abstracted: the bytes (BlobTail and BlobDownload), the sizes (every     *)
(* file counts 1 against the limit), the access times (the prune may pick  *)
(* any victims: the choice by least recent use is CacheIndex's), and the   *)
(* project pages that a download or an eviction invalidates.               *)
(***************************************************************************)
EXTENDS Naturals, FiniteSets

CONSTANTS
  Blobs,      \* cache keys, "blob_kind:blob_id"
  Clients,    \* request handlers
  Jobs,       \* identities of ActiveBlob objects with their download task
  MaxReady,   \* cache_max_size in files; 0 is "no limit"
  IoErrors,   \* BOOLEAN: SQLite and file operations may fail
  Crashes,    \* BOOLEAN: the server may be killed and started again
  None

ASSUME MaxReadyAssumption == MaxReady \in Nat
ASSUME FaultAssumption == IoErrors \in BOOLEAN /\ Crashes \in BOOLEAN
ASSUME NoneAssumption == None \notin Jobs \cup Blobs

VARIABLES
  row,      \* row[b]: what SQLite says of b
  file,     \* the blobs whose final file is in the cache directory
  hot,      \* the keys of hot_blobs
  active,   \* active[b]: the job active_blobs holds for b, or None
  locks,    \* the blob locks (see KeyedMutex)
  pc,       \* where each handler is
  want,     \* the blob it serves
  joined,   \* the job whose ActiveBlob it waits for, or None
  jpc,      \* where each download job is
  jblob,    \* the blob it downloads
  evicted,  \* the blobs its prune deleted from SQLite
  todo      \* those whose file it has yet to unlink

cacheVars == <<row, file, hot, active>>
clientVars == <<pc, want, joined>>
jobVars == <<jpc, jblob, evicted, todo>>
vars == <<row, file, hot, active, locks, pc, want, joined,
          jpc, jblob, evicted, todo>>

Mutex == INSTANCE KeyedMutex WITH Keys <- Blobs, holders <- locks

(* pcs of a handler that has answered, and how it answered.                *)
Answered == {"idle", "file", "stream", "error", "gone"}
(* pcs inside the section of the blob lock.                                *)
Guarded == {"recheck", "touchGuarded", "peekGuarded", "pending", "register",
            "joinGuarded"}
Unguarded == {"memory", "touchHot", "status", "touch", "range", "peek",
              "lock", "join", "serve"}
ClientPC == Answered \cup Guarded \cup Unguarded

(* pcs of a job that active_blobs knows.                                   *)
LiveJob == {"fetch", "body", "mark", "prune", "unlink", "invalidate",
            "insert", "deregister", "failed"}
JobPC == LiveJob \cup {"over"}

(* Types, and which handlers and jobs have a blob or a job to refer to.    *)
TypeOK ==
  /\ row \in [Blobs -> {"missing", "pending", "ready"}]
  /\ file \subseteq Blobs
  /\ hot \subseteq Blobs
  /\ active \in [Blobs -> Jobs \cup {None}]
  /\ locks \in [Blobs -> SUBSET Clients]
  /\ pc \in [Clients -> ClientPC]
  /\ want \in [Clients -> Blobs \cup {None}]
  /\ joined \in [Clients -> Jobs \cup {None}]
  /\ jpc \in [Jobs -> JobPC]
  /\ jblob \in [Jobs -> Blobs \cup {None}]
  /\ evicted \in [Jobs -> SUBSET Blobs]
  /\ todo \in [Jobs -> SUBSET Blobs]
  /\ \A c \in Clients : /\ pc[c] # "idle" => want[c] \in Blobs
                        /\ pc[c] \in {"join", "joinGuarded"} => joined[c] \in Jobs
  /\ \A j \in Jobs : jpc[j] \in LiveJob => jblob[j] \in Blobs

InitMemory(hot0, active0, locks0, pc0, want0, joined0, jpc0, jblob0, ev0, td0) ==
  /\ hot0 = {}
  /\ active0 = [b \in Blobs |-> None]
  /\ locks0 = [b \in Blobs |-> {}]
  /\ pc0 = [c \in Clients |-> "idle"]
  /\ want0 = [c \in Clients |-> None]
  /\ joined0 = [c \in Clients |-> None]
  /\ jpc0 = [j \in Jobs |-> "over"]
  /\ jblob0 = [j \in Jobs |-> None]
  /\ ev0 = [j \in Jobs |-> {}]
  /\ td0 = [j \in Jobs |-> {}]

Init ==
  /\ row = [b \in Blobs |-> "missing"]
  /\ file = {}
  /\ InitMemory(hot, active, locks, pc, want, joined, jpc, jblob, evicted, todo)

-----------------------------------------------------------------------------
(* Handlers: ensure_link_blob.                                             *)

Goto(c, label) == pc' = [pc EXCEPT ![c] = label]

(* Mutant: the guard outlives its handler. *)
LeakGuard(c) == UNCHANGED locks

(* The lock a handler holds is dropped with it, at whatever point.         *)
DropGuard(c) == locks' = [b \in Blobs |-> locks[b] \ {c}]

(* Mutant: a pending row is taken for a ready one. *)
Known(b) == row[b] # "missing"

Ready(b) == row[b] = "ready"

Request(c, b) ==
  /\ pc[c] \in Answered
  /\ Goto(c, "memory")
  /\ want' = [want EXCEPT ![c] = b]
  /\ UNCHANGED <<cacheVars, locks, joined, jobVars>>

(* state.hot_blobs.get(&key) *)
LookMemory(c) ==
  /\ pc[c] = "memory"
  /\ Goto(c, IF want[c] \in hot THEN "touchHot" ELSE "status")
  /\ UNCHANGED <<cacheVars, locks, want, joined, jobVars>>

(* The first blob_status. *)
LookStatus(c) ==
  /\ pc[c] = "status"
  /\ Goto(c, IF Ready(want[c]) THEN "touch" ELSE "range")
  /\ UNCHANGED <<cacheVars, locks, want, joined, jobVars>>

(* touch_cached_blob(..).await of a hot_blobs hit. *)
TouchHot(c) ==
  /\ pc[c] = "touchHot"
  /\ Goto(c, "serve")
  /\ UNCHANGED <<cacheVars, locks, want, joined, jobVars>>

(* What follows a touch of a row that was ready: fill hot_blobs.           *)
FillHot(c) == hot' = hot \cup {want[c]}

Touch(c) ==
  /\ pc[c] = "touch"
  /\ FillHot(c)
  /\ Goto(c, "serve")
  /\ UNCHANGED <<row, file, active, locks, want, joined, jobVars>>

(* A Range request for a file that is not cached is passed to the upstream;*)
(* one it does not honour, and a request without Range, go on.             *)
TryRange(c) ==
  /\ pc[c] = "range"
  /\ \E outcome \in {"stream", "error", "peek"} : Goto(c, outcome)
  /\ UNCHANGED <<cacheVars, locks, want, joined, jobVars>>

(* Mutants: the registry is not asked, and the handler joins no job. *)
JoinNever(c, joinLabel, label) == Goto(c, label) /\ UNCHANGED joined
JoinNothing(c, joinLabel, label) ==
  /\ Goto(c, IF active[want[c]] # None THEN joinLabel ELSE label)
  /\ UNCHANGED joined

(* state.active_blobs.get(&key): join the job, or go on to label. *)
JoinOr(c, joinLabel, label) ==
  IF active[want[c]] # None
    THEN /\ joined' = [joined EXCEPT ![c] = active[want[c]]]
         /\ Goto(c, joinLabel)
    ELSE /\ Goto(c, label)
         /\ UNCHANGED joined

Peek(c) ==
  /\ pc[c] = "peek"
  /\ JoinOr(c, "join", "lock")
  /\ UNCHANGED <<cacheVars, locks, want, jobVars>>

(* state.locks.blob_guard(..).await *)
Lock(c) ==
  /\ pc[c] = "lock"
  /\ Mutex!Acquire(c, want[c])
  /\ Goto(c, "recheck")
  /\ UNCHANGED <<cacheVars, want, joined, jobVars>>

(* The second blob_status, under the lock. *)
Recheck(c) ==
  /\ pc[c] = "recheck"
  /\ Goto(c, IF Ready(want[c]) THEN "touchGuarded" ELSE "peekGuarded")
  /\ UNCHANGED <<cacheVars, locks, want, joined, jobVars>>

TouchGuarded(c) ==
  /\ pc[c] = "touchGuarded"
  /\ FillHot(c)
  /\ Goto(c, "serve")
  /\ DropGuard(c)
  /\ UNCHANGED <<row, file, active, want, joined, jobVars>>

(* Joining here keeps the guard until the response has started. *)
PeekGuarded(c) ==
  /\ pc[c] = "peekGuarded"
  /\ JoinOr(c, "joinGuarded", "pending")
  /\ UNCHANGED <<cacheVars, locks, want, jobVars>>

(* Mutants: a row inserted in the wrong state, and no row inserted. *)
InsertReady(b) == row' = [row EXCEPT ![b] = "ready"]
InsertNothing(b) == UNCHANGED row

(* INSERT OR IGNORE of a pending row. *)
InsertPending(b) == row' = [row EXCEPT ![b] = IF @ = "missing" THEN "pending" ELSE @]

MarkPending(c) ==
  /\ pc[c] = "pending"
  /\ InsertPending(want[c])
  /\ Goto(c, "register")
  /\ UNCHANGED <<file, hot, active, locks, want, joined, jobVars>>

(* No running job and no waiting handler has this ActiveBlob.              *)
Unused(j) == jpc[j] = "over" /\ \A c \in Clients : joined[c] # j

(* After blob_temp_len: register a new ActiveBlob, drop the guard, spawn   *)
(* the job and wait for its response start, with no await in between.      *)
Register(c, j) ==
  /\ pc[c] = "register"
  /\ Unused(j)
  /\ active' = [active EXCEPT ![want[c]] = j]
  /\ jpc' = [jpc EXCEPT ![j] = "fetch"]
  /\ jblob' = [jblob EXCEPT ![j] = want[c]]
  /\ joined' = [joined EXCEPT ![c] = j]
  /\ Goto(c, "join")
  /\ DropGuard(c)
  /\ UNCHANGED <<row, file, hot, want, evicted, todo>>

(* wait_for_active_response_start returns: the job has failed, or has the  *)
(* upstream response, or is over, in success or failure.                   *)
Started(j) == jpc[j] # "fetch"

JoinEnd(c) ==
  /\ pc[c] \in {"join", "joinGuarded"}
  /\ Started(joined[c])
  /\ \/ jpc[joined[c]] # "failed" /\ Goto(c, "stream")
     \/ jpc[joined[c]] \in {"failed", "over"} /\ Goto(c, "error")
  /\ joined' = [joined EXCEPT ![c] = None]
  /\ DropGuard(c)
  /\ UNCHANGED <<cacheVars, want, jobVars>>

(* cached_file_response: File::open of a blob found ready. "gone" is the   *)
(* answer 500 "cache file missing".                                        *)
Serve(c) ==
  /\ pc[c] = "serve"
  /\ Goto(c, IF want[c] \in file THEN "file" ELSE "gone")
  /\ UNCHANGED <<cacheVars, locks, want, joined, jobVars>>

(* The client closes the connection and the handler is dropped at its      *)
(* await, or an operation fails and `?` leaves the handler.  A dropped     *)
(* mark_blob_pending may still insert the row: spawn_blocking is not       *)
(* cancelled.                                                              *)
AwaitPC == {"touchHot", "status", "touch", "range", "lock", "recheck",
            "touchGuarded", "pending", "register", "join", "joinGuarded",
            "serve"}

Leave(c) ==
  /\ pc[c] \in AwaitPC
  /\ Goto(c, "error")
  /\ joined' = [joined EXCEPT ![c] = None]
  /\ DropGuard(c)
  /\ \/ UNCHANGED row
     \/ pc[c] = "pending" /\ InsertPending(want[c])
  /\ UNCHANGED <<file, hot, active, want, jobVars>>

Handle(c) ==
  \/ LookMemory(c) \/ LookStatus(c) \/ TouchHot(c) \/ Touch(c)
  \/ TryRange(c) \/ Peek(c) \/ Recheck(c) \/ TouchGuarded(c)
  \/ PeekGuarded(c) \/ MarkPending(c) \/ JoinEnd(c) \/ Serve(c)
  \/ \E j \in Jobs : Register(c, j)

-----------------------------------------------------------------------------
(* Download jobs: download_blob_task.                                      *)

JobGoto(j, label) == jpc' = [jpc EXCEPT ![j] = label]

(* open_file_range answers with a status this job accepts. *)
Open(j) ==
  /\ jpc[j] = "fetch"
  /\ JobGoto(j, "body")
  /\ UNCHANGED <<cacheVars, locks, clientVars, jblob, evicted, todo>>

(* The body has arrived, is verified and is renamed to the final path. *)
Commit(j) ==
  /\ jpc[j] = "body"
  /\ file' = file \cup {jblob[j]}
  /\ JobGoto(j, "mark")
  /\ UNCHANGED <<row, hot, active, locks, clientVars, jblob, evicted, todo>>

(* mark_blob_ready: an UPDATE, which changes nothing when the row is gone. *)
UpdateReady(b) == row' = [row EXCEPT ![b] = IF @ = "missing" THEN @ ELSE "ready"]

MarkReady(j) ==
  /\ jpc[j] = "mark"
  /\ UpdateReady(jblob[j])
  /\ JobGoto(j, IF MaxReady = 0 THEN "insert" ELSE "prune")
  /\ UNCHANGED <<file, hot, active, locks, clientVars, jblob, evicted, todo>>

ReadyBlobs == {b \in Blobs : Ready(b)}

(* Mutant: the prune stops one file early. *)
VictimsShort == {V \in SUBSET ReadyBlobs :
                   Cardinality(ReadyBlobs \ V) =
                     IF Cardinality(ReadyBlobs) > MaxReady + 1
                       THEN MaxReady + 1 ELSE Cardinality(ReadyBlobs)}

(* prune_cache_to_size_db in one transaction: delete the rows of as many   *)
(* ready blobs as bring the rest to the limit, and no more.                *)
Victims == {V \in SUBSET ReadyBlobs :
              Cardinality(ReadyBlobs \ V) =
                IF Cardinality(ReadyBlobs) > MaxReady
                  THEN MaxReady ELSE Cardinality(ReadyBlobs)}

Prune(j) ==
  /\ jpc[j] = "prune"
  /\ \E V \in Victims :
       /\ row' = [b \in Blobs |-> IF b \in V THEN "missing" ELSE row[b]]
       /\ evicted' = [evicted EXCEPT ![j] = V]
       /\ todo' = [todo EXCEPT ![j] = V]
       /\ JobGoto(j, IF V = {} THEN "invalidate" ELSE "unlink")
  /\ UNCHANGED <<file, hot, active, locks, clientVars, jblob>>

(* remove_file of one victim, after the transaction and without its lock.  *)
Unlink(j, b) ==
  /\ jpc[j] = "unlink"
  /\ b \in todo[j]
  /\ file' = file \ {b}
  /\ todo' = [todo EXCEPT ![j] = @ \ {b}]
  /\ JobGoto(j, IF todo[j] = {b} THEN "invalidate" ELSE "unlink")
  /\ UNCHANGED <<row, hot, active, locks, clientVars, jblob, evicted>>

(* invalidate_evicted_blobs: the victims and the downloaded blob. *)
Stale(j) == evicted[j] \cup {jblob[j]}

Invalidate(j) ==
  /\ jpc[j] = "invalidate"
  /\ hot' = hot \ Stale(j)
  /\ JobGoto(j, IF jblob[j] \in evicted[j] THEN "deregister" ELSE "insert")
  /\ UNCHANGED <<row, file, active, locks, clientVars, jblob, evicted, todo>>

InsertHot(j) ==
  /\ jpc[j] = "insert"
  /\ hot' = hot \cup {jblob[j]}
  /\ JobGoto(j, "deregister")
  /\ UNCHANGED <<row, file, active, locks, clientVars, jblob, evicted, todo>>

(* active_blobs.remove(&key): whatever it holds under the key. A job that  *)
(* succeeded leaves the registry before it is finished, one that failed    *)
(* after.                                                                  *)
Deregister(j) ==
  /\ jpc[j] \in {"deregister", "failed"}
  /\ active' = [active EXCEPT ![jblob[j]] = None]
  /\ JobGoto(j, "over")
  /\ jblob' = [jblob EXCEPT ![j] = None]
  /\ evicted' = [evicted EXCEPT ![j] = {}]
  /\ todo' = [todo EXCEPT ![j] = {}]
  /\ UNCHANGED <<row, file, hot, locks, clientVars>>

(* `?` in download_blob_task_inner. The upstream may always fail; SQLite   *)
(* and the file system only when IoErrors.                                 *)
Fail(j) ==
  /\ \/ jpc[j] \in {"fetch", "body"}
     \/ IoErrors /\ jpc[j] \in {"mark", "prune", "unlink"}
  /\ JobGoto(j, "failed")
  /\ UNCHANGED <<cacheVars, locks, clientVars, jblob, evicted, todo>>

Work(j) ==
  \/ Open(j) \/ Commit(j) \/ MarkReady(j) \/ Prune(j)
  \/ \E b \in Blobs : Unlink(j, b)
  \/ Invalidate(j) \/ InsertHot(j) \/ Deregister(j)

-----------------------------------------------------------------------------
(* moka drops an entry when hot_blobs is over its capacity. *)
EvictHot(b) ==
  /\ b \in hot
  /\ hot' = hot \ {b}
  /\ UNCHANGED <<row, file, active, locks, clientVars, jobVars>>

(* The server is killed and started again: SQLite and the files remain. *)
Crash ==
  /\ Crashes
  /\ InitMemory(hot', active', locks', pc', want', joined',
                jpc', jblob', evicted', todo')
  /\ UNCHANGED <<row, file>>

Next ==
  \/ \E c \in Clients : \/ \E b \in Blobs : Request(c, b)
                        \/ Handle(c) \/ Lock(c) \/ Leave(c)
  \/ \E j \in Jobs : Work(j) \/ Fail(j)
  \/ \E b \in Blobs : EvictHot(b)
  \/ Crash

Spec == Init /\ [][Next]_vars

(* Handlers and jobs are tokio tasks and are polled when they can run; the *)
(* upstream answers or its read timeout fails the job; the blob lock is    *)
(* fair (RequestLocks), so a handler that waits is not passed over forever.*)
Fairness ==
  /\ \A c \in Clients : WF_vars(Handle(c)) /\ SF_vars(Lock(c))
  /\ \A j \in Jobs : WF_vars(Work(j))

FairSpec == Spec /\ Fairness

-----------------------------------------------------------------------------
(* At most one download of a blob is registered and running                *)
(* (server.rs:1641); its writer may outlive it (BlobDownload).             *)
SingleFlight ==
  \A j, k \in Jobs : /\ jpc[j] \in LiveJob /\ jpc[k] \in LiveJob
                     /\ jblob[j] = jblob[k]
                     => j = k

(* Without a limit, a row says ready only once the final file is in place, *)
(* through failures and restarts: the rename comes before the UPDATE.      *)
ReadyHasFile == MaxReady = 0 => \A b \in Blobs : Ready(b) => b \in file

(* Without a limit, a handler that found its blob in memory or in SQLite   *)
(* never answers "cache file missing".                                     *)
CachedIsServed == MaxReady = 0 => \A c \in Clients : pc[c] # "gone"

(* Without a limit, a running job's UPDATE finds its row: the insert of    *)
(* the pending row came first and nothing deletes it.                      *)
LiveJobHasRow ==
  MaxReady = 0 => \A j \in Jobs : jpc[j] \in LiveJob => row[jblob[j]] # "missing"

NoWork == (\A c \in Clients : pc[c] \in Answered)
          /\ (\A j \in Jobs : jpc[j] \notin LiveJob)

(* With a limit, the cache is back within it whenever no job is running,   *)
(* if nothing failed: jobs that mark and prune concurrently still leave no *)
(* excess.                                                                 *)
WithinLimit ==
  (MaxReady > 0 /\ ~IoErrors /\ ~Crashes
    /\ \A j \in Jobs : jpc[j] \notin LiveJob)
  => Cardinality(ReadyBlobs) <= MaxReady

(* Every request is answered: no handler waits forever for the lock of a   *)
(* blob, for a job that will not tell it, or for another handler that      *)
(* keeps the lock while it waits for a response start.                     *)
RequestAnswered == \A c \in Clients : (pc[c] = "memory") ~> (pc[c] \in Answered)

(* The test of tests/cache_lru.rs:80-83 and the README (keeps downloaded   *)
(* files in a local cache, with a least-recently-used cleanup): a file     *)
(* that was evicted is fetched again. Then what hot_blobs holds while      *)
(* nothing runs must still have its file.                                  *)
EvictedIsRefetched == NoWork => hot \subseteq file

(* ... and a row that says ready must have its file.                       *)
ReadyIsServed == NoWork => ReadyBlobs \subseteq file
=============================================================================
