------------------------------ MODULE CacheIndex ------------------------------
(***************************************************************************)
(* CacheStore on SQLite: the links of the projects, the rows of the files  *)
(* ("blobs"), and project_stats, which keeps for each project the numbers  *)
(* the root page shows, so that nobody has to count.  Every write that     *)
(* could change a number recounts, in its own transaction, the projects it *)
(* believes to be concerned.                                               *)
(*                                                                         *)
(* A table is a function on the keys that have a row.  A transaction is a  *)
(* step; the prune is two, since it reads its candidates before its        *)
(* transaction.  db_write_lock excludes other writers in between, but for  *)
(* those whose handler was dropped: the guard went with the handler, and   *)
(* the closure of spawn_blocking runs on.                                  *)
(*                                                                         *)
(* Abstracted: what a link or a row holds besides; a page is the set of    *)
(* its links, as store_project leaves no link twice.                       *)
(***************************************************************************)
EXTENDS Naturals, Sequences, FiniteSets, Functions

CONSTANTS
  Projects,
  Links,     \* links of project pages: a filename with its URL
  Blobs,     \* keys (blob_kind, blob_id), as numbers in their SQL order
  BlobOf,    \* BlobOf[l]: the blob that link l leads to
  Sizes,     \* sizes of files
  MaxSize,   \* cache_max_size; 0 is "no limit"
  MaxTime,   \* bound: the last reading of the clock
  Faults     \* BOOLEAN: handlers are dropped, writes fail, the server restarts

ASSUME BlobAssumption == Blobs \subseteq Nat /\ BlobOf \in [Links -> Blobs]
ASSUME SizeAssumption == Sizes \subseteq Nat /\ MaxSize \in Nat /\ MaxTime \in Nat
ASSUME FaultsAssumption == Faults \in BOOLEAN

VARIABLES
  links,   \* project_links: links[p], for the projects in the index
  blobs,   \* blobs[b], for the blobs that have a row
  stats,   \* project_stats
  now,     \* current_unix_secs()
  job,     \* job[b]: where the download of b is
  snap     \* the rows the running prune has read

vars == <<links, blobs, stats, now, job, snap>>

Times == 0 .. MaxTime
Row == [state : {"pending", "ready"}, size : Sizes \cup {0},
        fetched : Times, accessed : Times]
Pending == [state |-> "pending", size |-> 0, fetched |-> 0, accessed |-> 0]

NoRows == [b \in {} |-> Pending]

Ready(table) == {b \in DOMAIN table : table[b].state = "ready"}

(* Types; a project has statistics iff it is in the index; one prune at a  *)
(* time holds the lock, and the rows it has read are ready still.          *)
TypeOK ==
  /\ DOMAIN links \subseteq Projects
  /\ \A p \in DOMAIN links : links[p] \subseteq Links
  /\ DOMAIN blobs \subseteq Blobs
  /\ \A b \in DOMAIN blobs : blobs[b] \in Row
  /\ DOMAIN stats = DOMAIN links
  /\ now \in Times
  /\ job \in [Blobs -> {"none", "body", "prune", "delete"}]
  /\ DOMAIN snap \subseteq Ready(blobs)
  /\ \A b \in DOMAIN snap : snap[b] \in Row
  /\ \A b, c \in Blobs : job[b] = "delete" /\ job[c] = "delete" => b = c

Init ==
  /\ links = [p \in {} |-> {}]
  /\ blobs = NoRows
  /\ stats = [p \in {} |-> {}]
  /\ now = 0
  /\ job = [b \in Blobs |-> "none"]
  /\ snap = NoRows

-----------------------------------------------------------------------------
Put(table, key, row) ==
  [k \in DOMAIN table \cup {key} |-> IF k = key THEN row ELSE table[k]]

Size(table) == SumFunction([b \in Ready(table) |-> table[b].size])

(* The blobs in the cache that a page has links to, each once. *)
CachedOf(page, table) == {BlobOf[l] : l \in page} \cap Ready(table)

(* update_project_stats_tx: what it counts. *)
CountOf(page, table) ==
  [files  |-> Cardinality(page),
   cached |-> Cardinality(CachedOf(page, table)),
   size   |-> SumFunction([b \in CachedOf(page, table) |-> table[b].size])]

(* Mutant: one project only. *)
LinkingOne(B) ==
  LET found == {p \in DOMAIN links : \E l \in links[p] : BlobOf[l] \in B}
  IN  {p \in found : p = CHOOSE q \in found : TRUE}

(* SELECT DISTINCT project: the projects that have a link to one of B.     *)
Linking(B) == {p \in DOMAIN links : \E l \in links[p] : BlobOf[l] \in B}

Recount(B) ==
  stats' = [p \in DOMAIN stats |-> IF p \in Linking(B) THEN CountOf(links[p], blobs')
                                                       ELSE stats[p]]

(* Mutant: the prune takes no lock. *)
LockedNever == FALSE

(* The lock is held by a prune between its reads and its end. *)
Locked == \E b \in Blobs : job[b] = "delete"

(* A dropped handler's write does not wait for the lock. *)
HandlerWrites == ~Locked \/ Faults

-----------------------------------------------------------------------------
(* store_project *)
StoreProject(p, page) ==
  /\ HandlerWrites
  /\ links' = Put(links, p, page)
  /\ stats' = Put(stats, p, CountOf(page, blobs))
  /\ UNCHANGED <<blobs, now, job, snap>>

(* mark_blob_pending: INSERT OR IGNORE. Then the handler starts a download,*)
(* unless it is dropped.                                                   *)
MarkPending(b) ==
  /\ HandlerWrites
  /\ blobs' = IF b \in DOMAIN blobs THEN blobs ELSE Put(blobs, b, Pending)
  /\ \/ job[b] = "none" /\ ~Locked /\ job' = [job EXCEPT ![b] = "body"]
     \/ Faults /\ UNCHANGED job
  /\ UNCHANGED <<links, stats, now, snap>>

(* Mutant: the time is set, not advanced. *)
AnyTime(b, t) == TRUE

Newer(b, t) == blobs[b].accessed < t

(* touch_blob_access, with a clock that was read before the lock.          *)
Touch(b, t) ==
  /\ HandlerWrites
  /\ b \in Ready(blobs)
  /\ Newer(b, t)
  /\ blobs' = [blobs EXCEPT ![b].accessed = t]
  /\ UNCHANGED <<links, stats, now, job, snap>>

(* mark_blob_ready: an UPDATE, and a recount of the projects with a link.  *)
MarkReady(b, size, t) ==
  /\ job[b] = "body"
  /\ ~Locked
  /\ blobs' = IF b \in DOMAIN blobs
                THEN [blobs EXCEPT ![b] = [state |-> "ready", size |-> size,
                                           fetched |-> t, accessed |-> t]]
                ELSE blobs
  /\ Recount({b})
  /\ job' = [job EXCEPT ![b] = IF MaxSize = 0 THEN "none" ELSE "prune"]
  /\ UNCHANGED <<links, now, snap>>

(* The download fails before it has a file. *)
Fail(b) ==
  /\ job[b] = "body"
  /\ job' = [job EXCEPT ![b] = "none"]
  /\ UNCHANGED <<links, blobs, stats, now, snap>>

(* prune_cache_to_size_db takes the total and the candidates.              *)
PruneRead(b) ==
  /\ job[b] = "prune"
  /\ ~Locked
  /\ IF Size(blobs) <= MaxSize
       THEN job' = [job EXCEPT ![b] = "none"] /\ UNCHANGED snap
       ELSE /\ job' = [job EXCEPT ![b] = "delete"]
            /\ snap' = [c \in Ready(blobs) |-> blobs[c]]
  /\ UNCHANGED <<links, blobs, stats, now>>

(* ORDER BY last_accessed_at, fetched_at, blob_kind, blob_id *)
OrderKey(table, b) == <<table[b].accessed, table[b].fetched, b>>
Less(u, v) == \E i \in 1 .. 3 : u[i] < v[i] /\ \A k \in 1 .. i - 1 : u[k] = v[k]
Candidates(table) ==
  CHOOSE order \in [1 .. Cardinality(DOMAIN table) -> DOMAIN table] :
    \A i, j \in DOMAIN order :
      i < j => Less(OrderKey(table, order[i]), OrderKey(table, order[j]))

(* remaining_size after the first i candidates, were they all evicted.     *)
Remaining(table, order) ==
  LET left[i \in 0 .. Len(order)] ==
        IF i = 0 THEN Size(table)
        ELSE IF table[order[i]].size > left[i - 1] THEN 0
        ELSE left[i - 1] - table[order[i]].size
  IN  left

(* Mutant: the loop stops one candidate late. *)
VictimsLate(table) ==
  LET order == Candidates(table)
  IN  {order[i] : i \in {k \in 1 .. Len(order) : Remaining(table, order)[k - 1] >= MaxSize}}

(* The loop: evict the next candidate until the rest fits.                 *)
Victims(table) ==
  LET order == Candidates(table)
  IN  {order[i] : i \in {k \in 1 .. Len(order) : Remaining(table, order)[k - 1] > MaxSize}}

(* Its transaction: delete the rows, and recount the projects with a link. *)
PruneDelete(b) ==
  /\ job[b] = "delete"
  /\ blobs' = Restrict(blobs, DOMAIN blobs \ Victims(snap))
  /\ Recount(Victims(snap))
  /\ job' = [job EXCEPT ![b] = "none"]
  /\ snap' = NoRows
  /\ UNCHANGED <<links, now>>

(* The transaction cannot be upgraded after a write of a dropped handler,  *)
(* or fails for another reason: it is rolled back.                         *)
PruneFails(b) ==
  /\ Faults
  /\ job[b] = "delete"
  /\ job' = [job EXCEPT ![b] = "none"]
  /\ snap' = NoRows
  /\ UNCHANGED <<links, blobs, stats, now>>

Restart ==
  /\ Faults
  /\ job' = [b \in Blobs |-> "none"]
  /\ snap' = NoRows
  /\ UNCHANGED <<links, blobs, stats, now>>

Tick ==
  /\ now < MaxTime
  /\ now' = now + 1
  /\ UNCHANGED <<links, blobs, stats, job, snap>>

Next ==
  \/ \E p \in Projects, page \in SUBSET Links : StoreProject(p, page)
  \/ \E b \in Blobs : \/ MarkPending(b) \/ Fail(b)
                      \/ PruneRead(b) \/ PruneDelete(b) \/ PruneFails(b)
                      \/ \E t \in 0 .. now : Touch(b, t)
                      \/ \E size \in Sizes, t \in 0 .. now : MarkReady(b, size, t)
  \/ Restart \/ Tick

Spec == Init /\ [][Next]_vars

-----------------------------------------------------------------------------
(* The statistics of a project are always what a count of the tables would *)
(* give, whatever files projects share and whatever is stored, downloaded  *)
(* or evicted meanwhile (cache.rs:1402; the tests at 2119 and 2630).       *)
StatsExact == stats = [p \in DOMAIN links |-> CountOf(links[p], blobs)]

Evicted == DOMAIN blobs \ DOMAIN blobs'

(* A prune leaves the cache within its limit, and evicts no more than it   *)
(* has to: with the last victim back, it would not fit (cache.rs:1250).    *)
PruneFits ==
  [][Evicted # {} => /\ Size(blobs') <= MaxSize
                     /\ \E v \in Evicted : Size(blobs') + blobs[v].size > MaxSize]_vars

(* No file is evicted that was in use later than one that stays, as of the *)
(* time the prune began; uses since then only speak for those that stay    *)
(* (the test at cache.rs:2488).                                            *)
PruneIsLru ==
  [][\A v \in Evicted, s \in Ready(blobs') : snap[v].accessed <= blobs[s].accessed]_vars
=============================================================================
