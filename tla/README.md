# PyTail in TLA+

PyTail is a caching proxy for the Python Simple Repository API: it serves
project pages and package files out of a SQLite index and a cache directory,
and fetches on demand what it does not have. This directory holds TLA+ modules
that model its concurrent core and the pure functions it rests on, TLC
configurations that check them on small instances, and TLAPS proofs of their
main properties for every instance.

Paths are relative to the root of the repository (`src/server.rs`); line
numbers are those of the commit the models were written from. `PROJECT.json`
maps each definition to its lines.

## 1. The system

PyTail is one process: tokio tasks on a thread pool, blocking threads for
SQLite, and three stores that outlive a restart (SQLite, final files, temporary
files).

| component | state | operations | talks to |
|---|---|---|---|
| request locks (`server.rs` 198-240) | `RequestLocks`: DashMap key -> `Arc<Mutex>` | `project_guard`, `blob_guard`, cleanup from 1,024 entries on (`REQUEST_LOCK_CLEANUP_THRESHOLD`) | every handler and refresh |
| package file cache (`server.rs` 1641-2000, 2225-2431) | rows of `blobs`, files, `hot_blobs`, `active_blobs` | `ensure_link_blob`, `cached_file_response`, `download_blob_task`, prune and invalidation | locks, index, growing download, upstream |
| growing download (`server.rs` 103-135, 1944-2500) | `ActiveBlob`: atomics, `failure`, broadcast ring, `Notify`; temporary file; channel to the writer | download task, writer task, `wait_for_active_response_start`, `tail_file_stream` | clients, upstream, cache directory |
| project pages (`server.rs` 600-1500) | `projects`/`project_links`, `project_responses`, `hot_projects`, `active_project_refreshes` | `ensure_project_with`, background refresh and its retry, `materialize_project`, conditional requests | locks, index, upstream, file cache (which invalidates pages) |
| SQLite index (`cache.rs`) | `projects`, `project_links`, `project_responses`, `blobs`, `project_stats`, and the mutex of the connection | store, load, touch, pending and ready marks, prune to a size, statistics | everything |
| schema migrations (`cache.rs` 854-1206) | schema, `user_version`, free pages of the database | `init_db`, statement by statement | runs before the server listens |
| upstream client (`upstream.rs`) | HTTP client; `cached_page` of a flat index and its tokio mutex | project pages with validators, range requests | the index server |
| PyTorch wheel index (`server.rs` 1513-1538, `upstream.rs` 150-430) | `pytorch_channel_upstreams`: one client per channel; one page with the wheels of all projects | `pytorch_channel_upstream`, `fetch_flat_project`, `fetch_project_index` | upstream client, index |
| package file requests (`server.rs` 1498-1639, 1773-1926) | `hot_links` | from the URL on a page to the link, to the metadata file, to the whole file or a range | index, file cache, upstream |
| byte ranges (`range.rs`) | none | `parse_byte_range` | file responses |
| index pages (`simple.rs`) | none | two parsers, two renderers, URLs and routes | project pages, file requests |
| bounded in-memory cache (`hot_cache.rs`) | map, access queue, sequence number | `get_cloned`, `insert` | nobody: a module of the crate that only its tests use; the server's own caches are moka's |
| root page, configuration, benchmarks, web front end | - | counters, start-up, load | see section 7 |

Handlers never talk to each other: they meet in the maps of `AppState`, in
SQLite and in the file system. Each of those is atomic by itself; only the lock
of a key makes several accesses atomic together, and many paths run without it.

What is hard about it:

* **Check, await, act.** A row is read, a write is awaited, and an in-memory
  map is filled from the row read before.
* **Cancellation.** Axum drops a handler whose client leaves, at any await. Its
  guards go; what `spawn_blocking` or `tokio::spawn` began runs on.
* **Three sources of one stream.** A follower of a growing download takes bytes
  from a ring that overwrites, from a file another task appends to, and sleeps
  on a `Notify` that keeps no permit.
* **Background work.** One refresh per project, one download per blob, each
  registered in a map it must leave on every path.
* **Files and rows.** Rows are deleted in a transaction, files afterwards.
* **Restart.** Rows and files survive, everything else does not. A temporary
  file is taken up where the last download left it; a database may be one of an
  older program, or half way through its migrations.
* **Conversions that must agree.** The URL on a page, the key of the link in
  memory and the query of the index are computed in three places.

What makes each component correct: a lock excludes, is not lost by the cleanup
and is obtained by who waits for it; one download per blob, and what the index
calls ready is on disk, in the limit, and served; a client receives a prefix of
the file, a clean end means a good and complete file, every stream ends; one
refresh per project, known projects never wait, the index never goes back and
its copies agree with it; a file that is cached has the upstream's bytes
whatever was resumed before; a file a page offers is found and answered with
the bytes asked for; a wheel page is no older than its time to live; a server
that serves has a complete and exact database, however its starts went.

## 2. The modules

| module | models | abstract or detailed |
|---|---|---|
| `KeyedMutex` | one mutex per key | the promise of the locks |
| `RequestLocks` | the lock map, its cleanup and tokio's FIFO mutex | implements `KeyedMutex` (checked and proved) |
| `BlobCache` | requests for package files against rows, files, `hot_blobs`, `active_blobs` | uses `KeyedMutex` for the blob lock |
| `CacheIndex` | the tables of `cache.rs`: links, rows of files, statistics, prune | details the `Prune` of `BlobCache` |
| `BlobTail` | one `ActiveBlob` with its two tasks and its streams | the inside of one job of `BlobCache` between `fetch` and `mark` |
| `ProjectPages` | the page of one project, its copies and its refresh | uses one mutex of `KeyedMutex`'s kind |
| `BlobDownload` | the temporary file over all downloads of one blob: resume, hash, restart, commit, writers left behind, kills | the inside of the jobs of `BlobCache`, with the bytes; its promise is `CachedIsUpstream` |
| `SimplePages` | links as parsed from and rendered to HTML and JSON; URLs and routes | operators |
| `ByteRange` | `parse_byte_range`, and what a range means | operators and their reference definition |
| `FileRequests` | a request for the URL on a page: link in memory or in the index, metadata file, whole or range | uses `SimplePages` and `ByteRange` |
| `FlatIndex` | the one page of a wheel index, the clients that keep it, the rows made of it | details the fetches of `ProjectPages` for a channel |
| `Startup` | `init_db` on a new, a current or an older database | before all others |
| `LruCache` | an exact least-recently-used cache | the promise of `BoundedLru` |
| `BoundedLru` | `BoundedLruCache` with its queue of accesses | implements `LruCache` (checked and proved) |
| `*Proofs` | the theorems of the module named | |
| `MC*` | the instance TLC checks: names, symmetry, the parts of a composed run | |

The modules compose by abstraction. `RequestLocks` is the only one that knows
that mutexes are created, queued for and cleaned up; since it implements
`KeyedMutex`, the others use the plain mutex (with strong fairness, which the
FIFO queue gives: `NoStarvation`). `BlobCache` treats a download as a few steps;
`BlobTail` opens up those steps for one download and its streams, `BlobDownload`
for the file that successive downloads share.

In every module an action is the code between two points where another task
may run: an await, a lock, or one access to a shared map or to SQLite. `pc[c]`
is where a handler is, `jpc`/`wpc` where a task is; the other variables carry
the names of the code's fields or say which they are. An operation that may be
left at an await has a `Leave`, `Drop` or `Cancel` action with the guards and
writes that outlive it.

### RequestLocks

`map` is the DashMap, `arc[c]` the clone of the Arc a handler holds (the
strong count is 1 plus those), `owner` and `queue` are tokio's mutex.
`CheckLen`, `RetainOne`, `RetainEnd`, `CloneEntry` are `guard()`; `LockNow`,
`Enqueue`, `LockQueued` its await; `Release` drops the guard, `Cancel` a handler
that waits. `retain` and `entry` hold one shard at a time, so they are atomic
for a key and not across keys.

### BlobCache

`Request` to `Serve` are `ensure_link_blob` in the order of the code: memory,
status, touch, range passthrough, registry, lock, second status, second look at
the registry, pending row, registration. `Open` to `Deregister` are
`download_blob_task`: rename, `UPDATE ... ready`, prune, unlink, invalidate,
`hot_blobs`, deregister. A job leaves `active_blobs` before or after it is
finished, as in the code. `Crash` keeps rows and files. Sizes are 1 and the
prune may choose any victims of the right number, which allows more than the
least-recently-used choice of the code does (`CacheIndex` has that choice). The
schedules that violate `ReadyIsServed` and `EvictedIsRefetched` need no other
victim than the least recently used file.

### CacheIndex

A table is a function on its keys, a transaction a step. `StoreProject`,
`MarkPending`, `Touch` are the writes of handlers, `MarkReady`, `PruneRead`,
`PruneDelete` those of a download. `job[b]` is the download of file `b`
(`BlobCache` proves that there is one). `HandlerWrites` says who may write while
a prune is between its reads and its transaction: nobody, because of
`db_write_lock`, but for handlers that were dropped, whose guard is gone while
their blocking closure still runs. Access times and sizes are numbers here, and
`Victims` is the loop over the candidates in their SQL order.

### BlobTail

Every load and store of an atomic is a step. `ring` keeps the whole history of
the broadcast channel, and `Lagged`/`SkipLag` apply its capacity. `disk <=
written` separates what the writer handed to `tokio::fs::File` from what is in
the file. A byte is its position, so that `out[f][i] = i - 1` says that the
right byte was delivered.

### ProjectPages

A page is its version and its expiry. `row` is the index entry, `resp` the
stored bodies, `hot` the entry in memory. `LookHot`, `LoadResponses`, `LoadRow`,
`LoadLinks` are the three levels of `ensure_project_with`; `Spawn` is
`spawn_project_refresh`; a task runs `Lock`, `LoadRow`, `LoadLinks`, `Fetch`,
`Store` or `Touch`, `StoreResponses`, `CacheHot`, `EndRefresh`. `late` holds the
writes of dropped handlers that a blocking thread has still to make.

`HotIsIndex` needs a history: `overtaken` of `MCProjectPages` says that the
index entry was written while somebody else had an older page in hand, or while
the write of a dropped handler was under way.

### BlobDownload

A file is what an inode holds, a byte its position in the upstream file.
`Start` to `MarkReady` are `download_blob_task_inner`: measure and hash the
temporary file, ask for the rest, restart when the upstream sends all of it,
feed the writer, verify, await the writer, rename, record. `task[w]` is a writer
with its channel and its unwritten chunks; it outlives a job that fails, as the
task that `tokio::spawn` began does. `faults` bounds what goes wrong. Four
variables are history: `late`, the writers left behind that a later download has
followed; `crossed`, the files that such a writer changed; `cutShort`, that a
download was stopped between its last byte and the rename; `missized`, that the
size in the row was recorded for a crossed file. The properties name them as
causes.

### SimplePages and ByteRange

Pure operators, one per function. A text is the pair of its parts around the
first `=`; escaping and the two syntaxes cancel out. Two differences of the
formats are known and are in `Common`: JSON has no way to keep the case of
`TRUE`, and a URL fragment no hash that is empty. `ByteRange` takes a header as
its words; malformed words, also those beyond 64 bits, are `Bad`. Percent escapes
do not cancel out: the segment that names a file without text is taken as the
URL has it, and a page is rendered with the name as it is. What becomes of it on
the way back is `Decoded` in `FileRequests`. `Unsafe` are the names
`sanitize_filename` refuses.

### FileRequests

One project whose page has one file that changes. `rows` is the index,
`hot` is `hot_links`; `carry[p]` is what a handler or refresh will put there
after its last await. It may be dropped before: at the await of `store_project`
(`LeaveStore`), and what SQLite was to write for it is then in `late` until
`LateWrite`; or at that of the rendered bodies (`LeavePage`).

A page names a file as the link does, `AddressOf` is what the router makes of it:
the name with its percent escapes decoded (`Decoded`, a function on `Names`; `None`
where no route takes the URL). `Route` is what a request asks for, `Base` the file
it is about: the suffix `.metadata` of the *decoded* name decides. `Understood`
says that the two readings agree. They do not for a name with escapes, which a
file has whose anchor has no text, or whose JSON entry no filename, and whose URL
has them: `x%2By.whl` is written into the page as it is, the router makes
`x+y.whl` of it, and unless there is a file of that name too the answer is 404. Nor
for a name that ends in `.metadata` itself.

`Answers` has the whole of `cached_file_response` and
`uncached_range_response`: a header that is refused is a 416 of the cached file,
and of an uncached one the upstream's 416 or all of the file. Sixteen hex digits
are assumed to tell the files of one name apart; a sha256 shorter than that
makes a file unroutable (400 or 404). The upstream's 404 is not in the module.

### FlatIndex

`LockHit`, `LockMiss`, `Respond`, `TakePage`, `Revalidate`, `DropPage` and
`FetchFails` are `fetch_flat_project` and `fetch_project_index` under the mutex
of `cached_page`; `FindClient` and `MakeClient` the look-up and the insertion
of a client, in two steps. That one actor at a time refreshes a project is
taken over from `ProjectPages`. `known[h]` is the version of the row a handler
loaded under the project's lock, whose etag it sends. A record is dated when the
handler has its page (`started`), and written by `Store`; if the handler is dropped
at that await (`Cancel`), the record goes to `late`, the project is free for
others, and `LateWrite` comes when it comes. `crossed` is history: the projects
somebody went for while a late write to them was to come.

### Startup

A statement of `init_db` is a step, and the process may stop between any two.
`objects` and `traits` are the schema and what older programs left in it,
`index` the data. A database of version 2 is taken to have today's schema: the
program writes the version last. `owed` records that space is to be given back.

### BoundedLru

`order` is the queue of accesses with its stale pairs, `Victim` where
`evict_lru` finds the first that is not stale. `LruCache` has no numbers and no
queue, only who was used before whom; `Before` reads that from the numbers. The
numbers are those of a u64 that is not yet used up: after 2^64 uses they wrap.

## 3. What the runs check

Three runs check several parts side by side. `part`, chosen at the start, says
which one runs; the variables of the others keep still or are `None`. The parts
share no state in these runs: nothing is claimed of them together, and each is
explored as if alone. `MCParts`, `MCBlobs` and `MCRequestLocks` give the
constants of their parts no values, so that theorems can be stated of the
composed specifications; the values are in the `.cfg`. The wheel index and the
requests for files are instances of their proof modules, whose theorems
`PartsProofs` lifts.

| run | question | states |
|---|---|---|
| `locks` | *locks*: do re-created mutexes still exclude; is a waiter ever stranded; is the map bounded; does it implement `KeyedMutex`. *pages*: is every request answered, does every refresh leave the registry. *lru*: is the bounded cache an exact LRU | 98 k |
| `blobs` | *requests*: one download per blob, ready means on disk and served, every request is answered, with failures, dropped handlers and restarts. *download*: has a ready blob the upstream's bytes, does who goes on asking get it, whatever was resumed, refused, cut off or killed | 104 k |
| `parts` | *limit*: two concurrent downloads that mark and prune leave the cache in its limit. *files*: is a file that a page offers found and answered with the bytes asked for, and if not, does nobody get another's; is a link in memory the index's. *flat*: is a wheel page in its time to live, do its links never go back. *startup*: is the database complete, exact and compacted when the server serves. *samples*: do the conversions undo each other | 1.6 M |
| `tail` | bytes delivered are a prefix, failures and restarts are never taken for data, success is on disk, the download ends whatever the client does, no wake-up before the response is lost | 788 k |
| `index` | the statistics equal a count, a prune fits, takes no more than needed and the least recently used first, with the writes of dropped handlers in between | 555 k |
| `pages` | one refresh at a time, known projects never wait, the index does not go back, the page in memory is the index's | 1.7 M |
| `blobs_stale_memory` (violated) | `hot_blobs` has its files | |
| `blobs_lost_file` (violated) | ready rows have their files when there is a limit | |
| `tail_short_body` (violated) | a clean end is the whole file | |
| `tail_asleep` (violated) | a stream that is read ends | |
| `pages_stale_bodies` (violated) | bodies stored are those of the page in the index | |
| `download_detached_writer` (violated) | a ready blob has the upstream's bytes | |

Some properties name the exceptions they allow, so that the runs show that there
are no others:

* `CachedUnlessCrossed`: a writer left behind by a failed download wrote to the
  file after a later download had begun (the violated run
  `download_detached_writer` is such a schedule). The bytes then differ or, if
  only the size was taken too early, the size in the row.
* `WedgeHasCause`, `CachedOrWedged`: a temporary file as long as the upstream
  file makes every later download end with 416, for good. It is left behind by
  a download stopped between its last byte and the rename, or by a writer left
  behind. An earlier form of these two properties asked for two writers at one
  time; the proof did not go through, and TLC finds the schedule that refutes it
  with 3 bytes and 3 faults, beyond the bounds of the run: a writer left behind
  may write after the download that came after it has failed too.
* `ShownIsServed`: a file whose name is not `Understood` (above) may be answered
  404, or with the bytes of a file that has its route and hence its hash; never
  with those of another. Metadata is promised only if the link in memory is the
  one the page was made of.
* `HotLinkIsCurrent`: three races put a route into `overtaken`. A link that was
  read before a refresh and put into memory after it stays until the next
  refresh, and a `.metadata` URL of the new page may be answered 404 meanwhile.
  A dropped pager's late write changes the index under memory. And a pager that
  is dropped between its two writes leaves memory with the link of before.
* `RowAdvances`: a handler that goes for a project while a dropped one's write to
  it is still to come may be overwritten by it, or overwrite it, with the older
  page of the two. The row's expiry may then be later than its links deserve, so
  the project counts as `crossed` until links are next stored that no late write
  can replace. `IndexAdvances` excepts late writes as a whole.
* `PruneIsLru` compares the victims with what the prune read before its
  transaction: a file touched after those reads is evicted all the same.
* `HotIsIndex`: the same race for the page in `hot_projects`, which is then
  served as stale, while the refreshes it starts find the index fresh and
  return. A page too large for memory (server.rs 1481) leaves the old one there
  too; the run has no such page.
* `FreshIsRecent` depends on an upstream that sends an etag with every page or
  with none: with a cached page without one, the etag of a project's row is sent
  (upstream.rs 222), and a 304 prolongs a page of another version.

### What the violated runs show

Each states what a test of the repository states of the program, and TLC finds
a schedule in which the code does otherwise. The tests pass because they never
meet that schedule.

* `EvictedIsRefetched`: a handler reads a row as ready and awaits its touch;
  the file is evicted meanwhile; the handler then fills `hot_blobs`. From then
  on every request for the file finds it in memory and answers 500 "cache file
  missing", until moka drops the entry.
* `ReadyIsServed`: a prune deletes the row of a file and is about to unlink it;
  the file is requested and downloaded anew; the unlink removes the new file,
  whose row stays ready.
* `CleanEndIsComplete`: a stream reads all of the file so far, the last chunks
  arrive and the download finishes, and the stream looks at `finished` next: it
  ends without error and without those chunks (a client that was told a
  length sees a short body).
* `StreamEnds`: a stream sees `finished` false, the download finishes and
  notifies, and the stream creates its `Notified` afterwards: it sleeps for
  good. The code arms before it looks in two of the four places only.
* `CachedIsUpstream`: a download fails and returns; its writer, which nobody
  awaits, still has a chunk in its channel. The next download measures and
  hashes the temporary file, and appends to it through a writer of its own. Both
  write, the file is longer or other than what was hashed, and it is renamed and
  marked ready. The hash is of the bytes received, not of the file.
* `MaterializedIsCurrent`: a handler renders a page it loaded before a refresh,
  and stores the bodies after the refresh has stored its own page: until the
  next refresh the old bodies are served as fresh.

### Bounds, and why they are enough

* Two handlers, plus two or three jobs or tasks: each hazard is between one
  actor that read and one that changed; a third job lets one identity end and
  another begin. Three keys and a threshold of 1 make every call a cleanup.
  A mutex that is held is in the map, so that at most three are alive when one
  is made: with four `LockIds` allocation never blocks.
* `MaxReady = 1` of two blobs: the smallest cache in which one download evicts
  another. 0 is "no limit", the default of the program.
* `CacheIndex`: two projects that may share two of three files of 1 or 2 bytes
  with room for 2: a prune evicts one or two, or all but the last; one tick of
  the clock makes files older or equal, so that the later keys of the order
  decide too.
* `Size = 3` in chunks of 1 and 2, `RingCap = WriteCap = 1`, `FlushBytes = 2`:
  a follower lags after two chunks, the writer's channel is full with one, and
  a write is held back; resuming starts at 0 or 1. One follower: followers
  share no state, and none writes what a task reads.
* `MaxVersion = 2`, `Ttl = MaxTime = 1`: a page becomes stale, is
  refreshed, and may change once; both branches of the validator occur.
  `MaxLate = 1` write of a dropped handler. The part *pages* of `locks` has one
  task, since `OneRefresh` holds there, no late writes, and a new version that
  `hot_projects` refuses.
* `BlobDownload`: 2 bytes (3 in the violated run) in chunks of 1 and 2, a channel
  of one chunk and a buffer of 2 bytes: a resume at 0, in the middle and at the
  end, a writer with a chunk in its channel and one in its buffer. Two writers
  are one left behind and one at work. Two faults: the first leaves something
  behind, the second meets it.
* `FileRequests`: two pagers, one of which is overtaken or dropped, `MaxLate = 1`
  late write, one reader; two links of one route that differ in the metadata
  digest, and one without a hash whose name decoding changes into theirs (a file
  without a hash that is found under its own name is left to `PartServes`, which
  holds for all links); a range that fits and one that is malformed, of a file of 3 bytes.
* `FlatIndex`: two handlers, two clients of the channel, one project that is on
  both versions of the page; time to live 1 and clock up to 2: a page expires
  once while an answer is on its way. `MaxLate = 1` write of a dropped handler is
  to come while the other goes for the project; there are no handlers for a
  second one to matter, and `PartAdvances` has no such bound.
* `MCParts` gives the actors of its parts the same model values, and their objects
  too: one part runs at a time, and there are fewer permutations to try.
* `Startup`: one project with one file, new databases, those of three older
  programs and of this one, any subset of the traits; starts are cut off any number of times.
* *samples*: every combination of the attribute values that the code tells
  apart, one file at a time, and every header with numbers up to 4 and bad
  words against files of 0 to 3 bytes.
* `BoundedLru`: two places for three keys, six uses: an eviction passes stale
  pairs and pairs of entries that were put in anew.

`CHECK_DEADLOCK FALSE` is given only for `BlobTail`, where nothing is left to do
once the download is over and its streams have ended, and for the violated run
of `BlobDownload`, whose blob may be ready. In the composed runs a part that has
come to its end by a bound (`Finished`, `Cached`, `Converted`) stutters. Everywhere else TLC also
checks that the system never stops.

### Fairness

* Handlers and tasks are polled when they can run (tokio): weak fairness of
  their steps. Clients need not do anything: no fairness of requests, of
  `Leave`, `Drop`, `Cancel`, of faults or of moka's evictions.
* `BlobDownload`: weak fairness of the job and of each writer, and of a client
  that asks again (`Ask`), without which nothing would ever be cached.
  `CachedOrWedged` says nothing of clients that do not.
* The upstream answers or its timeout ends the request (`upstream.rs` builds
  the client with timeouts): weak fairness of `Work`, `Job`, `Fetch`, each of
  which may also fail.
* The locks: strong fairness of `Lock` in `BlobCache` and `ProjectPages`,
  because tokio's mutex serves its waiters in order. `RequestLocks` models that
  queue and needs weak fairness only.
* `BlobTail` has three specifications: `TaskSpec` trusts the two tasks only;
  `StartSpec` adds that a handler is polled until its response starts;
  `ReadingSpec` adds that the client reads. `DownloadTerminates` is checked
  under `StartSpec`, in which a client may stop reading.

### Mutants

A definition whose comment begins with "Mutant:" is not part of the model. It
is the definition that follows it as a plausible mistake would have it. Put
in its place, it makes the property `PROJECT.json` pairs it with fail: the
property really depends on that line of the code.

## 4. What is proved

The theorems hold for every set of keys, handlers, jobs, tasks, blobs and
versions, and every value of the numeric constants. They assume only the ASSUMEs
of the modules, each of which TLC evaluates for the values of a run:

* `None` is not a member of the sets it is told apart from, numeric constants are
  natural numbers, flags are Boolean, handlers are not tasks;
* handlers and blobs are finitely many, where something is counted; keys of
  files are ordered as numbers; older databases have no objects this program
  does not know;
* the file of a download is not empty, its chunks and the capacities of the two
  channels are positive, and a resume starts inside the file;
* digests are text of ASCII, links with one route, or the one of which is what the
  router makes of the other's, are of one file (sixteen digits tell the files of one
  name apart), and no file has the route of another's metadata file (`LinksRouted`);
* no attribute of a link is `None` (`TextsOK`);
* the upstream sends an etag with every version of a wheel page or with none.

| module | theorem | inductive invariant |
|---|---|---|
| `RequestLocksProofs` | `TypeCorrect`, `Exclusion`, `Refinement` | two entries of the map never share a mutex; the Arc a handler holds is the one the map has for its key; only a holder owns its mutex |
| | `Bounded` | the mutexes in the map can be charged to handlers, at most one to each, but for fewer than the threshold: a handler pays for the key of which it has, or last had, an Arc, until its own cleanup has passed that key; and a handler that skips the cleanup has seen a small map |
| | `LruExact` | the queue is in the order of the numbers, and the latest pair of every entry is in it: so the first current pair is that of the entry used first, whatever stale pairs stand before it (`VictimIs`) |
| `BlobCacheProofs` | `TypeCorrect`, `OneDownload`, `ReadyOnDisk`, `CachedServed`, `RowFound` | the lock has one holder; between `peekGuarded` and `register` the holder's blob is not registered; a registered job is live and of that blob, and the live jobs are the registered ones; without a limit rows and `hot_blobs` only grow to what is on disk |
| | `LocksAreKeyed` | a handler has the guard of a blob exactly while it is in the section of that blob, hence one guard at most; so to drop it is one `Release` |
| | `Limited` | there are more ready files than the limit only while some job is on its way to its prune, which leaves no excess whatever other jobs marked before it; for runs without faults, as the run has none |
| | `CachedBytes`, `WedgeCaused` | unless a late writer changed it, the temporary file ends where what the writer has gathered begins, that where its channel begins, and that ends where the download has received and hashed up to; a temporary file with every byte has a job that will rename it, or was cut short; at most one writer is not late (`DownloadInv`) |
| `BlobTailProofs` | `TypeCorrect`, `Prefix`, `FailureShows`, `RestartAlone`, `OnDisk` | of the two tasks (`TaskInv`): what is written, gathered, in the channel and in hand adds up to no more than was received, and which of their states go together; of each follower (`FollowerInv`): it was sent the bytes in order, and it neither reads nor has opened the file before the response has started. A follower changes nothing that a task reads |
| `CacheIndexProofs` | `TypeCorrect`, `Statistics` | exactness together with the types: a write recounts a project or leaves alone what a count of it looks at (`CountSame`, `RecountExact`) |
| | `Fitting`, `LeastRecent` | between the reads of a prune and its transaction, what it read is what is ready, with its sizes, and times of use have only moved on (`PruneInv`) |
| `ProjectPagesProofs` | `TypeCorrect`, `OneRefreshAtATime`, `KnownIsServed`, `NeverBack` | who is between `Lock` and its end holds the lock; nothing in hand is newer than the upstream's page; what the holder fetched is at least as new as the index |
| | `MemoryIsIndex` | whatever anybody has in hand is the page of the index, and so is the memory, until somebody is overtaken |
| `FileRequestsProofs` | `InsideFile`, `Parses`, `PrefixRange`, `PagesReadBack` | none: a parsed range lies in the file and is exactly the set of bytes RFC 9110 means, for every size and header; a range of prefixes holds exactly the digests with the prefix; every link that can be read from an anchor or a file reads back from the pages made of it |
| `PartsProofs` | `PartServes`, `PartCurrent` | (`IInv` of `FileRequestsProofs`) the link a reader has found is of the route it asked for, and what its page shows is in the index, unless the page changed since; links in memory are under their own routes; a late write is of a link of the upstream. Of the router's decoding nothing is assumed: where it leaves the name alone, what is looked up is the route of the link |
| | `PartRecent`, `PartAdvances` | (`IInv` of `FlatIndexProofs`) a page expires no later than a time to live after the birth of the version that replaced its own, a row no earlier than that after the birth of its version; so a fresh page asked about an expired row is not older than it. A late record is dated like a row, is the only one of its project, and nobody wants that project, until it is crossed |
| | `PartReads` | the samples of the run are links and headers of `PagesReadBack` and `Parses` |
| | `Served`, `Compacted`, `StartupTyped` | for each step of `init_db`, what the steps before it have achieved and no later one undoes; statistics that are there are exact; a database of today's version owes nothing |

The theorems of `PartsProofs` are of the composed specification that the run
checks: `PartsInv` says that the invariant of a part holds when that part runs.

Why strengthenings are needed: none of the properties is inductive. Exclusion
follows from holders having Arcs only because the cleanup leaves every mutex
alone whose Arc is held; that a handler's Arc *is* the map's mutex for its key
is what makes the two meet. `SingleFlight` depends on a check made under a
lock two steps before the registration. `IndexAdvances` depends on the lock being held
across the fetch *and* the store.

`Refinement` proves that every step of the lock map is a step or a stutter of
`KeyedMutex`: `LockNow` and `LockQueued` are `Acquire`, `Release` is
`Release`, everything else stutters. `LocksAreKeyed` is the other half: what
`BlobCache` does with its locks is what `KeyedMutex` offers, but for a restart,
which begins anew. So the two modules fit together.

`LruExact` proves that the bounded cache implements `LruCache`: `get_cloned` is
`Get`; an insertion, whether it replaces, adds or evicts first, is `Insert`. That a queue of any length has a *first* current pair, and
that no entry is older than the one it belongs to, needs the least-number
principle, which is proved from the library's well-founded orders (`Least`).

`Fitting` needs facts about sorting and sums that hold for tables of any size:
there is a sorted order of the candidates (`SortedExists`), it holds each of
them once (`CandidatesAre`), a sum does not depend on the order in which it is
taken (`SumTakes`), so what the loop leaves is what was ready less what it took
(`RemainingIs`), and it stops at the first point where the rest fits
(`VictimsFit`). Where a proof needs induction, it takes the least number, or the
smallest set, for which the claim would fail.

The types of `RequestLocks` are proved (`TypeCorrect`) and in no run.

What stays with TLC:

* the liveness properties (`NoStarvation`, `RequestAnswered`, `PageAnswered`,
  `RefreshEnds`, `DownloadTerminates`, `StartAnswered`, `CachedOrWedged`), since
  the proof system does not treat fairness.

## 5. Running it

    tlc -workers 2 -config MCBlobCache.cfg MCBlobCache
    tlapm BlobCacheProofs.tla

## 6. Plan

Done, in this order: `RequestLocks` (everything else rests on it), `BlobCache`,
`BlobTail`, `ProjectPages`, `CacheIndex`, `BlobDownload`, `SimplePages`,
`ByteRange`, `FileRequests`, `FlatIndex`, `Startup`, `BoundedLru`, and the proofs
of section 4. Next:

1. That the rows of `BlobCache` are those of `CacheIndex` with sizes and times
   forgotten.
2. What `BlobTail` promises `BlobCache` of one download, as a refinement: its
   stages are those of the job, with the bytes forgotten.

## 7. Not modelled, and why

* **SQLite index**: the samples of the root page. The tables are spread over the
  modules by who needs them.
* **Upstream client**: HTTP and TLS are I/O. Status codes as far as they matter
  are in `Fetch`, `Respond` and the steps of `BlobDownload`. Which of the two
  formats is asked for, and the URLs of projects, are not modelled.
* **Index pages**: the syntax of HTML and JSON and their escaping, PEP 503
  names, the list of projects and the look of the pages: text, with no state.
  What a page says of cached files, and so the invalidation that a download
  causes, is in `ProjectPages` as `DeleteResponses` and `InvalidateHot`.
* **PyTorch wheel index**: the names of channels and of their index entries.
* **Root page and statistics**: one sampler and display counters, which nothing
  depends on.
* **Configuration, benchmarks, web front end**: no state that changes while the
  server runs, or not part of it.
* **Left out of the modelled parts**: the size limits of `hot_blobs` and
  `hot_links` (an entry may go at any time), response headers (the length a
  stream announces is a variable of `BlobTail`, without a property), metrics,
  the choice of the PyTorch or the simple index.
