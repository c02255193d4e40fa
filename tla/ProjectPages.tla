---------------------------- MODULE ProjectPages ----------------------------
(***************************************************************************)
(* The page of one project: the upstream's, and the three copies of it     *)
(* that PyTail keeps.  projects and project_links in SQLite hold the index *)
(* entry (row), project_responses the rendered bodies (resp), and          *)
(* hot_projects a page in memory (hot).                                    *)
(*                                                                         *)
(* Handlers run ensure_project_with: a copy that is there is served, stale *)
(* or not, and a stale one starts a refresh in the background, at most one *)
(* at a time (refreshing).  Only a project that is not in the index is     *)
(* fetched by the handler, under the project's lock.  Handlers read, render*)
(* and store the rendered bodies without that lock.                        *)
(*                                                                         *)
(* A step is one stretch between two awaits, or one access to SQLite.      *)
(* Abstracted: a page is its version; the clock ticks in units of which    *)
(* project_cache_ttl_secs is Ttl; the sizes that a page shows of cached    *)
(* files.  The lock of the project is a KeyedMutex (see RequestLocks).     *)
(***************************************************************************)
EXTENDS Naturals, FiniteSets

CONSTANTS
  Clients,     \* request handlers
  Tasks,       \* identities of background refresh tasks
  MaxVersion,  \* bound: how often the upstream page changes
  MaxTime,     \* bound: the last reading of the clock
  Ttl,         \* project_cache_ttl_secs
  Oversized,   \* versions beyond HOT_PROJECT_CACHE_MAX_ENTRY_KIB
  IoErrors,    \* BOOLEAN: SQLite may fail
  Drops,       \* BOOLEAN: handlers may be dropped, the server restarted
  MaxLate,     \* bound: writes of dropped handlers under way at once
  None

Versions == 1 .. MaxVersion
Actors == Clients \cup Tasks

ASSUME BoundAssumption == MaxVersion \in Nat \ {0} /\ MaxTime \in Nat /\ Ttl \in Nat /\ MaxLate \in Nat
ASSUME OversizedAssumption == Oversized \subseteq Versions
ASSUME FaultAssumption == IoErrors \in BOOLEAN /\ Drops \in BOOLEAN
ASSUME ActorAssumption == Clients \cap Tasks = {}

VARIABLES
  upstream,    \* the version the upstream serves
  now,         \* current_unix_secs()
  row,         \* the index entry, a Page or None
  resp,        \* the version whose bodies are stored, or None
  hot,         \* the entry of hot_projects, a Page or None
  refreshing,  \* active_project_refreshes holds the project
  lock,        \* the actor that holds the lock of the project, or None
  late,        \* writes of dropped handlers that SQLite has yet to run
  pc,          \* where each handler and task is
  hand,        \* the page it has loaded, or None
  fetched,     \* the page it has from the upstream, or None
  etag,        \* the validator it sends to the upstream, a version or None
  known        \* the project was in the index when the request came

storeVars == <<row, resp, hot>>
worldVars == <<upstream, now>>
vars == <<upstream, now, row, resp, hot, refreshing, lock, late,
          pc, hand, fetched, etag, known>>

Page == [version : Versions, expires : 0 .. MaxTime + Ttl]

ASSUME NoneAssumption == None \notin Versions \cup Actors \cup Page

(* What a dropped handler had begun to write. *)
Write == [to : {"row", "resp"}, page : Page]

(* A handler is idle before its request and once it has answered, with a   *)
(* page or an error, or was dropped.                                       *)
AwaitPC == {"responses", "row", "links", "lock", "fetch", "store", "respond",
            "respondFetched"}
ClientPC == AwaitPC \cup {"idle", "hot", "cacheHot", "cacheFetched", "spawn"}
TaskPC == {"over", "lock", "row", "links", "fetch", "store", "touch", "respond",
           "respondFetched", "cacheHot", "cacheFetched", "retry", "drop"}

(* Types, and where an actor has the page it is about to use. What is      *)
(* rendered, in hand or stored, is of a project in the index.              *)
TypeOK ==
  /\ upstream \in Versions /\ now \in 0 .. MaxTime
  /\ row \in Page \cup {None}
  /\ resp \in Versions \cup {None}
  /\ hot \in Page \cup {None}
  /\ refreshing \in BOOLEAN
  /\ lock \in Actors \cup {None}
  /\ late \subseteq Write
  /\ pc \in [Actors -> ClientPC \cup TaskPC]
  /\ hand \in [Actors -> Page \cup {None}]
  /\ fetched \in [Actors -> Page \cup {None}]
  /\ etag \in [Tasks -> Versions \cup {None}]
  /\ known \in [Actors -> BOOLEAN]
  /\ \A c \in Clients : pc[c] \in ClientPC
  /\ \A t \in Tasks : /\ pc[t] \in TaskPC
                      /\ pc[t] \in {"fetch", "store", "touch"} => hand[t] # None
  /\ \A a \in Actors : /\ pc[a] \in {"links", "respond", "cacheHot"} => hand[a] # None
                       /\ pc[a] \in {"store", "touch", "respondFetched", "cacheFetched"}
                          => fetched[a] # None
  /\ row = None => /\ resp = None
                   /\ \A a \in Actors : hand[a] = None /\ pc[a] # "respondFetched"
                   /\ \A w \in late : w.to = "row"

InitMemory(hot0, refreshing0, lock0, late0, pc0, hand0, fetched0, etag0, known0) ==
  /\ hot0 = None
  /\ refreshing0 = FALSE
  /\ lock0 = None
  /\ late0 = {}
  /\ pc0 = [a \in Actors |-> IF a \in Clients THEN "idle" ELSE "over"]
  /\ hand0 = [a \in Actors |-> None]
  /\ fetched0 = [a \in Actors |-> None]
  /\ etag0 = [t \in Tasks |-> None]
  /\ known0 = [a \in Actors |-> FALSE]

Init ==
  /\ upstream = 1 /\ now = 0
  /\ row = None /\ resp = None
  /\ InitMemory(hot, refreshing, lock, late, pc, hand, fetched, etag, known)

-----------------------------------------------------------------------------
Goto(a, label) == pc' = [pc EXCEPT ![a] = label]

(* What an actor has in hand; one that is done forgets it. *)
localVars == <<hand, fetched, etag, known>>

Forget(a) == /\ hand' = [hand EXCEPT ![a] = None]
             /\ fetched' = [fetched EXCEPT ![a] = None]
             /\ etag' = [t \in Tasks |-> IF t = a THEN None ELSE etag[t]]
             /\ known' = [known EXCEPT ![a] = FALSE]
Keep == UNCHANGED localVars

(* Mutant: the guard outlives its actor. *)
LeakGuard(a) == UNCHANGED lock

(* The guard of the project lock is dropped with the actor's scope. *)
DropGuard(a) == lock' = IF lock = a THEN None ELSE lock

(* project_is_fresh *)
Fresh(page) == page.expires > now

(* Where a handler goes that has a page which is or is not fresh. *)
Judge(page) == IF Fresh(page) THEN "idle" ELSE "spawn"

Request(c) ==
  /\ pc[c] = "idle"
  /\ Goto(c, "hot")
  /\ known' = [known EXCEPT ![c] = row # None]
  /\ UNCHANGED <<hand, fetched, etag>>
  /\ UNCHANGED <<worldVars, storeVars, refreshing, lock, late>>

(* state.hot_projects.get(project) *)
LookHot(c) ==
  /\ pc[c] = "hot"
  /\ \/ hot = None /\ Goto(c, "responses") /\ Keep
     \/ hot # None /\ Goto(c, Judge(hot)) /\ Forget(c)
  /\ UNCHANGED <<worldVars, storeVars, refreshing, lock, late>>

(* The index entry joined with its bodies has a row. *)
Materialized == row # None /\ resp # None

(* load_project_responses: one SELECT, so that the bodies get the expiry   *)
(* of the index entry.                                                     *)
LoadResponses(c) ==
  /\ pc[c] = "responses"
  /\ \/ /\ ~Materialized
        /\ Goto(c, "row")
        /\ Keep
     \/ /\ Materialized
        /\ hand' = [hand EXCEPT ![c] = [version |-> resp, expires |-> row.expires]]
        /\ Goto(c, "cacheHot")
        /\ UNCHANGED <<fetched, etag, known>>
  /\ UNCHANGED <<worldVars, storeVars, refreshing, lock, late>>

(* materialized_not_modified_response: without an entry in memory, a       *)
(* request whose If-None-Match is the etag of the stored bodies is         *)
(* answered by that.                                                       *)
NotModified(c) ==
  /\ pc[c] = "responses"
  /\ Materialized
  /\ Goto(c, Judge(row))
  /\ Forget(c)
  /\ UNCHANGED <<worldVars, storeVars, refreshing, lock, late>>

(* spawn_project_refresh, and the stale answer. *)
Spawn(c) ==
  /\ pc[c] = "spawn"
  /\ \/ /\ refreshing
        /\ Goto(c, "idle")
        /\ UNCHANGED refreshing
     \/ /\ ~refreshing
        /\ refreshing' = TRUE
        /\ \E t \in Tasks : /\ pc[t] = "over"
                            /\ pc' = [pc EXCEPT ![c] = "idle", ![t] = "lock"]
  /\ Forget(c)
  /\ UNCHANGED <<worldVars, storeVars, lock, late>>

(* Mutant: the lock keeps nobody out. *)
LockAnyway == TRUE

LockFree == lock = None

(* state.locks.project_guard(project).await *)
Lock(a) ==
  /\ pc[a] = "lock"
  /\ LockFree
  /\ lock' = a
  /\ Goto(a, "row")
  /\ Keep
  /\ UNCHANGED <<worldVars, storeVars, refreshing, late>>

(* Mutant: an entry that has expired counts as none. *)
IndexedFresh == row # None /\ Fresh(row)

Indexed == row # None

(* load_project, first SELECT: the entry itself. A handler that finds none *)
(* takes the lock and looks again; with the lock, it asks the upstream. A  *)
(* task ends.                                                              *)
LoadRow(a) ==
  /\ pc[a] = "row"
  /\ \/ /\ Indexed
        /\ hand' = [hand EXCEPT ![a] = row]
        /\ etag' = [t \in Tasks |-> IF t = a THEN row.version ELSE etag[t]]
        /\ Goto(a, "links")
        /\ UNCHANGED <<fetched, known, lock>>
     \/ /\ ~Indexed /\ a \in Clients
        /\ Goto(a, IF lock = a THEN "fetch" ELSE "lock")
        /\ Keep
        /\ UNCHANGED lock
     \/ /\ ~Indexed /\ a \in Tasks
        /\ Goto(a, "drop")
        /\ DropGuard(a)
        /\ Keep
  /\ UNCHANGED <<worldVars, storeVars, refreshing, late>>

(* load_project, second SELECT, in no transaction with the first: the      *)
(* links, which may be those of a later store.                             *)
LoadLinks(a) ==
  /\ pc[a] = "links"
  /\ hand' = [hand EXCEPT ![a].version = row.version]
  /\ \/ /\ a \in Clients
        /\ Goto(a, "respond")
        /\ UNCHANGED lock
     \/ /\ a \in Tasks /\ Fresh(hand[a])
        /\ Goto(a, "drop")
        /\ DropGuard(a)
     \/ /\ a \in Tasks /\ ~Fresh(hand[a])
        /\ Goto(a, "fetch")
        /\ UNCHANGED lock
  /\ UNCHANGED <<worldVars, storeVars, refreshing, late, fetched, etag, known>>

(* SQLite fails a task, which is to retry later. *)
LoadFails(t) ==
  /\ IoErrors
  /\ pc[t] \in {"row", "links"}
  /\ Goto(t, "retry")
  /\ DropGuard(t)
  /\ Forget(t)
  /\ UNCHANGED <<worldVars, storeVars, refreshing, late>>

-----------------------------------------------------------------------------
(* refresh_project_cache, by a handler without, by a task with a stale page*)

(* Mutant: the page of the answer is lost. *)
GotNothing(a, version) == UNCHANGED fetched

(* What the upstream answered with, and how long it is fresh. *)
Got(a, version) == fetched' = [fetched EXCEPT ![a] = [version |-> version,
                                                      expires |-> now + Ttl]]

(* A 200 with the page; a 304 for the validator sent; a 404, which ends the*)
(* refresh, as no usable answer ends a handler's (502); or no usable answer*)
(* for a task, which then materialises the stale page again.               *)
Fetch(a) ==
  /\ pc[a] = "fetch"
  /\ \/ /\ Got(a, upstream)
        /\ Goto(a, "store")
        /\ UNCHANGED <<lock, hand, etag, known>>
     \/ /\ a \in Tasks /\ etag[a] = upstream
        /\ Got(a, hand[a].version)
        /\ Goto(a, "touch")
        /\ UNCHANGED <<lock, hand, etag, known>>
     \/ /\ Goto(a, IF a \in Tasks THEN "retry" ELSE "idle")
        /\ DropGuard(a)
        /\ Forget(a)
     \/ /\ a \in Tasks
        /\ Goto(a, "respond")
        /\ Keep
        /\ UNCHANGED lock
  /\ UNCHANGED <<worldVars, storeVars, refreshing, late>>

(* store_project in one transaction: the entry, and no bodies. *)
WriteRow(page) == row' = page /\ resp' = None

Store(a) ==
  /\ pc[a] = "store"
  /\ WriteRow(fetched[a])
  /\ Goto(a, "respondFetched")
  /\ Keep
  /\ UNCHANGED <<worldVars, hot, refreshing, lock, late>>

(* touch_project *)
Touch(t) ==
  /\ pc[t] = "touch"
  /\ row' = [row EXCEPT !.expires = fetched[t].expires]
  /\ Goto(t, "respondFetched")
  /\ Keep
  /\ UNCHANGED <<worldVars, resp, hot, refreshing, lock, late>>

(* A write fails: a task falls back to the page it loaded. *)
WriteFails(t) ==
  /\ IoErrors
  /\ pc[t] \in {"store", "touch"}
  /\ Goto(t, "respond")
  /\ Keep
  /\ UNCHANGED <<worldVars, storeVars, refreshing, lock, late>>

-----------------------------------------------------------------------------
(* materialize_project: store_project_responses, whose failure is logged   *)
(* only, then cache_hot_project.                                           *)

(* Mutant: a refresh renders the page it began with.                       *)
RenderedBefore(a) == IF hand[a] # None THEN hand[a] ELSE fetched[a]

Rendered(a) == IF pc[a] \in {"respondFetched", "cacheFetched"} THEN fetched[a]
                                                               ELSE hand[a]

StoreResponses(a) ==
  /\ pc[a] \in {"respond", "respondFetched"}
  /\ \/ resp' = Rendered(a).version
     \/ IoErrors /\ UNCHANGED resp
  /\ Goto(a, IF pc[a] = "respond" THEN "cacheHot" ELSE "cacheFetched")
  /\ Keep
  /\ UNCHANGED <<worldVars, row, hot, refreshing, lock, late>>

(* Then the handler answers, or returns from the refresh; the task returns *)
(* from refresh_stale_project, to sleep first if it had no success.        *)
CacheHot(a) ==
  /\ pc[a] \in {"cacheHot", "cacheFetched"}
  /\ hot' = IF Rendered(a).version \in Oversized THEN hot ELSE Rendered(a)
  /\ DropGuard(a)
  /\ Goto(a, IF pc[a] = "cacheHot"
               THEN IF a \in Tasks THEN "retry" ELSE Judge(hand[a])
               ELSE IF a \in Tasks THEN "drop" ELSE "idle")
  /\ Forget(a)
  /\ UNCHANGED <<worldVars, row, resp, refreshing, late>>

(* Mutants: the registration goes before the task, and stays for good. *)
UnregisterEarly(t) == refreshing' = FALSE /\ UNCHANGED pc
UnregisterNever(t) == UNCHANGED refreshing /\ Goto(t, "over")

(* drop(registration), after the delay of a task that is to retry later. *)
Unregister(t) ==
  /\ refreshing' = FALSE
  /\ Goto(t, "over")

EndRefresh(t) ==
  /\ pc[t] \in {"retry", "drop"}
  /\ Unregister(t)
  /\ Forget(t)
  /\ UNCHANGED <<worldVars, storeVars, lock, late>>

-----------------------------------------------------------------------------
(* What spawn_blocking has begun for a handler that is dropped. *)
Leaves(table, page) == late' = late \cup {[to |-> table, page |-> page]}

(* SQLite fails a handler, or its client goes away and it is dropped at an *)
(* await. What it had begun to write is written all the same, but no longer*)
(* under the lock.                                                         *)
Leave(c) ==
  /\ pc[c] \in AwaitPC
  /\ Drops \/ (IoErrors /\ pc[c] \in {"responses", "row", "links", "store"})
  /\ Goto(c, "idle")
  /\ DropGuard(c)
  /\ Forget(c)
  /\ \/ UNCHANGED late
     \/ /\ Drops /\ Cardinality(late) < MaxLate
        /\ \/ pc[c] = "store" /\ Leaves("row", fetched[c])
           \/ pc[c] \in {"respond", "respondFetched"} /\ Leaves("resp", Rendered(c))
  /\ UNCHANGED <<worldVars, storeVars, refreshing>>

LateWrite ==
  /\ \E w \in late : /\ late' = late \ {w}
                     /\ \/ w.to = "row" /\ WriteRow(w.page)
                        \/ w.to = "resp" /\ resp' = w.page.version /\ UNCHANGED row
  /\ Keep
  /\ UNCHANGED <<worldVars, hot, refreshing, lock, pc>>

(* The server is killed and started again: SQLite remains. *)
Crash ==
  /\ Drops
  /\ InitMemory(hot', refreshing', lock', late', pc', hand', fetched', etag', known')
  /\ UNCHANGED <<worldVars, row, resp>>

(* mark_blob_ready and the prune delete the bodies of a project that links *)
(* the file, and then its entry in memory; moka drops entries at any time. *)
DeleteResponses ==
  /\ resp' = None
  /\ Keep
  /\ UNCHANGED <<worldVars, row, hot, refreshing, lock, late, pc>>

InvalidateHot ==
  /\ hot' = None
  /\ Keep
  /\ UNCHANGED <<worldVars, row, resp, refreshing, lock, late, pc>>

Publish ==
  /\ upstream < MaxVersion
  /\ upstream' = upstream + 1
  /\ Keep
  /\ UNCHANGED <<now, storeVars, refreshing, lock, late, pc>>

Tick ==
  /\ now < MaxTime
  /\ now' = now + 1
  /\ Keep
  /\ UNCHANGED <<upstream, storeVars, refreshing, lock, late, pc>>

Step(a) == LoadRow(a) \/ LoadLinks(a) \/ Fetch(a) \/ Store(a) \/ StoreResponses(a)
           \/ CacheHot(a)
Handle(c) == LookHot(c) \/ LoadResponses(c) \/ NotModified(c) \/ Spawn(c) \/ Step(c)
Refresh(t) == Touch(t) \/ EndRefresh(t) \/ Step(t)

Next ==
  \/ \E c \in Clients : Request(c) \/ Handle(c) \/ Lock(c) \/ Leave(c)
  \/ \E t \in Tasks : Refresh(t) \/ Lock(t) \/ LoadFails(t) \/ WriteFails(t)
  \/ LateWrite \/ Crash \/ DeleteResponses \/ InvalidateHot \/ Publish \/ Tick

Spec == Init /\ [][Next]_vars

(* Handlers and tasks are polled; the request timeout ends every fetch; the*)
(* lock is fair (RequestLocks), so a waiter is not passed over forever.    *)
Fairness == /\ \A c \in Clients : WF_vars(Handle(c)) /\ SF_vars(Lock(c))
            /\ \A t \in Tasks : WF_vars(Refresh(t)) /\ SF_vars(Lock(t))

FairSpec == Spec /\ Fairness

-----------------------------------------------------------------------------
(* One refresh at a time, asleep ones included, and never one that is not  *)
(* registered: requests for a stale page do not pile up on the upstream    *)
(* (server.rs:1184-1220; the tests at 4051 and 4137).                      *)
OneRefresh == \A t, u \in Tasks : pc[t] # "over" /\ pc[u] # "over" => t = u /\ refreshing

(* A project in the index is answered from the index: its handler neither  *)
(* waits for a refresh nor depends on the upstream (server.rs:1059-1128;   *)
(* the test at 4137: "stale response waited for the upstream refresh").    *)
KnownNeverWaits ==
  \A c \in Clients : known[c] => pc[c] \notin {"lock", "fetch", "store"}

(* The index never goes back to an older page, except when a write that a  *)
(* dropped handler left behind runs without the lock (server.rs:1130-1174).*)
IndexAdvances ==
  [][row # None /\ row' # None /\ late \subseteq late' => row'.version >= row.version]_vars

(* Every request is answered. *)
RequestAnswered == \A c \in Clients : (pc[c] = "hot") ~> (pc[c] = "idle")

(* A refresh ends and is taken out of the registry, on every path: another *)
(* one can follow (server.rs:1190-1220).                                   *)
RefreshEnds == refreshing ~> ~refreshing

(* The test at cache.rs:2202-2208: store_project leaves no bodies of the   *)
(* page before. Then, when nothing is under way, stored bodies are of the  *)
(* page in the index.                                                      *)
Quiet == /\ late = {}
         /\ \A c \in Clients : pc[c] = "idle"
         /\ \A t \in Tasks : pc[t] = "over"

MaterializedIsCurrent == Quiet /\ resp # None => resp = row.version
=============================================================================
