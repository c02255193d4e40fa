------------------------------ MODULE FlatIndex ------------------------------
(***************************************************************************)
(* The PyTorch wheel index: one upstream page lists the wheels of all      *)
(* projects, and an UpstreamClient keeps the last page it fetched, with an *)
(* expiry, under a tokio mutex it holds across the fetch.                  *)
(*                                                                         *)
(* A page is its version; its etag stands for it when the upstream sends   *)
(* one.  The row of a project in the index holds the version its links are *)
(* from and expires on its own, after the same time to live.  A channel    *)
(* (cpu, cu126) has a client of its own, made by the first handler that    *)
(* finds none; two handlers may both find none and make one each.          *)
(*                                                                         *)
(* Abstracted: the lock of a project and the background refresh, which are *)
(* in ProjectPages, become one rule: one actor at a time refreshes a       *)
(* project, and only one whose row has expired.  Both clocks of the code   *)
(* (Instant for the page, seconds of the day for the row) are one clock.   *)
(* A handler that is dropped while SQLite writes for it lets go of the     *)
(* project, and the write is made all the same, later.                     *)
(***************************************************************************)
EXTENDS Naturals, FiniteSets

CONSTANTS
  Handlers,    \* requests and background refreshes
  Projects,
  Clients,     \* UpstreamClient values that may be made for the channel
  MaxVersion,  \* versions the upstream page goes through
  MaxTime,     \* bound on the clock
  MaxLate,     \* bound: writes of dropped handlers under way at once
  TTL,         \* project_cache_ttl_secs, also the flat index's cache_ttl
  Tagged,      \* versions the upstream sends with an etag
  Lists,       \* Lists[v]: the projects version v has wheels of
  Root,        \* the page that lists the projects
  None

Versions == 1 .. MaxVersion
NoTag == 0

VARIABLES
  up, born,   \* the upstream's version, and when each version appeared
  clock,
  client,     \* pytorch_channel_upstreams[channel], or None
  page,       \* per client: version and expiry of cached_page; version 0 for none
  owner,      \* per client: who holds the lock of cached_page
  row,        \* per project: version and expiry; version 0 for no row
  late,       \* writes of dropped handlers that SQLite has yet to run
  pc, want, inst, reply,  \* per handler
  known,      \* per handler: the version of the row it loaded, under the project's lock
  started,    \* per handler: when it sent its request, and then when it had its page
  \* what happened, for a property only
  crossed     \* projects that were asked for while a late write to them was to come

upVars == <<up, born>>
storeVars == <<row, late, crossed>>
callVars == <<want, inst, known, started, reply>>
vars == <<upVars, clock, client, page, owner, storeVars, pc, callVars>>

Nothing == [v |-> 0, expires |-> 0]
NoReply == [kind |-> "none", v |-> 0]

Init ==
  /\ up = 1 /\ born = [v \in Versions |-> 0] /\ clock = 0
  /\ client = None
  /\ page = [c \in Clients |-> Nothing]
  /\ owner = [c \in Clients |-> None]
  /\ row = [p \in Projects |-> Nothing] /\ late = {} /\ crossed = {}
  /\ pc = [h \in Handlers |-> "idle"]
  /\ want = [h \in Handlers |-> None]
  /\ inst = [h \in Handlers |-> None]
  /\ known = [h \in Handlers |-> 0] /\ started = [h \in Handlers |-> 0]
  /\ reply = [h \in Handlers |-> NoReply]

Goto(h, l) == pc' = [pc EXCEPT ![h] = l]
Tag(v) == IF v \in Tagged THEN v ELSE NoTag

\* The etag a handler brings: that of its project's row, when it loaded it.
Etag(h) == Tag(known[h])

-----------------------------------------------------------------------------
(* A handler finds the client of the channel, then goes for a page. *)

FindClient(h) ==
  /\ pc[h] = "idle"
  /\ IF client = None THEN Goto(h, "make") /\ UNCHANGED inst
                      ELSE Goto(h, "found") /\ inst' = [inst EXCEPT ![h] = client]
  /\ UNCHANGED <<upVars, clock, client, page, owner, storeVars, want, known, started, reply>>

Unmade == {c \in Clients \ ({client} \cup {inst[h] : h \in Handlers}) : page[c] = Nothing}

\* child_project_root: a client of its own, which replaces one made meanwhile.
MakeClient(h) ==
  /\ pc[h] = "make" /\ Unmade # {}
  /\ client' = CHOOSE c \in Unmade : TRUE
  /\ inst' = [inst EXCEPT ![h] = client']
  /\ Goto(h, "found")
  /\ UNCHANGED <<upVars, clock, page, owner, storeVars, want, known, started, reply>>

LateTo(p) == {w \in late : w.project = p}

\* A project without a fresh row; the lock of the project keeps others away, but not
\* the write of one who was dropped.
RequestProject(h, p) ==
  /\ pc[h] = "found"
  /\ row[p].v = 0 \/ row[p].expires <= clock
  /\ \A g \in Handlers : want[g] # p
  /\ want' = [want EXCEPT ![h] = p] /\ known' = [known EXCEPT ![h] = row[p].v]
  /\ crossed' = crossed \cup {w.project : w \in LateTo(p)}
  /\ Goto(h, "lock")
  /\ UNCHANGED <<upVars, clock, client, page, owner, row, late, inst, started, reply>>

\* The list of the projects, or a project whose row has become fresh.
RequestIndex(h) ==
  /\ pc[h] = "found"
  /\ want' = [want EXCEPT ![h] = Root]
  /\ Goto(h, "lock")
  /\ UNCHANGED <<upVars, clock, client, page, owner, storeVars, inst, known, started, reply>>

-----------------------------------------------------------------------------
(* fetch_flat_project and fetch_project_index. *)

\* fetch_for: what a page says to a handler that may know its etag.  Nothing is stored
\* for the list of the projects, nor for a project the page does not list.
FetchFor(h, v) ==
  IF want[h] = Root \/ want[h] \notin Lists[v] THEN NoReply
  ELSE IF Tag(v) # NoTag /\ Etag(h) = Tag(v) THEN [kind |-> "same", v |-> v]
  ELSE [kind |-> "fresh", v |-> v]

FreshPage(c, now) == page[c].v # 0 /\ now < page[c].expires
FlatExpiryLong(now) == now + TTL + 1   \* for a mutant: one time unit too long
FlatExpiry(now) == now + TTL

\* The lock is free: the clock is read and a fresh page answers at once.
LockHit(h) ==
  /\ pc[h] = "lock" /\ owner[inst[h]] = None
  /\ FreshPage(inst[h], clock)
  /\ reply' = [reply EXCEPT ![h] = FetchFor(h, page[inst[h]].v)]
  /\ started' = [started EXCEPT ![h] = clock]
  /\ Goto(h, "store")
  /\ UNCHANGED <<upVars, clock, client, page, owner, storeVars, want, inst, known>>

LockMiss(h) ==
  /\ pc[h] = "lock" /\ owner[inst[h]] = None
  /\ ~FreshPage(inst[h], clock)
  /\ owner' = [owner EXCEPT ![inst[h]] = h]
  /\ started' = [started EXCEPT ![h] = clock]
  /\ Goto(h, "fetch")
  /\ UNCHANGED <<upVars, clock, client, page, storeVars, want, inst, known, reply>>

\* If-None-Match: the etag of the cached page, or else the one of the row.
Validator(h) ==
  IF Tag(page[inst[h]].v) # NoTag THEN Tag(page[inst[h]].v)
  ELSE Etag(h)

\* The upstream answers: 304, 200, 404 or an error.  The answer is on its way.
Respond(h) ==
  /\ pc[h] = "fetch" /\ reply[h] = NoReply
  /\ \/ /\ Validator(h) # NoTag /\ Validator(h) = Tag(up)
        /\ reply' = [reply EXCEPT ![h] = [kind |-> "same", v |-> up]]
     \/ reply' = [reply EXCEPT ![h] = [kind |-> "fresh", v |-> up]]
     \/ \E k \in {"missing", "error"} : reply' = [reply EXCEPT ![h] = [kind |-> k, v |-> 0]]
  /\ UNCHANGED <<upVars, clock, client, page, owner, storeVars, pc, want, inst, known, started>>

Return(h, r) ==
  /\ reply' = [reply EXCEPT ![h] = r]
  /\ owner' = [owner EXCEPT ![inst[h]] = None]
  /\ started' = [started EXCEPT ![h] = clock]
  /\ Goto(h, "store")
  /\ UNCHANGED <<upVars, clock, client, storeVars, want, inst, known>>

ExpiryAtEnd(h) == FlatExpiry(clock)   \* for a mutant: counted from the answer

\* The page ages from the moment the request for it was sent.
Expiry(h) == FlatExpiry(started[h])

TakePage(h) ==
  /\ pc[h] = "fetch" /\ reply[h].kind = "fresh"
  /\ page' = [page EXCEPT ![inst[h]] = [v |-> reply[h].v, expires |-> Expiry(h)]]
  /\ Return(h, FetchFor(h, reply[h].v))

\* 304: the cached page is good for longer, or the row is, when no page is cached.
Revalidate(h) ==
  /\ pc[h] = "fetch" /\ reply[h].kind = "same"
  /\ IF page[inst[h]].v = 0 THEN Return(h, reply[h]) /\ UNCHANGED page
     ELSE /\ page' = [page EXCEPT ![inst[h]].expires = Expiry(h)]
          /\ Return(h, FetchFor(h, page[inst[h]].v))

DropPage(h) ==
  /\ pc[h] = "fetch" /\ reply[h].kind = "missing"
  /\ page' = [page EXCEPT ![inst[h]] = Nothing]
  /\ Return(h, NoReply)

\* No answer, or a page without a single wheel: the cached page stays, expired.
FetchFails(h) ==
  /\ pc[h] = "fetch" /\ reply[h].kind = "error"
  /\ Return(h, NoReply) /\ UNCHANGED page

-----------------------------------------------------------------------------
(* refresh_project_cache writes the row; the client gets its answer. *)

Leave(h) ==
  /\ want' = [want EXCEPT ![h] = None]
  /\ inst' = [inst EXCEPT ![h] = None]
  /\ known' = [known EXCEPT ![h] = 0] /\ started' = [started EXCEPT ![h] = 0]
  /\ reply' = [reply EXCEPT ![h] = NoReply]
  /\ Goto(h, "idle")

Storing(h) == pc[h] = "store" /\ want[h] \in Projects /\ reply[h].kind \in {"fresh", "same"}

\* What it writes: new links, or (touch_project) a new expiry for those of the row.
Record(h) ==
  [project |-> want[h], touch |-> reply[h].kind = "same", v |-> reply[h].v,
   expires |-> started[h] + TTL]

Write(w) ==
  row' = [row EXCEPT ![w.project] =
            [v |-> IF w.touch THEN @.v ELSE w.v, expires |-> w.expires]]

\* The history: new links that no late write can replace end a crossing.
Store(h) ==
  /\ Storing(h) /\ Write(Record(h))
  /\ crossed' = IF Record(h).touch \/ LateTo(want[h]) # {} THEN crossed ELSE crossed \ {want[h]}
  /\ Leave(h)
  /\ UNCHANGED <<upVars, clock, client, page, owner, late>>

\* The names of the projects, nothing to store, or a store SQLite refuses.
Answer(h) ==
  /\ pc[h] = "store"
  /\ Leave(h)
  /\ UNCHANGED <<upVars, clock, client, page, owner, storeVars>>

\* The client leaves: the handler is dropped at an await, and its guards with it, but
\* not a write that SQLite has begun or has in its queue (spawn_blocking).
Cancel(h) ==
  /\ pc[h] \in {"found", "lock", "fetch", "store"}
  /\ owner' = [c \in Clients |-> IF owner[c] = h THEN None ELSE owner[c]]
  /\ \/ UNCHANGED late
     \/ Storing(h) /\ Cardinality(late) < MaxLate /\ late' = late \cup {Record(h)}
  /\ Leave(h)
  /\ UNCHANGED <<upVars, clock, client, page, row, crossed>>

LateWrite(w) ==
  /\ late' = late \ {w}
  /\ Write(w)
  /\ UNCHANGED <<upVars, clock, client, page, owner, crossed, pc, callVars>>

Publish ==
  /\ up < MaxVersion
  /\ up' = up + 1
  /\ born' = [born EXCEPT ![up + 1] = clock]
  /\ UNCHANGED <<clock, client, page, owner, storeVars, pc, callVars>>

Tick ==
  /\ clock < MaxTime
  /\ clock' = clock + 1
  /\ UNCHANGED <<upVars, client, page, owner, storeVars, pc, callVars>>

Receive(h) == TakePage(h) \/ Revalidate(h) \/ DropPage(h) \/ FetchFails(h)
Lock(h) == LockHit(h) \/ LockMiss(h)
Handle(h) ==
  \/ MakeClient(h) \/ RequestIndex(h) \/ (\E p \in Projects : RequestProject(h, p))
  \/ Respond(h) \/ Receive(h) \/ Store(h) \/ Answer(h)

Next ==
  \/ \E h \in Handlers :
       \/ FindClient(h) \/ Handle(h) \/ Lock(h) \/ Cancel(h)
  \/ (\E w \in late : LateWrite(w)) \/ Publish \/ Tick

Spec == Init /\ [][Next]_vars

-----------------------------------------------------------------------------
\* A page that would be answered from memory now, without asking the upstream, was
\* the upstream's own less than a time to live ago, however long its fetch took
\* (fetch_flat_project reads the clock before it sends the request).
FreshIsRecent ==
  \A c \in Clients : FreshPage(c, clock) /\ page[c].v < up => clock < born[page[c].v + 1] + TTL

\* The links of a project never go back to those of an older page, although two
\* clients of one channel may keep pages of different versions
\* (pytorch_channel_upstream looks and inserts in two steps), and although the write of
\* a dropped handler is late; but for a crossing: a handler that went for the project
\* while such a write was to come may write before it or after it, whichever links are
\* older, and until links are next stored that no late write can replace the row says
\* nothing of how old its links are (store_project and touch_project under
\* spawn_blocking, which the project's lock does not wait for).
LinksAdvance == \A p \in Projects \ crossed : row'[p].v >= row[p].v
RowAdvances == [][LinksAdvance]_vars
=============================================================================
