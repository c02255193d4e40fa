-------------------------- MODULE ProjectPagesProofs --------------------------
(***************************************************************************)
(* For any handlers, refresh tasks, versions and times: types, one refresh *)
(* at a time, a known project never waits, the index does not go back, and *)
(* the page in memory is the one of the index.                             *)
(*                                                                         *)
(* The last two rest on the lock of the project (Locked: who fetches,      *)
(* stores, touches or renders what it fetched holds it, so one actor at a  *)
(* time does). The index advances since what the holder stores is at least *)
(* as new as the index and as every write left by a dropped handler, for it*)
(* was fetched after all of these were (Newest). The memory follows since  *)
(* whatever anybody has in hand is the page of the index, until somebody   *)
(* is overtaken (HotInv).                                                  *)
(***************************************************************************)
EXTENDS MCProjectPages, TLAPS

(* TypeOK in its parts: types, pages at hand, and what the index knows. *)
Shapes ==
  /\ upstream \in Versions /\ now \in 0 .. MaxTime
  /\ row \in Page \cup {None}
  /\ resp \in Versions \cup {None}
  /\ hot \in Page \cup {None}
  /\ refreshing \in BOOLEAN
  /\ lock \in Actors \cup {None}
  /\ late \subseteq Write
  /\ pc \in [Actors -> ClientPC \cup TaskPC]
  /\ hand \in [Actors -> Page \cup {None}]
  /\ fetched \in [Actors -> Page \cup {None}]
  /\ etag \in [Tasks -> Versions \cup {None}]
  /\ known \in [Actors -> BOOLEAN]
  /\ \A c \in Clients : pc[c] \in ClientPC
  /\ \A t \in Tasks : pc[t] \in TaskPC

HasPage ==
  /\ \A t \in Tasks : pc[t] \in {"fetch", "store", "touch"} => hand[t] # None
  /\ \A a \in Actors : /\ pc[a] \in {"links", "respond", "cacheHot"} => hand[a] # None
                       /\ pc[a] \in {"store", "touch", "respondFetched", "cacheFetched"}
                          => fetched[a] # None

OfIndexed ==
  row = None => /\ resp = None
                /\ \A a \in Actors : hand[a] = None /\ pc[a] # "respondFetched"
                /\ \A w \in late : w.to = "row"

LEMMA Parts == TypeOK <=> Shapes /\ HasPage /\ OfIndexed
  BY DEF TypeOK, Shapes, HasPage, OfIndexed

(* The pages that Fetch makes and LoadLinks, Touch and LoadResponses change*)
(* are pages.                                                              *)
LEMMA PageOf ==
  ASSUME Shapes
  PROVE  /\ \A v \in Versions : [version |-> v, expires |-> now + Ttl] \in Page
         /\ \A p, q \in Page : /\ [p EXCEPT !.version = q.version] \in Page
                               /\ [p EXCEPT !.expires = q.expires] \in Page
         /\ \A p \in Page, v \in Versions : [version |-> v, expires |-> p.expires] \in Page
         /\ \A p \in Page : p.version \in Versions /\ p # None
         /\ \A v \in Versions : v # None
  BY BoundAssumption, NoneAssumption DEF Shapes, Page, Versions

LEMMA ShapesStep == Shapes /\ HasPage /\ OfIndexed /\ [Next]_vars => Shapes'
<1> SUFFICES ASSUME Shapes, HasPage, OfIndexed, [Next]_vars PROVE Shapes'
  OBVIOUS
<1> USE ActorAssumption, PageOf
    DEF Shapes, HasPage, OfIndexed, ClientPC, TaskPC, AwaitPC, Actors, Write,
        Goto, Keep, localVars,
        Forget, DropGuard, storeVars, worldVars
<1>1. ASSUME NEW c \in Clients, Request(c) PROVE Shapes'
  BY <1>1 DEF Request
<1>2. ASSUME NEW c \in Clients, LookHot(c) PROVE Shapes'
  <2>1. \E l \in {"responses", "idle", "spawn"} : pc' = [pc EXCEPT ![c] = l]
    BY <1>2 DEF LookHot, Judge
  <2>2. \A l \in {"responses", "idle", "spawn"} : l \in ClientPC
    OBVIOUS
  <2>3. /\ pc' \in [Actors -> ClientPC \cup TaskPC]
        /\ \A d \in Clients : pc'[d] \in ClientPC
        /\ \A t \in Tasks : pc'[t] \in TaskPC
    BY <2>1, <2>2
  <2>4. CASE Keep
    BY <1>2, <2>3, <2>4 DEF LookHot
  <2>5. CASE Forget(c)
    BY <1>2, <2>3, <2>5 DEF LookHot
  <2> QED
    BY <1>2, <2>4, <2>5 DEF LookHot
<1>3. ASSUME NEW c \in Clients, LoadResponses(c) PROVE Shapes'
  <2>1. CASE ~Materialized
    BY <1>3, <2>1 DEF LoadResponses
  <2>2. CASE Materialized
    <3>1. [version |-> resp, expires |-> row.expires] \in Page
      BY <2>2, PageOf DEF Materialized
    <3>2. hand' \in [Actors -> Page \cup {None}]
      BY <1>3, <2>2, <3>1 DEF LoadResponses
    <3>3. /\ pc' \in [Actors -> ClientPC \cup TaskPC]
          /\ \A d \in Clients : pc'[d] \in ClientPC
          /\ \A t \in Tasks : pc'[t] \in TaskPC
      BY <1>3, <2>2 DEF LoadResponses
    <3> QED BY <1>3, <2>2, <3>2, <3>3 DEF LoadResponses
  <2> QED BY <2>1, <2>2
<1>4. ASSUME NEW c \in Clients, NotModified(c) PROVE Shapes'
  BY <1>4 DEF NotModified, Judge
<1>5. ASSUME NEW c \in Clients, Spawn(c) PROVE Shapes'
  BY <1>5 DEF Spawn
<1>6. ASSUME NEW a \in Actors, Lock(a) PROVE Shapes'
  BY <1>6 DEF Lock, LockFree
<1>7. ASSUME NEW a \in Actors, LoadRow(a) PROVE Shapes'
  BY <1>7 DEF LoadRow, Indexed
<1>8. ASSUME NEW a \in Actors, LoadLinks(a) PROVE Shapes'
  <2>1. hand[a] \in Page /\ row \in Page
    BY <1>8 DEF LoadLinks
  <2>2. [hand[a] EXCEPT !.version = row.version] \in Page
    BY <2>1, PageOf
  <2>3. hand' = [hand EXCEPT ![a] = [hand[a] EXCEPT !.version = row.version]]
    BY <1>8 DEF LoadLinks
  <2>4. hand' \in [Actors -> Page \cup {None}]
    BY <2>2, <2>3
  <2>5. /\ pc' \in [Actors -> ClientPC \cup TaskPC]
        /\ \A c \in Clients : pc'[c] \in ClientPC
        /\ \A t \in Tasks : pc'[t] \in TaskPC
    <3>1. \/ a \in Clients /\ pc' = [pc EXCEPT ![a] = "respond"]
          \/ \E l \in {"drop", "fetch"} : a \in Tasks /\ pc' = [pc EXCEPT ![a] = l]
      BY <1>8 DEF LoadLinks
    <3>2. "respond" \in ClientPC /\ \A l \in {"drop", "fetch"} : l \in TaskPC
      OBVIOUS
    <3> QED BY <3>1, <3>2
  <2> QED
    BY <1>8, <2>4, <2>5 DEF LoadLinks
<1>9. ASSUME NEW t \in Tasks, LoadFails(t) PROVE Shapes'
  BY <1>9 DEF LoadFails
<1>10. ASSUME NEW a \in Actors, Fetch(a) PROVE Shapes'
  <2>1. fetched' \in [Actors -> Page \cup {None}]
    <3>1. CASE Got(a, upstream)
      BY <3>1, PageOf DEF Got
    <3>2. CASE a \in Tasks /\ Got(a, hand[a].version) /\ hand[a] # None
      BY <3>2, PageOf DEF Got
    <3>3. CASE UNCHANGED fetched
      BY <3>3
    <3>4. CASE Forget(a)
      BY <3>4
    <3> QED
      BY <1>10, <3>1, <3>2, <3>3, <3>4 DEF Fetch
  <2>2. /\ pc' \in [Actors -> ClientPC \cup TaskPC]
        /\ \A c \in Clients : pc'[c] \in ClientPC
        /\ \A t \in Tasks : pc'[t] \in TaskPC
    BY <1>10 DEF Fetch
  <2>3. /\ hand' \in [Actors -> Page \cup {None}]
        /\ etag' \in [Tasks -> Versions \cup {None}]
        /\ known' \in [Actors -> BOOLEAN]
        /\ lock' \in Actors \cup {None}
    <3>1. CASE UNCHANGED <<lock, hand, etag, known>>
      BY <3>1
    <3>2. CASE DropGuard(a) /\ Forget(a)
      BY <3>2
    <3> QED
      BY <1>10, <3>1, <3>2 DEF Fetch
  <2> QED
    BY <1>10, <2>1, <2>2, <2>3 DEF Fetch
<1>11. ASSUME NEW a \in Actors, Store(a) PROVE Shapes'
  BY <1>11 DEF Store, WriteRow
<1>12. ASSUME NEW t \in Tasks, Touch(t) PROVE Shapes'
  BY <1>12 DEF Touch
<1>13. ASSUME NEW t \in Tasks, WriteFails(t) PROVE Shapes'
  BY <1>13 DEF WriteFails
<1>14. ASSUME NEW a \in Actors, StoreResponses(a) PROVE Shapes'
  BY <1>14 DEF StoreResponses, Rendered
<1>15. ASSUME NEW a \in Actors, CacheHot(a) PROVE Shapes'
  BY <1>15 DEF CacheHot, Rendered, Judge
<1>16. ASSUME NEW t \in Tasks, EndRefresh(t) PROVE Shapes'
  BY <1>16 DEF EndRefresh, Unregister
<1>17. ASSUME NEW c \in Clients, Leave(c) PROVE Shapes'
  BY <1>17 DEF Leave, Leaves, Rendered, AwaitPC
<1>18. ASSUME LateWrite PROVE Shapes'
  BY <1>18 DEF LateWrite, WriteRow
<1>19. ASSUME Crash PROVE Shapes'
  BY <1>19 DEF Crash, InitMemory
<1>20. ASSUME DeleteResponses PROVE Shapes'
  BY <1>20 DEF DeleteResponses
<1>21. ASSUME InvalidateHot PROVE Shapes'
  BY <1>21 DEF InvalidateHot
<1>22. ASSUME Publish PROVE Shapes'
  BY <1>22, BoundAssumption DEF Publish, Versions
<1>23. ASSUME Tick PROVE Shapes'
  BY <1>23, BoundAssumption DEF Tick
<1>24. CASE UNCHANGED vars
  BY <1>24 DEF vars
<1> QED
  BY <1>1, <1>2, <1>3, <1>4, <1>5, <1>6, <1>7, <1>8, <1>9, <1>10, <1>11,
      <1>12, <1>13, <1>14, <1>15, <1>16, <1>17, <1>18, <1>19, <1>20, <1>21,
      <1>22, <1>23, <1>24
  DEF Next, Handle, Refresh, Step, Actors

LEMMA HasPageStep == Shapes /\ HasPage /\ OfIndexed /\ [Next]_vars => HasPage'
<1> SUFFICES ASSUME Shapes, HasPage, OfIndexed, [Next]_vars PROVE HasPage'
  OBVIOUS
<1> USE ActorAssumption, PageOf
    DEF Shapes, HasPage, OfIndexed, ClientPC, TaskPC, Actors,
        Goto, Keep, localVars,
        Forget, DropGuard, storeVars, worldVars
<1>1. ASSUME NEW c \in Clients, Request(c) PROVE HasPage'
  BY <1>1 DEF Request
<1>2. ASSUME NEW c \in Clients, LookHot(c) PROVE HasPage'
  BY <1>2 DEF LookHot, Judge
<1>3. ASSUME NEW c \in Clients, LoadResponses(c) PROVE HasPage'
  BY <1>3 DEF LoadResponses, Materialized
<1>4. ASSUME NEW c \in Clients, NotModified(c) PROVE HasPage'
  BY <1>4 DEF NotModified, Judge
<1>5. ASSUME NEW c \in Clients, Spawn(c) PROVE HasPage'
  BY <1>5 DEF Spawn
<1>6. ASSUME NEW a \in Actors, Lock(a) PROVE HasPage'
  BY <1>6 DEF Lock, LockFree
<1>7. ASSUME NEW a \in Actors, LoadRow(a) PROVE HasPage'
  BY <1>7 DEF LoadRow, Indexed
<1>8. ASSUME NEW a \in Actors, LoadLinks(a) PROVE HasPage'
  BY <1>8 DEF LoadLinks
<1>9. ASSUME NEW t \in Tasks, LoadFails(t) PROVE HasPage'
  BY <1>9 DEF LoadFails
<1>10. ASSUME NEW a \in Actors, Fetch(a) PROVE HasPage'
  BY <1>10 DEF Fetch, Got
<1>11. ASSUME NEW a \in Actors, Store(a) PROVE HasPage'
  BY <1>11 DEF Store, WriteRow
<1>12. ASSUME NEW t \in Tasks, Touch(t) PROVE HasPage'
  BY <1>12 DEF Touch
<1>13. ASSUME NEW t \in Tasks, WriteFails(t) PROVE HasPage'
  BY <1>13 DEF WriteFails
<1>14. ASSUME NEW a \in Actors, StoreResponses(a) PROVE HasPage'
  BY <1>14 DEF StoreResponses, Rendered
<1>15. ASSUME NEW a \in Actors, CacheHot(a) PROVE HasPage'
  BY <1>15 DEF CacheHot, Rendered, Judge
<1>16. ASSUME NEW t \in Tasks, EndRefresh(t) PROVE HasPage'
  BY <1>16 DEF EndRefresh, Unregister
<1>17. ASSUME NEW c \in Clients, Leave(c) PROVE HasPage'
  BY <1>17 DEF Leave, Leaves, Rendered, AwaitPC
<1>18. ASSUME LateWrite PROVE HasPage'
  BY <1>18 DEF LateWrite, WriteRow
<1>19. ASSUME Crash PROVE HasPage'
  BY <1>19 DEF Crash, InitMemory
<1>20. ASSUME DeleteResponses PROVE HasPage'
  BY <1>20 DEF DeleteResponses
<1>21. ASSUME InvalidateHot PROVE HasPage'
  BY <1>21 DEF InvalidateHot
<1>22. ASSUME Publish PROVE HasPage'
  BY <1>22 DEF Publish
<1>23. ASSUME Tick PROVE HasPage'
  BY <1>23 DEF Tick
<1>24. CASE UNCHANGED vars
  BY <1>24 DEF vars
<1> QED
  BY <1>1, <1>2, <1>3, <1>4, <1>5, <1>6, <1>7, <1>8, <1>9, <1>10, <1>11,
      <1>12, <1>13, <1>14, <1>15, <1>16, <1>17, <1>18, <1>19, <1>20, <1>21,
      <1>22, <1>23, <1>24
  DEF Next, Handle, Refresh, Step, Actors

LEMMA OfIndexedStep == Shapes /\ HasPage /\ OfIndexed /\ [Next]_vars => OfIndexed'
<1> SUFFICES ASSUME Shapes, HasPage, OfIndexed, [Next]_vars PROVE OfIndexed'
  OBVIOUS
<1> USE ActorAssumption, PageOf
    DEF Shapes, HasPage, OfIndexed, ClientPC, TaskPC, Actors, Write,
        Goto, Keep, localVars,
        Forget, DropGuard, storeVars, worldVars
<1>1. ASSUME NEW c \in Clients, Request(c) PROVE OfIndexed'
  BY <1>1 DEF Request
<1>2. ASSUME NEW c \in Clients, LookHot(c) PROVE OfIndexed'
  BY <1>2 DEF LookHot, Judge
<1>3. ASSUME NEW c \in Clients, LoadResponses(c) PROVE OfIndexed'
  BY <1>3 DEF LoadResponses, Materialized
<1>4. ASSUME NEW c \in Clients, NotModified(c) PROVE OfIndexed'
  BY <1>4 DEF NotModified, Judge
<1>5. ASSUME NEW c \in Clients, Spawn(c) PROVE OfIndexed'
  BY <1>5 DEF Spawn
<1>6. ASSUME NEW a \in Actors, Lock(a) PROVE OfIndexed'
  BY <1>6 DEF Lock, LockFree
<1>7. ASSUME NEW a \in Actors, LoadRow(a) PROVE OfIndexed'
  BY <1>7 DEF LoadRow, Indexed
<1>8. ASSUME NEW a \in Actors, LoadLinks(a) PROVE OfIndexed'
  BY <1>8 DEF LoadLinks
<1>9. ASSUME NEW t \in Tasks, LoadFails(t) PROVE OfIndexed'
  BY <1>9 DEF LoadFails
<1>10. ASSUME NEW a \in Actors, Fetch(a) PROVE OfIndexed'
  BY <1>10 DEF Fetch, Got
<1>11. ASSUME NEW a \in Actors, Store(a) PROVE OfIndexed'
  BY <1>11 DEF Store, WriteRow
<1>12. ASSUME NEW t \in Tasks, Touch(t) PROVE OfIndexed'
  BY <1>12 DEF Touch
<1>13. ASSUME NEW t \in Tasks, WriteFails(t) PROVE OfIndexed'
  BY <1>13 DEF WriteFails
<1>14. ASSUME NEW a \in Actors, StoreResponses(a) PROVE OfIndexed'
  BY <1>14 DEF StoreResponses, Rendered
<1>15. ASSUME NEW a \in Actors, CacheHot(a) PROVE OfIndexed'
  BY <1>15 DEF CacheHot, Rendered, Judge
<1>16. ASSUME NEW t \in Tasks, EndRefresh(t) PROVE OfIndexed'
  BY <1>16 DEF EndRefresh, Unregister
<1>17. ASSUME NEW c \in Clients, Leave(c) PROVE OfIndexed'
  BY <1>17 DEF Leave, Leaves, Rendered, AwaitPC
<1>18. ASSUME LateWrite PROVE OfIndexed'
  BY <1>18 DEF LateWrite, WriteRow
<1>19. ASSUME Crash PROVE OfIndexed'
  BY <1>19 DEF Crash, InitMemory
<1>20. ASSUME DeleteResponses PROVE OfIndexed'
  BY <1>20 DEF DeleteResponses
<1>21. ASSUME InvalidateHot PROVE OfIndexed'
  BY <1>21 DEF InvalidateHot
<1>22. ASSUME Publish PROVE OfIndexed'
  BY <1>22 DEF Publish
<1>23. ASSUME Tick PROVE OfIndexed'
  BY <1>23 DEF Tick
<1>24. CASE UNCHANGED vars
  BY <1>24 DEF vars
<1> QED
  BY <1>1, <1>2, <1>3, <1>4, <1>5, <1>6, <1>7, <1>8, <1>9, <1>10, <1>11,
      <1>12, <1>13, <1>14, <1>15, <1>16, <1>17, <1>18, <1>19, <1>20, <1>21,
      <1>22, <1>23, <1>24
  DEF Next, Handle, Refresh, Step, Actors

LEMMA InitType == Init => TypeOK
<1> SUFFICES ASSUME Init PROVE TypeOK
  OBVIOUS
<1> USE DEF Init, InitMemory
<1>1. Shapes
  <2>1. upstream \in Versions /\ now \in 0 .. MaxTime
    BY BoundAssumption DEF Versions
  <2>2. pc \in [Actors -> ClientPC \cup TaskPC]
    BY DEF ClientPC, TaskPC
  <2>3. \A c \in Clients : pc[c] \in ClientPC
    BY DEF ClientPC, Actors
  <2>4. \A t \in Tasks : pc[t] \in TaskPC
    BY ActorAssumption DEF TaskPC, Actors
  <2> QED
    BY <2>1, <2>2, <2>3, <2>4 DEF Shapes
<1>2. HasPage
  BY ActorAssumption DEF HasPage, Actors
<1>3. OfIndexed
  BY DEF OfIndexed
<1> QED
  BY <1>1, <1>2, <1>3, Parts

LEMMA TypeStep == TypeOK /\ [Next]_vars => TypeOK'
<1>1. Shapes /\ HasPage /\ OfIndexed /\ [Next]_vars
      => Shapes' /\ HasPage' /\ OfIndexed'
  BY ShapesStep, HasPageStep, OfIndexedStep
<1>2. TypeOK' <=> Shapes' /\ HasPage' /\ OfIndexed'
  BY DEF TypeOK, Shapes, HasPage, OfIndexed
<1> QED
  BY <1>1, <1>2, Parts

(* Type correctness (server.rs:1051-1491).                                 *)
THEOREM TypeCorrect == Spec => []TypeOK
<1>1. TypeOK /\ [Next]_vars => TypeOK'
  BY TypeStep
<1> QED
  BY <1>1, InitType, PTL DEF Spec

-----------------------------------------------------------------------------
LEMMA OneRefreshStep == TypeOK /\ OneRefresh /\ [Next]_vars => OneRefresh'
<1> SUFFICES ASSUME Shapes, OneRefresh, [Next]_vars PROVE OneRefresh'
  BY Parts
<1> USE ActorAssumption
    DEF Shapes, OneRefresh, Actors, Goto, Keep, localVars,
        Forget, DropGuard, storeVars, worldVars
<1>1. ASSUME NEW c \in Clients, Request(c) PROVE OneRefresh'
  BY <1>1 DEF Request
<1>2. ASSUME NEW c \in Clients, LookHot(c) PROVE OneRefresh'
  BY <1>2 DEF LookHot, Judge
<1>3. ASSUME NEW c \in Clients, LoadResponses(c) PROVE OneRefresh'
  BY <1>3 DEF LoadResponses, Materialized
<1>4. ASSUME NEW c \in Clients, NotModified(c) PROVE OneRefresh'
  BY <1>4 DEF NotModified, Judge
<1>5. ASSUME NEW c \in Clients, Spawn(c) PROVE OneRefresh'
  BY <1>5 DEF Spawn
<1>6. ASSUME NEW a \in Actors, Lock(a) PROVE OneRefresh'
  BY <1>6 DEF Lock, LockFree
<1>7. ASSUME NEW a \in Actors, LoadRow(a) PROVE OneRefresh'
  BY <1>7 DEF LoadRow, Indexed
<1>8. ASSUME NEW a \in Actors, LoadLinks(a) PROVE OneRefresh'
  BY <1>8 DEF LoadLinks
<1>9. ASSUME NEW t \in Tasks, LoadFails(t) PROVE OneRefresh'
  BY <1>9 DEF LoadFails
<1>10. ASSUME NEW a \in Actors, Fetch(a) PROVE OneRefresh'
  BY <1>10 DEF Fetch, Got
<1>11. ASSUME NEW a \in Actors, Store(a) PROVE OneRefresh'
  BY <1>11 DEF Store, WriteRow
<1>12. ASSUME NEW t \in Tasks, Touch(t) PROVE OneRefresh'
  BY <1>12 DEF Touch
<1>13. ASSUME NEW t \in Tasks, WriteFails(t) PROVE OneRefresh'
  BY <1>13 DEF WriteFails
<1>14. ASSUME NEW a \in Actors, StoreResponses(a) PROVE OneRefresh'
  BY <1>14 DEF StoreResponses, Rendered
<1>15. ASSUME NEW a \in Actors, CacheHot(a) PROVE OneRefresh'
  BY <1>15 DEF CacheHot, Rendered, Judge
<1>16. ASSUME NEW t \in Tasks, EndRefresh(t) PROVE OneRefresh'
  BY <1>16 DEF EndRefresh, Unregister
<1>17. ASSUME NEW c \in Clients, Leave(c) PROVE OneRefresh'
  BY <1>17 DEF Leave, Leaves, Rendered, AwaitPC
<1>18. ASSUME LateWrite PROVE OneRefresh'
  BY <1>18 DEF LateWrite, WriteRow
<1>19. ASSUME Crash PROVE OneRefresh'
  BY <1>19 DEF Crash, InitMemory
<1>20. ASSUME DeleteResponses PROVE OneRefresh'
  BY <1>20 DEF DeleteResponses
<1>21. ASSUME InvalidateHot PROVE OneRefresh'
  BY <1>21 DEF InvalidateHot
<1>22. ASSUME Publish PROVE OneRefresh'
  BY <1>22 DEF Publish
<1>23. ASSUME Tick PROVE OneRefresh'
  BY <1>23 DEF Tick
<1>24. CASE UNCHANGED vars
  BY <1>24 DEF vars
<1> QED
  BY <1>1, <1>2, <1>3, <1>4, <1>5, <1>6, <1>7, <1>8, <1>9, <1>10, <1>11,
      <1>12, <1>13, <1>14, <1>15, <1>16, <1>17, <1>18, <1>19, <1>20, <1>21,
      <1>22, <1>23, <1>24
  DEF Next, Handle, Refresh, Step, Actors

(* At most one refresh of a project lives, for any number of requests that *)
(* find its page stale (server.rs:1184-1220).                              *)
THEOREM OneRefreshAtATime == Spec => []OneRefresh
<1>1. Init => OneRefresh
  BY ActorAssumption DEF Init, InitMemory, OneRefresh, Actors
<1>2. TypeOK /\ OneRefresh /\ [Next]_vars => OneRefresh'
  BY OneRefreshStep
<1> QED
  BY <1>1, <1>2, TypeCorrect, PTL DEF Spec

-----------------------------------------------------------------------------
(* The index keeps what it knows. *)
KnownStays == \A c \in Clients : known[c] => row # None

LEMMA KnownStep ==
  TypeOK /\ KnownStays /\ KnownNeverWaits /\ [Next]_vars
  => KnownStays' /\ KnownNeverWaits'
<1> SUFFICES ASSUME Shapes, HasPage, OfIndexed, KnownStays, KnownNeverWaits, [Next]_vars
             PROVE  KnownStays' /\ KnownNeverWaits'
  BY Parts
<1> USE ActorAssumption, PageOf
    DEF Shapes, HasPage, OfIndexed, KnownStays, KnownNeverWaits, Actors, Write,
        Goto, Keep, localVars,
        Forget, DropGuard, storeVars, worldVars
<1>1. ASSUME NEW c \in Clients, Request(c)
      PROVE  KnownStays' /\ KnownNeverWaits'
  BY <1>1 DEF Request
<1>2. ASSUME NEW c \in Clients, LookHot(c)
      PROVE  KnownStays' /\ KnownNeverWaits'
  BY <1>2 DEF LookHot, Judge
<1>3. ASSUME NEW c \in Clients, LoadResponses(c)
      PROVE  KnownStays' /\ KnownNeverWaits'
  BY <1>3 DEF LoadResponses, Materialized
<1>4. ASSUME NEW c \in Clients, NotModified(c)
      PROVE  KnownStays' /\ KnownNeverWaits'
  BY <1>4 DEF NotModified, Judge
<1>5. ASSUME NEW c \in Clients, Spawn(c) PROVE KnownStays' /\ KnownNeverWaits'
  BY <1>5 DEF Spawn
<1>6. ASSUME NEW a \in Actors, Lock(a) PROVE KnownStays' /\ KnownNeverWaits'
  BY <1>6 DEF Lock, LockFree
<1>7. ASSUME NEW a \in Actors, LoadRow(a) PROVE KnownStays' /\ KnownNeverWaits'
  BY <1>7 DEF LoadRow, Indexed
<1>8. ASSUME NEW a \in Actors, LoadLinks(a)
      PROVE  KnownStays' /\ KnownNeverWaits'
  BY <1>8 DEF LoadLinks
<1>9. ASSUME NEW t \in Tasks, LoadFails(t)
      PROVE  KnownStays' /\ KnownNeverWaits'
  BY <1>9 DEF LoadFails
<1>10. ASSUME NEW a \in Actors, Fetch(a) PROVE KnownStays' /\ KnownNeverWaits'
  BY <1>10 DEF Fetch, Got
<1>11. ASSUME NEW a \in Actors, Store(a) PROVE KnownStays' /\ KnownNeverWaits'
  BY <1>11 DEF Store, WriteRow
<1>12. ASSUME NEW t \in Tasks, Touch(t) PROVE KnownStays' /\ KnownNeverWaits'
  BY <1>12 DEF Touch
<1>13. ASSUME NEW t \in Tasks, WriteFails(t)
      PROVE  KnownStays' /\ KnownNeverWaits'
  BY <1>13 DEF WriteFails
<1>14. ASSUME NEW a \in Actors, StoreResponses(a)
      PROVE  KnownStays' /\ KnownNeverWaits'
  BY <1>14 DEF StoreResponses, Rendered
<1>15. ASSUME NEW a \in Actors, CacheHot(a)
      PROVE  KnownStays' /\ KnownNeverWaits'
  BY <1>15 DEF CacheHot, Rendered, Judge
<1>16. ASSUME NEW t \in Tasks, EndRefresh(t)
      PROVE  KnownStays' /\ KnownNeverWaits'
  BY <1>16 DEF EndRefresh, Unregister
<1>17. ASSUME NEW c \in Clients, Leave(c) PROVE KnownStays' /\ KnownNeverWaits'
  BY <1>17 DEF Leave, Leaves, Rendered, AwaitPC
<1>18. ASSUME LateWrite PROVE KnownStays' /\ KnownNeverWaits'
  BY <1>18 DEF LateWrite, WriteRow
<1>19. ASSUME Crash PROVE KnownStays' /\ KnownNeverWaits'
  BY <1>19 DEF Crash, InitMemory
<1>20. ASSUME DeleteResponses PROVE KnownStays' /\ KnownNeverWaits'
  BY <1>20 DEF DeleteResponses
<1>21. ASSUME InvalidateHot PROVE KnownStays' /\ KnownNeverWaits'
  BY <1>21 DEF InvalidateHot
<1>22. ASSUME Publish PROVE KnownStays' /\ KnownNeverWaits'
  BY <1>22 DEF Publish
<1>23. ASSUME Tick PROVE KnownStays' /\ KnownNeverWaits'
  BY <1>23 DEF Tick
<1>24. CASE UNCHANGED vars
  BY <1>24 DEF vars
<1> QED
  BY <1>1, <1>2, <1>3, <1>4, <1>5, <1>6, <1>7, <1>8, <1>9, <1>10, <1>11,
      <1>12, <1>13, <1>14, <1>15, <1>16, <1>17, <1>18, <1>19, <1>20, <1>21,
      <1>22, <1>23, <1>24
  DEF Next, Handle, Refresh, Step, Actors

(* A request for a project that is in the index never waits for a refresh  *)
(* or for the upstream (server.rs:1059-1128).                              *)
THEOREM KnownIsServed == Spec => []KnownNeverWaits
<1>1. Init => KnownStays /\ KnownNeverWaits
  BY DEF Init, InitMemory, KnownStays, KnownNeverWaits, Actors
<1>2. TypeOK /\ KnownStays /\ KnownNeverWaits /\ [Next]_vars
      => KnownStays' /\ KnownNeverWaits'
  BY KnownStep
<1> QED
  BY <1>1, <1>2, TypeCorrect, PTL DEF Spec

-----------------------------------------------------------------------------
(* Who uses the upstream or writes what it said holds the lock. *)
Locked ==
  /\ \A a \in Actors :
       pc[a] \in {"fetch", "store", "touch", "respondFetched", "cacheFetched"} => lock = a
  /\ \A t \in Tasks : pc[t] \in {"row", "links"} => lock = t

(* Nothing is newer than the upstream. *)
UpTo ==
  /\ row # None => row.version <= upstream
  /\ \A w \in late : w.to = "row" => w.page.version <= upstream
  /\ \A a \in Actors : pc[a] = "store" => fetched[a].version <= upstream

Newest ==
  \A a \in Actors : pc[a] = "store" =>
    /\ row # None => row.version <= fetched[a].version
    /\ \A w \in late : w.to = "row" => w.page.version <= fetched[a].version

AdvInv == TypeOK /\ Locked /\ UpTo /\ Newest

LEMMA LockedStep == TypeOK /\ Locked /\ [Next]_vars => Locked'
<1> SUFFICES ASSUME Shapes, Locked, [Next]_vars PROVE Locked'
  BY Parts
<1> USE ActorAssumption, NoneAssumption
    DEF Shapes, Locked, Actors, Goto, Keep, localVars,
        Forget, DropGuard, storeVars, worldVars
<1>1. ASSUME NEW c \in Clients, Request(c) PROVE Locked'
  BY <1>1 DEF Request
<1>2. ASSUME NEW c \in Clients, LookHot(c) PROVE Locked'
  BY <1>2 DEF LookHot, Judge
<1>3. ASSUME NEW c \in Clients, LoadResponses(c) PROVE Locked'
  BY <1>3 DEF LoadResponses, Materialized
<1>4. ASSUME NEW c \in Clients, NotModified(c) PROVE Locked'
  BY <1>4 DEF NotModified, Judge
<1>5. ASSUME NEW c \in Clients, Spawn(c) PROVE Locked'
  BY <1>5 DEF Spawn
<1>6. ASSUME NEW a \in Actors, Lock(a) PROVE Locked'
  BY <1>6 DEF Lock, LockFree
<1>7. ASSUME NEW a \in Actors, LoadRow(a) PROVE Locked'
  BY <1>7 DEF LoadRow, Indexed
<1>8. ASSUME NEW a \in Actors, LoadLinks(a) PROVE Locked'
  BY <1>8 DEF LoadLinks
<1>9. ASSUME NEW t \in Tasks, LoadFails(t) PROVE Locked'
  BY <1>9 DEF LoadFails
<1>10. ASSUME NEW a \in Actors, Fetch(a) PROVE Locked'
  BY <1>10 DEF Fetch, Got
<1>11. ASSUME NEW a \in Actors, Store(a) PROVE Locked'
  BY <1>11 DEF Store, WriteRow
<1>12. ASSUME NEW t \in Tasks, Touch(t) PROVE Locked'
  BY <1>12 DEF Touch
<1>13. ASSUME NEW t \in Tasks, WriteFails(t) PROVE Locked'
  BY <1>13 DEF WriteFails
<1>14. ASSUME NEW a \in Actors, StoreResponses(a) PROVE Locked'
  BY <1>14 DEF StoreResponses, Rendered
<1>15. ASSUME NEW a \in Actors, CacheHot(a) PROVE Locked'
  BY <1>15 DEF CacheHot, Rendered, Judge
<1>16. ASSUME NEW t \in Tasks, EndRefresh(t) PROVE Locked'
  BY <1>16 DEF EndRefresh, Unregister
<1>17. ASSUME NEW c \in Clients, Leave(c) PROVE Locked'
  BY <1>17 DEF Leave, Leaves, Rendered, AwaitPC
<1>18. ASSUME LateWrite PROVE Locked'
  BY <1>18 DEF LateWrite, WriteRow
<1>19. ASSUME Crash PROVE Locked'
  BY <1>19 DEF Crash, InitMemory
<1>20. ASSUME DeleteResponses PROVE Locked'
  BY <1>20 DEF DeleteResponses
<1>21. ASSUME InvalidateHot PROVE Locked'
  BY <1>21 DEF InvalidateHot
<1>22. ASSUME Publish PROVE Locked'
  BY <1>22 DEF Publish
<1>23. ASSUME Tick PROVE Locked'
  BY <1>23 DEF Tick
<1>24. CASE UNCHANGED vars
  BY <1>24 DEF vars
<1> QED
  BY <1>1, <1>2, <1>3, <1>4, <1>5, <1>6, <1>7, <1>8, <1>9, <1>10, <1>11,
      <1>12, <1>13, <1>14, <1>15, <1>16, <1>17, <1>18, <1>19, <1>20, <1>21,
      <1>22, <1>23, <1>24
  DEF Next, Handle, Refresh, Step, Actors

LEMMA UpToStep == AdvInv /\ [Next]_vars => UpTo'
<1> SUFFICES ASSUME Shapes, HasPage, OfIndexed, UpTo, [Next]_vars PROVE UpTo'
  BY Parts DEF AdvInv
<1> USE ActorAssumption, PageOf
    DEF Shapes, HasPage, OfIndexed, UpTo, Actors, Versions, Page, Write,
        Goto, Keep, localVars,
        Forget, DropGuard, storeVars, worldVars
<1>1. ASSUME NEW c \in Clients, Request(c) PROVE UpTo'
  BY <1>1 DEF Request
<1>2. ASSUME NEW c \in Clients, LookHot(c) PROVE UpTo'
  BY <1>2 DEF LookHot, Judge
<1>3. ASSUME NEW c \in Clients, LoadResponses(c) PROVE UpTo'
  BY <1>3 DEF LoadResponses, Materialized
<1>4. ASSUME NEW c \in Clients, NotModified(c) PROVE UpTo'
  BY <1>4 DEF NotModified, Judge
<1>5. ASSUME NEW c \in Clients, Spawn(c) PROVE UpTo'
  BY <1>5 DEF Spawn
<1>6. ASSUME NEW a \in Actors, Lock(a) PROVE UpTo'
  BY <1>6 DEF Lock, LockFree
<1>7. ASSUME NEW a \in Actors, LoadRow(a) PROVE UpTo'
  BY <1>7 DEF LoadRow, Indexed
<1>8. ASSUME NEW a \in Actors, LoadLinks(a) PROVE UpTo'
  BY <1>8 DEF LoadLinks
<1>9. ASSUME NEW t \in Tasks, LoadFails(t) PROVE UpTo'
  BY <1>9 DEF LoadFails
<1>10. ASSUME NEW a \in Actors, Fetch(a) PROVE UpTo'
  BY <1>10 DEF Fetch, Got
<1>11. ASSUME NEW a \in Actors, Store(a) PROVE UpTo'
  BY <1>11 DEF Store, WriteRow
<1>12. ASSUME NEW t \in Tasks, Touch(t) PROVE UpTo'
  BY <1>12 DEF Touch
<1>13. ASSUME NEW t \in Tasks, WriteFails(t) PROVE UpTo'
  BY <1>13 DEF WriteFails
<1>14. ASSUME NEW a \in Actors, StoreResponses(a) PROVE UpTo'
  BY <1>14 DEF StoreResponses, Rendered
<1>15. ASSUME NEW a \in Actors, CacheHot(a) PROVE UpTo'
  BY <1>15 DEF CacheHot, Rendered, Judge
<1>16. ASSUME NEW t \in Tasks, EndRefresh(t) PROVE UpTo'
  BY <1>16 DEF EndRefresh, Unregister
<1>17. ASSUME NEW c \in Clients, Leave(c) PROVE UpTo'
  BY <1>17 DEF Leave, Leaves, Rendered, AwaitPC
<1>18. ASSUME LateWrite PROVE UpTo'
  BY <1>18 DEF LateWrite, WriteRow
<1>19. ASSUME Crash PROVE UpTo'
  BY <1>19 DEF Crash, InitMemory
<1>20. ASSUME DeleteResponses PROVE UpTo'
  BY <1>20 DEF DeleteResponses
<1>21. ASSUME InvalidateHot PROVE UpTo'
  BY <1>21 DEF InvalidateHot
<1>22. ASSUME Publish PROVE UpTo'
  BY <1>22 DEF Publish
<1>23. ASSUME Tick PROVE UpTo'
  BY <1>23 DEF Tick
<1>24. CASE UNCHANGED vars
  BY <1>24 DEF vars
<1> QED
  BY <1>1, <1>2, <1>3, <1>4, <1>5, <1>6, <1>7, <1>8, <1>9, <1>10, <1>11,
      <1>12, <1>13, <1>14, <1>15, <1>16, <1>17, <1>18, <1>19, <1>20, <1>21,
      <1>22, <1>23, <1>24
  DEF Next, Handle, Refresh, Step, Actors

LEMMA NewestStep == AdvInv /\ [Next]_vars => Newest'
<1> SUFFICES ASSUME Shapes, HasPage, OfIndexed, Locked, UpTo, Newest, [Next]_vars
             PROVE  Newest'
  BY Parts DEF AdvInv
<1> USE ActorAssumption, NoneAssumption, PageOf
    DEF Shapes, HasPage, OfIndexed, Locked, UpTo, Newest, Actors, Versions, Page,
        Write, Goto, Keep, localVars,
        Forget, DropGuard, storeVars, worldVars
<1>1. ASSUME NEW c \in Clients, Request(c) PROVE Newest'
  BY <1>1 DEF Request
<1>2. ASSUME NEW c \in Clients, LookHot(c) PROVE Newest'
  BY <1>2 DEF LookHot, Judge
<1>3. ASSUME NEW c \in Clients, LoadResponses(c) PROVE Newest'
  BY <1>3 DEF LoadResponses, Materialized
<1>4. ASSUME NEW c \in Clients, NotModified(c) PROVE Newest'
  BY <1>4 DEF NotModified, Judge
<1>5. ASSUME NEW c \in Clients, Spawn(c) PROVE Newest'
  BY <1>5 DEF Spawn
<1>6. ASSUME NEW a \in Actors, Lock(a) PROVE Newest'
  BY <1>6 DEF Lock, LockFree
<1>7. ASSUME NEW a \in Actors, LoadRow(a) PROVE Newest'
  BY <1>7 DEF LoadRow, Indexed
<1>8. ASSUME NEW a \in Actors, LoadLinks(a) PROVE Newest'
  BY <1>8 DEF LoadLinks
<1>9. ASSUME NEW t \in Tasks, LoadFails(t) PROVE Newest'
  BY <1>9 DEF LoadFails
<1>10. ASSUME NEW a \in Actors, Fetch(a) PROVE Newest'
  BY <1>10 DEF Fetch, Got
<1>11. ASSUME NEW a \in Actors, Store(a) PROVE Newest'
  BY <1>11 DEF Store, WriteRow
<1>12. ASSUME NEW t \in Tasks, Touch(t) PROVE Newest'
  BY <1>12 DEF Touch
<1>13. ASSUME NEW t \in Tasks, WriteFails(t) PROVE Newest'
  BY <1>13 DEF WriteFails
<1>14. ASSUME NEW a \in Actors, StoreResponses(a) PROVE Newest'
  BY <1>14 DEF StoreResponses, Rendered
<1>15. ASSUME NEW a \in Actors, CacheHot(a) PROVE Newest'
  BY <1>15 DEF CacheHot, Rendered, Judge
<1>16. ASSUME NEW t \in Tasks, EndRefresh(t) PROVE Newest'
  BY <1>16 DEF EndRefresh, Unregister
<1>17. ASSUME NEW c \in Clients, Leave(c) PROVE Newest'
  BY <1>17 DEF Leave, Leaves, Rendered, AwaitPC
<1>18. ASSUME LateWrite PROVE Newest'
  BY <1>18 DEF LateWrite, WriteRow
<1>19. ASSUME Crash PROVE Newest'
  BY <1>19 DEF Crash, InitMemory
<1>20. ASSUME DeleteResponses PROVE Newest'
  BY <1>20 DEF DeleteResponses
<1>21. ASSUME InvalidateHot PROVE Newest'
  BY <1>21 DEF InvalidateHot
<1>22. ASSUME Publish PROVE Newest'
  BY <1>22 DEF Publish
<1>23. ASSUME Tick PROVE Newest'
  BY <1>23 DEF Tick
<1>24. CASE UNCHANGED vars
  BY <1>24 DEF vars
<1> QED
  BY <1>1, <1>2, <1>3, <1>4, <1>5, <1>6, <1>7, <1>8, <1>9, <1>10, <1>11,
      <1>12, <1>13, <1>14, <1>15, <1>16, <1>17, <1>18, <1>19, <1>20, <1>21,
      <1>22, <1>23, <1>24
  DEF Next, Handle, Refresh, Step, Actors

(* What IndexAdvances says of one step. *)
Advances ==
  row # None /\ row' # None /\ late \subseteq late' => row'.version >= row.version

LEMMA AdvancesStep == AdvInv /\ [Next]_vars => [Advances]_vars
<1> SUFFICES ASSUME Shapes, HasPage, OfIndexed, Newest, [Next]_vars,
                    row # None, row' # None, late \subseteq late'
             PROVE  row'.version >= row.version
  BY Parts DEF AdvInv, Advances
<1> USE ActorAssumption, PageOf
    DEF Shapes, HasPage, OfIndexed, Newest, Actors, Versions, Page, Write,
        Goto, Keep, localVars,
        Forget, DropGuard, storeVars, worldVars
<1>1. ASSUME NEW c \in Clients, Request(c) PROVE row'.version >= row.version
  BY <1>1 DEF Request
<1>2. ASSUME NEW c \in Clients, LookHot(c) PROVE row'.version >= row.version
  BY <1>2 DEF LookHot, Judge
<1>3. ASSUME NEW c \in Clients, LoadResponses(c)
      PROVE  row'.version >= row.version
  BY <1>3 DEF LoadResponses, Materialized
<1>4. ASSUME NEW c \in Clients, NotModified(c)
      PROVE  row'.version >= row.version
  BY <1>4 DEF NotModified, Judge
<1>5. ASSUME NEW c \in Clients, Spawn(c) PROVE row'.version >= row.version
  BY <1>5 DEF Spawn
<1>6. ASSUME NEW a \in Actors, Lock(a) PROVE row'.version >= row.version
  BY <1>6 DEF Lock, LockFree
<1>7. ASSUME NEW a \in Actors, LoadRow(a) PROVE row'.version >= row.version
  BY <1>7 DEF LoadRow, Indexed
<1>8. ASSUME NEW a \in Actors, LoadLinks(a) PROVE row'.version >= row.version
  BY <1>8 DEF LoadLinks
<1>9. ASSUME NEW t \in Tasks, LoadFails(t) PROVE row'.version >= row.version
  BY <1>9 DEF LoadFails
<1>10. ASSUME NEW a \in Actors, Fetch(a) PROVE row'.version >= row.version
  BY <1>10 DEF Fetch, Got
<1>11. ASSUME NEW a \in Actors, Store(a) PROVE row'.version >= row.version
  BY <1>11 DEF Store, WriteRow
<1>12. ASSUME NEW t \in Tasks, Touch(t) PROVE row'.version >= row.version
  BY <1>12 DEF Touch
<1>13. ASSUME NEW t \in Tasks, WriteFails(t) PROVE row'.version >= row.version
  BY <1>13 DEF WriteFails
<1>14. ASSUME NEW a \in Actors, StoreResponses(a)
      PROVE  row'.version >= row.version
  BY <1>14 DEF StoreResponses, Rendered
<1>15. ASSUME NEW a \in Actors, CacheHot(a) PROVE row'.version >= row.version
  BY <1>15 DEF CacheHot, Rendered, Judge
<1>16. ASSUME NEW t \in Tasks, EndRefresh(t) PROVE row'.version >= row.version
  BY <1>16 DEF EndRefresh, Unregister
<1>17. ASSUME NEW c \in Clients, Leave(c) PROVE row'.version >= row.version
  BY <1>17 DEF Leave, Leaves, Rendered, AwaitPC
<1>18. ASSUME LateWrite PROVE row'.version >= row.version
  BY <1>18 DEF LateWrite, WriteRow
<1>19. ASSUME Crash PROVE row'.version >= row.version
  BY <1>19 DEF Crash, InitMemory
<1>20. ASSUME DeleteResponses PROVE row'.version >= row.version
  BY <1>20 DEF DeleteResponses
<1>21. ASSUME InvalidateHot PROVE row'.version >= row.version
  BY <1>21 DEF InvalidateHot
<1>22. ASSUME Publish PROVE row'.version >= row.version
  BY <1>22 DEF Publish
<1>23. ASSUME Tick PROVE row'.version >= row.version
  BY <1>23 DEF Tick
<1>24. CASE UNCHANGED vars
  BY <1>24 DEF vars
<1> QED
  BY <1>1, <1>2, <1>3, <1>4, <1>5, <1>6, <1>7, <1>8, <1>9, <1>10, <1>11,
      <1>12, <1>13, <1>14, <1>15, <1>16, <1>17, <1>18, <1>19, <1>20, <1>21,
      <1>22, <1>23, <1>24
  DEF Next, Handle, Refresh, Step, Actors

LEMMA InitAdv == Init => AdvInv
<1>1. Init => Locked /\ UpTo /\ Newest
  BY ActorAssumption DEF Init, InitMemory, Locked, UpTo, Newest, Actors
<1> QED
  BY <1>1, InitType DEF AdvInv

LEMMA AdvStep == AdvInv /\ [Next]_vars => AdvInv'
  BY TypeStep, LockedStep, UpToStep, NewestStep DEF AdvInv

(* The index never goes back to an older page of its project, but for a    *)
(* write that a dropped handler left behind (server.rs:1130-1174).         *)
THEOREM NeverBack == Spec => IndexAdvances
<1>1. AdvInv /\ [Next]_vars => [Advances]_vars
  BY AdvancesStep
<1> QED
  BY <1>1, InitAdv, AdvStep, PTL DEF Spec, IndexAdvances, Advances

-----------------------------------------------------------------------------
(* The page in memory. What somebody has in hand, what is rendered and what*)
(* is in memory is the page of the index: as long as nobody was overtaken, *)
(* and but for the task that has just written the index.                   *)
Stored == {"respondFetched", "cacheFetched"}

HandsCurrent ==
  \A a \in Actors :
    /\ hand[a] # None => hand[a] = row \/ pc[a] \in Stored
    /\ pc[a] \in Stored => fetched[a] = row /\ row # None
    /\ pc[a] = "touch" => fetched[a].version = hand[a].version
    /\ a \in Clients /\ pc[a] \in {"fetch", "store"} => row = None

BodiesCurrent ==
  /\ \A w \in late : w.to = "resp" => row # None /\ w.page.version = row.version
  /\ resp # None => resp = row.version

MemoryCurrent ==
  \/ hot = None
  \/ row # None /\ (hot = row \/ row.version \in Oversized)
  \/ row # None /\ \E t \in Tasks : pc[t] \in Stored

HotInv == ~overtaken => HandsCurrent /\ BodiesCurrent /\ MemoryCurrent

(* A page is its version and its expiry. *)
LEMMA PageIs ==
  ASSUME NEW p \in Page, NEW q \in Page, p.version = q.version
  PROVE  /\ p.expires = q.expires => p = q
         /\ [p EXCEPT !.version = q.version] = p
         /\ [q EXCEPT !.expires = p.expires] = p
         /\ [version |-> q.version, expires |-> p.expires] = p
BY DEF Page

LEMMA HandsStep ==
  ASSUME AdvInv, HandsCurrent, BodiesCurrent, MemoryCurrent, [Next]_vars, ~Overtakes
  PROVE  HandsCurrent'
<1> USE ActorAssumption, NoneAssumption, PageOf, PageIs, Parts
    DEF AdvInv, Shapes, HasPage, OfIndexed, Locked, Overtakes, HandsCurrent, BodiesCurrent,
        Actors, Stored, Write, Goto, Keep, localVars,
        Forget, DropGuard, storeVars, worldVars
<1>1. ASSUME NEW c \in Clients, Request(c) PROVE HandsCurrent'
  BY <1>1 DEF Request
<1>2. ASSUME NEW c \in Clients, LookHot(c) PROVE HandsCurrent'
  BY <1>2 DEF LookHot, Judge
<1>3. ASSUME NEW c \in Clients, LoadResponses(c) PROVE HandsCurrent'
  BY <1>3 DEF LoadResponses, Materialized
<1>4. ASSUME NEW c \in Clients, NotModified(c) PROVE HandsCurrent'
  BY <1>4 DEF NotModified, Judge
<1>5. ASSUME NEW c \in Clients, Spawn(c) PROVE HandsCurrent'
  BY <1>5 DEF Spawn
<1>6. ASSUME NEW a \in Actors, Lock(a) PROVE HandsCurrent'
  BY <1>6 DEF Lock, LockFree
<1>7. ASSUME NEW a \in Actors, LoadRow(a) PROVE HandsCurrent'
  BY <1>7 DEF LoadRow, Indexed
<1>8. ASSUME NEW a \in Actors, LoadLinks(a) PROVE HandsCurrent'
  BY <1>8 DEF LoadLinks
<1>9. ASSUME NEW t \in Tasks, LoadFails(t) PROVE HandsCurrent'
  BY <1>9 DEF LoadFails
<1>10. ASSUME NEW a \in Actors, Fetch(a) PROVE HandsCurrent'
  BY <1>10 DEF Fetch, Got
<1>11. ASSUME NEW a \in Actors, Store(a) PROVE HandsCurrent'
  BY <1>11 DEF Store, WriteRow
<1>12. ASSUME NEW t \in Tasks, Touch(t) PROVE HandsCurrent'
  BY <1>12 DEF Touch
<1>13. ASSUME NEW t \in Tasks, WriteFails(t) PROVE HandsCurrent'
  BY <1>13 DEF WriteFails
<1>14. ASSUME NEW a \in Actors, StoreResponses(a) PROVE HandsCurrent'
  BY <1>14 DEF StoreResponses, Rendered
<1>15. ASSUME NEW a \in Actors, CacheHot(a) PROVE HandsCurrent'
  BY <1>15 DEF CacheHot, Rendered, Judge
<1>16. ASSUME NEW t \in Tasks, EndRefresh(t) PROVE HandsCurrent'
  BY <1>16 DEF EndRefresh, Unregister
<1>17. ASSUME NEW c \in Clients, Leave(c) PROVE HandsCurrent'
  BY <1>17 DEF Leave, Leaves, Rendered, AwaitPC
<1>18. ASSUME LateWrite PROVE HandsCurrent'
  BY <1>18 DEF LateWrite, WriteRow
<1>19. ASSUME Crash PROVE HandsCurrent'
  BY <1>19 DEF Crash, InitMemory
<1>20. ASSUME DeleteResponses PROVE HandsCurrent'
  BY <1>20 DEF DeleteResponses
<1>21. ASSUME InvalidateHot PROVE HandsCurrent'
  BY <1>21 DEF InvalidateHot
<1>22. ASSUME Publish PROVE HandsCurrent'
  BY <1>22 DEF Publish
<1>23. ASSUME Tick PROVE HandsCurrent'
  BY <1>23 DEF Tick
<1>24. CASE UNCHANGED vars
  BY <1>24 DEF vars
<1> QED
  BY <1>1, <1>2, <1>3, <1>4, <1>5, <1>6, <1>7, <1>8, <1>9, <1>10, <1>11,
      <1>12, <1>13, <1>14, <1>15, <1>16, <1>17, <1>18, <1>19, <1>20, <1>21,
      <1>22, <1>23, <1>24
  DEF Next, Handle, Refresh, Step, Actors

LEMMA BodiesStep ==
  ASSUME AdvInv, HandsCurrent, BodiesCurrent, MemoryCurrent, [Next]_vars, ~Overtakes
  PROVE  BodiesCurrent'
<1> USE ActorAssumption, NoneAssumption, PageOf, PageIs, Parts
    DEF AdvInv, Shapes, HasPage, OfIndexed, Locked, Overtakes, HandsCurrent, BodiesCurrent,
        Actors, Stored, Write, Goto, Keep, localVars,
        Forget, DropGuard, storeVars, worldVars
<1>1. ASSUME NEW c \in Clients, Request(c) PROVE BodiesCurrent'
  BY <1>1 DEF Request
<1>2. ASSUME NEW c \in Clients, LookHot(c) PROVE BodiesCurrent'
  BY <1>2 DEF LookHot, Judge
<1>3. ASSUME NEW c \in Clients, LoadResponses(c) PROVE BodiesCurrent'
  BY <1>3 DEF LoadResponses, Materialized
<1>4. ASSUME NEW c \in Clients, NotModified(c) PROVE BodiesCurrent'
  BY <1>4 DEF NotModified, Judge
<1>5. ASSUME NEW c \in Clients, Spawn(c) PROVE BodiesCurrent'
  BY <1>5 DEF Spawn
<1>6. ASSUME NEW a \in Actors, Lock(a) PROVE BodiesCurrent'
  BY <1>6 DEF Lock, LockFree
<1>7. ASSUME NEW a \in Actors, LoadRow(a) PROVE BodiesCurrent'
  BY <1>7 DEF LoadRow, Indexed
<1>8. ASSUME NEW a \in Actors, LoadLinks(a) PROVE BodiesCurrent'
  BY <1>8 DEF LoadLinks
<1>9. ASSUME NEW t \in Tasks, LoadFails(t) PROVE BodiesCurrent'
  BY <1>9 DEF LoadFails
<1>10. ASSUME NEW a \in Actors, Fetch(a) PROVE BodiesCurrent'
  BY <1>10 DEF Fetch, Got
<1>11. ASSUME NEW a \in Actors, Store(a) PROVE BodiesCurrent'
  BY <1>11 DEF Store, WriteRow
<1>12. ASSUME NEW t \in Tasks, Touch(t) PROVE BodiesCurrent'
  BY <1>12 DEF Touch
<1>13. ASSUME NEW t \in Tasks, WriteFails(t) PROVE BodiesCurrent'
  BY <1>13 DEF WriteFails
<1>14. ASSUME NEW a \in Actors, StoreResponses(a) PROVE BodiesCurrent'
  BY <1>14 DEF StoreResponses, Rendered
<1>15. ASSUME NEW a \in Actors, CacheHot(a) PROVE BodiesCurrent'
  BY <1>15 DEF CacheHot, Rendered, Judge
<1>16. ASSUME NEW t \in Tasks, EndRefresh(t) PROVE BodiesCurrent'
  BY <1>16 DEF EndRefresh, Unregister
<1>17. ASSUME NEW c \in Clients, Leave(c) PROVE BodiesCurrent'
  BY <1>17 DEF Leave, Leaves, Rendered, AwaitPC
<1>18. ASSUME LateWrite PROVE BodiesCurrent'
  BY <1>18 DEF LateWrite, WriteRow
<1>19. ASSUME Crash PROVE BodiesCurrent'
  BY <1>19 DEF Crash, InitMemory
<1>20. ASSUME DeleteResponses PROVE BodiesCurrent'
  BY <1>20 DEF DeleteResponses
<1>21. ASSUME InvalidateHot PROVE BodiesCurrent'
  BY <1>21 DEF InvalidateHot
<1>22. ASSUME Publish PROVE BodiesCurrent'
  BY <1>22 DEF Publish
<1>23. ASSUME Tick PROVE BodiesCurrent'
  BY <1>23 DEF Tick
<1>24. CASE UNCHANGED vars
  BY <1>24 DEF vars
<1> QED
  BY <1>1, <1>2, <1>3, <1>4, <1>5, <1>6, <1>7, <1>8, <1>9, <1>10, <1>11,
      <1>12, <1>13, <1>14, <1>15, <1>16, <1>17, <1>18, <1>19, <1>20, <1>21,
      <1>22, <1>23, <1>24
  DEF Next, Handle, Refresh, Step, Actors

LEMMA MemoryStep ==
  ASSUME AdvInv, HandsCurrent, BodiesCurrent, MemoryCurrent, [Next]_vars, ~Overtakes
  PROVE  MemoryCurrent'
<1> USE ActorAssumption, NoneAssumption, PageOf, PageIs, Parts
    DEF AdvInv, Shapes, HasPage, OfIndexed, Locked, Overtakes, HandsCurrent, BodiesCurrent,
        MemoryCurrent, Actors, Stored, Write, Goto, Keep, localVars,
        Forget, DropGuard, storeVars, worldVars
<1>1. ASSUME NEW c \in Clients, Request(c) PROVE MemoryCurrent'
  BY <1>1 DEF Request
<1>2. ASSUME NEW c \in Clients, LookHot(c) PROVE MemoryCurrent'
  BY <1>2 DEF LookHot, Judge
<1>3. ASSUME NEW c \in Clients, LoadResponses(c) PROVE MemoryCurrent'
  BY <1>3 DEF LoadResponses, Materialized
<1>4. ASSUME NEW c \in Clients, NotModified(c) PROVE MemoryCurrent'
  BY <1>4 DEF NotModified, Judge
<1>5. ASSUME NEW c \in Clients, Spawn(c) PROVE MemoryCurrent'
  BY <1>5 DEF Spawn
<1>6. ASSUME NEW a \in Actors, Lock(a) PROVE MemoryCurrent'
  BY <1>6 DEF Lock, LockFree
<1>7. ASSUME NEW a \in Actors, LoadRow(a) PROVE MemoryCurrent'
  BY <1>7 DEF LoadRow, Indexed
<1>8. ASSUME NEW a \in Actors, LoadLinks(a) PROVE MemoryCurrent'
  BY <1>8 DEF LoadLinks
<1>9. ASSUME NEW t \in Tasks, LoadFails(t) PROVE MemoryCurrent'
  BY <1>9 DEF LoadFails
<1>10. ASSUME NEW a \in Actors, Fetch(a) PROVE MemoryCurrent'
  BY <1>10 DEF Fetch, Got
<1>11. ASSUME NEW a \in Actors, Store(a) PROVE MemoryCurrent'
  BY <1>11 DEF Store, WriteRow
<1>12. ASSUME NEW t \in Tasks, Touch(t) PROVE MemoryCurrent'
  BY <1>12 DEF Touch
<1>13. ASSUME NEW t \in Tasks, WriteFails(t) PROVE MemoryCurrent'
  BY <1>13 DEF WriteFails
<1>14. ASSUME NEW a \in Actors, StoreResponses(a) PROVE MemoryCurrent'
  BY <1>14 DEF StoreResponses, Rendered
<1>15. ASSUME NEW a \in Actors, CacheHot(a) PROVE MemoryCurrent'
  BY <1>15 DEF CacheHot, Rendered, Judge
<1>16. ASSUME NEW t \in Tasks, EndRefresh(t) PROVE MemoryCurrent'
  BY <1>16 DEF EndRefresh, Unregister
<1>17. ASSUME NEW c \in Clients, Leave(c) PROVE MemoryCurrent'
  BY <1>17 DEF Leave, Leaves, Rendered, AwaitPC
<1>18. ASSUME LateWrite PROVE MemoryCurrent'
  BY <1>18 DEF LateWrite, WriteRow
<1>19. ASSUME Crash PROVE MemoryCurrent'
  BY <1>19 DEF Crash, InitMemory
<1>20. ASSUME DeleteResponses PROVE MemoryCurrent'
  BY <1>20 DEF DeleteResponses
<1>21. ASSUME InvalidateHot PROVE MemoryCurrent'
  BY <1>21 DEF InvalidateHot
<1>22. ASSUME Publish PROVE MemoryCurrent'
  BY <1>22 DEF Publish
<1>23. ASSUME Tick PROVE MemoryCurrent'
  BY <1>23 DEF Tick
<1>24. CASE UNCHANGED vars
  BY <1>24 DEF vars
<1> QED
  BY <1>1, <1>2, <1>3, <1>4, <1>5, <1>6, <1>7, <1>8, <1>9, <1>10, <1>11,
      <1>12, <1>13, <1>14, <1>15, <1>16, <1>17, <1>18, <1>19, <1>20, <1>21,
      <1>22, <1>23, <1>24
  DEF Next, Handle, Refresh, Step, Actors

LEMMA HotStep == AdvInv /\ HotInv /\ [MCNext]_<<vars, overtaken>> => HotInv'
<1> SUFFICES ASSUME AdvInv, HotInv, [MCNext]_<<vars, overtaken>>, ~overtaken'
             PROVE  HandsCurrent' /\ BodiesCurrent' /\ MemoryCurrent'
  BY DEF HotInv
<1>1. [Next]_vars /\ ~overtaken /\ ~Overtakes
  <2>1. CASE MCNext
    BY <2>1 DEF MCNext
  <2>2. CASE UNCHANGED <<vars, overtaken>>
    BY <2>2 DEF Overtakes, vars
  <2> QED BY <2>1, <2>2
<1> QED BY <1>1, HandsStep, BodiesStep, MemoryStep DEF HotInv

(* The page in memory is the one of the index, its expiry too, once the    *)
(* refresh that wrote the index has put it there; but for a handler or a   *)
(* late write that was overtaken with an older page in hand, and for an    *)
(* index page that is too large for memory (server.rs:1475-1490).          *)
THEOREM MemoryIsIndex ==
  MCSpec => [](HotIsIndex \/ (row # None /\ row.version \in Oversized))
<1>1. MCInit => AdvInv /\ HotInv
  <2>1. MCInit => AdvInv
    BY InitAdv DEF MCInit
  <2>2. MCInit => HandsCurrent /\ BodiesCurrent /\ MemoryCurrent
    BY ActorAssumption
    DEF MCInit, Init, InitMemory, HandsCurrent, BodiesCurrent, MemoryCurrent, Actors, Stored
  <2> QED BY <2>1, <2>2 DEF HotInv
<1>2. [MCNext]_<<vars, overtaken>> => [Next]_vars
  BY DEF MCNext, vars
<1>3. AdvInv /\ HotInv /\ [MCNext]_<<vars, overtaken>> => AdvInv' /\ HotInv'
  BY <1>2, AdvStep, HotStep
<1>4. HotInv => HotIsIndex \/ (row # None /\ row.version \in Oversized)
  BY DEF HotInv, MemoryCurrent, HotIsIndex, Stored, Actors
<1> QED
  BY <1>1, <1>3, <1>4, PTL DEF MCSpec
=============================================================================
