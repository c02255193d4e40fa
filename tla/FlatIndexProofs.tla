--------------------------- MODULE FlatIndexProofs ---------------------------
(***************************************************************************)
(* For any handlers, clients of the channel, projects and times: a wheel   *)
(* page answered from memory is no older than a time to live, and the      *)
(* links of a project never go back, although clients keep pages of        *)
(* different versions and although dropped handlers write late, but where  *)
(* such a write is crossed by another request for the project.             *)
(*                                                                         *)
(* The argument is about times.  A page expires a time to live after the   *)
(* request for it, so no later than a time to live after the birth of the  *)
(* version that replaced its own; a row expires no earlier than a time to  *)
(* live after the birth of its version.  A fresh page that is asked about  *)
(* an expired row is therefore of the same version or a later one.  That   *)
(* holds of the record a dropped handler leaves to SQLite as well, as long *)
(* as nobody goes for the project before it is written.                    *)
(***************************************************************************)
EXTENDS FlatIndex, TLAPS

(* The upstream sends an etag with every version of the page, or with none. *)
Instance ==
  /\ MaxVersion \in Nat \ {0} /\ TTL \in Nat
  /\ None \notin Projects \cup Clients \cup Handlers /\ Root \notin Projects /\ Root # None
  /\ Versions \subseteq Tagged \/ Versions \cap Tagged = {}

Stages == {"idle", "make", "found", "lock", "fetch", "store"}
Kinds == {"none", "same", "fresh", "missing", "error"}
Dated == [v : 0 .. MaxVersion, expires : Nat]

Typed ==
  /\ up \in Versions /\ born \in [Versions -> Nat] /\ clock \in Nat
  /\ client \in Clients \cup {None}
  /\ page \in [Clients -> Dated]
  /\ owner \in [Clients -> Handlers \cup {None}]
  /\ row \in [Projects -> Dated]
  /\ pc \in [Handlers -> Stages]
  /\ want \in [Handlers -> Projects \cup {Root, None}]
  /\ inst \in [Handlers -> Clients \cup {None}]
  /\ started \in [Handlers -> Nat]
  /\ known \in [Handlers -> 0 .. MaxVersion]
  /\ reply \in [Handlers -> [kind : Kinds, v : 0 .. MaxVersion]]

History ==
  /\ \A v \in Versions : born[v] <= clock
  /\ \A v, w \in Versions : v <= w /\ w <= up => born[v] <= born[w]

\* A page requested at time s whose version was replaced, was replaced after s.
Since(v, s) == v < up => s <= born[v + 1]

Pages ==
  \A c \in Clients : page[c].v # 0 =>
    /\ page[c].v <= up
    /\ \E s \in Nat : s <= clock /\ page[c].expires = s + TTL /\ Since(page[c].v, s)

\* Links are younger than a time to live when their row expires, but in a crossing.
Rows ==
  \A p \in Projects :
    /\ row[p].v <= up
    /\ p \notin crossed /\ row[p].v # 0 => born[row[p].v] + TTL <= row[p].expires

OwnsOf(h) ==
  /\ pc[h] \in {"found", "lock", "fetch"} => inst[h] \in Clients
  /\ pc[h] = "fetch" => owner[inst[h]] = h /\ started[h] <= clock

\* A project has one handler at a time; its row has expired, and no late write to it is
\* to come, but in a crossing.
WantsOf(h) ==
  want[h] \in Projects =>
    /\ \A g \in Handlers : want[g] = want[h] => g = h
    /\ want[h] \notin crossed =>
         /\ \A w \in late : w.project # want[h]
         /\ row[want[h]].v # 0 => row[want[h]].expires <= clock

\* A handler that has links for its project has none older than the row's.
NotOlder(h) == want[h] \in Projects \ crossed => row[want[h]].v <= reply[h].v

Got(h) == reply[h].kind \in {"fresh", "same"}

RepliesOf(h) ==
  /\ pc[h] \in {"idle", "make", "found", "lock"} => reply[h] = NoReply
  /\ reply[h].v <= up
  /\ Got(h) => reply[h].v # 0 /\ NotOlder(h)
  /\ Got(h) /\ pc[h] = "fetch" =>
       /\ Since(reply[h].v, started[h])
       /\ reply[h].kind = "same" /\ page[inst[h]].v # 0 => page[inst[h]].v = reply[h].v
  /\ Got(h) /\ pc[h] = "store" => born[reply[h].v] <= started[h] /\ started[h] <= clock

\* A late write is of links that are not older than the row's, and it is the only one,
\* while nobody goes for its project.
LateOf(w) ==
  /\ w.project \in Projects /\ w.v \in Versions /\ w.v <= up
  /\ w.expires \in Nat /\ born[w.v] + TTL <= w.expires
  /\ w.project \notin crossed =>
       /\ \A h \in Handlers : want[h] # w.project
       /\ \A x \in late : x.project = w.project => x = w
       /\ row[w.project].v <= w.v

Owns == \A h \in Handlers : OwnsOf(h)
Wants == \A h \in Handlers : WantsOf(h)
Replies == \A h \in Handlers : RepliesOf(h)
Lates == \A w \in late : LateOf(w)

IInv == Typed /\ History /\ Pages /\ Rows /\ Owns /\ Wants /\ Replies /\ Lates

-----------------------------------------------------------------------------
LEMMA Initially == ASSUME Instance, Init PROVE IInv
<1>1. Typed
  BY DEF Instance, Init, Typed, Versions, Dated, Stages, Kinds, Nothing, NoReply
<1>2. History
  BY DEF Init, History, Versions
<1>3. Pages /\ Rows /\ Owns /\ Lates
  BY DEF Instance, Init, Pages, Rows, Owns, OwnsOf, Lates, Nothing
<1>4. Wants /\ Replies
  BY DEF Instance, Init, Wants, WantsOf, Replies, RepliesOf, Got, NoReply, Versions
<1>. QED  BY <1>1, <1>2, <1>3, <1>4 DEF IInv

(* What a page says to a handler is none, or its own version.              *)
LEMMA FetchIs ==
  ASSUME NEW h, NEW v \in Nat, v # 0
  PROVE  \/ FetchFor(h, v) = NoReply
         \/ FetchFor(h, v) \in {[kind |-> "same", v |-> v], [kind |-> "fresh", v |-> v]}
BY DEF FetchFor

(* A 304 about a cached page is about its version.                         *)
LEMMA SameIsCached ==
  ASSUME Instance, Typed, NEW h \in Handlers, inst[h] \in Clients,
         Validator(h) # NoTag, Validator(h) = Tag(up), page[inst[h]].v # 0
  PROVE  page[inst[h]].v = up
<1>1. page[inst[h]].v \in Versions /\ up \in Versions
  BY DEF Instance, Typed, Dated, Versions
<1>2. up \in Tagged /\ Tag(up) = up
  BY DEF Tag
<1>3. page[inst[h]].v \in Tagged
  BY <1>1, <1>2 DEF Instance
<1>4. Validator(h) = page[inst[h]].v
  BY <1>1, <1>3 DEF Validator, Tag, NoTag, Instance, Versions
<1>. QED  BY <1>2, <1>4

(* A fresh page is not older than an expired row.                          *)
LEMMA FreshIsNotOlder ==
  ASSUME Instance, IInv, NEW h \in Handlers, inst[h] \in Clients, want[h] \in Projects,
         want[h] \notin crossed, FreshPage(inst[h], clock)
  PROVE  row[want[h]].v <= page[inst[h]].v
<1>. DEFINE r == row[want[h]]
            g == page[inst[h]]
<1>t. /\ r.v \in 0 .. MaxVersion /\ r.expires \in Nat
      /\ g.v \in 0 .. MaxVersion /\ g.expires \in Nat
      /\ up \in 1 .. MaxVersion /\ clock \in Nat /\ MaxVersion \in Nat /\ TTL \in Nat
      /\ \A v \in 1 .. MaxVersion : born[v] \in Nat
  BY DEF Instance, IInv, Typed, Dated, Versions
<1>1. g.v # 0 /\ clock < g.expires
  BY DEF FreshPage
<1>2. PICK s \in Nat : g.expires = s + TTL /\ (g.v < up => s <= born[g.v + 1])
  BY <1>1 DEF IInv, Pages, Since
<1>3. g.v <= up
  BY <1>1 DEF IInv, Pages
<1>4. r.v # 0 => r.v <= up /\ born[r.v] + TTL <= r.expires /\ r.expires <= clock
  BY DEF IInv, Rows, Wants, WantsOf
<1>5. \A v, w \in 1 .. MaxVersion : v <= w /\ w <= up => born[v] <= born[w]
  BY DEF IInv, History, Versions
<1>. HIDE DEF r, g
<1>6. SUFFICES ASSUME r.v > g.v PROVE FALSE
  BY <1>t DEF r, g
<1>7. /\ r.v # 0 /\ r.v \in 1 .. MaxVersion
      /\ g.v + 1 \in 1 .. MaxVersion /\ g.v + 1 <= r.v /\ g.v < up
  BY <1>t, <1>1, <1>4, <1>6
<1>8. born[g.v + 1] <= born[r.v]
  BY <1>4, <1>5, <1>7
<1>9. /\ born[r.v] \in Nat /\ born[g.v + 1] \in Nat
      /\ born[r.v] + TTL <= clock /\ clock < s + TTL /\ s <= born[g.v + 1]
  BY <1>t, <1>1, <1>2, <1>4, <1>7
<1>. QED  BY <1>t, <1>8, <1>9

(* What SQLite writes: the version of the record, or that of the row.      *)
LEMMA Writes ==
  ASSUME Instance, Typed, NEW w, w.project \in Projects, w.v \in 0 .. MaxVersion,
         w.expires \in Nat, Write(w)
  PROVE  /\ row' \in [Projects -> Dated]
         /\ row'[w.project].v \in {row[w.project].v, w.v}
         /\ ~w.touch => row'[w.project].v = w.v
         /\ row'[w.project].expires = w.expires
         /\ \A p \in Projects : p # w.project => row'[p] = row[p]
<1>1. PICK v \in {row[w.project].v, w.v} :
        /\ ~w.touch => v = w.v
        /\ row' = [row EXCEPT ![w.project] = [v |-> v, expires |-> w.expires]]
  BY DEF Write
<1>2. row \in [Projects -> Dated] /\ v \in 0 .. MaxVersion
  BY DEF Typed, Dated
<1>3. [v |-> v, expires |-> w.expires] \in Dated
  BY <1>2 DEF Dated
<1>. QED  BY <1>1, <1>2, <1>3

(* What a handler leaves to SQLite: links that were on the page when it    *)
(* had them, and no older than those of the row.                           *)
LEMMA Records ==
  ASSUME Instance, IInv, NEW h \in Handlers, Storing(h)
  PROVE  LET w == Record(h)
         IN /\ w.project = want[h] /\ w.project \in Projects
            /\ w.v \in 1 .. MaxVersion /\ w.v <= up
            /\ w.expires \in Nat /\ born[w.v] + TTL <= w.expires /\ w.expires <= clock + TTL
            /\ w.project \notin crossed => row[w.project].v <= w.v
<1>1. /\ pc[h] = "store" /\ want[h] \in Projects /\ Got(h)
      /\ reply[h].v \in 1 .. MaxVersion /\ reply[h].v <= up
      /\ started[h] \in Nat /\ clock \in Nat /\ TTL \in Nat
      /\ born \in [1 .. MaxVersion -> Nat]
  BY DEF Storing, Got, Instance, IInv, Typed, Replies, RepliesOf, Versions
<1>2. born[reply[h].v] <= started[h] /\ started[h] <= clock /\ NotOlder(h)
  BY <1>1 DEF IInv, Replies, RepliesOf
<1>3. /\ Record(h).project = want[h] /\ Record(h).v = reply[h].v
      /\ Record(h).expires = started[h] + TTL
  BY DEF Record
<1>4. /\ born[reply[h].v] + TTL <= started[h] + TTL /\ started[h] + TTL <= clock + TTL
      /\ started[h] + TTL \in Nat
  BY <1>1, <1>2
<1>. HIDE DEF Record
<1>. QED  BY <1>1, <1>2, <1>3, <1>4 DEF NotOlder

LEMMA TypesStay == ASSUME Instance, IInv, [Next]_vars PROVE Typed'
<1>t. Typed
  BY DEF IInv
<1>i. /\ MaxVersion \in Nat \ {0} /\ TTL \in Nat /\ Versions = 1 .. MaxVersion
      /\ \A v \in 0 .. MaxVersion : v \in Nat
      /\ None \notin Projects \cup Clients \cup Handlers /\ Root \notin Projects /\ Root # None
  BY DEF Instance, Versions
<1>n. NoReply \in [kind : Kinds, v : 0 .. MaxVersion]
  BY <1>i DEF NoReply, Kinds
<1>l. ASSUME NEW h \in Handlers, Leave(h), UNCHANGED <<upVars, clock, client, page>>,
             owner' \in [Clients -> Handlers \cup {None}], row' \in [Projects -> Dated]
      PROVE  Typed'
  <2>1. /\ pc' \in [Handlers -> Stages] /\ inst' \in [Handlers -> Clients \cup {None}]
        /\ want' \in [Handlers -> Projects \cup {Root, None}]
    BY <1>t, <1>l DEF Typed, Leave, Goto, Stages
  <2>2. /\ started' \in [Handlers -> Nat] /\ known' \in [Handlers -> 0 .. MaxVersion]
        /\ reply' \in [Handlers -> [kind : Kinds, v : 0 .. MaxVersion]]
    BY <1>t, <1>i, <1>l, <1>n DEF Typed, Leave
  <2>. QED  BY <1>t, <1>l, <2>1, <2>2 DEF Typed, upVars
<1>r. ASSUME NEW h \in Handlers, NEW r \in [kind : Kinds, v : 0 .. MaxVersion], Return(h, r),
             page' \in [Clients -> Dated]
      PROVE  Typed'
  BY <1>t, <1>i, <1>r DEF Typed, Return, Goto, Stages, upVars, storeVars
<1>w. ASSUME NEW h \in Handlers, NEW v \in 1 .. MaxVersion
      PROVE  FetchFor(h, v) \in [kind : Kinds, v : 0 .. MaxVersion]
  BY <1>i, FetchIs DEF NoReply, Kinds
<1>1. CASE \E h \in Handlers : FindClient(h)
  <2>1. PICK h \in Handlers : FindClient(h)
    BY <1>1
  <2>2. inst' \in [Handlers -> Clients \cup {None}] /\ pc' \in [Handlers -> Stages]
    BY <1>t, <2>1 DEF Typed, FindClient, Goto, Stages
  <2>. QED  BY <1>t, <2>1, <2>2 DEF Typed, FindClient, upVars, storeVars
<1>2. CASE \E h \in Handlers : MakeClient(h)
  <2>1. PICK h \in Handlers : MakeClient(h)
    BY <1>2
  <2>2. client' \in Clients
    BY <2>1 DEF MakeClient, Unmade
  <2>. QED  BY <1>t, <1>i, <2>1, <2>2 DEF Typed, MakeClient, Goto, Stages, upVars, storeVars
<1>3. CASE \E h \in Handlers : RequestIndex(h)
  BY <1>t, <1>i, <1>3 DEF Typed, RequestIndex, Goto, Stages, upVars, storeVars
<1>4. CASE \E h \in Handlers, p \in Projects : RequestProject(h, p)
  <2>1. PICK h \in Handlers, p \in Projects : RequestProject(h, p)
    BY <1>4
  <2>2. row[p].v \in 0 .. MaxVersion
    BY <1>t DEF Typed, Dated
  <2>. QED  BY <1>t, <1>i, <2>1, <2>2 DEF Typed, RequestProject, Goto, Stages, upVars
<1>5. CASE \E h \in Handlers : LockHit(h)
  <2>1. PICK h \in Handlers : LockHit(h)
    BY <1>5
  <2>2. inst[h] \in Clients /\ page[inst[h]].v \in 1 .. MaxVersion
    BY <1>t, <1>i, <2>1 DEF Typed, Dated, IInv, LockHit, Owns, OwnsOf, FreshPage
  <2>3. FetchFor(h, page[inst[h]].v) \in [kind : Kinds, v : 0 .. MaxVersion]
    BY <2>2, <1>w
  <2>. QED  BY <1>t, <1>i, <2>1, <2>3 DEF Typed, LockHit, Goto, Stages, upVars, storeVars
<1>6. CASE \E h \in Handlers : LockMiss(h)
  <2>1. PICK h \in Handlers : LockMiss(h)
    BY <1>6
  <2>2. /\ owner' \in [Clients -> Handlers \cup {None}] /\ started' \in [Handlers -> Nat]
        /\ pc' \in [Handlers -> Stages]
    BY <1>t, <2>1 DEF Typed, LockMiss, Goto, Stages
  <2>. QED  BY <1>t, <2>1, <2>2 DEF Typed, LockMiss, upVars, storeVars
<1>7. CASE \E h \in Handlers : Respond(h)
  <2>1. PICK h \in Handlers : Respond(h)
    BY <1>7
  <2>2. PICK r \in [kind : Kinds, v : 0 .. MaxVersion] : reply' = [reply EXCEPT ![h] = r]
    <3>1. up \in 0 .. MaxVersion /\ 0 \in 0 .. MaxVersion
      BY <1>t, <1>i DEF Typed
    <3>. QED  BY <2>1, <3>1 DEF Respond, Kinds
  <2>. QED  BY <1>t, <2>1, <2>2 DEF Typed, Respond, upVars, storeVars
<1>8. CASE \E h \in Handlers : TakePage(h)
  <2>1. PICK h \in Handlers : TakePage(h)
    BY <1>8
  <2>2. reply[h].v \in 1 .. MaxVersion
    BY <1>t, <1>i, <2>1 DEF Typed, IInv, TakePage, Replies, RepliesOf, Got
  <2>3. page' \in [Clients -> Dated]
    <3>1. Expiry(h) \in Nat
      BY <1>t, <1>i DEF Typed, Expiry, FlatExpiry
    <3>2. [v |-> reply[h].v, expires |-> Expiry(h)] \in Dated
      BY <1>i, <2>2, <3>1 DEF Dated
    <3>. QED  BY <1>t, <2>1, <3>2 DEF Typed, TakePage
  <2>. QED  BY <2>1, <2>2, <2>3, <1>w, <1>r DEF TakePage
<1>9. CASE \E h \in Handlers : Revalidate(h)
  <2>1. PICK h \in Handlers : Revalidate(h)
    BY <1>9
  <2>2. inst[h] \in Clients /\ page[inst[h]].v \in 0 .. MaxVersion
    BY <1>t, <1>i, <2>1 DEF Typed, Dated, IInv, Revalidate, Owns, OwnsOf
  <2>3. page' \in [Clients -> Dated]
    <3>1. [page[inst[h]] EXCEPT !.expires = Expiry(h)] \in Dated
      <4>1. page[inst[h]] \in Dated /\ Expiry(h) \in Nat
        BY <1>t, <1>i, <2>1, <2>2 DEF Typed, Expiry, FlatExpiry
      <4>. QED  BY <4>1 DEF Dated
    <3>. QED  BY <1>t, <2>1, <2>2, <3>1 DEF Typed, Revalidate
  <2>4. CASE page[inst[h]].v = 0
    BY <1>t, <2>1, <2>3, <2>4, <1>r DEF Typed, Revalidate
  <2>5. CASE page[inst[h]].v # 0
    BY <1>i, <2>1, <2>2, <2>3, <2>5, <1>w, <1>r DEF Revalidate
  <2>. QED  BY <2>4, <2>5
<1>10. CASE \E h \in Handlers : DropPage(h) \/ FetchFails(h)
  <2>1. PICK h \in Handlers : DropPage(h) \/ FetchFails(h)
    BY <1>10
  <2>2. Nothing \in Dated
    BY <1>i DEF Nothing, Dated
  <2>3. page' \in [Clients -> Dated]
    BY <1>t, <2>1, <2>2 DEF Typed, DropPage, FetchFails
  <2>. QED  BY <2>1, <2>3, <1>n, <1>r DEF DropPage, FetchFails
<1>11. CASE \E h \in Handlers : Store(h)
  <2>1. PICK h \in Handlers : Store(h)
    BY <1>11
  <2>2. row' \in [Projects -> Dated]
    BY <1>t, <2>1, Records, Writes DEF Store
  <2>. QED  BY <1>t, <2>1, <2>2, <1>l DEF Typed, Store
<1>12. CASE \E h \in Handlers : Answer(h)
  BY <1>t, <1>12, <1>l DEF Typed, Answer, storeVars
<1>13. CASE \E h \in Handlers : Cancel(h)
  BY <1>t, <1>13, <1>l DEF Typed, Cancel
<1>14. CASE Publish \/ Tick
  <2>1. CASE Publish
    <3>1. up' \in Versions /\ born' \in [Versions -> Nat]
      BY <1>t, <1>i, <2>1 DEF Typed, Publish
    <3>. QED  BY <1>t, <2>1, <3>1 DEF Typed, Publish, storeVars, callVars
  <2>2. CASE Tick
    BY <1>t, <2>2 DEF Typed, Tick, upVars, storeVars, callVars
  <2>. QED  BY <1>14, <2>1, <2>2
<1>15. CASE UNCHANGED vars
  BY <1>t, <1>15 DEF Typed, vars, upVars, storeVars, callVars
<1>16. CASE \E w \in late : LateWrite(w)
  <2>1. PICK w \in late : LateWrite(w)
    BY <1>16
  <2>2. w.project \in Projects /\ w.v \in 0 .. MaxVersion /\ w.expires \in Nat
    BY <1>i DEF IInv, Lates, LateOf
  <2>3. row' \in [Projects -> Dated]
    BY <1>t, <2>1, <2>2, Writes DEF LateWrite
  <2>. QED  BY <1>t, <2>1, <2>3 DEF Typed, LateWrite, upVars, callVars
<1>. QED
  BY <1>1, <1>2, <1>3, <1>4, <1>5, <1>6, <1>7, <1>8, <1>9, <1>10, <1>11, <1>12, <1>13, <1>14, <1>15,
     <1>16 DEF Next, Handle, Lock, Receive

(* Versions are born in order, and what is kept expires as it should.      *)
LEMMA TimesStay == ASSUME Instance, IInv, [Next]_vars PROVE History' /\ Pages' /\ Rows'
<1>i. /\ MaxVersion \in Nat \ {0} /\ TTL \in Nat /\ Versions = 1 .. MaxVersion
      /\ \A v \in 0 .. MaxVersion : v \in Nat
  BY DEF Instance, Versions
<1>t. /\ up \in 1 .. MaxVersion /\ born \in [1 .. MaxVersion -> Nat] /\ clock \in Nat
      /\ \A c \in Clients : page[c].v \in 0 .. MaxVersion /\ page[c].expires \in Nat
      /\ \A p \in Projects : row[p].v \in 0 .. MaxVersion /\ row[p].expires \in Nat
      /\ page \in [Clients -> Dated] /\ row \in [Projects -> Dated]
  BY <1>i DEF IInv, Typed, Dated
<1>h. History /\ Pages /\ Rows
  BY DEF IInv
<1>s. UNCHANGED <<upVars, clock>> => History'
  BY <1>h DEF History, upVars
<1>p. UNCHANGED <<upVars, clock, page>> => Pages'
  BY <1>h DEF Pages, Since, upVars
<1>r. UNCHANGED <<upVars, row>> /\ crossed \subseteq crossed' => Rows'
  BY <1>h DEF Rows, upVars
<1>w. ASSUME NEW w, w.project \in Projects, w.v \in 1 .. MaxVersion, w.v <= up,
             w.expires \in Nat, born[w.v] + TTL <= w.expires, Write(w), UNCHANGED upVars,
             crossed \subseteq crossed' \cup {w.project},
             w.project \notin crossed => row[w.project].v <= w.v,
             w.project \in crossed \ crossed' => ~w.touch
      PROVE  Rows'
  <2>1. ASSUME NEW p \in Projects, p # w.project
        PROVE  row'[p].v <= up /\ (p \notin crossed' /\ row'[p].v # 0 =>
                                      born[row'[p].v] + TTL <= row'[p].expires)
    <3>1. row'[p] = row[p] /\ (p \in crossed => p \in crossed')
      BY <1>i, <1>w, <2>1, Writes DEF IInv
    <3>. QED  BY <1>h, <3>1 DEF Rows
  <2>. DEFINE v == row'[w.project].v
  <2>2. /\ v \in {row[w.project].v, w.v} /\ (~w.touch => v = w.v)
        /\ row'[w.project].expires = w.expires
    BY <1>i, <1>w, Writes DEF IInv
  <2>. HIDE DEF v
  <2>3. v <= up /\ v \in 0 .. MaxVersion
    BY <1>i, <1>t, <1>h, <1>w, <2>2 DEF Rows
  <2>4. w.project \notin crossed' => v <= w.v
    BY <1>i, <1>w, <2>2
  <2>5. w.project \notin crossed' /\ v # 0 => born[v] + TTL <= w.expires
    <3>1. v # 0 /\ v <= w.v => born[v] <= born[w.v]
      BY <1>i, <1>h, <1>w, <2>3 DEF History
    <3>2. v # 0 => born[v] \in Nat /\ born[w.v] \in Nat
      BY <1>i, <1>t, <1>w, <2>3
    <3>. QED  BY <1>i, <1>w, <2>4, <3>1, <3>2
  <2>. QED  BY <1>w, <2>1, <2>2, <2>3, <2>5 DEF Rows, upVars, v
<1>1. CASE Publish
  <2>1. /\ up < MaxVersion /\ up' = up + 1 /\ born' = [born EXCEPT ![up + 1] = clock]
        /\ UNCHANGED <<clock, page, row, crossed>>
    BY <1>1 DEF Publish, storeVars
  <2>2. /\ \A v \in 1 .. MaxVersion : v <= up => born'[v] = born[v]
        /\ born'[up + 1] = clock /\ up + 1 \in 1 .. MaxVersion
    BY <1>i, <1>t, <2>1
  <2>3. \A v \in 1 .. MaxVersion : born[v] \in Nat /\ born[v] <= clock /\ born'[v] <= clock
    BY <1>i, <1>t, <1>h, <2>1 DEF History
  <2>4. History'
    <3>1. \A v, w \in 1 .. MaxVersion : v <= w /\ w <= up => born[v] <= born[w]
      BY <1>i, <1>h DEF History
    <3>2. ASSUME NEW v \in 1 .. MaxVersion, NEW w \in 1 .. MaxVersion, v <= w, w <= up + 1
          PROVE  born'[v] <= born'[w]
      <4>1. CASE w <= up
        BY <1>i, <1>t, <2>2, <3>1, <3>2, <4>1
      <4>2. CASE w = up + 1
        BY <2>2, <2>3, <4>2
      <4>. QED  BY <1>i, <1>t, <3>2, <4>1, <4>2
    <3>. QED  BY <1>i, <2>1, <2>3, <3>2 DEF History
  <2>5. Pages'
    <3>1. ASSUME NEW c \in Clients, page[c].v # 0
          PROVE  /\ page[c].v <= up + 1
                 /\ \E s \in Nat : s <= clock /\ page[c].expires = s + TTL
                                   /\ (page[c].v < up + 1 => s <= born'[page[c].v + 1])
      <4>1. page[c].v <= up
        BY <1>h, <3>1 DEF Pages
      <4>2. PICK s \in Nat : s <= clock /\ page[c].expires = s + TTL /\ Since(page[c].v, s)
        BY <1>h, <3>1 DEF Pages
      <4>3. CASE page[c].v = up
        BY <1>i, <1>t, <2>2, <4>2, <4>3
      <4>4. CASE page[c].v < up
        <5>1. s <= born[page[c].v + 1]
          BY <4>2, <4>4 DEF Since
        <5>2. page[c].v + 1 \in 1 .. MaxVersion /\ page[c].v + 1 <= up
          BY <1>i, <1>t, <4>4, <3>1
        <5>3. born'[page[c].v + 1] = born[page[c].v + 1]
          BY <2>2, <5>2
        <5>. QED  BY <1>i, <1>t, <4>2, <4>4, <5>1, <5>3
      <4>. QED  BY <1>i, <1>t, <4>1, <4>3, <4>4
    <3>. QED  BY <2>1, <3>1 DEF Pages, Since
  <2>6. Rows'
    BY <1>i, <1>t, <1>h, <2>1, <2>2 DEF Rows
  <2>. QED  BY <2>4, <2>5, <2>6
<1>2. CASE Tick
  <2>1. clock' = clock + 1 /\ UNCHANGED <<up, born, page, row, crossed>>
    BY <1>2 DEF Tick, upVars, storeVars
  <2>2. History'
    BY <1>i, <1>t, <1>h, <2>1 DEF History
  <2>3. Pages'
    <3>1. \A s \in Nat : s <= clock => s <= clock + 1
      BY <1>t
    <3>. QED  BY <1>h, <2>1, <3>1 DEF Pages, Since
  <2>4. Rows'
    BY <1>h, <2>1 DEF Rows
  <2>. QED  BY <2>2, <2>3, <2>4
<1>3. CASE \E h \in Handlers : Store(h)
  <2>1. PICK h \in Handlers : Store(h)
    BY <1>3
  <2>2. /\ Storing(h) /\ Write(Record(h)) /\ UNCHANGED <<upVars, clock, page>>
        /\ crossed' = IF Record(h).touch \/ LateTo(want[h]) # {} THEN crossed
                      ELSE crossed \ {want[h]}
    BY <2>1 DEF Store
  <2>3. Rows'
    BY <2>2, <1>w, Records
  <2>. QED  BY <2>2, <2>3, <1>s, <1>p
<1>4. CASE \E h \in Handlers : TakePage(h) \/ Revalidate(h) \/ DropPage(h)
  <2>1. PICK h \in Handlers : TakePage(h) \/ Revalidate(h) \/ DropPage(h)
    BY <1>4
  <2>2. UNCHANGED <<upVars, clock, row, crossed>> /\ pc[h] = "fetch"
    BY <2>1 DEF TakePage, Revalidate, DropPage, Return, storeVars
  <2>3. inst[h] \in Clients /\ started[h] \in Nat /\ started[h] <= clock
    BY <2>2 DEF IInv, Typed, Owns, OwnsOf
  <2>4. Got(h) => /\ reply[h].v \in 1 .. MaxVersion /\ reply[h].v <= up
                  /\ Since(reply[h].v, started[h])
    BY <1>i, <2>2 DEF IInv, Typed, Replies, RepliesOf
  <2>5. \A c \in Clients :
          \/ page'[c] = page[c]
          \/ page'[c].v = 0
          \/ /\ page'[c].v # 0 => Got(h) /\ page'[c].v = reply[h].v
             /\ page'[c].expires = started[h] + TTL
    <3>1. CASE TakePage(h)
      BY <1>t, <2>3, <3>1 DEF TakePage, Got, Expiry, FlatExpiry
    <3>2. CASE Revalidate(h)
      <4>1. CASE page[inst[h]].v = 0
        BY <3>2, <4>1 DEF Revalidate
      <4>2. CASE page[inst[h]].v # 0
        <5>1. Got(h) /\ page[inst[h]].v = reply[h].v
          BY <2>2, <3>2, <4>2 DEF IInv, Replies, RepliesOf, Revalidate, Got
        <5>2. page' = [page EXCEPT ![inst[h]].expires = started[h] + TTL]
          BY <3>2, <4>2 DEF Revalidate, Expiry, FlatExpiry
        <5>3. page[inst[h]] \in Dated
          BY <1>t, <2>3
        <5>. QED  BY <1>t, <2>3, <5>1, <5>2, <5>3 DEF Dated
      <4>. QED  BY <4>1, <4>2
    <3>3. CASE DropPage(h)
      BY <1>t, <2>3, <3>3 DEF DropPage, Nothing
    <3>. QED  BY <2>1, <3>1, <3>2, <3>3
  <2>6. Pages'
    BY <1>h, <2>2, <2>3, <2>4, <2>5 DEF Pages, Since, upVars
  <2>. QED  BY <2>2, <2>6, <1>s, <1>r
<1>5. CASE UNCHANGED <<upVars, clock, page, row>> /\ crossed \subseteq crossed'
  BY <1>5, <1>s, <1>p, <1>r
<1>7. CASE \E w \in late : LateWrite(w)
  <2>1. PICK w \in late : LateWrite(w)
    BY <1>7
  <2>2. LateOf(w)
    BY DEF IInv, Lates
  <2>3. Write(w) /\ UNCHANGED <<upVars, clock, page, crossed>>
    BY <2>1 DEF LateWrite
  <2>4. Rows'
    BY <1>i, <2>2, <2>3, <1>w DEF LateOf
  <2>. QED  BY <2>3, <2>4, <1>s, <1>p
<1>6. \/ Publish \/ Tick
      \/ \E h \in Handlers : Store(h)
      \/ \E h \in Handlers : TakePage(h) \/ Revalidate(h) \/ DropPage(h)
      \/ \E w \in late : LateWrite(w)
      \/ UNCHANGED <<upVars, clock, page, row>> /\ crossed \subseteq crossed'
  BY DEF Next, Handle, Lock, Receive, FindClient, MakeClient, RequestIndex, RequestProject,
         Respond, LockHit, LockMiss, FetchFails, Return, Answer, Cancel, vars, storeVars
<1>. QED  BY <1>1, <1>2, <1>3, <1>4, <1>5, <1>6, <1>7

(* A step of one handler leaves the others, and what they refer to, alone. *)
Step(h) == FindClient(h) \/ Handle(h) \/ Lock(h) \/ Cancel(h)

LEMMA Others ==
  ASSUME Instance, IInv, NEW h \in Handlers, Step(h)
  PROVE  /\ UNCHANGED <<upVars, clock>>
         /\ \A g \in Handlers : g # h =>
              /\ pc'[g] = pc[g] /\ want'[g] = want[g] /\ inst'[g] = inst[g]
              /\ started'[g] = started[g] /\ reply'[g] = reply[g]
              /\ pc[g] = "fetch" => owner'[inst[g]] = g /\ page'[inst[g]] = page[inst[g]]
              /\ want[g] \in Projects =>
                   /\ row'[want[g]] = row[want[g]]
                   /\ want[g] \notin crossed' =>
                        want[g] \notin crossed
                        /\ \A w \in late' : w.project = want[g] => w \in late
<1>t. Typed /\ Owns /\ Wants /\ None \notin Handlers
  BY DEF IInv, Instance
<1>1. UNCHANGED <<upVars, clock>>
  BY DEF Step, Handle, Lock, Receive, FindClient, MakeClient, RequestIndex, RequestProject, Respond,
         LockHit, LockMiss, TakePage, Revalidate, DropPage, FetchFails, Return, Store, Answer,
         Cancel
<1>2. ASSUME NEW g \in Handlers, g # h
      PROVE  /\ pc'[g] = pc[g] /\ want'[g] = want[g] /\ inst'[g] = inst[g]
             /\ started'[g] = started[g] /\ reply'[g] = reply[g]
  <2>1. CASE FindClient(h) \/ MakeClient(h) \/ RequestIndex(h)
             \/ (\E p \in Projects : RequestProject(h, p)) \/ LockHit(h) \/ LockMiss(h)
             \/ Respond(h)
    BY <1>t, <1>2, <2>1 DEF Typed, FindClient, MakeClient, RequestIndex, RequestProject, LockHit,
       LockMiss, Respond, Goto
  <2>2. CASE Receive(h)
    BY <1>t, <1>2, <2>2 DEF Typed, Receive, TakePage, Revalidate, DropPage, FetchFails, Return, Goto
  <2>3. CASE Store(h) \/ Answer(h) \/ Cancel(h)
    BY <1>t, <1>2, <2>3 DEF Typed, Store, Answer, Cancel, Leave, Goto
  <2>. QED  BY <2>1, <2>2, <2>3 DEF Step, Handle, Lock
<1>3. ASSUME NEW g \in Handlers, g # h, pc[g] = "fetch"
      PROVE  owner'[inst[g]] = g /\ page'[inst[g]] = page[inst[g]]
  <2>1. inst[g] \in Clients /\ owner[inst[g]] = g
    BY <1>t, <1>3 DEF Owns, OwnsOf
  <2>2. pc[h] = "fetch" => inst[h] # inst[g]
    BY <1>t, <1>3, <2>1 DEF Owns, OwnsOf
  <2>3. CASE UNCHANGED <<owner, page>>
    BY <2>1, <2>3
  <2>4. CASE LockMiss(h)
    BY <1>t, <1>3, <2>1, <2>4 DEF Typed, LockMiss
  <2>5. CASE Receive(h)
    <3>1. /\ pc[h] = "fetch" /\ owner' = [owner EXCEPT ![inst[h]] = None]
          /\ page' = page \/ \E x : page' = [page EXCEPT ![inst[h]] = x]
      BY <2>5 DEF Receive, TakePage, Revalidate, DropPage, FetchFails, Return
    <3>. QED  BY <1>t, <2>1, <2>2, <3>1 DEF Typed
  <2>6. CASE Cancel(h)
    BY <1>t, <1>3, <2>1, <2>6 DEF Typed, Cancel
  <2>. QED
    BY <2>3, <2>4, <2>5, <2>6
       DEF Step, Handle, Lock, FindClient, MakeClient, RequestIndex, RequestProject, LockHit,
           Respond, Store, Answer
<1>4. ASSUME NEW g \in Handlers, g # h, want[g] \in Projects
      PROVE  /\ row'[want[g]] = row[want[g]]
             /\ want[g] \notin crossed' =>
                  want[g] \notin crossed /\ \A w \in late' : w.project = want[g] => w \in late
  <2>1. want[h] # want[g]
    BY <1>t, <1>4 DEF Wants, WantsOf
  <2>2. CASE UNCHANGED <<row, late>> /\ crossed \subseteq crossed'
    BY <2>2
  <2>3. CASE Store(h)
    <3>1. row'[want[g]] = row[want[g]]
      BY <1>t, <1>4, <2>1, <2>3, Records, Writes DEF Store
    <3>. QED  BY <1>4, <2>1, <2>3, <3>1 DEF Store
  <2>4. CASE Cancel(h)
    <3>1. Record(h).project = want[h]
      BY DEF Record
    <3>2. UNCHANGED <<row, crossed>> /\ late' \subseteq late \cup {Record(h)}
      BY <2>4 DEF Cancel
    <3>. HIDE DEF Record
    <3>. QED  BY <2>1, <3>1, <3>2
  <2>. QED
    BY <2>2, <2>3, <2>4
       DEF Step, Handle, Lock, Receive, FindClient, MakeClient, RequestIndex, RequestProject,
           Respond, LockHit, LockMiss, TakePage, Revalidate, DropPage, FetchFails, Return, Answer,
           storeVars
<1>. QED  BY <1>1, <1>2, <1>3, <1>4

(* A step of a handler leaves it with what the invariant says of it.       *)
LEMMA Own ==
  ASSUME Instance, IInv, NEW h \in Handlers, Step(h)
  PROVE  OwnsOf(h)' /\ WantsOf(h)' /\ RepliesOf(h)'
<1>t. Typed /\ None \notin Handlers /\ None \notin Projects /\ Root \notin Projects
  BY DEF IInv, Instance
<1>i. up \in Nat /\ up # 0 /\ clock \in Nat /\ \A v \in 0 .. MaxVersion : v \in Nat
  BY DEF IInv, Typed, Instance, Versions
<1>h. OwnsOf(h) /\ WantsOf(h) /\ RepliesOf(h)
  BY DEF IInv, Owns, OwnsOf, Wants, WantsOf, Replies, RepliesOf
<1>o. /\ UNCHANGED <<upVars, clock>>
      /\ \A g \in Handlers : g # h => want'[g] = want[g]
  BY Others
<1>n. /\ NoReply.kind = "none" /\ NoReply.v = 0
      /\ \A v : [kind |-> "same", v |-> v].v = v /\ [kind |-> "fresh", v |-> v].v = v
  BY DEF NoReply
<1>l. ASSUME Leave(h) PROVE OwnsOf(h)' /\ WantsOf(h)' /\ RepliesOf(h)'
  <2>1. pc'[h] = "idle" /\ want'[h] = None /\ reply'[h] = NoReply
    BY <1>t, <1>l DEF Typed, Leave, Goto
  <2>2. reply'[h].v <= up'
    BY <1>i, <1>n, <1>o, <2>1 DEF upVars
  <2>. QED  BY <1>t, <1>n, <2>1, <2>2 DEF OwnsOf, WantsOf, RepliesOf, Got
<1>w. (UNCHANGED <<want, storeVars>>) => WantsOf(h)'
  BY <1>h, <1>o DEF WantsOf, storeVars
<1>r. ASSUME UNCHANGED <<want, storeVars>>, pc'[h] = "store", started'[h] = clock,
             reply'[h].v \in Nat, reply'[h].v <= up,
             Got(h)' => /\ reply'[h].v # 0
                        /\ want[h] \in Projects \ crossed => row[want[h]].v <= reply'[h].v
      PROVE  OwnsOf(h)' /\ WantsOf(h)' /\ RepliesOf(h)'
  <2>1. Got(h)' => born[reply'[h].v] <= clock
    <3>1. up \in 1 .. MaxVersion /\ MaxVersion \in Nat
      BY <1>t DEF Typed, Instance, Versions
    <3>. QED  BY <1>r, <3>1 DEF IInv, History, Versions
  <2>. QED  BY <1>o, <1>i, <1>w, <1>r, <2>1 DEF OwnsOf, RepliesOf, NotOlder, upVars, storeVars
<1>1. CASE FindClient(h)
  <2>1. pc'[h] \in {"make", "found"} /\ reply'[h] = NoReply /\ UNCHANGED <<want, storeVars>>
    BY <1>t, <1>h, <1>1 DEF Typed, FindClient, Goto, RepliesOf
  <2>2. pc'[h] = "found" => inst'[h] \in Clients
    BY <1>t, <1>1 DEF Typed, FindClient, Goto
  <2>3. reply'[h].v <= up'
    BY <1>i, <1>n, <1>o, <2>1 DEF upVars
  <2>. QED  BY <1>w, <1>n, <2>1, <2>2, <2>3 DEF OwnsOf, RepliesOf, Got
<1>2. CASE MakeClient(h)
  <2>1. pc'[h] = "found" /\ reply'[h] = NoReply /\ UNCHANGED <<want, storeVars>>
    BY <1>t, <1>h, <1>2 DEF Typed, MakeClient, Goto, RepliesOf
  <2>2. inst'[h] \in Clients
    BY <1>t, <1>2 DEF Typed, MakeClient, Unmade
  <2>3. reply'[h].v <= up'
    BY <1>i, <1>n, <1>o, <2>1 DEF upVars
  <2>. QED  BY <1>w, <1>n, <2>1, <2>2, <2>3 DEF OwnsOf, RepliesOf, Got
<1>3. CASE RequestIndex(h) \/ \E p \in Projects : RequestProject(h, p)
  <2>1. pc[h] = "found" /\ pc'[h] = "lock" /\ reply'[h] = NoReply /\ UNCHANGED <<inst, row, late>>
    BY <1>t, <1>h, <1>3 DEF Typed, RequestIndex, RequestProject, Goto, RepliesOf, storeVars
  <2>2. reply'[h].v <= up'
    BY <1>i, <1>n, <1>o, <2>1 DEF upVars
  <2>3. WantsOf(h)'
    <3>1. CASE RequestIndex(h)
      BY <1>t, <3>1 DEF Typed, RequestIndex, WantsOf
    <3>2. CASE \E p \in Projects : RequestProject(h, p)
      <4>1. PICK p \in Projects : RequestProject(h, p)
        BY <3>2
      <4>2. /\ want'[h] = p /\ (\A g \in Handlers : want[g] # p)
            /\ row[p].v = 0 \/ row[p].expires <= clock
        BY <1>t, <4>1 DEF Typed, RequestProject
      <4>3. p \notin crossed' => \A w \in late : w.project # p
        BY <4>1 DEF RequestProject, LateTo
      <4>. QED  BY <1>o, <2>1, <4>2, <4>3 DEF WantsOf
    <3>. QED  BY <1>3, <3>1, <3>2
  <2>. QED  BY <1>h, <1>n, <2>1, <2>2, <2>3 DEF OwnsOf, RepliesOf, Got
<1>4. CASE LockHit(h)
  <2>1. /\ FreshPage(inst[h], clock) /\ pc[h] = "lock" /\ pc'[h] = "store"
        /\ reply'[h] = FetchFor(h, page[inst[h]].v) /\ started'[h] = clock
        /\ UNCHANGED <<want, storeVars>>
    BY <1>t, <1>4 DEF Typed, LockHit, Goto
  <2>2. inst[h] \in Clients
    BY <1>h, <2>1 DEF OwnsOf
  <2>3. page[inst[h]].v \in Nat /\ page[inst[h]].v # 0 /\ page[inst[h]].v <= up
    BY <1>t, <1>i, <2>1, <2>2 DEF Typed, Dated, FreshPage, IInv, Pages
  <2>4. want[h] \in Projects \ crossed => row[want[h]].v <= page[inst[h]].v
    BY <2>1, <2>2, FreshIsNotOlder
  <2>5. reply'[h].v \in {0, page[inst[h]].v} /\ (Got(h)' => reply'[h].v = page[inst[h]].v)
    BY <1>n, <2>1, <2>3, FetchIs DEF Got
  <2>. QED  BY <1>i, <1>r, <2>1, <2>3, <2>4, <2>5
<1>5. CASE LockMiss(h)
  <2>1. /\ pc[h] = "lock" /\ pc'[h] = "fetch" /\ reply'[h] = NoReply /\ started'[h] = clock
        /\ UNCHANGED <<want, storeVars, inst>> /\ owner' = [owner EXCEPT ![inst[h]] = h]
    BY <1>t, <1>h, <1>5 DEF Typed, LockMiss, Goto, RepliesOf
  <2>2. inst[h] \in Clients
    BY <1>h, <2>1 DEF OwnsOf
  <2>3. reply'[h].v <= up'
    BY <1>i, <1>n, <1>o, <2>1 DEF upVars
  <2>4. OwnsOf(h)'
    BY <1>t, <1>i, <1>o, <2>1, <2>2 DEF Typed, OwnsOf
  <2>. QED  BY <1>w, <1>n, <2>1, <2>3, <2>4 DEF RepliesOf, Got
<1>6. CASE Respond(h)
  <2>1. pc[h] = "fetch" /\ UNCHANGED <<pc, want, inst, started, owner, page, storeVars>>
    BY <1>6 DEF Respond
  <2>2. /\ reply'[h].v \in {0, up} /\ (Got(h)' => reply'[h].v = up)
        /\ reply'[h].kind = "same" => Validator(h) # NoTag /\ Validator(h) = Tag(up)
    BY <1>t, <1>6 DEF Typed, Respond, Got
  <2>3. reply'[h].kind = "same" /\ page[inst[h]].v # 0 => page[inst[h]].v = up
    BY <1>t, <1>h, <2>1, <2>2, SameIsCached DEF OwnsOf
  <2>4. want[h] \in Projects => row[want[h]].v <= up
    BY <1>t, <1>i DEF IInv, Rows
  <2>. QED
    BY <1>h, <1>i, <1>o, <1>w, <2>1, <2>2, <2>3, <2>4
       DEF OwnsOf, RepliesOf, Got, NotOlder, Since, upVars, storeVars
<1>7. CASE Receive(h)
  <2>1. pc[h] = "fetch" /\ inst[h] \in Clients /\ reply[h].v \in Nat
    BY <1>t, <1>i, <1>h, <1>7 DEF Typed, Receive, TakePage, Revalidate, DropPage, FetchFails, OwnsOf
  <2>2. PICK r : /\ Return(h, r)
                 /\ \/ r = NoReply
                    \/ Got(h) /\ r = FetchFor(h, reply[h].v)
                    \/ Got(h) /\ r = reply[h]
    <3>1. CASE TakePage(h) \/ DropPage(h) \/ FetchFails(h)
      BY <3>1 DEF TakePage, DropPage, FetchFails, Got
    <3>2. CASE Revalidate(h)
      <4>1. Got(h) /\ (page[inst[h]].v # 0 => page[inst[h]].v = reply[h].v)
        BY <1>h, <2>1, <3>2 DEF Revalidate, Got, RepliesOf
      <4>. QED  BY <3>2, <4>1 DEF Revalidate
    <3>. QED  BY <1>7, <3>1, <3>2 DEF Receive
  <2>3. /\ reply'[h] = r /\ pc'[h] = "store" /\ started'[h] = clock
        /\ UNCHANGED <<want, storeVars>>
    BY <1>t, <2>2 DEF Typed, Return, Goto
  <2>4. Got(h) => reply[h].v # 0 /\ reply[h].v <= up /\ NotOlder(h)
    BY <1>h DEF RepliesOf
  <2>5. r.v \in {0, reply[h].v} /\ (Got(h)' => Got(h) /\ r.v = reply[h].v)
    BY <1>n, <2>1, <2>2, <2>3, <2>4, FetchIs DEF Got
  <2>6. reply'[h].v \in Nat /\ reply'[h].v <= up
    <3>1. reply[h].v <= up
      BY <1>h DEF RepliesOf
    <3>. QED  BY <1>i, <2>1, <2>3, <2>5, <3>1
  <2>7. Got(h)' => /\ reply'[h].v # 0
                   /\ want[h] \in Projects \ crossed => row[want[h]].v <= reply'[h].v
    BY <2>3, <2>4, <2>5 DEF NotOlder
  <2>. QED  BY <1>r, <2>3, <2>6, <2>7
<1>8. CASE Store(h) \/ Answer(h) \/ Cancel(h)
  BY <1>8, <1>l DEF Store, Answer, Cancel
<1>. QED  BY <1>1, <1>2, <1>3, <1>4, <1>5, <1>6, <1>7, <1>8 DEF Step, Handle, Lock

(* The steps of others, of the upstream and of the clock leave it that.    *)
LEMMA HandlersStay ==
  ASSUME Instance, IInv, [Next]_vars, History', NEW g \in Handlers
  PROVE  OwnsOf(g)' /\ WantsOf(g)' /\ RepliesOf(g)'
<1>h. OwnsOf(g) /\ WantsOf(g) /\ RepliesOf(g)
  BY DEF IInv, Owns, Wants, Replies
<1>t. /\ up \in 1 .. MaxVersion /\ MaxVersion \in Nat /\ TTL \in Nat /\ clock \in Nat
      /\ started[g] \in Nat /\ reply[g].v \in 0 .. MaxVersion
      /\ want[g] \in Projects => row[want[g]].expires \in Nat
      /\ born \in [1 .. MaxVersion -> Nat]
  BY DEF IInv, Typed, Dated, Instance, Versions
<1>1. ASSUME NEW h \in Handlers, Step(h), h # g PROVE OwnsOf(g)' /\ WantsOf(g)' /\ RepliesOf(g)'
  <2>1. /\ UNCHANGED <<upVars, clock>>
        /\ pc'[g] = pc[g] /\ want'[g] = want[g] /\ inst'[g] = inst[g]
        /\ started'[g] = started[g] /\ reply'[g] = reply[g]
        /\ pc[g] = "fetch" => owner'[inst[g]] = g /\ page'[inst[g]] = page[inst[g]]
        /\ want[g] \in Projects =>
             /\ row'[want[g]] = row[want[g]]
             /\ want[g] \notin crossed' =>
                  want[g] \notin crossed
                  /\ \A w \in late' : w.project = want[g] => w \in late
    BY <1>1, Others
  <2>2. OwnsOf(g)'
    BY <1>h, <2>1 DEF OwnsOf
  <2>3. WantsOf(g)'
    <3>1. \A f \in Handlers : want[f] \in Projects /\ want'[f] # want[f] => f = h
      BY <1>1, Others
    <3>2. want[g] \in Projects => want'[h] # want[g]
      <4>1. ASSUME want'[h] = want[g], want[g] \in Projects PROVE FALSE
        <5>1. WantsOf(h)'
          BY <1>1, Own
        <5>. QED  BY <1>1, <2>1, <4>1, <5>1 DEF WantsOf
      <4>. QED  BY <4>1
    <3>3. \A f \in Handlers : f # h => want'[f] = want[f]
      BY <1>1, Others
    <3>. QED  BY <1>h, <2>1, <3>2, <3>3 DEF WantsOf
  <2>4. RepliesOf(g)'
    BY <1>h, <2>1 DEF RepliesOf, Got, NotOlder, Since, upVars
  <2>. QED  BY <2>2, <2>3, <2>4
<1>2. ASSUME Publish \/ Tick PROVE OwnsOf(g)' /\ WantsOf(g)' /\ RepliesOf(g)'
  <2>1. /\ UNCHANGED <<page, owner, row, late, crossed, pc, callVars>>
        /\ clock' \in Nat /\ clock <= clock'
        /\ up' \in Nat /\ up <= up'
        /\ \A v \in 1 .. up : born'[v] = born[v]
    <3>1. CASE Publish
      BY <1>t, <3>1 DEF Publish, storeVars
    <3>2. CASE Tick
      BY <1>t, <3>2 DEF Tick, upVars, storeVars
    <3>. QED  BY <1>2, <3>1, <3>2
  <2>2. OwnsOf(g)' /\ WantsOf(g)'
    BY <1>h, <1>t, <2>1 DEF OwnsOf, WantsOf, callVars
  <2>3. Got(g) /\ pc[g] = "fetch" => Since(reply[g].v, started[g])'
    <3>1. CASE Publish
      <4>1. up + 1 \in 1 .. MaxVersion /\ up' = up + 1 /\ born' = [born EXCEPT ![up + 1] = clock]
        BY <1>t, <3>1 DEF Publish
      <4>2. Got(g) /\ pc[g] = "fetch" =>
              /\ started[g] <= clock /\ reply[g].v # 0 /\ reply[g].v <= up
              /\ reply[g].v < up => started[g] <= born[reply[g].v + 1]
        BY <1>h DEF OwnsOf, RepliesOf, Since
      <4>3. reply[g].v # 0 /\ reply[g].v < up =>
              reply[g].v + 1 \in 1 .. MaxVersion /\ reply[g].v + 1 # up + 1
        BY <1>t
      <4>4. reply[g].v # 0 /\ reply[g].v < up => born'[reply[g].v + 1] = born[reply[g].v + 1]
        BY <1>t, <4>1, <4>3
      <4>5. reply[g].v = up => born'[reply[g].v + 1] = clock
        BY <1>t, <4>1
      <4>. QED  BY <1>t, <2>1, <4>2, <4>4, <4>5 DEF Since, callVars
    <3>2. CASE Tick
      BY <1>h, <2>1, <3>2 DEF Tick, RepliesOf, Since, upVars, callVars
    <3>. QED  BY <1>2, <3>1, <3>2
  <2>4. RepliesOf(g)'
    <3>1. reply[g].v <= up'
      BY <1>h, <1>t, <2>1 DEF RepliesOf
    <3>2. Got(g) /\ pc[g] = "store" =>
            born'[reply[g].v] <= started[g] /\ started[g] <= clock'
      <4>1. Got(g) => reply[g].v \in 1 .. up
        BY <1>h, <1>t DEF RepliesOf
      <4>. QED  BY <1>h, <1>t, <2>1, <4>1 DEF RepliesOf
    <3>. QED  BY <1>h, <2>1, <2>3, <3>1, <3>2 DEF RepliesOf, Got, NotOlder, callVars
  <2>. QED  BY <2>2, <2>4
<1>3. ASSUME UNCHANGED vars PROVE OwnsOf(g)' /\ WantsOf(g)' /\ RepliesOf(g)'
  BY <1>h, <1>3
     DEF OwnsOf, WantsOf, RepliesOf, Got, NotOlder, Since, vars, upVars, storeVars, callVars
<1>4. ASSUME NEW w \in late, LateWrite(w) PROVE OwnsOf(g)' /\ WantsOf(g)' /\ RepliesOf(g)'
  <2>1. /\ Write(w) /\ late' \subseteq late
        /\ UNCHANGED <<upVars, clock, page, owner, crossed, pc, callVars>>
    BY <1>4 DEF LateWrite
  <2>2. ASSUME want[g] \in Projects, want[g] \notin crossed PROVE row'[want[g]] = row[want[g]]
    <3>1. w.project # want[g]
      BY <1>h, <2>2 DEF WantsOf
    <3>2. w.project \in Projects /\ w.v \in 0 .. MaxVersion /\ w.expires \in Nat
      BY <1>t DEF IInv, Lates, LateOf, Versions
    <3>. QED  BY <2>1, <2>2, <3>1, <3>2, Writes DEF IInv
  <2>3. OwnsOf(g)' /\ WantsOf(g)'
    BY <1>h, <2>1, <2>2 DEF OwnsOf, WantsOf, callVars
  <2>4. RepliesOf(g)'
    BY <1>h, <2>1, <2>2 DEF RepliesOf, Got, NotOlder, Since, upVars, callVars
  <2>. QED  BY <2>3, <2>4
<1>. QED  BY <1>1, <1>2, <1>3, <1>4, Own DEF Next, Step

(* The records that SQLite has yet to write stay what they are.            *)
LEMMA LatesStay == ASSUME Instance, IInv, [Next]_vars PROVE Lates'
<1>t. /\ up \in 1 .. MaxVersion /\ MaxVersion \in Nat /\ TTL \in Nat /\ clock \in Nat
      /\ born \in [1 .. MaxVersion -> Nat] /\ Versions = 1 .. MaxVersion
      /\ None \notin Projects /\ Root \notin Projects
  BY DEF IInv, Typed, Instance, Versions
<1>k. ASSUME NEW w \in late, late' \subseteq late, crossed \subseteq crossed',
             up <= up', \A v \in 1 .. up : born'[v] = born[v],
             w.project \notin crossed' => row'[w.project] = row[w.project],
             w.project \notin crossed' => \A h \in Handlers : want'[h] # w.project,
             up' \in Nat
      PROVE  LateOf(w)'
  <2>1. LateOf(w)
    BY DEF IInv, Lates
  <2>2. w.v \in 1 .. up
    BY <1>t, <2>1 DEF LateOf
  <2>. QED  BY <1>t, <1>k, <2>1, <2>2 DEF LateOf
<1>1. CASE Publish \/ Tick \/ UNCHANGED vars
  <2>1. /\ UNCHANGED <<row, late, crossed, want>> /\ up <= up' /\ up' \in Nat
        /\ \A v \in 1 .. up : born'[v] = born[v]
    BY <1>t, <1>1 DEF Publish, Tick, upVars, storeVars, callVars, vars
  <2>. QED  BY <2>1, <1>k DEF IInv, Lates, LateOf
<1>2. CASE \E w \in late : LateWrite(w)
  <2>1. PICK x \in late : LateWrite(x)
    BY <1>2
  <2>2. Write(x) /\ late' = late \ {x} /\ UNCHANGED <<upVars, crossed, callVars>>
    BY <2>1 DEF LateWrite
  <2>3. ASSUME NEW w \in late, w # x PROVE LateOf(w)'
    <3>1. LateOf(w) /\ LateOf(x)
      BY DEF IInv, Lates
    <3>2. w.project \notin crossed => w.project # x.project
      BY <2>3, <3>1 DEF LateOf
    <3>3. w.project \notin crossed => row'[w.project] = row[w.project]
      BY <1>t, <2>2, <3>1, <3>2, Writes DEF IInv, LateOf
    <3>. QED  BY <1>t, <1>k, <2>2, <3>1, <3>3 DEF LateOf, upVars, callVars
  <2>. QED  BY <2>2, <2>3 DEF Lates
<1>3. ASSUME NEW h \in Handlers, Step(h) PROVE Lates'
  <2>o. UNCHANGED upVars /\ \A g \in Handlers : g # h => want'[g] = want[g]
    BY <1>3, Others
  <2>n. want'[h] \in {want[h], None, Root} \/ \E p \in Projects : RequestProject(h, p)
    BY <1>3
       DEF IInv, Typed, Step, Handle, Lock, Receive, FindClient, MakeClient, RequestIndex, Respond,
           LockHit, LockMiss, TakePage, Revalidate, DropPage, FetchFails, Return, Store, Answer,
           Cancel, Leave
  <2>w. ASSUME NEW w \in late, want'[h] \in {want[h], None, Root}, w.project \notin crossed
        PROVE  \A g \in Handlers : want'[g] # w.project
    <3>1. w.project \in Projects /\ \A g \in Handlers : want[g] # w.project
      BY <2>w DEF IInv, Lates, LateOf
    <3>. QED  BY <1>t, <2>o, <2>w, <3>1
  <2>1. CASE \E p \in Projects : RequestProject(h, p)
    <3>1. PICK p \in Projects : RequestProject(h, p)
      BY <2>1
    <3>2. /\ crossed' = crossed \cup {w.project : w \in LateTo(p)}
          /\ want'[h] = p /\ UNCHANGED <<row, late>>
      BY <3>1 DEF RequestProject, IInv, Typed
    <3>3. ASSUME NEW w \in late, w.project \notin crossed' PROVE w.project # p
      BY <3>2, <3>3 DEF LateTo
    <3>4. ASSUME NEW w \in late, w.project \notin crossed'
          PROVE  \A g \in Handlers : want'[g] # w.project
      BY <2>o, <3>2, <3>3, <3>4 DEF IInv, Lates, LateOf
    <3>. QED  BY <1>t, <1>k, <2>o, <3>2, <3>4 DEF Lates, upVars
  <2>2. CASE Store(h)
    <3>1. /\ Storing(h) /\ Write(Record(h)) /\ UNCHANGED late
          /\ crossed' = IF Record(h).touch \/ LateTo(want[h]) # {} THEN crossed
                        ELSE crossed \ {want[h]}
      BY <2>2 DEF Store
    <3>2. want'[h] = None
      BY <2>2 DEF Store, Leave, IInv, Typed
    <3>3. ASSUME NEW w \in late PROVE LateOf(w)'
      <4>1. LateOf(w)
        BY DEF IInv, Lates
      <4>2. w.project = want[h] => w.project \in crossed /\ w.project \in crossed'
        BY <3>1, <4>1 DEF LateOf, LateTo
      <4>3. w.project # want[h] => row'[w.project] = row[w.project]
        BY <1>t, <3>1, <4>1, Records, Writes DEF IInv, LateOf
      <4>4. w.project \notin crossed' => w.project \notin crossed
        BY <3>1, <4>2
      <4>. QED  BY <1>t, <2>o, <2>w, <3>1, <3>2, <4>1, <4>2, <4>3, <4>4 DEF LateOf, upVars
    <3>. QED  BY <3>1, <3>3 DEF Lates
  <2>3. CASE Cancel(h)
    <3>1. /\ UNCHANGED <<row, crossed>>
          /\ late' = late \/ (Storing(h) /\ late' = late \cup {Record(h)})
      BY <2>3 DEF Cancel
    <3>2. want'[h] = None
      BY <2>3 DEF Cancel, Leave, IInv, Typed
    <3>3. CASE late' = late
      BY <1>t, <1>k, <2>o, <2>w, <3>1, <3>2, <3>3 DEF Lates, upVars
    <3>4. CASE Storing(h) /\ late' = late \cup {Record(h)}
      <4>0. PICK r : r = Record(h)
        OBVIOUS
      <4>1. /\ r.project = want[h] /\ r.project \in Projects
            /\ r.v \in 1 .. MaxVersion /\ r.v <= up
            /\ r.expires \in Nat /\ born[r.v] + TTL <= r.expires
            /\ r.project \notin crossed => row[r.project].v <= r.v
        BY <3>4, <4>0, Records
      <4>2. r.project \notin crossed =>
              /\ \A g \in Handlers : want'[g] # r.project
              /\ \A x \in late : x.project # r.project
        <5>1. WantsOf(h)
          BY DEF IInv, Wants
        <5>. QED  BY <1>t, <2>o, <3>2, <4>1, <5>1 DEF WantsOf
      <4>3. LateOf(r)'
        <5>1. late' = late \cup {r}
          BY <3>4, <4>0
        <5>2. r.project \notin crossed => \A x \in late' : x.project = r.project => x = r
          BY <4>2, <5>1
        <5>. QED  BY <1>t, <2>o, <3>1, <4>1, <4>2, <5>2 DEF LateOf, upVars
      <4>4. ASSUME NEW w \in late PROVE LateOf(w)'
        <5>1. LateOf(w)
          BY DEF IInv, Lates
        <5>2. w.project \notin crossed => w.project # r.project
          BY <4>1, <4>4, <5>1 DEF LateOf
        <5>. QED
          BY <1>t, <2>o, <2>w, <3>1, <3>2, <3>4, <4>0, <5>1, <5>2 DEF LateOf, upVars
      <4>. QED  BY <3>4, <4>0, <4>3, <4>4 DEF Lates
    <3>. QED  BY <3>1, <3>3, <3>4
  <2>4. CASE /\ UNCHANGED storeVars /\ want'[h] \in {want[h], None, Root}
    BY <1>t, <1>k, <2>o, <2>w, <2>4 DEF Lates, upVars, storeVars
  <2>. QED
    BY <1>3, <2>n, <2>1, <2>2, <2>3, <2>4
       DEF Step, Handle, Lock, Receive, FindClient, MakeClient, RequestIndex, Respond,
           LockHit, LockMiss, TakePage, Revalidate, DropPage, FetchFails, Return, Answer
<1>. QED  BY <1>1, <1>2, <1>3 DEF Next, Step

LEMMA Inductive == ASSUME Instance, IInv, [Next]_vars PROVE IInv'
BY TypesStay, TimesStay, HandlersStay, LatesStay DEF IInv, Owns, Wants, Replies

LEMMA Invariance == ASSUME Instance PROVE Spec => []IInv
BY Initially, Inductive, PTL DEF Spec

(* What the invariant gives of the two properties.                         *)
LEMMA Recency == ASSUME Instance, IInv PROVE FreshIsRecent
<1>1. ASSUME NEW c \in Clients, FreshPage(c, clock), page[c].v < up
      PROVE  clock < born[page[c].v + 1] + TTL
  <2>1. /\ page[c].v \in 0 .. MaxVersion /\ up \in 1 .. MaxVersion /\ clock \in Nat
        /\ MaxVersion \in Nat /\ TTL \in Nat /\ born \in [1 .. MaxVersion -> Nat]
    BY <1>1 DEF Instance, IInv, Typed, Dated, Versions
  <2>2. page[c].v # 0 /\ clock < page[c].expires
    BY <1>1 DEF FreshPage
  <2>3. PICK s \in Nat : page[c].expires = s + TTL /\ s <= born[page[c].v + 1]
    BY <1>1, <2>2 DEF IInv, Pages, Since
  <2>4. born[page[c].v + 1] \in Nat
    <3>1. page[c].v + 1 \in 1 .. MaxVersion
      BY <1>1, <2>1
    <3>. QED  BY <2>1, <3>1
  <2>. QED  BY <2>1, <2>2, <2>3, <2>4
<1>. QED  BY <1>1 DEF FreshIsRecent

LEMMA StepAdvances == ASSUME Instance, IInv, [Next]_vars PROVE LinksAdvance
<1>t. \A p \in Projects : row[p].v \in Nat
  BY DEF Instance, IInv, Typed, Dated
<1>1. CASE \E h \in Handlers : Store(h)
  <2>1. PICK h \in Handlers : Store(h)
    BY <1>1
  <2>2. /\ Storing(h) /\ Write(Record(h))
    BY <2>1 DEF Store
  <2>. QED  BY <1>t, <2>2, Records, Writes DEF LinksAdvance, IInv
<1>2. CASE \E w \in late : LateWrite(w)
  <2>1. PICK w \in late : LateWrite(w)
    BY <1>2
  <2>2. LateOf(w)
    BY DEF IInv, Lates
  <2>3. w.v \in 0 .. MaxVersion
    BY <2>2 DEF LateOf, Versions, Instance
  <2>. QED  BY <1>t, <2>1, <2>2, <2>3, Writes DEF LinksAdvance, LateOf, LateWrite, IInv
<1>3. CASE UNCHANGED row
  BY <1>t, <1>3 DEF LinksAdvance
<1>. QED
  BY <1>1, <1>2, <1>3
     DEF Next, Handle, Lock, Receive, FindClient, MakeClient, RequestIndex, RequestProject, Respond,
         LockHit, LockMiss, TakePage, Revalidate, DropPage, FetchFails, Return, Answer, Cancel,
         Publish, Tick, vars, storeVars

(* A page that would be answered from memory is no older than a time to    *)
(* live, if the upstream sends an etag with every page or with none        *)
(* (fetch_flat_project).                                                   *)
THEOREM Recent == ASSUME Instance PROVE Spec => []FreshIsRecent
BY Recency, Invariance, PTL

(* The links of a project never go back to those of an older page, with    *)
(* any number of clients of the channel (pytorch_channel_upstream) and of  *)
(* dropped handlers whose writes are late (store_project), but where a     *)
(* request for the project was made while such a write was to come.        *)
THEOREM Advances == ASSUME Instance PROVE Spec => RowAdvances
<1>1. IInv /\ [Next]_vars => [LinksAdvance]_vars
  BY StepAdvances
<1>. QED  BY <1>1, Invariance, PTL DEF Spec, RowAdvances
=============================================================================
