-------------------------- MODULE CacheIndexProofs --------------------------
(***************************************************************************)
(* For any projects, links, files, sizes and limit: the types, the         *)
(* statistics are exact, and a prune leaves the cache in its limit and     *)
(* evicts the least recently used files, no more than it has to.           *)
(*                                                                         *)
(* Exactness is inductive together with the types.  A write either recounts*)
(* a project, or leaves alone what a count of it looks at: its links, which*)
(* of the blobs it has links to are ready, and their sizes (CountSame).    *)
(*                                                                         *)
(* For the prune three things are proved of what it computes: sums do not  *)
(* depend on the order of adding up (SumTakes), the candidates are all the *)
(* rows in the order of use (CandidatesAre), and the loop over them evicts *)
(* as many from the front as it has to (VictimsFit).  That the rows it has *)
(* read are still the ready ones when it deletes is the invariant PruneInv.*)
(***************************************************************************)
EXTENDS CacheIndex, FiniteSetTheorems, WellFoundedInduction, TLAPS

(* A count does not change while the same blobs of the page are ready with *)
(* the same sizes.                                                         *)
LEMMA CountSame ==
  ASSUME NEW page, NEW T, NEW U,
         CachedOf(page, T) = CachedOf(page, U),
         \A b \in CachedOf(page, T) : T[b].size = U[b].size
  PROVE  CountOf(page, T) = CountOf(page, U)
<1>1. [b \in CachedOf(page, T) |-> T[b].size] = [b \in CachedOf(page, U) |-> U[b].size]
  OBVIOUS
<1> QED BY <1>1 DEF CountOf

(* ... in particular while all ready rows keep their state and size.       *)
LEMMA CountKept ==
  ASSUME NEW page, NEW T, NEW U,
         Ready(T) = Ready(U),
         \A b \in Ready(T) : T[b].size = U[b].size
  PROVE  CountOf(page, T) = CountOf(page, U)
<1>1. CachedOf(page, T) = CachedOf(page, U)
  BY DEF CachedOf
<1>2. \A b \in CachedOf(page, T) : T[b].size = U[b].size
  BY DEF CachedOf
<1> QED BY <1>1, <1>2, CountSame

-----------------------------------------------------------------------------
LEMMA InitType == Init => TypeOK
<1> SUFFICES ASSUME Init PROVE TypeOK
  OBVIOUS
<1>1. 0 \in Times
  BY SizeAssumption DEF Times
<1>2. DOMAIN NoRows = {} /\ DOMAIN links = {} /\ DOMAIN stats = {}
  BY DEF Init, NoRows
<1> QED BY <1>1, <1>2 DEF Init, TypeOK, Ready

LEMMA NextType == TypeOK /\ [Next]_vars => TypeOK'
<1> SUFFICES ASSUME TypeOK, [Next]_vars PROVE TypeOK'
  OBVIOUS
<1> USE SizeAssumption
<1>0. DOMAIN NoRows = {}
  BY DEF NoRows
<1>1. ASSUME NEW p \in Projects, NEW page \in SUBSET Links, StoreProject(p, page)
      PROVE  TypeOK'
  <2>1. DOMAIN links' \subseteq Projects /\ \A q \in DOMAIN links' : links'[q] \subseteq Links
    BY <1>1 DEF Put, StoreProject, TypeOK
  <2>2. DOMAIN stats' = DOMAIN links'
    BY <1>1 DEF Put, StoreProject, TypeOK
  <2> QED BY <1>1, <2>1, <2>2 DEF StoreProject, TypeOK, Ready
<1>2. ASSUME NEW b \in Blobs, MarkPending(b) PROVE TypeOK'
  <2>1. Pending \in Row
    BY DEF Pending, Row, Times
  <2>2. /\ DOMAIN blobs' \subseteq Blobs
        /\ \A c \in DOMAIN blobs' : blobs'[c] \in Row
        /\ \A c \in DOMAIN blobs : c \in DOMAIN blobs' /\ blobs'[c] = blobs[c]
    <3>1. CASE b \in DOMAIN blobs
      BY <1>2, <3>1 DEF MarkPending, TypeOK
    <3>2. CASE b \notin DOMAIN blobs
      BY <1>2, <3>2, <2>1 DEF Put, MarkPending, TypeOK
    <3> QED BY <3>1, <3>2
  <2>3. job' \in [Blobs -> {"none", "body", "prune", "delete"}]
        /\ \A c \in Blobs : job'[c] = "delete" => job[c] = "delete"
    BY <1>2 DEF MarkPending, TypeOK
  <2>4. DOMAIN snap' \subseteq Ready(blobs')
    BY <1>2, <2>2 DEF MarkPending, TypeOK, Ready
  <2> QED BY <1>2, <2>2, <2>3, <2>4 DEF MarkPending, TypeOK
<1>3. ASSUME NEW b \in Blobs, NEW t \in 0 .. now, Touch(b, t) PROVE TypeOK'
  <2>1. t \in Times
    BY DEF TypeOK, Times
  <2>2. b \in DOMAIN blobs /\ DOMAIN blobs' = DOMAIN blobs
        /\ blobs'[b] = [blobs[b] EXCEPT !.accessed = t]
        /\ \A c \in DOMAIN blobs \ {b} : blobs'[c] = blobs[c]
    BY <1>3 DEF Touch, Ready
  <2>3. blobs'[b] \in Row /\ blobs'[b].state = blobs[b].state
    BY <2>1, <2>2 DEF TypeOK, Row
  <2>4. \A c \in DOMAIN blobs' : blobs'[c] \in Row /\ blobs'[c].state = blobs[c].state
    BY <2>2, <2>3 DEF TypeOK
  <2>5. Ready(blobs') = Ready(blobs)
    BY <2>2, <2>4 DEF Ready
  <2> QED BY <1>3, <2>2, <2>4, <2>5 DEF Touch, TypeOK
<1>4. ASSUME NEW b \in Blobs, NEW size \in Sizes, NEW t \in 0 .. now, MarkReady(b, size, t)
      PROVE  TypeOK'
  <2>1. t \in Times
    BY DEF TypeOK, Times
  <2>2. /\ DOMAIN blobs' = DOMAIN blobs
        /\ \A c \in DOMAIN blobs' : blobs'[c] \in Row
        /\ Ready(blobs) \subseteq Ready(blobs')
    BY <1>4, <2>1 DEF MarkReady, TypeOK, Row, Ready
  <2>3. DOMAIN stats' = DOMAIN stats
    BY <1>4 DEF MarkReady, Recount
  <2>4. job' \in [Blobs -> {"none", "body", "prune", "delete"}]
        /\ \A c \in Blobs : job'[c] = "delete" => job[c] = "delete"
    BY <1>4 DEF MarkReady, TypeOK
  <2> QED BY <1>4, <2>2, <2>3, <2>4 DEF MarkReady, TypeOK
<1>5. ASSUME NEW b \in Blobs, Fail(b) PROVE TypeOK'
  BY <1>5 DEF Fail, TypeOK, Ready
<1>6. ASSUME NEW b \in Blobs, PruneRead(b) PROVE TypeOK'
  <2>1. job' \in [Blobs -> {"none", "body", "prune", "delete"}]
        /\ \A c, d \in Blobs : job'[c] = "delete" /\ job'[d] = "delete" => c = d
    BY <1>6 DEF PruneRead, TypeOK, Locked
  <2>2. DOMAIN snap' \subseteq Ready(blobs) /\ \A c \in DOMAIN snap' : snap'[c] \in Row
    BY <1>6 DEF PruneRead, TypeOK, Ready
  <2> QED BY <1>6, <2>1, <2>2 DEF PruneRead, TypeOK, Ready
<1>7. ASSUME NEW b \in Blobs, PruneDelete(b) PROVE TypeOK'
  <2>1. /\ DOMAIN blobs' \subseteq DOMAIN blobs
        /\ \A c \in DOMAIN blobs' : blobs'[c] = blobs[c]
    BY <1>7 DEF PruneDelete, Restrict
  <2>2. DOMAIN stats' = DOMAIN stats
    BY <1>7 DEF PruneDelete, Recount
  <2>3. job' \in [Blobs -> {"none", "body", "prune", "delete"}]
        /\ \A c \in Blobs : job'[c] = "delete" => job[c] = "delete"
    BY <1>7 DEF PruneDelete, TypeOK
  <2> QED BY <1>0, <1>7, <2>1, <2>2, <2>3 DEF PruneDelete, TypeOK
<1>8. ASSUME NEW b \in Blobs, PruneFails(b) PROVE TypeOK'
  BY <1>0, <1>8 DEF PruneFails, TypeOK, Ready
<1>9. CASE Restart
  BY <1>0, <1>9 DEF Restart, TypeOK, Ready
<1>10. CASE Tick
  BY <1>10 DEF Tick, TypeOK, Ready, Times
<1>11. CASE UNCHANGED vars
  BY <1>11 DEF vars, TypeOK, Ready
<1> QED BY <1>1, <1>2, <1>3, <1>4, <1>5, <1>6, <1>7, <1>8, <1>9, <1>10, <1>11 DEF Next

(* Every reachable state is well typed, every project in the index has     *)
(* statistics, and no two prunes hold the lock of the database.            *)
THEOREM TypeCorrect == Spec => []TypeOK
BY InitType, NextType, PTL DEF Spec

-----------------------------------------------------------------------------
(* A project without a link to B is counted alike before and after a write *)
(* that changes rows of B only.                                            *)
LEMMA NotLinked ==
  ASSUME TypeOK, NEW B, NEW U,
         \A b \in Blobs \ B : b \in Ready(blobs) <=> b \in Ready(U),
         \A b \in Ready(blobs) \ B : blobs[b].size = U[b].size,
         NEW p \in DOMAIN links, p \notin Linking(B)
  PROVE  CountOf(links[p], blobs) = CountOf(links[p], U)
<1>1. \A l \in links[p] : BlobOf[l] \in Blobs \ B
  BY BlobAssumption DEF TypeOK, Linking
<1>2. CachedOf(links[p], blobs) = CachedOf(links[p], U)
  BY <1>1 DEF CachedOf
<1>3. \A b \in CachedOf(links[p], blobs) : blobs[b].size = U[b].size
  BY <1>1 DEF CachedOf
<1> QED BY <1>2, <1>3, CountSame

(* So after a write of rows of B, recounting the projects with links to B  *)
(* is enough.                                                              *)
LEMMA RecountExact ==
  ASSUME TypeOK, StatsExact, NEW B,
         UNCHANGED links, Recount(B),
         \A b \in Blobs \ B : b \in Ready(blobs) <=> b \in Ready(blobs'),
         \A b \in Ready(blobs) \ B : blobs[b].size = blobs'[b].size
  PROVE  StatsExact'
<1>1. DOMAIN stats = DOMAIN links
  BY DEF TypeOK
<1>2. ASSUME NEW p \in DOMAIN links
      PROVE  stats'[p] = CountOf(links'[p], blobs')
  <2>1. CASE p \in Linking(B)
    BY <1>1, <2>1 DEF Recount
  <2>2. CASE p \notin Linking(B)
    <3>1. stats'[p] = CountOf(links[p], blobs)
      BY <1>1, <2>2 DEF Recount, StatsExact
    <3>2. CountOf(links[p], blobs) = CountOf(links[p], blobs')
      BY <2>2, NotLinked
    <3> QED BY <3>1, <3>2
  <2> QED BY <2>1, <2>2
<1>3. DOMAIN stats' = DOMAIN links' /\ stats' = [p \in DOMAIN stats' |-> stats'[p]]
  BY <1>1 DEF Recount
<1> QED BY <1>2, <1>3 DEF StatsExact

(* A write that keeps links, statistics, and the ready rows' sizes.        *)
LEMMA StatsKept ==
  ASSUME StatsExact, UNCHANGED <<links, stats>>,
         Ready(blobs) = Ready(blobs'),
         \A b \in Ready(blobs) : blobs[b].size = blobs'[b].size
  PROVE  StatsExact'
<1>1. \A p \in DOMAIN links : CountOf(links[p], blobs) = CountOf(links[p], blobs')
  BY CountKept
<1> QED BY <1>1 DEF StatsExact

LEMMA StatsStep == TypeOK /\ StatsExact /\ [Next]_vars => StatsExact'
<1> SUFFICES ASSUME TypeOK, StatsExact, [Next]_vars PROVE StatsExact'
  OBVIOUS
<1>1. ASSUME NEW p \in Projects, NEW page \in SUBSET Links, StoreProject(p, page)
      PROVE  StatsExact'
  <2>1. DOMAIN stats = DOMAIN links
    BY DEF TypeOK
  <2>2. stats' = Put(stats, p, CountOf(page, blobs)) /\ links' = Put(links, p, page)
        /\ blobs' = blobs
    BY <1>1 DEF StoreProject
  <2>3. \A q \in DOMAIN links' : stats'[q] = CountOf(links'[q], blobs')
    <3> TAKE q \in DOMAIN links'
    <3>1. CASE q = p
      BY <2>2, <3>1 DEF Put
    <3>2. CASE q # p
      <4>1. q \in DOMAIN links /\ links'[q] = links[q] /\ stats'[q] = stats[q]
        BY <2>1, <2>2, <3>2 DEF Put
      <4>2. stats[q] = CountOf(links[q], blobs)
        BY <4>1 DEF StatsExact
      <4> QED BY <2>2, <4>1, <4>2
    <3> QED BY <3>1, <3>2
  <2>4. stats' = [q \in DOMAIN links' |-> stats'[q]]
    BY <2>1, <2>2 DEF Put
  <2> QED BY <2>3, <2>4 DEF StatsExact
<1>2. ASSUME NEW b \in Blobs, MarkPending(b) PROVE StatsExact'
  <2>1. CASE b \in DOMAIN blobs
    BY <1>2, <2>1 DEF MarkPending, StatsExact
  <2>2. CASE b \notin DOMAIN blobs
    <3>1. blobs' = Put(blobs, b, Pending) /\ Pending.state # "ready"
      BY <1>2, <2>2 DEF MarkPending, Pending
    <3>2. Ready(blobs') = Ready(blobs)
      BY <2>2, <3>1 DEF Put, Ready
    <3>3. \A c \in Ready(blobs) : blobs'[c].size = blobs[c].size
      BY <2>2, <3>1 DEF Put, Ready
    <3> QED BY <1>2, <3>2, <3>3, StatsKept DEF MarkPending
  <2> QED BY <2>1, <2>2
<1>3. ASSUME NEW b \in Blobs, NEW t \in 0 .. now, Touch(b, t) PROVE StatsExact'
  <2>1. b \in DOMAIN blobs /\ blobs[b] \in Row
    BY <1>3 DEF Touch, Ready, TypeOK
  <2>2. blobs' = [blobs EXCEPT ![b] = [blobs[b] EXCEPT !.accessed = t]]
    BY <1>3 DEF Touch
  <2>3. \A c \in DOMAIN blobs : blobs'[c].state = blobs[c].state
                                /\ blobs'[c].size = blobs[c].size
    BY <2>1, <2>2 DEF Row, TypeOK
  <2>4. DOMAIN blobs' = DOMAIN blobs
    BY <2>2
  <2>5. Ready(blobs') = Ready(blobs)
    BY <2>3, <2>4 DEF Ready
  <2>6. \A c \in Ready(blobs) : blobs[c].size = blobs'[c].size
    BY <2>3 DEF Ready
  <2> QED BY <1>3, <2>5, <2>6, StatsKept DEF Touch
<1>4. ASSUME NEW b \in Blobs, NEW size \in Sizes, NEW t \in 0 .. now, MarkReady(b, size, t)
      PROVE  StatsExact'
  <2>1. DOMAIN blobs' = DOMAIN blobs /\ \A c \in DOMAIN blobs \ {b} : blobs'[c] = blobs[c]
    BY <1>4 DEF MarkReady
  <2>2. \A c \in Blobs \ {b} : c \in Ready(blobs) <=> c \in Ready(blobs')
    BY <2>1 DEF Ready
  <2>3. \A c \in Ready(blobs) \ {b} : blobs[c].size = blobs'[c].size
    BY <2>1 DEF Ready
  <2> QED BY <1>4, <2>2, <2>3, RecountExact DEF MarkReady
<1>5. ASSUME NEW b \in Blobs, Fail(b) PROVE StatsExact'
  BY <1>5 DEF Fail, StatsExact
<1>6. ASSUME NEW b \in Blobs, PruneRead(b) PROVE StatsExact'
  BY <1>6 DEF PruneRead, StatsExact
<1>7. ASSUME NEW b \in Blobs, PruneDelete(b) PROVE StatsExact'
  <2> DEFINE V == Victims(snap)
  <2> HIDE DEF V
  <2>1. DOMAIN blobs' = DOMAIN blobs \ V /\ \A c \in DOMAIN blobs' : blobs'[c] = blobs[c]
    BY <1>7 DEF PruneDelete, Restrict, V
  <2>2. \A c \in Blobs \ V : c \in Ready(blobs) <=> c \in Ready(blobs')
    BY <2>1 DEF Ready
  <2>3. \A c \in Ready(blobs) \ V : blobs[c].size = blobs'[c].size
    BY <2>1 DEF Ready
  <2>4. Recount(V) /\ UNCHANGED links
    BY <1>7 DEF PruneDelete, V
  <2> QED BY <2>2, <2>3, <2>4, RecountExact
<1>8. ASSUME NEW b \in Blobs, PruneFails(b) PROVE StatsExact'
  BY <1>8 DEF PruneFails, StatsExact
<1>9. CASE Restart
  BY <1>9 DEF Restart, StatsExact
<1>10. CASE Tick
  BY <1>10 DEF Tick, StatsExact
<1>11. CASE UNCHANGED vars
  BY <1>11 DEF vars, StatsExact
<1> QED BY <1>1, <1>2, <1>3, <1>4, <1>5, <1>6, <1>7, <1>8, <1>9, <1>10, <1>11 DEF Next

(* The statistics of every project are exact in every reachable state:     *)
(* recounting the projects with links to the written blobs, in the same    *)
(* transaction, misses none.                                               *)
THEOREM Statistics == Spec => []StatsExact
<1>1. Init => StatsExact
  BY DEF Init, StatsExact
<1> QED BY <1>1, InitType, NextType, StatsStep, PTL DEF Spec
-----------------------------------------------------------------------------
(* Every set of numbers that is not empty has a least one.                 *)
LEMMA Least ==
  ASSUME NEW S \in SUBSET Nat, S # {}
  PROVE  \E m \in S : \A x \in S : m <= x
<1>1. IsWellFoundedOn(OpToRel(<, Nat), Nat)
  BY NatLessThanWellFounded
<1>2. PICK m \in S : \A x \in S : <<x, m>> \notin OpToRel(<, Nat)
  BY <1>1, WFMin
<1>3. ASSUME NEW x \in S PROVE m <= x
  <2>1. ~ (x < m)
    BY <1>2 DEF OpToRel
  <2>. QED  BY <2>1
<1>. QED  BY <1>3


-----------------------------------------------------------------------------
(* Sums.  SumFunctionOnSet adds up in the order in which CHOOSE takes      *)
(* elements out of the set; what follows says that the order is of no      *)
(* account.  Induction is by the smallest set that is an exception.        *)
LEMMA Smallest ==
  ASSUME NEW S, IsFiniteSet(S), NEW B \in SUBSET (SUBSET S), B # {}
  PROVE  \E s \in B : \A t \in SUBSET s : t # s => t \notin B
<1>1. IsWellFoundedOn(StrictSubsetOrdering(S), FiniteSubsetsOf(S))
  BY FS_StrictSubsetOrderingWellFounded
<1>2. B \subseteq FiniteSubsetsOf(S)
  BY FS_Subset DEF FiniteSubsetsOf
<1>3. PICK s \in B : \A t \in B : <<t, s>> \notin StrictSubsetOrdering(S)
  BY <1>1, <1>2, WFMin
<1>4. ASSUME NEW t \in SUBSET s, t # s, t \in B PROVE FALSE
  BY <1>3, <1>4 DEF StrictSubsetOrdering
<1>. QED  BY <1>4

Picked(s) == CHOOSE x \in s : TRUE

(* g adds up f over every part of S. *)
Adds(f, S, g) ==
  g = [s \in SUBSET S |-> IF s = {} THEN 0 ELSE f[Picked(s)] + g[s \ {Picked(s)}]]

LEMMA SumIs ==
  ASSUME NEW f, NEW S
  PROVE  SumFunctionOnSet(f, S) = (CHOOSE g : Adds(f, S, g))[S]
BY DEF SumFunctionOnSet, FoldFunctionOnSet, MapThenFoldSet, Adds, Picked

LEMMA AddsAt ==
  ASSUME NEW f, NEW S, NEW g, Adds(f, S, g)
  PROVE  \A s \in SUBSET S : g[s] = IF s = {} THEN 0 ELSE f[Picked(s)] + g[s \ {Picked(s)}]
<1>. DEFINE h == [t \in SUBSET S |-> IF t = {} THEN 0 ELSE f[Picked(t)] + g[t \ {Picked(t)}]]
<1>1. g = h
  BY DEF Adds
<1>2. \A s \in SUBSET S : h[s] = IF s = {} THEN 0 ELSE f[Picked(s)] + g[s \ {Picked(s)}]
  OBVIOUS
<1>. HIDE DEF h
<1>. QED  BY <1>1, <1>2

LEMMA PickedIn == ASSUME NEW s, s # {} PROVE Picked(s) \in s
BY DEF Picked

(* What adds up two functions that agree, over two sets, agrees.           *)
LEMMA Agree ==
  ASSUME NEW S, IsFiniteSet(S), NEW T \in SUBSET S, NEW f, NEW e, \A x \in T : f[x] = e[x],
         NEW g, NEW h, Adds(f, S, g), Adds(e, T, h)
  PROVE  \A s \in SUBSET T : g[s] = h[s]
<1>. DEFINE B == {s \in SUBSET T : g[s] # h[s]}
<1>. SUFFICES ASSUME B # {} PROVE FALSE
  OBVIOUS
<1>1. IsFiniteSet(T)
  BY FS_Subset
<1>2. PICK s \in B : \A t \in SUBSET s : t # s => t \notin B
  <2>1. B \in SUBSET (SUBSET T)
    OBVIOUS
  <2>. HIDE DEF B
  <2>. QED  BY <1>1, <2>1, Smallest
<1>3. /\ g[s] = IF s = {} THEN 0 ELSE f[Picked(s)] + g[s \ {Picked(s)}]
      /\ h[s] = IF s = {} THEN 0 ELSE e[Picked(s)] + h[s \ {Picked(s)}]
  <2>1. s \in SUBSET S /\ s \in SUBSET T
    OBVIOUS
  <2>2. g[s] = IF s = {} THEN 0 ELSE f[Picked(s)] + g[s \ {Picked(s)}]
    <3>1. \A r \in SUBSET S : g[r] = IF r = {} THEN 0 ELSE f[Picked(r)] + g[r \ {Picked(r)}]
      BY AddsAt
    <3>. QED  BY <2>1, <3>1
  <2>3. h[s] = IF s = {} THEN 0 ELSE e[Picked(s)] + h[s \ {Picked(s)}]
    BY <2>1, AddsAt
  <2>. QED  BY <2>2, <2>3
<1>4. CASE s = {}
  BY <1>3, <1>4
<1>5. CASE s # {}
  <2>1. Picked(s) \in s
    BY <1>5, PickedIn
  <2>2. g[s \ {Picked(s)}] = h[s \ {Picked(s)}]
    BY <1>2, <2>1
  <2>. QED  BY <1>3, <1>5, <2>1, <2>2
<1>. QED  BY <1>4, <1>5

Summed(f, s) ==
  SumFunctionOnSet(f, s) = IF s = {} THEN 0
                           ELSE f[Picked(s)] + SumFunctionOnSet(f, s \ {Picked(s)})

(* What one function adds up over a set is the sum of a part of it.        *)
LEMMA SumAt ==
  ASSUME NEW S, IsFiniteSet(S), NEW f, NEW g, Adds(f, S, g), NEW s \in SUBSET S,
         \E h : Adds(f, s, h)
  PROVE  g[s] = SumFunctionOnSet(f, s)
<1>1. PICK h : h = CHOOSE a : Adds(f, s, a)
  OBVIOUS
<1>2. Adds(f, s, h) /\ SumFunctionOnSet(f, s) = h[s]
  BY <1>1, SumIs
<1>3. \A t \in SUBSET s : g[t] = h[t]
  BY <1>2, Agree
<1>. QED  BY <1>2, <1>3

LEMMA SumExists ==
  ASSUME NEW S, IsFiniteSet(S), NEW f
  PROVE  \A T \in SUBSET S : \E g : Adds(f, T, g)
<1>. DEFINE B == {T \in SUBSET S : ~\E g : Adds(f, T, g)}
<1>. SUFFICES ASSUME B # {} PROVE FALSE
  OBVIOUS
<1>1. PICK T \in B : \A t \in SUBSET T : t # T => t \notin B
  <2>1. B \in SUBSET (SUBSET S)
    OBVIOUS
  <2>. HIDE DEF B
  <2>. QED  BY <2>1, Smallest
<1>2. \A t \in SUBSET T : t # T => \E g : Adds(f, t, g)
  BY <1>1
<1>. DEFINE sum(s) == SumFunctionOnSet(f, s)
            g == [s \in SUBSET T |-> IF s = {} THEN 0 ELSE f[Picked(s)] + sum(s \ {Picked(s)})]
<1>3. ASSUME NEW s \in SUBSET T, s # T PROVE g[s] = sum(s)
  <2>1. PICK h : Adds(f, s, h)
    BY <1>2, <1>3
  <2>2. IsFiniteSet(s)
    BY FS_Subset
  <2>3. h[s] = sum(s) /\ h[s] = IF s = {} THEN 0 ELSE f[Picked(s)] + h[s \ {Picked(s)}]
    BY <2>1, <2>2, SumAt, AddsAt
  <2>4. CASE s = {}
    BY <2>3, <2>4
  <2>5. CASE s # {}
    <3>1. Picked(s) \in s
      BY <2>5, PickedIn
    <3>2. PICK r : r = s \ {Picked(s)}
      OBVIOUS
    <3>3. r \in SUBSET s /\ r \in SUBSET T /\ r # T
      BY <3>1, <3>2
    <3>4. \E a : Adds(f, r, a)
      BY <1>2, <3>3
    <3>5. h[r] = sum(r)
      BY <2>1, <2>2, <3>3, <3>4, SumAt
    <3>. QED  BY <2>3, <2>5, <3>2, <3>5
  <2>. QED  BY <2>4, <2>5
<1>4. ASSUME NEW s \in SUBSET T, s # {} PROVE g[s \ {Picked(s)}] = sum(s \ {Picked(s)})
  <2>1. Picked(s) \in s
    BY <1>4, PickedIn
  <2>. QED  BY <1>3, <2>1
<1>. HIDE DEF sum
<1>5. Adds(f, T, g)
  <2>1. \A s \in SUBSET T : (IF s = {} THEN 0 ELSE f[Picked(s)] + sum(s \ {Picked(s)}))
                          = (IF s = {} THEN 0 ELSE f[Picked(s)] + g[s \ {Picked(s)}])
    BY <1>4
  <2>2. g = [s \in SUBSET T |-> IF s = {} THEN 0 ELSE f[Picked(s)] + g[s \ {Picked(s)}]]
    BY <2>1
  <2>. QED  BY <2>2 DEF Adds
<1>. QED  BY <1>1, <1>5

LEMMA SumStep ==
  ASSUME NEW S, IsFiniteSet(S), NEW f
  PROVE  \A s \in SUBSET S : Summed(f, s)
<1>. SUFFICES ASSUME NEW s \in SUBSET S PROVE Summed(f, s)
  OBVIOUS
<1>1. IsFiniteSet(s) /\ \A t \in SUBSET s : \E g : Adds(f, t, g)
  BY FS_Subset, SumExists
<1>2. PICK g : Adds(f, s, g)
  BY <1>1
<1>3. \A t \in SUBSET s : g[t] = SumFunctionOnSet(f, t)
  BY <1>1, <1>2, SumAt
<1>4. g[s] = IF s = {} THEN 0 ELSE f[Picked(s)] + g[s \ {Picked(s)}]
  BY <1>2, AddsAt
<1>5. s \in SUBSET s /\ s \ {Picked(s)} \in SUBSET s
  OBVIOUS
<1>. QED  BY <1>3, <1>4, <1>5 DEF Summed

(* A sum over a finite set is a number, whose order does not matter.       *)
Takes(f, s) ==
  /\ SumFunctionOnSet(f, s) \in Nat
  /\ \A y \in s : SumFunctionOnSet(f, s) = f[y] + SumFunctionOnSet(f, s \ {y})

LEMMA SumTakes ==
  ASSUME NEW S, IsFiniteSet(S), NEW f \in [S -> Nat]
  PROVE  \A s \in SUBSET S : Takes(f, s)
<1>. DEFINE B == {s \in SUBSET S : ~Takes(f, s)}
            sum(s) == SumFunctionOnSet(f, s)
<1>. SUFFICES ASSUME B # {} PROVE FALSE
  OBVIOUS
<1>1. PICK s \in B : \A t \in SUBSET s : t # s => t \notin B
  <2>1. B \in SUBSET (SUBSET S)
    OBVIOUS
  <2>. HIDE DEF B
  <2>. QED  BY <2>1, Smallest
<1>2. \A t \in SUBSET s : t # s => Takes(f, t)
  BY <1>1
<1>3. \A t \in SUBSET s : t # s => sum(t) \in Nat /\ \A y \in t : sum(t) = f[y] + sum(t \ {y})
  BY <1>2 DEF Takes
<1>4. Summed(f, s)
  BY SumStep
<1>5. sum(s) = IF s = {} THEN 0 ELSE f[Picked(s)] + sum(s \ {Picked(s)})
  BY <1>4 DEF Summed
<1>. HIDE DEF sum
<1>6. Takes(f, s) <=> sum(s) \in Nat /\ \A y \in s : sum(s) = f[y] + sum(s \ {y})
  BY DEF Takes, sum
<1>7. CASE s = {}
  BY <1>1, <1>5, <1>6, <1>7
<1>8. CASE s # {}
  <2>1. PICK x : x = Picked(s)
    OBVIOUS
  <2>2. x \in s /\ sum(s) = f[x] + sum(s \ {x}) /\ f[x] \in Nat
    BY <1>5, <1>8, <2>1, PickedIn
  <2>3. sum(s \ {x}) \in Nat
    BY <1>3, <2>2
  <2>4. ASSUME NEW y \in s, y # x PROVE sum(s) = f[y] + sum(s \ {y})
    <3>1. PICK r : r = (s \ {x}) \ {y}
      OBVIOUS
    <3>2. r = (s \ {y}) \ {x} /\ r \in SUBSET s /\ r # s
      BY <2>2, <3>1
    <3>3. sum(s \ {x}) = f[y] + sum(r)
      <4>1. s \ {x} \in SUBSET s /\ s \ {x} # s /\ y \in s \ {x}
        BY <2>2, <2>4
      <4>. QED  BY <1>3, <3>1, <4>1
    <3>4. sum(s \ {y}) = f[x] + sum(r)
      <4>1. s \ {y} \in SUBSET s /\ s \ {y} # s /\ x \in s \ {y}
        BY <2>2, <2>4
      <4>. QED  BY <1>3, <3>2, <4>1
    <3>5. f[y] \in Nat /\ sum(r) \in Nat
      BY <1>3, <3>2
    <3>. QED  BY <2>2, <3>3, <3>4, <3>5
  <2>5. sum(s) \in Nat
    BY <2>2, <2>3
  <2>. QED  BY <1>1, <1>6, <2>2, <2>4, <2>5
<1>. QED  BY <1>7, <1>8

(* Functions that agree have one sum.                                      *)
LEMMA SumSame ==
  ASSUME NEW S, IsFiniteSet(S), NEW T \in SUBSET S, NEW f, NEW e, \A x \in T : f[x] = e[x]
  PROVE  SumFunctionOnSet(f, T) = SumFunctionOnSet(e, T)
<1>1. IsFiniteSet(T)
  BY FS_Subset
<1>2. PICK g, h : Adds(f, T, g) /\ Adds(e, T, h)
  BY <1>1, SumExists
<1>3. T \in SUBSET T /\ g[T] = h[T]
  BY <1>1, <1>2, Agree
<1>4. g[T] = SumFunctionOnSet(f, T) /\ h[T] = SumFunctionOnSet(e, T)
  BY <1>1, <1>2, <1>3, SumAt
<1>. QED  BY <1>3, <1>4

-----------------------------------------------------------------------------
(* The order of the candidates: a strict order in which any two rows are   *)
(* one before the other.                                                   *)
Timed(table) ==
  /\ IsFiniteSet(DOMAIN table) /\ DOMAIN table \subseteq Nat
  /\ \A b \in DOMAIN table : /\ table[b].accessed \in Nat /\ table[b].fetched \in Nat
                             /\ table[b].size \in Nat

First(table, b, c) == Less(OrderKey(table, b), OrderKey(table, c))

LEMMA FirstIs ==
  ASSUME NEW table, NEW b, NEW c
  PROVE  First(table, b, c) <=>
           \/ table[b].accessed < table[c].accessed
           \/ table[b].accessed = table[c].accessed /\ table[b].fetched < table[c].fetched
           \/ table[b].accessed = table[c].accessed /\ table[b].fetched = table[c].fetched /\ b < c
<1>. DEFINE u == OrderKey(table, b)
            v == OrderKey(table, c)
<1>1. /\ u[1] = table[b].accessed /\ u[2] = table[b].fetched /\ u[3] = b
      /\ v[1] = table[c].accessed /\ v[2] = table[c].fetched /\ v[3] = c
  BY DEF OrderKey
<1>. HIDE DEF u, v
<1>2. Less(u, v) <=> \/ u[1] < v[1]
                     \/ u[2] < v[2] /\ u[1] = v[1]
                     \/ u[3] < v[3] /\ u[1] = v[1] /\ u[2] = v[2]
  <2>1. 1 .. 3 = {1, 2, 3} /\ 1 .. (1 - 1) = {} /\ 1 .. (2 - 1) = {1} /\ 1 .. (3 - 1) = {1, 2}
    OBVIOUS
  <2>2. Less(u, v) <=> \E i \in {1, 2, 3} : u[i] < v[i] /\ \A k \in 1 .. i - 1 : u[k] = v[k]
    BY <2>1 DEF Less
  <2>. QED  BY <2>1, <2>2
<1>. QED  BY <1>1, <1>2 DEF First, u, v

LEMMA FirstOrders ==
  ASSUME NEW table, Timed(table)
  PROVE  /\ \A b \in DOMAIN table : ~First(table, b, b)
         /\ \A b, c \in DOMAIN table : b # c => First(table, b, c) \/ First(table, c, b)
         /\ \A b, c, d \in DOMAIN table :
              First(table, b, c) /\ First(table, c, d) => First(table, b, d)
         /\ \A b, c \in DOMAIN table :
              First(table, b, c) => table[b].accessed <= table[c].accessed
<1>1. \A b \in DOMAIN table :
        b \in Nat /\ table[b].accessed \in Nat /\ table[b].fetched \in Nat
  BY DEF Timed
<1>2. ASSUME NEW b \in DOMAIN table, NEW c \in DOMAIN table
      PROVE  /\ ~First(table, b, b)
             /\ b # c => First(table, b, c) \/ First(table, c, b)
             /\ First(table, b, c) => table[b].accessed <= table[c].accessed
  <2>1. b \in Nat /\ c \in Nat
    BY <1>1
  <2>. QED  BY <1>1, <2>1, FirstIs
<1>3. ASSUME NEW b \in DOMAIN table, NEW c \in DOMAIN table, NEW d \in DOMAIN table,
             First(table, b, c), First(table, c, d)
      PROVE  First(table, b, d)
  <2>1. b \in Nat /\ c \in Nat /\ d \in Nat
    BY <1>1
  <2>. QED  BY <1>1, <1>3, <2>1, FirstIs
<1>. QED  BY <1>2, <1>3

Last(table, S, m) == m \in S /\ \A b \in S : b # m => First(table, b, m)

LEMMA LastExists ==
  ASSUME NEW table, Timed(table)
  PROVE  \A S \in SUBSET DOMAIN table : S # {} => \E m : Last(table, S, m)
<1>. DEFINE B == {S \in SUBSET DOMAIN table : S # {} /\ ~\E m : Last(table, S, m)}
<1>. SUFFICES ASSUME B # {} PROVE FALSE
  OBVIOUS
<1>1. PICK S \in B : \A t \in SUBSET S : t # S => t \notin B
  <2>1. B \in SUBSET (SUBSET DOMAIN table) /\ IsFiniteSet(DOMAIN table)
    BY DEF Timed
  <2>. HIDE DEF B
  <2>. QED  BY <2>1, Smallest
<1>2. PICK x : x \in S
  BY <1>1
<1>3. CASE S = {x}
  BY <1>1, <1>3 DEF Last
<1>4. CASE S # {x}
  <2>1. S \ {x} # {} /\ S \ {x} # S /\ S \ {x} \in SUBSET S
    BY <1>2, <1>4
  <2>2. PICK m : Last(table, S \ {x}, m)
    BY <1>1, <2>1
  <2>3. m \in S /\ m # x /\ S \subseteq DOMAIN table /\ x \in DOMAIN table
    BY <1>1, <1>2, <2>2 DEF Last
  <2>4. CASE First(table, x, m)
    <3>1. Last(table, S, m)
      BY <2>2, <2>3, <2>4 DEF Last
    <3>. QED  BY <1>1, <3>1
  <2>5. CASE First(table, m, x)
    <3>1. \A b \in S : b # x => First(table, b, x)
      BY <2>2, <2>3, <2>5, FirstOrders DEF Last
    <3>2. Last(table, S, x)
      BY <1>2, <3>1 DEF Last
    <3>. QED  BY <1>1, <3>2
  <2>. QED  BY <2>3, <2>4, <2>5, FirstOrders
<1>. QED  BY <1>3, <1>4

Sorted(table, S, order) ==
  /\ order \in [1 .. Cardinality(S) -> S]
  /\ \A i, j \in 1 .. Cardinality(S) : i < j => First(table, order[i], order[j])

(* The rows can be put in order: the last one after all the others.        *)
LEMMA SortedExists ==
  ASSUME NEW table, Timed(table)
  PROVE  \A S \in SUBSET DOMAIN table : \E order : Sorted(table, S, order)
<1>. DEFINE B == {S \in SUBSET DOMAIN table : ~\E order : Sorted(table, S, order)}
<1>. SUFFICES ASSUME B # {} PROVE FALSE
  OBVIOUS
<1>0. IsFiniteSet(DOMAIN table)
  BY DEF Timed
<1>1. PICK S \in B : \A t \in SUBSET S : t # S => t \notin B
  <2>1. B \in SUBSET (SUBSET DOMAIN table)
    OBVIOUS
  <2>. HIDE DEF B
  <2>. QED  BY <1>0, <2>1, Smallest
<1>2. IsFiniteSet(S) /\ Cardinality(S) \in Nat
  BY <1>0, <1>1, FS_Subset, FS_CardinalityType
<1>3. CASE S = {}
  <2>1. Cardinality(S) = 0
    BY <1>3, FS_EmptySet
  <2>2. Sorted(table, S, [i \in 1 .. 0 |-> i])
    BY <1>3, <2>1 DEF Sorted
  <2>. QED  BY <1>1, <2>2
<1>4. CASE S # {}
  <2>1. PICK m : Last(table, S, m)
    BY <1>1, <1>4, LastExists
  <2>2. PICK R : R = S \ {m}
    OBVIOUS
  <2>3. m \in S /\ R \in SUBSET S /\ R # S
    BY <2>1, <2>2 DEF Last
  <2>4. PICK o : Sorted(table, R, o)
    BY <1>1, <2>3
  <2>5. PICK n : n = Cardinality(S)
    OBVIOUS
  <2>6. n \in Nat \ {0} /\ Cardinality(R) = n - 1
    BY <1>2, <2>2, <2>3, <2>5, FS_RemoveElement, FS_EmptySet, <1>4
  <2>7. o \in [1 .. n - 1 -> R] /\ \A i, j \in 1 .. n - 1 : i < j => First(table, o[i], o[j])
    BY <2>4, <2>6 DEF Sorted
  <2>. DEFINE q == [i \in 1 .. n |-> IF i = n THEN m ELSE o[i]]
  <2>8. q \in [1 .. n -> S]
    BY <2>3, <2>6, <2>7
  <2>9. ASSUME NEW i \in 1 .. n, NEW j \in 1 .. n, i < j PROVE First(table, q[i], q[j])
    <3>1. i \in 1 .. n - 1 /\ q[i] = o[i] /\ o[i] \in R
      BY <2>6, <2>7, <2>9
    <3>2. CASE j = n
      BY <2>1, <2>2, <3>1, <3>2 DEF Last
    <3>3. CASE j # n
      <4>1. j \in 1 .. n - 1 /\ q[j] = o[j]
        BY <2>6, <3>3
      <4>. QED  BY <2>7, <2>9, <3>1, <4>1
    <3>. QED  BY <3>2, <3>3
  <2>10. Sorted(table, S, q)
    <3>. HIDE DEF q
    <3>. QED  BY <2>5, <2>8, <2>9 DEF Sorted
  <2>. QED  BY <1>1, <2>10
<1>. QED  BY <1>3, <1>4

(* The candidates are all rows, each once, in the order of their keys.     *)
LEMMA CandidatesAre ==
  ASSUME NEW table, Timed(table), NEW n, n = Cardinality(DOMAIN table),
         NEW order, order = Candidates(table)
  PROVE  /\ n \in Nat /\ order \in [1 .. n -> DOMAIN table]
         /\ \A i, j \in 1 .. n : i < j => First(table, order[i], order[j])
         /\ \A i, j \in 1 .. n : order[i] = order[j] => i = j
         /\ \A b \in DOMAIN table : \E i \in 1 .. n : order[i] = b
<1>1. n \in Nat /\ IsFiniteSet(DOMAIN table)
  BY FS_CardinalityType DEF Timed
<1>. DEFINE Good(o) == o \in [1 .. n -> DOMAIN table] /\
                       \A i, j \in DOMAIN o : i < j => First(table, o[i], o[j])
<1>2. \E o : Good(o)
  <2>1. PICK o : Sorted(table, DOMAIN table, o)
    BY SortedExists
  <2>. QED  BY <2>1 DEF Sorted
<1>3. order = CHOOSE o \in [1 .. n -> DOMAIN table] :
                \A i, j \in DOMAIN o : i < j => First(table, o[i], o[j])
  BY DEF Candidates, First
<1>4. /\ order \in [1 .. n -> DOMAIN table]
      /\ \A i, j \in DOMAIN order : i < j => First(table, order[i], order[j])
  BY <1>2, <1>3
<1>5. \A i, j \in 1 .. n : i < j => First(table, order[i], order[j])
  BY <1>4
<1>6. ASSUME NEW i \in 1 .. n, NEW j \in 1 .. n, order[i] = order[j] PROVE i = j
  <2>1. ~First(table, order[i], order[i])
    BY <1>4, FirstOrders
  <2>. QED  BY <1>1, <1>5, <1>6, <2>1
<1>7. order \in Surjection(1 .. n, DOMAIN table)
  <2>1. order \in Injection(1 .. n, DOMAIN table)
    BY <1>4, <1>6 DEF Injection, IsInjective
  <2>2. Cardinality(1 .. n) = n
    BY <1>1, FS_Interval
  <2>. QED  BY <1>1, <2>1, <2>2, FS_Injection
<1>8. \A b \in DOMAIN table : \E i \in 1 .. n : order[i] = b
  BY <1>7 DEF Surjection
<1>. QED  BY <1>1, <1>4, <1>5, <1>6, <1>8

-----------------------------------------------------------------------------
(* What a prune evicts.  After i candidates what remains is the sum of the *)
(* sizes of the others, so that nothing is ever subtracted from less.      *)
SizesOf(table) == [b \in DOMAIN table |-> table[b].size]
SumOf(table, S) == SumFunctionOnSet(SizesOf(table), S)
Taken(order, i) == {order[j] : j \in 1 .. i}

(* The loop of Remaining, as an equation. *)
Loop(table, order, n, left) ==
  left = [i \in 0 .. n |->
            IF i = 0 THEN SumOf(table, DOMAIN table)
            ELSE IF table[order[i]].size > left[i - 1] THEN 0
            ELSE left[i - 1] - table[order[i]].size]

LEMMA SumOfTakes ==
  ASSUME NEW table, Timed(table), NEW S \in SUBSET DOMAIN table
  PROVE  /\ SumOf(table, S) \in Nat
         /\ \A b \in S : SumOf(table, S) = table[b].size + SumOf(table, S \ {b})
<1>1. IsFiniteSet(DOMAIN table) /\ SizesOf(table) \in [DOMAIN table -> Nat]
  BY DEF Timed, SizesOf
<1>2. Takes(SizesOf(table), S)
  BY <1>1, SumTakes
<1>3. \A b \in S : SizesOf(table)[b] = table[b].size
  BY DEF SizesOf
<1>. QED  BY <1>2, <1>3 DEF Takes, SumOf

LEMMA LoopOnce ==
  ASSUME NEW table, NEW order, NEW n \in Nat, NEW f, NEW g,
         Loop(table, order, n, f), Loop(table, order, n, g)
  PROVE  f = g
<1>. DEFINE B == {i \in 0 .. n : f[i] # g[i]}
<1>0. /\ f = [i \in 0 .. n |-> f[i]] /\ g = [i \in 0 .. n |-> g[i]]
      /\ f[0] = SumOf(table, DOMAIN table) /\ g[0] = SumOf(table, DOMAIN table)
  BY DEF Loop
<1>1. ASSUME NEW i \in 1 .. n
      PROVE  /\ f[i] = IF table[order[i]].size > f[i - 1] THEN 0
                       ELSE f[i - 1] - table[order[i]].size
             /\ g[i] = IF table[order[i]].size > g[i - 1] THEN 0
                       ELSE g[i - 1] - table[order[i]].size
  BY DEF Loop
<1>2. CASE B = {}
  BY <1>0, <1>2
<1>3. CASE B # {}
  <2>1. PICK m \in B : \A x \in B : m <= x
    <3>1. B \in SUBSET Nat
      OBVIOUS
    <3>. HIDE DEF B
    <3>. QED  BY <1>3, <3>1, Least
  <2>2. m \in 1 .. n /\ m - 1 \in 0 .. n
    BY <1>0, <2>1
  <2>3. f[m - 1] = g[m - 1]
    BY <2>1, <2>2
  <2>. QED  BY <1>1, <2>1, <2>2, <2>3
<1>. QED  BY <1>2, <1>3

LEMMA RemainingIs ==
  ASSUME NEW table, Timed(table), Ready(table) = DOMAIN table,
         NEW n, n = Cardinality(DOMAIN table), NEW order, order = Candidates(table)
  PROVE  /\ \A i \in 0 .. n :
              /\ Remaining(table, order)[i] = SumOf(table, DOMAIN table \ Taken(order, i))
              /\ Remaining(table, order)[i] \in Nat
         /\ \A i \in 1 .. n : Remaining(table, order)[i - 1]
                                = Remaining(table, order)[i] + table[order[i]].size
         /\ Remaining(table, order)[n] = 0 /\ Len(order) = n
<1>1. /\ n \in Nat /\ order \in [1 .. n -> DOMAIN table]
      /\ \A i, j \in 1 .. n : order[i] = order[j] => i = j
      /\ \A b \in DOMAIN table : \E i \in 1 .. n : order[i] = b
  BY CandidatesAre
<1>. DEFINE D == DOMAIN table
            rest(i) == SumOf(table, D \ Taken(order, i))
            w == [i \in 0 .. n |-> rest(i)]
<1>2. Len(order) = n
  <2>1. order \in Seq(DOMAIN table)
    BY <1>1
  <2>. QED  BY <1>1, <2>1
<1>3. ASSUME NEW i \in 0 .. n PROVE rest(i) \in Nat
  BY SumOfTakes
<1>4. ASSUME NEW i \in 1 .. n PROVE rest(i - 1) = table[order[i]].size + rest(i)
  <2>1. order[i] \in D \ Taken(order, i - 1)
    BY <1>1 DEF Taken
  <2>2. D \ Taken(order, i) = (D \ Taken(order, i - 1)) \ {order[i]}
    <3>1. 1 .. i = (1 .. i - 1) \cup {i}
      BY <1>1
    <3>. QED  BY <3>1 DEF Taken
  <2>3. PICK S : S = D \ Taken(order, i - 1)
    OBVIOUS
  <2>4. SumOf(table, S) = table[order[i]].size + SumOf(table, S \ {order[i]})
    BY <2>1, <2>3, SumOfTakes
  <2>. QED  BY <2>2, <2>3, <2>4
<1>5. rest(0) = SumOf(table, D)
  <2>1. D \ Taken(order, 0) = D
    BY DEF Taken
  <2>. QED  BY <2>1
<1>6. rest(n) = 0
  <2>1. D \ Taken(order, n) = {}
    BY <1>1 DEF Taken
  <2>2. SumOf(table, {}) = 0
    <3>1. Summed(SizesOf(table), {})
      BY SumStep, FS_EmptySet
    <3>. QED  BY <3>1 DEF Summed, SumOf
  <2>. QED  BY <2>1, <2>2
<1>7. ASSUME NEW i \in 1 .. n PROVE table[order[i]].size \in Nat
  BY <1>1 DEF Timed
<1>. HIDE DEF rest
<1>8. Loop(table, order, n, w)
  <2>1. ASSUME NEW i \in 0 .. n
        PROVE  rest(i) = IF i = 0 THEN SumOf(table, D)
                         ELSE IF table[order[i]].size > w[i - 1] THEN 0
                         ELSE w[i - 1] - table[order[i]].size
    <3>1. CASE i = 0
      BY <1>5, <3>1
    <3>2. CASE i # 0
      <4>1. i \in 1 .. n /\ i - 1 \in 0 .. n
        BY <1>1, <3>2
      <4>2. w[i - 1] = rest(i - 1)
        BY <4>1
      <4>3. /\ rest(i - 1) = table[order[i]].size + rest(i) /\ rest(i) \in Nat
            /\ table[order[i]].size \in Nat
        BY <1>3, <1>4, <1>7, <4>1
      <4>. QED  BY <3>2, <4>2, <4>3
    <3>. QED  BY <3>1, <3>2
  <2>. QED  BY <2>1 DEF Loop
<1>9. Size(table) = SumOf(table, D)
  BY DEF Size, SumFunction, SumOf, SizesOf
<1>10. Remaining(table, order) = CHOOSE left : Loop(table, order, n, left)
  BY <1>2, <1>9 DEF Remaining, Loop
<1>11. Remaining(table, order) = w
  <2>. HIDE DEF w
  <2>1. PICK r : r = CHOOSE left : Loop(table, order, n, left)
    OBVIOUS
  <2>2. Loop(table, order, n, r)
    BY <1>8, <2>1
  <2>3. r = w
    BY <1>1, <1>8, <2>2, LoopOnce
  <2>. QED  BY <1>10, <2>1, <2>3
<1>12. \A i \in 0 .. n : w[i] = rest(i)
  OBVIOUS
<1>13. \A i \in 1 .. n : w[i - 1] = w[i] + table[order[i]].size
  <2>. SUFFICES ASSUME NEW i \in 1 .. n PROVE w[i - 1] = w[i] + table[order[i]].size
    OBVIOUS
  <2>1. i \in 0 .. n /\ i - 1 \in 0 .. n
    BY <1>1
  <2>. QED  BY <1>3, <1>4, <1>7, <1>12, <2>1
<1>. HIDE DEF w
<1>14. w[n] = 0
  BY <1>1, <1>6, <1>12
<1>15. \A i \in 0 .. n : w[i] = SumOf(table, D \ Taken(order, i)) /\ w[i] \in Nat
  BY <1>3, <1>12 DEF rest
<1>. QED  BY <1>2, <1>11, <1>13, <1>14, <1>15

(* A prune evicts from the front of the order, until the rest fits.        *)
Fits(table, V) ==
  /\ V \subseteq DOMAIN table
  /\ SumOf(table, DOMAIN table \ V) <= MaxSize
  /\ V # {} => \E v \in V : SumOf(table, DOMAIN table \ V) + table[v].size > MaxSize
  /\ \A v \in V, s \in DOMAIN table \ V : table[v].accessed <= table[s].accessed

LEMMA VictimsFit ==
  ASSUME NEW table, Timed(table), Ready(table) = DOMAIN table
  PROVE  Fits(table, Victims(table))
<1>0. PICK n, order, left :
        /\ n = Cardinality(DOMAIN table) /\ order = Candidates(table)
        /\ left = Remaining(table, order)
  OBVIOUS
<1>1. /\ n \in Nat /\ order \in [1 .. n -> DOMAIN table]
      /\ \A i, j \in 1 .. n : i < j => First(table, order[i], order[j])
      /\ \A b \in DOMAIN table : \E i \in 1 .. n : order[i] = b
  BY <1>0, CandidatesAre
<1>2. /\ \A i \in 0 .. n : left[i] = SumOf(table, DOMAIN table \ Taken(order, i))
                           /\ left[i] \in Nat
      /\ \A i \in 1 .. n : left[i - 1] = left[i] + table[order[i]].size
      /\ left[n] = 0 /\ Len(order) = n
  <2>1. /\ \A i \in 0 .. n :
             /\ Remaining(table, order)[i] = SumOf(table, DOMAIN table \ Taken(order, i))
             /\ Remaining(table, order)[i] \in Nat
        /\ \A i \in 1 .. n : Remaining(table, order)[i - 1]
                               = Remaining(table, order)[i] + table[order[i]].size
        /\ Remaining(table, order)[n] = 0 /\ Len(order) = n
    BY <1>0, RemainingIs
  <2> QED BY <1>0, <2>1, Zenon
<1>3. Victims(table) = {order[i] : i \in {k \in 1 .. n : left[k - 1] > MaxSize}}
  BY <1>0, <1>2 DEF Victims
<1>4. \A i \in 1 .. n : table[order[i]].size \in Nat
  BY <1>1 DEF Timed
<1>a. MaxSize \in Nat /\ \A i \in 0 .. n : left[i] \in Nat
  BY <1>2, SizeAssumption
<1>. DEFINE small == {i \in 0 .. n : left[i] <= MaxSize}
<1>5. PICK m \in small : \A x \in small : m <= x
  <2>1. small \in SUBSET Nat
    OBVIOUS
  <2>2. n \in small
    BY <1>1, <1>2, SizeAssumption
  <2>. HIDE DEF small
  <2>. QED  BY <2>1, <2>2, Least
<1>6. m \in 0 .. n /\ left[m] <= MaxSize /\ \A i \in 0 .. n : i < m => left[i] > MaxSize
  <2>1. ASSUME NEW i \in 0 .. n, i < m PROVE left[i] > MaxSize
    <3>1. i \notin small
      <4>1. ~(m <= i) /\ m \in Nat
        BY <1>1, <1>5, <2>1
      <4>. HIDE DEF small
      <4>. QED  BY <1>5, <4>1
    <3>. QED  BY <1>a, <3>1
  <2>. QED  BY <1>5, <2>1
<1>7. \A i \in 0 .. n : i >= m => left[i] <= MaxSize
  <2>. DEFINE big == {i \in 0 .. n : i >= m /\ ~(left[i] <= MaxSize)}
  <2>. SUFFICES ASSUME big # {} PROVE FALSE
    OBVIOUS
  <2>1. PICK l \in big : \A x \in big : l <= x
    <3>1. big \in SUBSET Nat
      OBVIOUS
    <3>. HIDE DEF big
    <3>. QED  BY <3>1, Least
  <2>2. l # m /\ l \in 1 .. n /\ l - 1 \in 0 .. n /\ l - 1 >= m
    <3>1. l \in 0 .. n /\ l >= m /\ ~(left[l] <= MaxSize)
      BY <2>1
    <3>2. l # m
      BY <1>6, <3>1
    <3>. QED  BY <1>1, <1>6, <3>1, <3>2
  <2>3. left[l - 1] <= MaxSize
    <3>1. ~(l <= l - 1)
      BY <2>2
    <3>2. l - 1 \notin big
      <4>. HIDE DEF big
      <4>. QED  BY <2>1, <3>1
    <3>. QED  BY <2>2, <3>2
  <2>4. left[l - 1] = left[l] + table[order[l]].size
    BY <1>2, <2>2
  <2>5. ~(left[l] <= MaxSize)
    BY <2>1
  <2>6. left[l - 1] \in Nat /\ left[l] \in Nat /\ table[order[l]].size \in Nat
    BY <1>a, <1>4, <2>2
  <2>. QED  BY <1>a, <2>3, <2>4, <2>5, <2>6
<1>8. {k \in 1 .. n : left[k - 1] > MaxSize} = 1 .. m
  <2>1. ASSUME NEW k \in 1 .. n PROVE left[k - 1] > MaxSize <=> k <= m
    <3>1. k - 1 \in 0 .. n
      BY <1>1
    <3>2. k - 1 < m => left[k - 1] > MaxSize
      BY <1>6, <3>1
    <3>3. k - 1 >= m => left[k - 1] <= MaxSize
      BY <1>7, <3>1
    <3>4. left[k - 1] > MaxSize <=> ~(left[k - 1] <= MaxSize)
      BY <1>a, <3>1
    <3>5. k \in Nat /\ m \in Nat
      BY <1>1, <1>6
    <3>6. k - 1 < m <=> k <= m
      BY <3>5
    <3>7. k - 1 < m \/ k - 1 >= m
      BY <3>5
    <3>. QED  BY <3>2, <3>3, <3>4, <3>6, <3>7
  <2>. QED  BY <1>1, <1>6, <2>1
<1>9. Victims(table) = Taken(order, m)
  BY <1>3, <1>8 DEF Taken
<1>10. Taken(order, m) \subseteq DOMAIN table
  BY <1>1, <1>6 DEF Taken
<1>11. SumOf(table, DOMAIN table \ Taken(order, m)) <= MaxSize
  BY <1>2, <1>6
<1>12. ASSUME Taken(order, m) # {}
       PROVE  \E v \in Taken(order, m) :
                SumOf(table, DOMAIN table \ Taken(order, m)) + table[v].size > MaxSize
  <2>1. m \in 1 .. n /\ m - 1 \in 0 .. n /\ m - 1 < m
    <3>1. m # 0
      <4>1. CASE m = 0
        <5>1. 1 .. m = {}
          BY <4>1
        <5>. QED  BY <1>12, <5>1 DEF Taken
      <4>. QED  BY <4>1
    <3>. QED  BY <1>1, <1>6, <3>1
  <2>2. order[m] \in Taken(order, m)
    BY <2>1 DEF Taken
  <2>3. left[m] + table[order[m]].size > MaxSize
    BY <1>2, <1>6, <2>1
  <2>. QED  BY <1>2, <2>1, <2>2, <2>3
<1>13. ASSUME NEW v \in Taken(order, m), NEW s \in DOMAIN table \ Taken(order, m)
       PROVE  table[v].accessed <= table[s].accessed
  <2>1. PICK i \in 1 .. m : v = order[i]
    BY DEF Taken
  <2>2. PICK j \in 1 .. n : s = order[j]
    BY <1>1
  <2>3. j \notin 1 .. m
    BY <2>2 DEF Taken
  <2>4. First(table, v, s)
    BY <1>1, <1>6, <2>1, <2>2, <2>3
  <2>. QED  BY <1>10, <2>4, FirstOrders
<1>. QED  BY <1>9, <1>10, <1>11, <1>12, <1>13 DEF Fits

-----------------------------------------------------------------------------
(* While a prune is between its reads and its transaction, what it has read*)
(* is what is ready, with its size; only the times of use have moved on.   *)
Unmoved ==
  /\ DOMAIN snap = Ready(blobs)
  /\ \A b \in DOMAIN snap : /\ snap[b].state = "ready" /\ snap[b].size = blobs[b].size
                            /\ snap[b].accessed <= blobs[b].accessed

PruneInv == IsFiniteSet(DOMAIN blobs) /\ (Locked => Unmoved)

LEMMA PruneStep == TypeOK /\ PruneInv /\ [Next]_vars => PruneInv'
<1>. SUFFICES ASSUME TypeOK, PruneInv, [Next]_vars PROVE PruneInv'
  OBVIOUS
<1>0. \A b \in DOMAIN blobs : blobs[b] \in Row /\ blobs[b].accessed \in Nat
  BY DEF TypeOK, Row, Times
<1>1. ASSUME NEW p \in Projects, NEW page \in SUBSET Links, StoreProject(p, page)
      PROVE  PruneInv'
  BY <1>1 DEF StoreProject, PruneInv, Unmoved, Locked
<1>2. ASSUME NEW b \in Blobs, MarkPending(b) PROVE PruneInv'
  <2>1. CASE b \in DOMAIN blobs
    <3>1. Locked' => Locked
      BY <1>2 DEF MarkPending, Locked, TypeOK
    <3>2. blobs' = blobs /\ snap' = snap
      BY <1>2, <2>1 DEF MarkPending
    <3>. QED  BY <3>1, <3>2 DEF PruneInv, Unmoved
  <2>2. CASE b \notin DOMAIN blobs
    <3>1. Locked' => Locked
      BY <1>2 DEF MarkPending, Locked, TypeOK
    <3>2. blobs' = Put(blobs, b, Pending) /\ snap' = snap
      BY <1>2, <2>2 DEF MarkPending
    <3>3. /\ DOMAIN blobs' = DOMAIN blobs \cup {b} /\ blobs'[b] = Pending
          /\ \A c \in DOMAIN blobs : blobs'[c] = blobs[c]
      BY <2>2, <3>2 DEF Put
    <3>4. Ready(blobs') = Ready(blobs)
      BY <2>2, <3>3 DEF Ready, Pending
    <3>5. IsFiniteSet(DOMAIN blobs')
      BY <3>3, FS_AddElement DEF PruneInv
    <3>6. ASSUME Locked' PROVE Unmoved'
      <4>1. Unmoved /\ \A c \in DOMAIN snap : blobs'[c] = blobs[c]
        BY <3>1, <3>3, <3>6 DEF PruneInv, TypeOK, Ready
      <4>. QED  BY <3>2, <3>4, <4>1 DEF Unmoved
    <3>. QED  BY <3>5, <3>6 DEF PruneInv
  <2>. QED  BY <2>1, <2>2
<1>3. ASSUME NEW b \in Blobs, Fail(b) PROVE PruneInv'
  <2>1. Locked' => Locked
    BY <1>3 DEF Fail, Locked, TypeOK
  <2>. QED  BY <1>3, <2>1 DEF Fail, PruneInv, Unmoved
<1>4. ASSUME NEW b \in Blobs, PruneRead(b) PROVE PruneInv'
  <2>1. ~Locked /\ blobs' = blobs
    BY <1>4 DEF PruneRead
  <2>2. CASE Size(blobs) <= MaxSize
    <3>1. job' = [job EXCEPT ![b] = "none"]
      BY <1>4, <2>2 DEF PruneRead
    <3>2. ~Locked'
      BY <2>1, <3>1 DEF Locked, TypeOK
    <3>. QED  BY <2>1, <3>2 DEF PruneInv
  <2>3. CASE ~(Size(blobs) <= MaxSize)
    <3>1. snap' = [c \in Ready(blobs) |-> blobs[c]]
      BY <1>4, <2>3 DEF PruneRead
    <3>2. \A c \in Ready(blobs) : c \in DOMAIN blobs /\ blobs[c].state = "ready"
      BY DEF Ready
    <3>3. Unmoved'
      BY <1>0, <2>1, <3>1, <3>2 DEF Unmoved
    <3>. QED  BY <2>1, <3>3 DEF PruneInv
  <2>. QED  BY <2>2, <2>3
<1>5. ASSUME NEW b \in Blobs, PruneDelete(b) PROVE PruneInv'
  <2>1. ~Locked'
    BY <1>5 DEF PruneDelete, Locked, TypeOK
  <2>2. DOMAIN blobs' \subseteq DOMAIN blobs
    BY <1>5 DEF PruneDelete, Restrict
  <2>. QED  BY <2>1, <2>2, FS_Subset DEF PruneInv
<1>6. ASSUME NEW b \in Blobs, PruneFails(b) PROVE PruneInv'
  <2>1. ~Locked' /\ blobs' = blobs
    BY <1>6 DEF PruneFails, Locked, TypeOK
  <2>. QED  BY <2>1 DEF PruneInv
<1>7. ASSUME NEW b \in Blobs, NEW t \in 0 .. now, Touch(b, t) PROVE PruneInv'
  <2>1. b \in Ready(blobs) /\ blobs[b].accessed < t /\ t \in Nat
    BY <1>7 DEF Touch, Newer, TypeOK, Times
  <2>2. blobs' = [blobs EXCEPT ![b].accessed = t] /\ UNCHANGED <<job, snap>>
    BY <1>7 DEF Touch
  <2>3. b \in DOMAIN blobs /\ blobs[b] \in Row
    BY <1>0, <2>1 DEF Ready
  <2>4. DOMAIN blobs' = DOMAIN blobs
    BY <2>2
  <2>5. ASSUME NEW c \in DOMAIN blobs
        PROVE  /\ blobs'[c].state = blobs[c].state /\ blobs'[c].size = blobs[c].size
               /\ blobs[c].accessed <= blobs'[c].accessed /\ blobs'[c].accessed \in Nat
    <3>1. CASE c = b
      BY <1>0, <2>1, <2>2, <2>3, <3>1 DEF Row
    <3>2. CASE c # b
      <4>1. blobs'[c] = blobs[c]
        BY <2>2, <3>2
      <4>. QED  BY <1>0, <4>1
    <3>. QED  BY <3>1, <3>2
  <2>6. Ready(blobs') = Ready(blobs)
    BY <2>4, <2>5 DEF Ready
  <2>7. ASSUME Locked' PROVE Unmoved'
    <3>1. Unmoved
      BY <2>2, <2>7 DEF Locked, PruneInv
    <3>2. ASSUME NEW c \in DOMAIN snap
          PROVE  /\ snap[c].state = "ready" /\ snap[c].size = blobs'[c].size
                 /\ snap[c].accessed <= blobs'[c].accessed
      <4>1. c \in DOMAIN blobs /\ snap[c].accessed \in Nat
        BY DEF TypeOK, Ready, Row, Times
      <4>. QED  BY <1>0, <2>5, <3>1, <4>1 DEF Unmoved
    <3>. QED  BY <2>2, <2>6, <3>1, <3>2 DEF Unmoved
  <2>. QED  BY <2>4, <2>7 DEF PruneInv
<1>8. ASSUME NEW b \in Blobs, NEW size \in Sizes, NEW t \in 0 .. now, MarkReady(b, size, t)
      PROVE  PruneInv'
  <2>1. ~Locked'
    BY <1>8 DEF MarkReady, Locked, TypeOK
  <2>2. DOMAIN blobs' = DOMAIN blobs
    BY <1>8 DEF MarkReady
  <2>. QED  BY <2>1, <2>2 DEF PruneInv
<1>9. CASE Restart
  <2>1. ~Locked' /\ blobs' = blobs
    BY <1>9 DEF Restart, Locked
  <2>. QED  BY <2>1 DEF PruneInv
<1>10. CASE Tick \/ UNCHANGED vars
  BY <1>10 DEF Tick, vars, PruneInv, Unmoved, Locked
<1>. QED
  BY <1>1, <1>2, <1>3, <1>4, <1>5, <1>6, <1>7, <1>8, <1>9, <1>10 DEF Next

LEMMA PruneInvariance == Spec => [](TypeOK /\ PruneInv)
<1>1. Init => PruneInv
  BY FS_EmptySet DEF Init, PruneInv, NoRows, Locked
<1>. QED  BY <1>1, InitType, NextType, PruneStep, PTL DEF Spec

(* Only the transaction of a prune takes rows away.                        *)
LEMMA OnlyPrune ==
  ASSUME TypeOK, [Next]_vars, \A b \in Blobs : ~PruneDelete(b)
  PROVE  Evicted = {}
<1>1. DOMAIN blobs \subseteq DOMAIN blobs'
  <2>1. ASSUME NEW b \in Blobs, MarkPending(b) PROVE DOMAIN blobs \subseteq DOMAIN blobs'
    BY <2>1 DEF MarkPending, Put
  <2>2. ASSUME NEW b \in Blobs, NEW t \in 0 .. now, Touch(b, t)
        PROVE  DOMAIN blobs \subseteq DOMAIN blobs'
    BY <2>2 DEF Touch
  <2>3. ASSUME NEW b \in Blobs, NEW size \in Sizes, NEW t \in 0 .. now, MarkReady(b, size, t)
        PROVE  DOMAIN blobs \subseteq DOMAIN blobs'
    BY <2>3 DEF MarkReady
  <2>. QED
    BY <2>1, <2>2, <2>3
       DEF Next, vars, StoreProject, Fail, PruneRead, PruneFails, Restart, Tick
<1>. QED  BY <1>1 DEF Evicted

(* What a prune leaves, in terms of what it has read.                      *)
LEMMA PruneLeaves ==
  ASSUME TypeOK, PruneInv, NEW b \in Blobs, PruneDelete(b), NEW V, V = Victims(snap)
  PROVE  /\ Unmoved /\ Fits(snap, V) /\ Evicted = V
         /\ Ready(blobs') = DOMAIN snap \ V
         /\ Size(blobs') = SumOf(snap, DOMAIN snap \ V)
<1>1. Unmoved /\ DOMAIN snap \subseteq DOMAIN blobs
  BY DEF PruneDelete, Locked, PruneInv, TypeOK, Ready
<1>2. IsFiniteSet(DOMAIN snap)
  BY <1>1, FS_Subset DEF PruneInv
<1>3. Timed(snap) /\ Ready(snap) = DOMAIN snap
  <2>1. DOMAIN snap \subseteq Nat
    BY <1>1, BlobAssumption DEF TypeOK
  <2>2. \A c \in DOMAIN snap : /\ snap[c].accessed \in Nat /\ snap[c].fetched \in Nat
                               /\ snap[c].size \in Nat
    <3>1. \A c \in DOMAIN snap : snap[c] \in Row
      BY DEF TypeOK
    <3>2. \A r \in Row : /\ r.accessed \in Times /\ r.fetched \in Times
                          /\ r.size \in Sizes \cup {0}
      BY DEF Row
    <3>3. Times \subseteq Nat /\ Sizes \cup {0} \subseteq Nat
      BY SizeAssumption DEF Times
    <3>. QED  BY <3>1, <3>2, <3>3
  <2>3. Ready(snap) = DOMAIN snap
    BY <1>1 DEF Unmoved, Ready
  <2>. QED  BY <1>2, <2>1, <2>2, <2>3 DEF Timed
<1>4. Fits(snap, V)
  BY <1>3, VictimsFit
<1>5. DOMAIN blobs' = DOMAIN blobs \ V /\ \A c \in DOMAIN blobs' : blobs'[c] = blobs[c]
  BY DEF PruneDelete, Restrict
<1>6. Evicted = V
  BY <1>1, <1>4, <1>5 DEF Evicted, Fits
<1>7. Ready(blobs') = DOMAIN snap \ V
  BY <1>1, <1>5 DEF Ready, Unmoved
<1>8. Size(blobs') = SumOf(snap, DOMAIN snap \ V)
  <2>. DEFINE left == [c \in Ready(blobs') |-> blobs'[c].size]
  <2>1. Size(blobs') = SumFunctionOnSet(left, DOMAIN snap \ V)
    BY <1>7 DEF Size, SumFunction
  <2>2. \A c \in DOMAIN snap \ V : left[c] = SizesOf(snap)[c]
    <3>1. ASSUME NEW c \in DOMAIN snap \ V PROVE left[c] = SizesOf(snap)[c]
      <4>1. c \in DOMAIN blobs' /\ blobs'[c] = blobs[c] /\ blobs[c].size = snap[c].size
        BY <1>1, <1>5 DEF Unmoved
      <4>. QED  BY <1>7, <4>1 DEF SizesOf
    <3>. QED  BY <3>1
  <2>. HIDE DEF left
  <2>3. SumFunctionOnSet(left, DOMAIN snap \ V) = SumFunctionOnSet(SizesOf(snap), DOMAIN snap \ V)
    BY <1>2, <2>2, SumSame
  <2>. QED  BY <2>1, <2>3 DEF SumOf
<1>. QED  BY <1>1, <1>4, <1>6, <1>7, <1>8

(* A prune leaves the cache within its limit and takes no file too many,   *)
(* whatever the files, their sizes and the limit, and whatever handlers    *)
(* that were dropped wrote meanwhile (cache.rs:1212-1292).                 *)
THEOREM Fitting == Spec => PruneFits
<1>1. ASSUME TypeOK, PruneInv, [Next]_vars, Evicted # {}
      PROVE  /\ Size(blobs') <= MaxSize
             /\ \E v \in Evicted : Size(blobs') + blobs[v].size > MaxSize
  <2>1. PICK b \in Blobs : PruneDelete(b)
    BY <1>1, OnlyPrune
  <2>2. PICK V : V = Victims(snap)
    OBVIOUS
  <2>3. /\ Unmoved /\ Fits(snap, V) /\ Evicted = V
        /\ Size(blobs') = SumOf(snap, DOMAIN snap \ V)
    BY <1>1, <2>1, <2>2, PruneLeaves
  <2>4. PICK v \in V : SumOf(snap, DOMAIN snap \ V) + snap[v].size > MaxSize
    BY <1>1, <2>3 DEF Fits
  <2>5. v \in DOMAIN snap /\ snap[v].size = blobs[v].size
    BY <2>3, <2>4 DEF Fits, Unmoved
  <2>. QED  BY <2>3, <2>4, <2>5 DEF Fits
<1>. QED  BY <1>1, PruneInvariance, PTL DEF Spec, PruneFits

(* It takes the least recently used files: none that was in use later than *)
(* one it leaves (cache.rs:1228).                                          *)
THEOREM LeastRecent == Spec => PruneIsLru
<1>1. ASSUME TypeOK, PruneInv, [Next]_vars, NEW v \in Evicted, NEW s \in Ready(blobs')
      PROVE  snap[v].accessed <= blobs[s].accessed
  <2>1. PICK b \in Blobs : PruneDelete(b)
    BY <1>1, OnlyPrune
  <2>2. PICK V : V = Victims(snap)
    OBVIOUS
  <2>3. Unmoved /\ Fits(snap, V) /\ Evicted = V /\ Ready(blobs') = DOMAIN snap \ V
    BY <1>1, <2>1, <2>2, PruneLeaves
  <2>4. snap[v].accessed <= snap[s].accessed /\ snap[s].accessed <= blobs[s].accessed
    BY <1>1, <2>3 DEF Fits, Unmoved
  <2>5. /\ snap[v].accessed \in Nat /\ snap[s].accessed \in Nat /\ blobs[s].accessed \in Nat
    <3>1. v \in DOMAIN snap /\ s \in DOMAIN snap /\ s \in DOMAIN blobs
      BY <1>1, <2>3 DEF Fits, Unmoved, Ready
    <3>. QED  BY <1>1, <3>1 DEF TypeOK, Row, Times
  <2>. QED  BY <2>4, <2>5
<1>2. TypeOK /\ PruneInv /\ [Next]_vars =>
        [\A v \in Evicted, s \in Ready(blobs') : snap[v].accessed <= blobs[s].accessed]_vars
  BY <1>1
<1>. QED  BY <1>2, PruneInvariance, PTL DEF Spec, PruneIsLru
=============================================================================
