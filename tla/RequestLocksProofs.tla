------------------------- MODULE RequestLocksProofs -------------------------
(***************************************************************************)
(* For any sets of keys, handlers and mutexes and any threshold: the lock  *)
(* map of RequestLocks excludes per key, although its cleanup forgets      *)
(* mutexes, and it implements KeyedMutex.                                  *)
(*                                                                         *)
(* The invariant behind both is MapHoldsArc: as long as a handler has a    *)
(* clone of an Arc, the map still leads from its key to that mutex.  Two   *)
(* holders of one key therefore hold one mutex, and a mutex has one owner  *)
(* (HolderOwns).                                                           *)
(***************************************************************************)
EXTENDS MCRequestLocks, FiniteSetTheorems, SequenceTheorems, WellFoundedInduction, TLAPS

(* While a handler has an Arc, the map holds that mutex for its key.       *)
MapHoldsArc == \A c \in Clients : pc[c] \in HasArc => map[want[c]] = arc[c]

(* A handler past the lock owns its mutex. *)
HolderOwns == \A c \in Clients : pc[c] = "held" => owner[arc[c]] = c

IInv == TypeOK /\ MapHoldsArc /\ HolderOwns

(* Taking one element out of a queue leaves a queue of handlers.           *)
LEMMA RemoveAtType ==
  ASSUME NEW T, NEW s \in Seq(T), NEW i \in 1 .. Len(s)
  PROVE  RemoveAt(s, i) \in Seq(T)
  BY SMT DEF RemoveAt

(* TypeOK in its two parts. *)
Shapes ==
  /\ map \in [Keys -> LockIds \cup {None}]
  /\ pc \in [Clients -> PC]
  /\ want \in [Clients -> Keys \cup {None}]
  /\ scan \in [Clients -> SUBSET Keys]
  /\ arc \in [Clients -> LockIds \cup {None}]
  /\ owner \in [LockIds -> Clients \cup {None}]
  /\ queue \in [LockIds -> Seq(Clients)]

Refs == \A c \in Clients : /\ pc[c] = "idle" => want[c] = None
                           /\ pc[c] # "idle" => want[c] \in Keys
                           /\ pc[c] \in HasArc <=> arc[c] # None

(* TypeOK is inductive by itself (server.rs:213-233).                      *)
LEMMA TypeStep == TypeOK /\ [Next]_vars => TypeOK'
<1> SUFFICES ASSUME Shapes, Refs, [Next]_vars PROVE Shapes' /\ Refs'
  BY DEF TypeOK, Shapes, Refs
<1> USE NoneAssumption
<1>1. ASSUME NEW c \in Clients, NEW k \in Keys, Request(c, k) PROVE Shapes' /\ Refs'
  <2>1. Shapes'
    BY <1>1 DEF Shapes, Refs, PC, HasArc, Goto, Request
  <2>2. Refs'
    BY <1>1 DEF Shapes, Refs, PC, HasArc, Goto, Request
  <2> QED BY <2>1, <2>2
<1>2. ASSUME NEW c \in Clients, CheckLen(c) PROVE Shapes' /\ Refs'
  <2>1. Shapes'
    <3>1. CASE NeedsCleanup
      <4>1. scan' \in [Clients -> SUBSET Keys]
        BY <1>2, <3>1, Keys \in SUBSET Keys DEF Shapes, CheckLen
      <4> QED BY <1>2, <3>1, <4>1 DEF Shapes, PC, Goto, CheckLen
    <3>2. CASE ~NeedsCleanup
      BY <1>2, <3>2 DEF Shapes, PC, Goto, CheckLen
    <3> QED BY <3>1, <3>2
  <2>2. Refs'
    BY <1>2 DEF Shapes, Refs, PC, HasArc, Goto, CheckLen
  <2> QED BY <2>1, <2>2
<1>3. ASSUME NEW c \in Clients, NEW k \in Keys, RetainOne(c, k) PROVE Shapes' /\ Refs'
  <2>1. Shapes'
    BY <1>3 DEF Shapes, Refs, PC, HasArc, Goto, RetainOne
  <2>2. Refs'
    BY <1>3 DEF Shapes, Refs, PC, HasArc, Goto, RetainOne
  <2> QED BY <2>1, <2>2
<1>4. ASSUME NEW c \in Clients, RetainEnd(c) PROVE Shapes' /\ Refs'
  <2>1. Shapes'
    BY <1>4 DEF Shapes, Refs, PC, HasArc, Goto, RetainEnd
  <2>2. Refs'
    BY <1>4 DEF Shapes, Refs, PC, HasArc, Goto, RetainEnd
  <2> QED BY <2>1, <2>2
<1>5. ASSUME NEW c \in Clients, CloneEntry(c) PROVE Shapes' /\ Refs'
  <2>1. Shapes'
    <3>1. want[c] \in Keys
      BY <1>5 DEF Refs, CloneEntry
    <3>2. map' \in [Keys -> LockIds \cup {None}]
      BY <1>5, <3>1 DEF Shapes, CloneEntry, FreeLocks
    <3>3. arc' \in [Clients -> LockIds \cup {None}]
      BY <1>5, <3>1 DEF Shapes, CloneEntry, FreeLocks
    <3> QED BY <1>5, <3>2, <3>3 DEF Shapes, PC, Goto, CloneEntry
  <2>2. Refs'
    BY <1>5 DEF Shapes, Refs, PC, HasArc, Goto, CloneEntry, FreeLocks
  <2> QED BY <2>1, <2>2
<1>6. ASSUME NEW c \in Clients, LockNow(c) PROVE Shapes' /\ Refs'
  <2>1. Shapes'
    BY <1>6 DEF Shapes, Refs, PC, HasArc, Goto, LockNow
  <2>2. Refs'
    BY <1>6 DEF Shapes, Refs, PC, HasArc, Goto, LockNow
  <2> QED BY <2>1, <2>2
<1>7. ASSUME NEW c \in Clients, Enqueue(c) PROVE Shapes' /\ Refs'
  <2>1. Shapes'
    BY <1>7 DEF Shapes, Refs, PC, HasArc, Goto, Enqueue
  <2>2. Refs'
    BY <1>7 DEF Shapes, Refs, PC, HasArc, Goto, Enqueue
  <2> QED BY <2>1, <2>2
<1>8. ASSUME NEW c \in Clients, LockQueued(c) PROVE Shapes' /\ Refs'
  <2>1. Shapes'
    BY <1>8 DEF Shapes, Refs, PC, HasArc, Goto, LockQueued
  <2>2. Refs'
    BY <1>8 DEF Shapes, Refs, PC, HasArc, Goto, LockQueued
  <2> QED BY <2>1, <2>2
<1>9. ASSUME NEW c \in Clients, Release(c) PROVE Shapes' /\ Refs'
  <2>1. Shapes'
    BY <1>9 DEF Shapes, Refs, PC, HasArc, Goto, Release, Unlock, Forget
  <2>2. Refs'
    BY <1>9 DEF Shapes, Refs, PC, HasArc, Goto, Release, Unlock, Forget
  <2> QED BY <2>1, <2>2
<1>10. ASSUME NEW c \in Clients, Cancel(c) PROVE Shapes' /\ Refs'
  <2>1. Shapes'
    BY <1>10, RemoveAtType DEF Shapes, Refs, PC, HasArc, Goto, Cancel, Forget
  <2>2. Refs'
    BY <1>10 DEF Shapes, Refs, PC, HasArc, Goto, Cancel, Forget
  <2> QED BY <2>1, <2>2
<1>11. CASE UNCHANGED vars
  BY <1>11 DEF vars, Shapes, Refs
<1> QED
  BY <1>1, <1>2, <1>3, <1>4, <1>5, <1>6, <1>7, <1>8, <1>9, <1>10, <1>11
  DEF Next, Guard, Lock

(* Type correctness of the lock map (server.rs:213-233).                   *)
THEOREM TypeCorrect == Spec => []TypeOK
<1>1. Init => TypeOK
  BY NoneAssumption DEF Init, TypeOK, PC, HasArc
<1>2. TypeOK /\ [Next]_vars => TypeOK'
  BY TypeStep
<1> QED
  BY <1>1, <1>2, PTL DEF Spec

-----------------------------------------------------------------------------
(* Only retain and the insertion of a mutex change the map. retain spares  *)
(* every mutex that a handler holds a clone of, and an insertion finds the *)
(* key free, so nobody holds an Arc for it.                                *)
LEMMA MapStep == IInv /\ [Next]_vars => MapHoldsArc'
<1> SUFFICES ASSUME IInv, [Next]_vars, NEW d \in Clients, (pc[d] \in HasArc)'
             PROVE  (map[want[d]] = arc[d])'
  BY DEF MapHoldsArc
<1> USE NoneAssumption DEF IInv, TypeOK, MapHoldsArc, HasArc, Goto
<1>1. ASSUME NEW c \in Clients, NEW k \in Keys, Request(c, k)
      PROVE  (map[want[d]] = arc[d])'
  BY <1>1 DEF Request
<1>2. ASSUME NEW c \in Clients, CheckLen(c) PROVE (map[want[d]] = arc[d])'
  BY <1>2 DEF CheckLen
<1>3. ASSUME NEW c \in Clients, NEW k \in Keys, RetainOne(c, k)
      PROVE  (map[want[d]] = arc[d])'
  <2>1. pc[d] \in HasArc /\ want[d] \in Keys /\ map[want[d]] = arc[d]
    BY <1>3 DEF RetainOne
  <2>2. InUse(map[want[d]])
    BY <2>1 DEF InUse
  <2>3. map'[want[d]] = map[want[d]]
    BY <1>3, <2>1, <2>2 DEF RetainOne
  <2> QED BY <1>3, <2>1, <2>3 DEF RetainOne
<1>4. ASSUME NEW c \in Clients, RetainEnd(c) PROVE (map[want[d]] = arc[d])'
  BY <1>4 DEF RetainEnd
<1>5. ASSUME NEW c \in Clients, CloneEntry(c) PROVE (map[want[d]] = arc[d])'
  <2>1. want[c] \in Keys
    BY <1>5 DEF CloneEntry
  <2>2. CASE d = c
    BY <1>5, <2>1, <2>2 DEF CloneEntry, FreeLocks
  <2>3. CASE d # c
    <3>1. pc[d] \in HasArc /\ want[d] \in Keys /\ map[want[d]] = arc[d]
      BY <1>5, <2>3 DEF CloneEntry
    <3>2. map[want[c]] = None => want[d] # want[c]
      BY <3>1
    <3> QED BY <1>5, <2>1, <2>3, <3>1, <3>2 DEF CloneEntry
  <2> QED BY <2>2, <2>3
<1>6. ASSUME NEW c \in Clients, LockNow(c) PROVE (map[want[d]] = arc[d])'
  BY <1>6 DEF LockNow
<1>7. ASSUME NEW c \in Clients, Enqueue(c) PROVE (map[want[d]] = arc[d])'
  BY <1>7 DEF Enqueue
<1>8. ASSUME NEW c \in Clients, LockQueued(c) PROVE (map[want[d]] = arc[d])'
  BY <1>8 DEF LockQueued
<1>9. ASSUME NEW c \in Clients, Release(c) PROVE (map[want[d]] = arc[d])'
  BY <1>9 DEF Release, Unlock, Forget
<1>10. ASSUME NEW c \in Clients, Cancel(c) PROVE (map[want[d]] = arc[d])'
  BY <1>10 DEF Cancel, Forget
<1>11. CASE UNCHANGED vars
  BY <1>11 DEF vars
<1> QED
  BY <1>1, <1>2, <1>3, <1>4, <1>5, <1>6, <1>7, <1>8, <1>9, <1>10, <1>11
  DEF Next, Guard, Lock

(* A mutex is taken only when it has no owner, and freed by its owner.     *)
LEMMA OwnerStep == IInv /\ [Next]_vars => HolderOwns'
<1> SUFFICES ASSUME IInv, [Next]_vars, NEW d \in Clients, (pc[d] = "held")'
             PROVE  (owner[arc[d]] = d)'
  BY DEF HolderOwns
<1> USE NoneAssumption DEF IInv, TypeOK, HolderOwns, HasArc, Goto
<1>1. ASSUME NEW c \in Clients, NEW k \in Keys, Request(c, k)
      PROVE  (owner[arc[d]] = d)'
  BY <1>1 DEF Request
<1>2. ASSUME NEW c \in Clients, CheckLen(c) PROVE (owner[arc[d]] = d)'
  BY <1>2 DEF CheckLen
<1>3. ASSUME NEW c \in Clients, NEW k \in Keys, RetainOne(c, k)
      PROVE  (owner[arc[d]] = d)'
  BY <1>3 DEF RetainOne
<1>4. ASSUME NEW c \in Clients, RetainEnd(c) PROVE (owner[arc[d]] = d)'
  BY <1>4 DEF RetainEnd
<1>5. ASSUME NEW c \in Clients, CloneEntry(c) PROVE (owner[arc[d]] = d)'
  BY <1>5 DEF CloneEntry
<1>6. ASSUME NEW c \in Clients, LockNow(c) PROVE (owner[arc[d]] = d)'
  BY <1>6 DEF LockNow
<1>7. ASSUME NEW c \in Clients, Enqueue(c) PROVE (owner[arc[d]] = d)'
  BY <1>7 DEF Enqueue
<1>8. ASSUME NEW c \in Clients, LockQueued(c) PROVE (owner[arc[d]] = d)'
  BY <1>8 DEF LockQueued
<1>9. ASSUME NEW c \in Clients, Release(c) PROVE (owner[arc[d]] = d)'
  BY <1>9 DEF Release, Unlock, Forget
<1>10. ASSUME NEW c \in Clients, Cancel(c) PROVE (owner[arc[d]] = d)'
  BY <1>10 DEF Cancel, Forget
<1>11. CASE UNCHANGED vars
  BY <1>11 DEF vars
<1> QED
  BY <1>1, <1>2, <1>3, <1>4, <1>5, <1>6, <1>7, <1>8, <1>9, <1>10, <1>11
  DEF Next, Guard, Lock

THEOREM Invariance == Spec => []IInv
<1>1. Init => IInv
  BY NoneAssumption DEF Init, IInv, TypeOK, PC, HasArc, MapHoldsArc, HolderOwns
<1>2. IInv /\ [Next]_vars => IInv'
  BY TypeStep, MapStep, OwnerStep DEF IInv
<1> QED
  BY <1>1, <1>2, PTL DEF Spec

(* In a state of IInv, the handlers that hold one key are one handler.     *)
LEMMA OneHolder ==
  ASSUME IInv, NEW k \in Keys, NEW c \in Holding(k), NEW d \in Holding(k)
  PROVE  c = d
  BY DEF IInv, MapHoldsArc, HolderOwns, HasArc, Holding

(* Two handlers never hold the lock of one key, for any number of keys and *)
(* handlers and any cleanup threshold (server.rs:223-232).                 *)
THEOREM Exclusion == Spec => []MutualExclusion
<1>1. IInv => MutualExclusion
  BY OneHolder DEF MutualExclusion
<1> QED
  BY <1>1, Invariance, PTL

-----------------------------------------------------------------------------
(* Every step of the lock map is a step of a mutex per key, or none.       *)
LEMMA Simulation == IInv /\ IInv' /\ [Next]_vars => [Mutexes!Next]_([k \in Keys |-> Holding(k)])
<1> DEFINE abs == [k \in Keys |-> Holding(k)]
<1> SUFFICES ASSUME IInv, IInv', [Next]_vars
             PROVE  Mutexes!Next \/ abs' = abs
  OBVIOUS
<1> USE NoneAssumption
<1>1. ASSUME \A c \in Clients : /\ (pc'[c] = "held") <=> (pc[c] = "held")
                                /\ pc[c] = "held" => want'[c] = want[c]
      PROVE  abs' = abs
  BY <1>1 DEF Holding
<1>2. ASSUME NEW c \in Clients, pc[c] # "held",
             pc' = [pc EXCEPT ![c] = "held"], want' = want,
             pc[c] \in HasArc, owner[arc[c]] = None
      PROVE  Mutexes!Acquire(c, want[c]) /\ want[c] \in Keys
  <2>1. want[c] \in Keys
    BY <1>2 DEF IInv, TypeOK, HasArc
  <2>2. Holding(want[c]) = {}
    BY <1>2, <2>1 DEF IInv, TypeOK, MapHoldsArc, HolderOwns, Holding, HasArc
  <2>3. \A k \in Keys : k = want[c] => Holding(k)' = {c}
    BY <1>2, <2>1, <2>2 DEF IInv, TypeOK, Holding
  <2>4. \A k \in Keys : k # want[c] => Holding(k)' = Holding(k)
    BY <1>2 DEF IInv, TypeOK, Holding
  <2>5. \A k \in Keys : Holding(k)' = IF k = want[c] THEN {c} ELSE Holding(k)
    BY <2>3, <2>4
  <2>6. abs' = [abs EXCEPT ![want[c]] = {c}]
    BY <2>1, <2>5
  <2> QED BY <2>1, <2>2, <2>6 DEF Mutexes!Acquire
<1>3. ASSUME NEW c \in Clients, Release(c)
      PROVE  Mutexes!Release(c, want[c]) /\ want[c] \in Keys
  <2>1. want[c] \in Keys /\ c \in Holding(want[c])
    BY <1>3 DEF IInv, TypeOK, Holding, Release, Unlock
  <2>2. \A k \in Keys : Holding(k)' = IF k = want[c] THEN Holding(k) \ {c}
                                                     ELSE Holding(k)
    BY <1>3 DEF IInv, TypeOK, Holding, Release, Unlock, Forget, Goto
  <2> QED BY <2>1, <2>2 DEF Mutexes!Release
<1>4. ASSUME NEW c \in Clients, LockNow(c) PROVE Mutexes!Next
  BY <1>2, <1>4 DEF LockNow, HasArc, Goto, Mutexes!Next
<1>5. ASSUME NEW c \in Clients, LockQueued(c) PROVE Mutexes!Next
  BY <1>2, <1>5 DEF LockQueued, HasArc, Goto, Mutexes!Next
<1>6. ASSUME NEW c \in Clients, Release(c) PROVE Mutexes!Next
  BY <1>3, <1>6 DEF Mutexes!Next
<1>7. ASSUME NEW c \in Clients, NEW k \in Keys, Request(c, k) PROVE abs' = abs
  BY <1>1, <1>7 DEF Request, Goto, IInv, TypeOK
<1>8. ASSUME NEW c \in Clients, Guard(c) PROVE abs' = abs
  BY <1>1, <1>8 DEF Guard, CheckLen, RetainEnd, RetainOne, CloneEntry, Goto,
                    IInv, TypeOK
<1>9. ASSUME NEW c \in Clients, Enqueue(c) PROVE abs' = abs
  BY <1>1, <1>9 DEF Enqueue, Goto, IInv, TypeOK
<1>10. ASSUME NEW c \in Clients, Cancel(c) PROVE abs' = abs
  BY <1>1, <1>10 DEF Cancel, Forget, Goto, IInv, TypeOK
<1>11. CASE UNCHANGED vars
  BY <1>11 DEF vars, Holding
<1> QED
  BY <1>4, <1>5, <1>6, <1>7, <1>8, <1>9, <1>10, <1>11 DEF Next, Lock

(* The lock map with its cleanup is a mutex per key, for any number of     *)
(* keys, handlers and mutexes (server.rs:213-233).                         *)
THEOREM Refinement == Spec => ImplementsKeyedMutex
<1>1. Init => Mutexes!Init
  BY DEF Init, Mutexes!Init, Holding
<1>2. IInv /\ IInv' /\ [Next]_vars => [Mutexes!Next]_([k \in Keys |-> Holding(k)])
  BY Simulation
<1> QED
  BY <1>1, <1>2, Invariance, PTL DEF Spec, ImplementsKeyedMutex, Mutexes!Spec

-----------------------------------------------------------------------------
(* The bound of the map. Every mutex in it is charged to a handler that    *)
(* has, or last had, an Arc of it and whose own cleanup has not yet passed *)
(* its key, but for fewer than Threshold mutexes: what cleanup cannot drop *)
(* is in use, and a handler that skips cleanup has seen a small map.       *)
Uncharged(charge) == Present \ {charge[c] : c \in Clients}

Accounts(charge) ==
  /\ \A c \in Clients : /\ pc[c] \in HasArc => charge[c] = want[c]
                        /\ pc[c] = "entry" => charge[c] = None
                        /\ pc[c] = "retain" => charge[c] \in scan[c] \cup {None}
  /\ IsFiniteSet(Uncharged(charge))
  /\ Cardinality(Uncharged(charge)) < Threshold

Charged == \E charge \in [Clients -> Keys \cup {None}] : Accounts(charge)

(* No two keys share a mutex: a new one gets an identity that is free.      *)
OneKey == \A k, m \in Keys : map[k] # None /\ map[k] = map[m] => k = m

LEMMA OneKeyStep == TypeOK /\ OneKey /\ [Next]_vars => OneKey'
<1> SUFFICES ASSUME TypeOK, OneKey, [Next]_vars PROVE OneKey'
  OBVIOUS
<1>1. ASSUME NEW c \in Clients, NEW k \in Keys, RetainOne(c, k) PROVE OneKey'
  BY <1>1 DEF RetainOne, TypeOK, OneKey
<1>2. ASSUME NEW c \in Clients, CloneEntry(c) PROVE OneKey'
  BY <1>2 DEF CloneEntry, FreeLocks, TypeOK, OneKey
<1>3. CASE map' = map
  BY <1>3 DEF OneKey
<1> QED
  BY <1>1, <1>2, <1>3 DEF Next, Guard, Lock, Request, CheckLen, RetainEnd, LockNow,
     Enqueue, LockQueued, Release, Cancel, vars

(* A smaller set of uncharged mutexes is as good.                          *)
LEMMA FewerUncharged ==
  ASSUME NEW S, NEW T \in SUBSET S, IsFiniteSet(S), Cardinality(S) < Threshold
  PROVE  IsFiniteSet(T) /\ Cardinality(T) < Threshold
<1>1. IsFiniteSet(T) /\ Cardinality(T) <= Cardinality(S)
  BY FS_Subset
<1>2. Cardinality(T) \in Nat /\ Cardinality(S) \in Nat
  BY <1>1, FS_CardinalityType
<1> QED BY <1>1, <1>2, BoundAssumption

(* Handlers are finitely many, and so are the mutexes charged to them.     *)
LEMMA ChargedKeys ==
  ASSUME NEW charge \in [Clients -> Keys \cup {None}]
  PROVE  /\ IsFiniteSet({charge[c] : c \in Clients})
         /\ Cardinality({charge[c] : c \in Clients}) <= Cardinality(Clients)
<1> DEFINE T == {charge[c] : c \in Clients}
           f == [c \in Clients |-> charge[c]]
<1>1. f \in Surjection(Clients, T)
  BY DEF Surjection
<1> HIDE DEF f, T
<1>2. IsFiniteSet(T) /\ Cardinality(T) <= Cardinality(Clients)
  BY <1>1, FS_Surjection, BoundAssumption
<1> QED BY <1>2 DEF T

(* The map has what is charged, and fewer than Threshold more.             *)
LEMMA ChargedBounds == TypeOK /\ Charged => IsFiniteSet(Present) /\ MapBounded
<1> SUFFICES ASSUME TypeOK, NEW charge \in [Clients -> Keys \cup {None}], Accounts(charge)
             PROVE  IsFiniteSet(Present) /\ MapBounded
  BY DEF Charged
<1> DEFINE T == {charge[c] : c \in Clients}
           U == Uncharged(charge)
<1>1. IsFiniteSet(T) /\ Cardinality(T) <= Cardinality(Clients)
  BY ChargedKeys
<1>2. IsFiniteSet(U) /\ Cardinality(U) < Threshold
  BY DEF Accounts
<1>3. Present \subseteq U \cup T
  BY DEF Uncharged
<1> HIDE DEF U, T
<1>4. /\ IsFiniteSet(U \cup T)
      /\ Cardinality(U \cup T) = Cardinality(U) + Cardinality(T) - Cardinality(U \cap T)
  BY <1>1, <1>2, FS_Union
<1>5. IsFiniteSet(Present) /\ Cardinality(Present) <= Cardinality(U \cup T)
  BY <1>3, <1>4, FS_Subset
<1>6. IsFiniteSet(U \cap T)
  BY <1>1, FS_Intersection
<1>7. /\ Cardinality(U) \in Nat /\ Cardinality(T) \in Nat /\ Cardinality(U \cap T) \in Nat
      /\ Cardinality(Clients) \in Nat /\ Cardinality(Present) \in Nat
      /\ Cardinality(U \cup T) \in Nat
  BY <1>1, <1>2, <1>4, <1>5, <1>6, FS_CardinalityType, BoundAssumption
<1>8. Cardinality(Present) + 1 <= Threshold + Cardinality(Clients)
  BY <1>1, <1>2, <1>4, <1>5, <1>7, BoundAssumption
<1> QED BY <1>5, <1>8 DEF MapBounded

(* A step that charges the same keep, or charges only what it must: when   *)
(* nothing uncharged is new, the account still balances.                   *)
LEMMA Balance ==
  ASSUME NEW charge \in [Clients -> Keys \cup {None}], Accounts(charge),
         NEW after \in [Clients -> Keys \cup {None}],
         \A c \in Clients : /\ pc'[c] \in HasArc => after[c] = want'[c]
                            /\ pc'[c] = "entry" => after[c] = None
                            /\ pc'[c] = "retain" => after[c] \in scan'[c] \cup {None},
         Uncharged(after)' \subseteq Uncharged(charge)
  PROVE  Charged'
<1>1. IsFiniteSet(Uncharged(after)') /\ Cardinality(Uncharged(after)') < Threshold
  BY FewerUncharged DEF Accounts
<1>2. Accounts(after)'
  BY <1>1 DEF Accounts, Uncharged, Present
<1> QED BY <1>2 DEF Charged

(* Only a handler that skips the cleanup may leave a mutex to nobody.      *)
LEMMA ChargedStep == IInv /\ OneKey /\ Charged /\ [Next]_vars => Charged'
<1> SUFFICES ASSUME IInv, OneKey, [Next]_vars,
                    NEW charge \in [Clients -> Keys \cup {None}], Accounts(charge)
             PROVE  Charged'
  BY DEF Charged
<1> USE NoneAssumption DEF IInv, TypeOK, Goto
<1> DEFINE Quits(c) == [charge EXCEPT ![c] = None]
<1>1. ASSUME NEW c \in Clients, NEW k \in Keys, Request(c, k) PROVE Charged'
  <2>1. Uncharged(charge)' \subseteq Uncharged(charge)
    BY <1>1 DEF Request, Uncharged, Present
  <2> QED BY <1>1, <2>1, Balance DEF Request, Accounts, HasArc
<1>2. ASSUME NEW c \in Clients, CheckLen(c) PROVE Charged'
  <2>1. CASE NeedsCleanup
    <3>1. Uncharged(charge)' \subseteq Uncharged(charge)
      BY <1>2 DEF CheckLen, Uncharged, Present
    <3>2. scan' = [scan EXCEPT ![c] = Keys] /\ pc' = [pc EXCEPT ![c] = "retain"]
      BY <1>2, <2>1 DEF CheckLen
    <3> QED BY <1>2, <3>1, <3>2, Balance DEF CheckLen, Accounts, HasArc
  <2>2. CASE ~NeedsCleanup
    <3>1. IsFiniteSet(Present)
      BY ChargedBounds DEF Charged
    <3>2. Cardinality(Present) < Threshold
      BY <2>2, <3>1, FS_CardinalityType, BoundAssumption DEF NeedsCleanup
    <3>3. Uncharged(Quits(c))' \subseteq Present
      BY <1>2 DEF CheckLen, Uncharged, Present
    <3>4. IsFiniteSet(Uncharged(Quits(c))') /\ Cardinality(Uncharged(Quits(c))') < Threshold
      BY <3>1, <3>2, <3>3, FewerUncharged
    <3>5. pc' = [pc EXCEPT ![c] = "entry"] /\ UNCHANGED <<want, scan>>
      BY <1>2, <2>2 DEF CheckLen
    <3>6. Accounts(Quits(c))'
      BY <3>4, <3>5 DEF Accounts, HasArc, Uncharged, Present
    <3>7. Quits(c) \in [Clients -> Keys \cup {None}]
      OBVIOUS
    <3> QED BY <3>6, <3>7 DEF Charged
  <2> QED BY <2>1, <2>2
<1>3. ASSUME NEW c \in Clients, NEW k \in Keys, RetainOne(c, k) PROVE Charged'
  <2>1. pc[c] = "retain" /\ pc' = pc /\ want' = want /\ scan' = [scan EXCEPT ![c] = @ \ {k}]
    BY <1>3 DEF RetainOne
  <2>2. Present' \subseteq Present
    BY <1>3 DEF RetainOne, Present
  <2>3. CASE charge[c] # k
    <3>1. Uncharged(charge)' \subseteq Uncharged(charge)
      BY <2>2 DEF Uncharged
    <3> QED BY <2>1, <2>3, <3>1, Balance DEF Accounts
  <2>4. CASE charge[c] = k
    <3>1. Quits(c) \in [Clients -> Keys \cup {None}]
      OBVIOUS
    <3>2. k \notin Present' \/ \E d \in Clients : d # c /\ charge[d] = k
      <4>1. CASE k \in Present'
        <5>1. map[k] # None /\ InUse(map[k])
          BY <1>3, <4>1 DEF RetainOne, Present
        <5>2. PICK d \in Clients : arc[d] = map[k]
          BY <5>1 DEF InUse
        <5>3. pc[d] \in HasArc
          BY <5>1, <5>2
        <5>4. want[d] = k
          <6>1. want[d] \in Keys /\ map[want[d]] = map[k]
            BY <5>2, <5>3 DEF MapHoldsArc, HasArc
          <6> QED BY <5>1, <6>1 DEF OneKey
        <5> QED BY <2>1, <5>3, <5>4 DEF Accounts, HasArc
      <4> QED BY <4>1
    <3>3. Uncharged(Quits(c))' \subseteq Uncharged(charge)
      BY <2>2, <2>4, <3>2 DEF Uncharged
    <3>4. \A d \in Clients : /\ pc'[d] \in HasArc => Quits(c)[d] = want'[d]
                             /\ pc'[d] = "entry" => Quits(c)[d] = None
                             /\ pc'[d] = "retain" => Quits(c)[d] \in scan'[d] \cup {None}
      BY <2>1 DEF Accounts, HasArc
    <3> QED BY <3>1, <3>3, <3>4, Balance
  <2> QED BY <2>3, <2>4
<1>4. ASSUME NEW c \in Clients, RetainEnd(c) PROVE Charged'
  <2>1. Uncharged(charge)' \subseteq Uncharged(charge)
    BY <1>4 DEF RetainEnd, Uncharged, Present
  <2> QED BY <1>4, <2>1, Balance DEF RetainEnd, Accounts, HasArc
<1>5. ASSUME NEW c \in Clients, CloneEntry(c) PROVE Charged'
  <2>0. PICK k \in Keys : k = want[c]
    BY <1>5 DEF CloneEntry
  <2> DEFINE after == [charge EXCEPT ![c] = k]
  <2>1. want[c] = k /\ pc' = [pc EXCEPT ![c] = "lock"] /\ UNCHANGED <<want, scan>>
    BY <1>5, <2>0 DEF CloneEntry
  <2>2. Present' \subseteq Present \cup {want[c]}
    BY <1>5, <2>1 DEF CloneEntry, Present, FreeLocks
  <2>3. charge[c] = None
    BY <1>5 DEF CloneEntry, Accounts
  <2>4. Uncharged(after)' \subseteq Uncharged(charge)
    BY <2>1, <2>2, <2>3 DEF Uncharged, Present
  <2>5. \A d \in Clients : /\ pc'[d] \in HasArc => after[d] = want'[d]
                           /\ pc'[d] = "entry" => after[d] = None
                           /\ pc'[d] = "retain" => after[d] \in scan'[d] \cup {None}
    BY <2>1 DEF Accounts, HasArc
  <2>6. after \in [Clients -> Keys \cup {None}]
    OBVIOUS
  <2> HIDE DEF after
  <2> QED BY <2>4, <2>5, <2>6, Balance
<1>6. ASSUME NEW c \in Clients, Lock(c) PROVE Charged'
  <2>1. Uncharged(charge)' \subseteq Uncharged(charge)
    BY <1>6 DEF Lock, LockNow, Enqueue, LockQueued, Uncharged, Present
  <2>2. \A d \in Clients : /\ pc'[d] \in HasArc => charge[d] = want'[d]
                           /\ pc'[d] = "entry" => charge[d] = None
                           /\ pc'[d] = "retain" => charge[d] \in scan'[d] \cup {None}
    BY <1>6 DEF Lock, LockNow, Enqueue, LockQueued, Accounts, HasArc
  <2> QED BY <2>1, <2>2, Balance
<1>7. ASSUME NEW c \in Clients, Release(c) \/ Cancel(c) PROVE Charged'
  <2>1. Uncharged(charge)' \subseteq Uncharged(charge)
    BY <1>7 DEF Release, Cancel, Forget, Uncharged, Present
  <2>2. \A d \in Clients : /\ pc'[d] \in HasArc => charge[d] = want'[d]
                           /\ pc'[d] = "entry" => charge[d] = None
                           /\ pc'[d] = "retain" => charge[d] \in scan'[d] \cup {None}
    BY <1>7 DEF Release, Cancel, Forget, Accounts, HasArc
  <2> QED BY <2>1, <2>2, Balance
<1>8. CASE UNCHANGED vars
  <2>1. Uncharged(charge)' \subseteq Uncharged(charge)
    BY <1>8 DEF vars, Uncharged, Present
  <2> QED BY <1>8, <2>1, Balance DEF vars, Accounts
<1> QED
  BY <1>1, <1>2, <1>3, <1>4, <1>5, <1>6, <1>7, <1>8 DEF Next, Guard

(* The map never exceeds the threshold by the number of handlers, however  *)
(* many keys there are and however its cleanups interleave                 *)
(* (server.rs:213-233).                                                    *)
THEOREM Bounded == Spec => []MapBounded
<1>1. Init => Charged
  <2> DEFINE nothing == [c \in Clients |-> None]
  <2> SUFFICES ASSUME Init PROVE Accounts(nothing)
    BY DEF Charged
  <2>1. Uncharged(nothing) = {}
    BY DEF Init, Uncharged, Present
  <2>2. IsFiniteSet(Uncharged(nothing)) /\ Cardinality(Uncharged(nothing)) < Threshold
    BY <2>1, FS_EmptySet, BoundAssumption
  <2>3. \A c \in Clients : pc[c] = "idle"
    BY DEF Init
  <2> QED BY <2>2, <2>3 DEF Accounts, HasArc
<1>2. Init => OneKey
  BY DEF Init, OneKey
<1>3. IInv /\ OneKey /\ [Next]_vars => OneKey'
  BY OneKeyStep DEF IInv
<1>4. IInv /\ OneKey /\ Charged /\ [Next]_vars => Charged'
  BY ChargedStep
<1>5. IInv /\ Charged => MapBounded
  BY ChargedBounds DEF IInv
<1> QED
  BY <1>1, <1>2, <1>3, <1>4, <1>5, Invariance, PTL DEF Spec

-----------------------------------------------------------------------------
(* The bounded cache.  The queue is in the order of the sequence numbers,  *)
(* and every entry has its latest pair in it: the first pair that is still *)
(* current is therefore the one of the entry that was used first, whatever *)
(* stale pairs stand before it.                                            *)
LruEntry == [value : LruValues, sequence : Nat]
InCache(es) == {k \in LruKeys : es[k] # None}
UsedBefore(es) == {e \in InCache(es) \X InCache(es) : es[e[1]].sequence < es[e[2]].sequence}
Stamped(es, k, v, n) == [es EXCEPT ![k] = [value |-> v, sequence |-> n]]
Within(r, ks) == {e \in r : e[1] \in ks /\ e[2] \in ks}

Queued(es, q, n) ==
  /\ es \in [LruKeys -> LruEntry \cup {None}] /\ q \in Seq(LruKeys \X Nat) /\ n \in Nat
  /\ \A i, j \in 1 .. Len(q) : i < j => q[i][2] < q[j][2]
  /\ \A i \in 1 .. Len(q) : q[i][2] < n
  /\ \A k \in InCache(es) : \E i \in 1 .. Len(q) : q[i] = <<k, es[k].sequence>>

LruInv ==
  /\ Queued(entries, order, next_sequence)
  /\ IsFiniteSet(L!Cached) /\ Cardinality(L!Cached) <= LruCapacity

LEMMA SameCardinality ==
  \A T : L!Cardinality(T) = Cardinality(T) /\ L!Lru!Cardinality(T) = Cardinality(T)
BY DEF L!Cardinality, L!Lru!Cardinality, Cardinality

LEMMA CachedIs == InCache(entries) = L!Cached /\ UsedBefore(entries) = L!Before
BY DEF InCache, UsedBefore, L!Cached, L!Before

LEMMA PairIs ==
  ASSUME NEW S, NEW T, NEW e \in S \X T
  PROVE  e = <<e[1], e[2]>> /\ e[1] \in S /\ e[2] \in T
OBVIOUS

(* An entry is older than the next use, and no two are of one age.         *)
LEMMA Ages ==
  ASSUME NEW es, NEW q, NEW n, Queued(es, q, n)
  PROVE  /\ \A k \in InCache(es) : es[k] \in LruEntry /\ es[k].sequence < n
         /\ \A k, l \in InCache(es) : es[k].sequence = es[l].sequence => k = l
<1>1. \A k \in InCache(es) : es[k] \in LruEntry
  BY DEF Queued, InCache
<1>2. \A i \in 1 .. Len(q) : q[i][2] \in Nat /\ q[i][2] < n
  BY DEF Queued
<1>3. ASSUME NEW k \in InCache(es) PROVE es[k].sequence < n
  <2>1. PICK i \in 1 .. Len(q) : q[i] = <<k, es[k].sequence>>
    BY DEF Queued
  <2>. QED  BY <1>2, <2>1
<1>4. ASSUME NEW k \in InCache(es), NEW l \in InCache(es), es[k].sequence = es[l].sequence
      PROVE  k = l
  <2>1. PICK i \in 1 .. Len(q) : q[i] = <<k, es[k].sequence>>
    BY DEF Queued
  <2>2. PICK j \in 1 .. Len(q) : q[j] = <<l, es[l].sequence>>
    BY DEF Queued
  <2>3. q[i][2] = q[j][2] /\ q[i][2] \in Nat
    BY <1>2, <1>4, <2>1, <2>2
  <2>4. i = j
    <3>1. i < j => q[i][2] < q[j][2]
      BY DEF Queued
    <3>2. j < i => q[j][2] < q[i][2]
      BY DEF Queued
    <3>. QED  BY <1>2, <2>3, <3>1, <3>2
  <2>. QED  BY <2>1, <2>2, <2>4
<1>. QED  BY <1>1, <1>3, <1>4

(* A use puts its pair at the end, and the entry after all others.         *)
LastUsed(es, q, n, k, fs) ==
  /\ Queued(fs, Append(q, <<k, n>>), n + 1)
  /\ InCache(fs) = InCache(es) \cup {k}
  /\ UsedBefore(fs) = Within(UsedBefore(es), InCache(es) \ {k})
                        \cup ((InCache(es) \ {k}) \X {k})

LEMMA Used ==
  ASSUME NEW es, NEW q, NEW n, Queued(es, q, n), NEW k \in LruKeys, NEW v \in LruValues,
         NEW fs, fs = Stamped(es, k, v, n)
  PROVE  LastUsed(es, q, n, k, fs)
<1>. DEFINE r == Append(q, <<k, n>>)
            entry == [value |-> v, sequence |-> n]
<1>1. /\ es \in [LruKeys -> LruEntry \cup {None}] /\ q \in Seq(LruKeys \X Nat) /\ n \in Nat
      /\ Len(q) \in Nat
  BY DEF Queued
<1>2. entry \in LruEntry /\ entry # None /\ entry.sequence = n
  BY <1>1, LruAssumption DEF LruEntry
<1>3. /\ fs \in [LruKeys -> LruEntry \cup {None}]
      /\ fs[k] = entry /\ \A l \in LruKeys \ {k} : fs[l] = es[l]
  <2>. HIDE DEF entry
  <2>1. fs = [es EXCEPT ![k] = entry]
    BY DEF entry, Stamped
  <2>. QED  BY <1>1, <1>2, <2>1
<1>. HIDE DEF entry
<1>4. InCache(fs) = InCache(es) \cup {k}
  BY <1>2, <1>3 DEF InCache
<1>5. /\ r \in Seq(LruKeys \X Nat) /\ Len(r) = Len(q) + 1
      /\ r[Len(q) + 1] = <<k, n>> /\ \A i \in 1 .. Len(q) : r[i] = q[i]
  BY <1>1
<1>6. \A l \in InCache(es) : es[l] \in LruEntry /\ es[l].sequence \in Nat /\ es[l].sequence < n
  BY Ages DEF LruEntry
<1>7. Queued(fs, r, n + 1)
  <2>. HIDE DEF r
  <2>1. \A i, j \in 1 .. Len(r) : i < j => r[i][2] < r[j][2]
    <3>. SUFFICES ASSUME NEW i \in 1 .. Len(r), NEW j \in 1 .. Len(r), i < j
                  PROVE  r[i][2] < r[j][2]
      OBVIOUS
    <3>1. i \in 1 .. Len(q) /\ r[i] = q[i]
      BY <1>1, <1>5
    <3>2. CASE j \in 1 .. Len(q)
      BY <1>5, <3>1, <3>2 DEF Queued
    <3>3. CASE j = Len(q) + 1
      BY <1>5, <3>1, <3>3 DEF Queued
    <3>. QED  BY <1>1, <1>5, <3>2, <3>3
  <2>2. \A i \in 1 .. Len(r) : r[i][2] < n + 1
    <3>. SUFFICES ASSUME NEW i \in 1 .. Len(r) PROVE r[i][2] < n + 1
      OBVIOUS
    <3>1. CASE i \in 1 .. Len(q)
      <4>1. q[i] \in LruKeys \X Nat /\ q[i][2] < n
        BY <1>1, <3>1 DEF Queued
      <4>2. q[i][2] \in Nat
        BY <4>1
      <4>. QED  BY <1>1, <1>5, <3>1, <4>1, <4>2
    <3>2. CASE i = Len(q) + 1
      BY <1>1, <1>5, <3>2
    <3>. QED  BY <1>1, <1>5, <3>1, <3>2
  <2>3. ASSUME NEW l \in InCache(fs) PROVE \E i \in 1 .. Len(r) : r[i] = <<l, fs[l].sequence>>
    <3>1. CASE l = k
      <4>1. Len(q) + 1 \in 1 .. Len(r)
        BY <1>1, <1>5
      <4>. QED  BY <1>2, <1>3, <1>5, <3>1, <4>1
    <3>2. CASE l # k
      <4>1. l \in InCache(es) /\ l \in LruKeys
        BY <1>4, <3>2 DEF InCache
      <4>2. PICK i \in 1 .. Len(q) : q[i] = <<l, es[l].sequence>>
        BY <4>1 DEF Queued
      <4>3. i \in 1 .. Len(r) /\ r[i] = q[i]
        BY <1>1, <1>5
      <4>. QED  BY <1>3, <3>2, <4>1, <4>2, <4>3
    <3>. QED  BY <3>1, <3>2
  <2>4. n + 1 \in Nat
    BY <1>1
  <2>5. \A l \in InCache(fs) : \E i \in 1 .. Len(r) : r[i] = <<l, fs[l].sequence>>
    BY <2>3
  <2>. QED  BY <1>3, <1>5, <2>1, <2>2, <2>4, <2>5 DEF Queued
<1>8. UsedBefore(fs) = Within(UsedBefore(es), InCache(es) \ {k})
                       \cup ((InCache(es) \ {k}) \X {k})
  <2>1. ASSUME NEW a \in InCache(fs), NEW b \in InCache(fs)
        PROVE  fs[a].sequence < fs[b].sequence <=>
                 \/ a # k /\ b # k /\ es[a].sequence < es[b].sequence
                 \/ a # k /\ b = k
    <3>1. CASE a = k
      <4>1. b # k => b \in InCache(es) /\ b \in LruKeys \ {k}
        BY <1>4 DEF InCache
      <4>2. CASE b = k
        BY <1>1, <1>2, <1>3, <3>1, <4>2
      <4>3. CASE b # k
        BY <1>1, <1>2, <1>3, <1>6, <3>1, <4>1, <4>3
      <4>. QED  BY <4>2, <4>3
    <3>2. CASE a # k
      <4>1. a \in InCache(es) /\ a \in LruKeys \ {k} /\ fs[a] = es[a]
        BY <1>3, <1>4, <3>2 DEF InCache
      <4>2. CASE b = k
        BY <1>2, <1>3, <1>6, <3>2, <4>1, <4>2
      <4>3. CASE b # k
        <5>1. fs[b] = es[b]
          BY <1>3, <4>3 DEF InCache
        <5>. QED  BY <3>2, <4>1, <4>3, <5>1
      <4>. QED  BY <4>2, <4>3
    <3>. QED  BY <3>1, <3>2
  <2>2. ASSUME NEW e
        PROVE  e \in UsedBefore(fs) <=>
                 \/ e \in UsedBefore(es) /\ e[1] # k /\ e[2] # k
                 \/ e \in (InCache(es) \ {k}) \X {k}
    <3>1. ASSUME e \in UsedBefore(fs) \/ e \in UsedBefore(es) \/ e \in (InCache(es) \ {k}) \X {k}
          PROVE  e = <<e[1], e[2]>> /\ e[1] \in InCache(fs) /\ e[2] \in InCache(fs)
      <4>1. e \in UsedBefore(fs) => e \in InCache(fs) \X InCache(fs)
        BY DEF UsedBefore
      <4>2. e \in UsedBefore(es) => e \in InCache(fs) \X InCache(fs)
        BY <1>4 DEF UsedBefore
      <4>3. e \in (InCache(es) \ {k}) \X {k} => e \in InCache(fs) \X InCache(fs)
        BY <1>4
      <4>. QED  BY <3>1, <4>1, <4>2, <4>3, PairIs
    <3>2. CASE e = <<e[1], e[2]>> /\ e[1] \in InCache(fs) /\ e[2] \in InCache(fs)
      <4>1. e \in UsedBefore(fs) <=> fs[e[1]].sequence < fs[e[2]].sequence
        BY <3>2 DEF UsedBefore
      <4>2. e[1] # k /\ e[2] # k =>
              (e \in UsedBefore(es) <=> es[e[1]].sequence < es[e[2]].sequence)
        BY <1>4, <3>2 DEF UsedBefore
      <4>3. e \in (InCache(es) \ {k}) \X {k} <=> e[1] # k /\ e[2] = k
        BY <1>4, <3>2
      <4>4. fs[e[1]].sequence < fs[e[2]].sequence <=>
              \/ e[1] # k /\ e[2] # k /\ es[e[1]].sequence < es[e[2]].sequence
              \/ e[1] # k /\ e[2] = k
        BY <2>1, <3>2
      <4>. QED  BY <4>1, <4>2, <4>3, <4>4
    <3>. QED  BY <3>1, <3>2
  <2>3. ASSUME NEW e \in UsedBefore(es) PROVE e[1] \in InCache(es) /\ e[2] \in InCache(es)
    <3>1. e \in InCache(es) \X InCache(es)
      BY DEF UsedBefore
    <3>. QED  BY <3>1, PairIs
  <2>. QED  BY <2>2, <2>3 DEF Within
<1>. QED  BY <1>4, <1>7, <1>8 DEF LastUsed


LEMMA Least ==
  ASSUME NEW S \in SUBSET Nat, S # {}
  PROVE  \E m \in S : \A x \in S : m <= x
<1>1. IsWellFoundedOn(OpToRel(<, Nat), Nat)
  BY NatLessThanWellFounded
<1>2. PICK m \in S : \A x \in S : <<x, m>> \notin OpToRel(<, Nat)
  BY <1>1, WFMin
<1>3. ASSUME NEW x \in S PROVE m <= x
  <2>1. ~ (x < m)
    BY <1>2 DEF OpToRel
  <2>. QED  BY <2>1
<1>. QED  BY <1>3

(* evict_lru finds a pair that is current, if there is an entry at all.    *)
LEMMA VictimIs ==
  ASSUME LruInv, L!Cached # {}
  PROVE  /\ L!Victim \in 1 .. Len(order) /\ L!Current(order[L!Victim])
         /\ \A j \in 1 .. L!Victim - 1 : ~L!Current(order[j])
<1>1. DOMAIN order = 1 .. Len(order) /\ Len(order) \in Nat
  BY DEF LruInv, Queued
<1>. DEFINE S == {i \in 1 .. Len(order) : L!Current(order[i])}
<1>2. PICK k \in L!Cached : TRUE
  OBVIOUS
<1>3. PICK i \in 1 .. Len(order) : order[i] = <<k, entries[k].sequence>>
  BY CachedIs DEF LruInv, Queued
<1>4. i \in S
  BY <1>2, <1>3 DEF L!Current, L!Cached
<1>5. PICK m \in S : \A x \in S : m <= x
  <2>1. S \in SUBSET Nat
    OBVIOUS
  <2>. QED  BY <1>4, <2>1, Least
<1>6. \A j \in 1 .. m - 1 : ~L!Current(order[j])
  <2>. SUFFICES ASSUME NEW j \in 1 .. m - 1, L!Current(order[j]) PROVE FALSE
    OBVIOUS
  <2>1. m \in 1 .. Len(order)
    OBVIOUS
  <2>2. j \in 1 .. Len(order) /\ ~(m <= j)
    BY <1>1, <2>1
  <2>. QED  BY <1>5, <2>2
<1>7. m \in DOMAIN order /\ L!Current(order[m])
  BY <1>1
<1>8. /\ L!Victim \in DOMAIN order /\ L!Current(order[L!Victim])
      /\ \A j \in 1 .. L!Victim - 1 : ~L!Current(order[j])
  <2>. HIDE DEF S
  <2>. QED  BY <1>6, <1>7 DEF L!Victim
<1>. QED  BY <1>1, <1>8

LEMMA Suffix ==
  ASSUME NEW T, NEW s \in Seq(T), NEW w \in 1 .. Len(s),
         NEW r, r = SubSeq(s, w + 1, Len(s))
  PROVE  /\ r \in Seq(T) /\ Len(r) = Len(s) - w
         /\ \A i \in 1 .. Len(r) : i + w \in 1 .. Len(s) /\ r[i] = s[i + w]
<1>1. Len(s) \in Nat /\ w \in Nat /\ w <= Len(s) /\ \A i \in 1 .. Len(s) : s[i] \in T
  OBVIOUS
<1>2. /\ r \in Seq(T)
      /\ Len(r) = IF w + 1 <= Len(s) THEN Len(s) - (w + 1) + 1 ELSE 0
      /\ \A i \in 1 .. Len(s) - (w + 1) + 1 : r[i] = s[(w + 1) + i - 1]
  BY <1>1, SubSeqProperties
<1>3. Len(r) = Len(s) - w
  BY <1>1, <1>2
<1>4. ASSUME NEW i \in 1 .. Len(r) PROVE i + w \in 1 .. Len(s) /\ r[i] = s[i + w]
  <2>1. /\ i \in 1 .. Len(s) - (w + 1) + 1 /\ (w + 1) + i - 1 = i + w
        /\ i + w \in 1 .. Len(s)
    BY <1>1, <1>3
  <2>. QED  BY <1>2, <2>1
<1>. QED  BY <1>2, <1>3, <1>4

(* Its entry is the least recently used one, and what is left of the queue *)
(* has the pairs of all others.                                            *)
LEMMA Eviction ==
  ASSUME LruInv, L!Cached # {}, NEW w, w = L!Victim, NEW o, o = order[w][1],
         NEW kept, kept = [entries EXCEPT ![o] = None],
         NEW rest, rest = SubSeq(order, w + 1, Len(order))
  PROVE  /\ o \in L!Cached
         /\ \A l \in L!Cached \ {o} : entries[o].sequence < entries[l].sequence
         /\ Queued(kept, rest, next_sequence)
         /\ InCache(kept) = L!Cached \ {o}
         /\ UsedBefore(kept) = Within(L!Before, L!Cached \ {o})
<1>1. /\ entries \in [LruKeys -> LruEntry \cup {None}] /\ order \in Seq(LruKeys \X Nat)
      /\ next_sequence \in Nat /\ Len(order) \in Nat
      /\ \A i \in 1 .. Len(order) : order[i] \in LruKeys \X Nat
  BY DEF LruInv, Queued
<1>2. /\ w \in 1 .. Len(order) /\ L!Current(order[w])
      /\ \A j \in 1 .. w - 1 : ~L!Current(order[j])
  BY VictimIs
<1>3. /\ o \in LruKeys /\ entries[o] # None /\ entries[o].sequence = order[w][2]
      /\ order[w][2] \in Nat
  <2>1. order[w] \in LruKeys \X Nat
    BY <1>1, <1>2
  <2>. QED  BY <1>2, <2>1 DEF L!Current
<1>4. o \in L!Cached
  BY <1>3 DEF L!Cached
<1>5. ASSUME NEW l \in L!Cached \ {o}
      PROVE  \E j \in w + 1 .. Len(order) : order[j] = <<l, entries[l].sequence>>
  <2>1. PICK j \in 1 .. Len(order) : order[j] = <<l, entries[l].sequence>>
    BY CachedIs DEF LruInv, Queued
  <2>2. L!Current(order[j])
    BY <2>1 DEF L!Current, L!Cached
  <2>3. j # w
    BY <2>1
  <2>4. ~(j \in 1 .. w - 1)
    BY <1>2, <2>2
  <2>5. j \in w + 1 .. Len(order)
    BY <1>1, <1>2, <2>3, <2>4
  <2>. QED  BY <2>1, <2>5
<1>6. ASSUME NEW l \in L!Cached \ {o} PROVE entries[o].sequence < entries[l].sequence
  <2>1. PICK j \in w + 1 .. Len(order) : order[j] = <<l, entries[l].sequence>>
    BY <1>5
  <2>2. order[w][2] < order[j][2]
    <3>1. j \in 1 .. Len(order) /\ w < j
      BY <1>1, <1>2
    <3>. QED  BY <1>2, <3>1 DEF LruInv, Queued
  <2>. QED  BY <1>3, <2>1, <2>2
<1>7. /\ kept \in [LruKeys -> LruEntry \cup {None}] /\ kept[o] = None
      /\ \A l \in LruKeys \ {o} : kept[l] = entries[l]
  BY <1>1, <1>3
<1>8. InCache(kept) = L!Cached \ {o}
  BY <1>3, <1>7 DEF InCache, L!Cached
<1>9. /\ rest \in Seq(LruKeys \X Nat) /\ Len(rest) = Len(order) - w
      /\ \A i \in 1 .. Len(rest) : i + w \in 1 .. Len(order) /\ rest[i] = order[i + w]
  BY <1>1, <1>2, Suffix
<1>10. Queued(kept, rest, next_sequence)
  <2>1. ASSUME NEW i \in 1 .. Len(rest), NEW j \in 1 .. Len(rest), i < j
        PROVE  rest[i][2] < rest[j][2]
    <3>1. i + w \in 1 .. Len(order) /\ j + w \in 1 .. Len(order) /\ i + w < j + w
      BY <1>1, <1>2, <1>9, <2>1
    <3>2. order[i + w][2] < order[j + w][2]
      BY <3>1 DEF LruInv, Queued
    <3>. QED  BY <1>9, <3>2
  <2>2. ASSUME NEW i \in 1 .. Len(rest) PROVE rest[i][2] < next_sequence
    <3>1. order[i + w][2] < next_sequence
      BY <1>9 DEF LruInv, Queued
    <3>. QED  BY <1>9, <3>1
  <2>3. ASSUME NEW l \in InCache(kept)
        PROVE  \E i \in 1 .. Len(rest) : rest[i] = <<l, kept[l].sequence>>
    <3>1. PICK j \in w + 1 .. Len(order) : order[j] = <<l, entries[l].sequence>>
      BY <1>5, <1>8
    <3>2. j - w \in 1 .. Len(rest) /\ (j - w) + w = j
      BY <1>1, <1>2, <1>9
    <3>3. rest[j - w] = order[j]
      BY <1>9, <3>2
    <3>4. kept[l] = entries[l]
      BY <1>7, <1>8 DEF L!Cached
    <3>. QED  BY <3>1, <3>2, <3>3, <3>4
  <2>. QED  BY <1>1, <1>7, <1>9, <2>1, <2>2, <2>3 DEF Queued
<1>11. UsedBefore(kept) = Within(L!Before, L!Cached \ {o})
  <2>1. \A l \in InCache(kept) : kept[l] = entries[l] /\ l # o
    BY <1>7, <1>8 DEF L!Cached
  <2>2. ASSUME NEW e
        PROVE  e \in UsedBefore(kept) <=> e \in L!Before /\ e[1] # o /\ e[2] # o
    <3>1. ASSUME e \in UsedBefore(kept) \/ e \in L!Before
          PROVE  e = <<e[1], e[2]>> /\ e[1] \in L!Cached /\ e[2] \in L!Cached
      <4>1. e \in UsedBefore(kept) => e \in L!Cached \X L!Cached
        BY <1>8 DEF UsedBefore
      <4>2. e \in L!Before => e \in L!Cached \X L!Cached
        BY DEF L!Before
      <4>. QED  BY <3>1, <4>1, <4>2, PairIs
    <3>2. CASE e = <<e[1], e[2]>> /\ e[1] \in L!Cached /\ e[2] \in L!Cached
      <4>1. e \in L!Before <=> entries[e[1]].sequence < entries[e[2]].sequence
        BY <3>2 DEF L!Before
      <4>2. e \in UsedBefore(kept) <=>
              e[1] # o /\ e[2] # o /\ kept[e[1]].sequence < kept[e[2]].sequence
        BY <1>8, <3>2 DEF UsedBefore
      <4>3. e[1] # o /\ e[2] # o => kept[e[1]] = entries[e[1]] /\ kept[e[2]] = entries[e[2]]
        BY <1>8, <2>1, <3>2
      <4>. QED  BY <4>1, <4>2, <4>3
    <3>. QED  BY <3>1, <3>2
  <2>3. ASSUME NEW e \in L!Before PROVE e[1] \in L!Cached /\ e[2] \in L!Cached
    <3>1. e \in L!Cached \X L!Cached
      BY DEF L!Before
    <3>. QED  BY <3>1, PairIs
  <2>. QED  BY <2>2, <2>3 DEF Within
<1>. QED  BY <1>4, <1>6, <1>8, <1>10, <1>11

(* The entries that the two caches have are the same.                      *)
LEMMA SameCached ==
  ASSUME Queued(entries, order, next_sequence)
  PROVE  L!Lru!Cached = L!Cached /\ \A k \in LruKeys : L!Value[k] \in LruValues \cup {None}
<1>1. ASSUME NEW k \in LruKeys
      PROVE  /\ L!Value[k] \in LruValues \cup {None}
             /\ L!Value[k] # None <=> entries[k] # None
  <2>1. L!Value[k] = IF entries[k] = None THEN None ELSE entries[k].value
    BY DEF L!Value
  <2>2. entries[k] # None => entries[k].value \in LruValues
    BY DEF Queued, LruEntry
  <2>. QED  BY <2>1, <2>2, LruAssumption
<1>. QED  BY <1>1 DEF L!Cached, L!Lru!Cached

(* A use in the implementation is one in the promise, of what was kept.    *)
LEMMA UseStep ==
  ASSUME NEW es, NEW q, NEW n, Queued(es, q, n), NEW k \in LruKeys, NEW v \in LruValues,
         NEW fs, fs = Stamped(es, k, v, n),
         entries' = fs, order' = Append(q, <<k, n>>), next_sequence' = n + 1,
         IsFiniteSet(InCache(es) \cup {k}), Cardinality(InCache(es) \cup {k}) <= LruCapacity,
         NEW ks, ks = InCache(es) \ {k}, UsedBefore(es) = Within(L!Before, InCache(es))
  PROVE  LruInv' /\ L!Lru!Use(k, ks)
<1>0. LastUsed(es, q, n, k, fs)
  BY Used
<1>1. /\ Queued(fs, Append(q, <<k, n>>), n + 1)
      /\ InCache(fs) = InCache(es) \cup {k}
      /\ UsedBefore(fs) = Within(UsedBefore(es), ks) \cup (ks \X {k})
  BY <1>0 DEF LastUsed
<1>2. L!Cached' = InCache(es) \cup {k} /\ L!Before' = UsedBefore(fs)
  BY <1>1 DEF InCache, UsedBefore, L!Cached, L!Before
<1>3. LruInv'
  BY <1>1, <1>2 DEF LruInv
<1>4. Within(UsedBefore(es), ks) = {e \in L!Before : e[1] \in ks /\ e[2] \in ks}
  BY DEF Within
<1>. QED  BY <1>1, <1>2, <1>3, <1>4 DEF L!Lru!Use

LEMMA OwnOrder == UsedBefore(entries) = Within(L!Before, InCache(entries))
<1>1. ASSUME NEW e \in L!Before PROVE e[1] \in L!Cached /\ e[2] \in L!Cached
  <2>1. e \in L!Cached \X L!Cached
    BY DEF L!Before
  <2>. QED  BY <2>1, PairIs
<1>. QED  BY <1>1, CachedIs DEF Within

LEMMA Restamp ==
  ASSUME NEW K, NEW k \in K, NEW f, DOMAIN f = K, NEW e, NEW n, NEW g,
         g = [[f EXCEPT ![k] = e] EXCEPT ![k].sequence = n]
  PROVE  g = [f EXCEPT ![k] = [e EXCEPT !.sequence = n]]
OBVIOUS

LEMMA LruStep ==
  ASSUME LruInv, [L!Next]_(L!vars)
  PROVE  LruInv' /\ [L!Lru!Next]_(L!Lru!vars)
<1>. DEFINE n == next_sequence
<1>t. /\ Queued(entries, order, n) /\ entries \in [LruKeys -> LruEntry \cup {None}] /\ n \in Nat
      /\ L!Cached \subseteq LruKeys /\ LruCapacity \in Nat /\ DOMAIN entries = LruKeys
      /\ IsFiniteSet(L!Cached) /\ Cardinality(L!Cached) <= LruCapacity
      /\ Cardinality(L!Cached) \in Nat
  BY LruAssumption, FS_CardinalityType DEF LruInv, Queued, L!Cached
<1>c. L!Lru!Cached = L!Cached
  BY <1>t, SameCached
<1>n. \A k \in LruKeys : entries[k] # None => entries[k] \in LruEntry
  BY <1>t
<1>1. ASSUME NEW k \in LruKeys, L!get_cloned(k) PROVE LruInv' /\ L!Lru!Get(k)
  <2>0. PICK v : v = entries[k].value
    OBVIOUS
  <2>1. /\ k \in L!Cached /\ L!Cached \cup {k} = L!Cached /\ v \in LruValues
    BY <1>1, <1>n, <2>0 DEF L!get_cloned, L!Cached, LruEntry
  <2>2. entries' = [entries EXCEPT ![k] = [value |-> v, sequence |-> n]]
    <3>1. entries' = [entries EXCEPT ![k].sequence = n]
      BY <1>1 DEF L!get_cloned, L!touch
    <3>2. [entries[k] EXCEPT !.sequence = n] = [value |-> v, sequence |-> n]
      BY <1>1, <1>n, <2>0 DEF L!get_cloned, LruEntry
    <3>. QED  BY <3>1, <3>2
  <2>3. LruInv' /\ L!Lru!Use(k, L!Cached \ {k})
    <3>1. order' = Append(order, <<k, n>>) /\ next_sequence' = n + 1
      BY <1>1 DEF L!get_cloned, L!touch, L!advance_sequence
    <3>2. PICK fs : fs = Stamped(entries, k, v, n)
      OBVIOUS
    <3>3. entries' = fs
      BY <2>2, <3>2 DEF Stamped
    <3>4. PICK ks : ks = L!Cached \ {k}
      OBVIOUS
    <3>5. /\ IsFiniteSet(InCache(entries) \cup {k})
          /\ Cardinality(InCache(entries) \cup {k}) <= LruCapacity
          /\ ks = InCache(entries) \ {k}
      BY <1>t, <2>1, <3>4, CachedIs
    <3>. QED  BY <1>t, <2>1, <3>1, <3>2, <3>3, <3>4, <3>5, OwnOrder, UseStep
  <2>4. UNCHANGED L!Value
    BY <1>t, <1>n, <2>0, <2>1, <2>2, LruAssumption DEF L!Value, L!Cached, LruEntry
  <2>. QED  BY <1>c, <2>1, <2>3, <2>4 DEF L!Lru!Get
<1>2. ASSUME NEW k \in LruKeys, NEW v \in LruValues, L!Replace(k, v)
      PROVE  LruInv' /\ L!Lru!Insert(k, v)
  <2>1. k \in L!Cached /\ L!Cached \cup {k} = L!Cached /\ LruCapacity > 0
    BY <1>2 DEF L!Replace, L!Cached
  <2>2. entries' = [entries EXCEPT ![k] = [value |-> v, sequence |-> n]]
    <3>1. entries' = [[entries EXCEPT ![k].value = v] EXCEPT ![k].sequence = n]
      BY <1>2 DEF L!Replace, L!touch
    <3>2. [entries[k] EXCEPT !.value = v] = [value |-> v, sequence |-> entries[k].sequence]
      BY <1>2, <1>n DEF L!Replace, LruEntry
    <3>3. [entries EXCEPT ![k].value = v]
            = [entries EXCEPT ![k] = [value |-> v, sequence |-> entries[k].sequence]]
      BY <3>2
    <3>. DEFINE e == [value |-> v, sequence |-> entries[k].sequence]
    <3>4. [e EXCEPT !.sequence = n] = [value |-> v, sequence |-> n]
      OBVIOUS
    <3>5. entries' = [[entries EXCEPT ![k] = e] EXCEPT ![k].sequence = n]
      BY <3>1, <3>3
    <3>. HIDE DEF e
    <3>. QED  BY <1>t, <3>4, <3>5, Restamp
  <2>3. LruInv' /\ L!Lru!Use(k, L!Cached \ {k})
    <3>1. order' = Append(order, <<k, n>>) /\ next_sequence' = n + 1
      BY <1>2 DEF L!Replace, L!touch, L!advance_sequence
    <3>2. PICK fs : fs = Stamped(entries, k, v, n)
      OBVIOUS
    <3>3. entries' = fs
      BY <2>2, <3>2 DEF Stamped
    <3>4. PICK ks : ks = L!Cached \ {k}
      OBVIOUS
    <3>5. /\ IsFiniteSet(InCache(entries) \cup {k})
          /\ Cardinality(InCache(entries) \cup {k}) <= LruCapacity
          /\ ks = InCache(entries) \ {k}
      BY <1>t, <2>1, <3>4, CachedIs
    <3>. QED  BY <1>t, <2>1, <3>1, <3>2, <3>3, <3>4, <3>5, OwnOrder, UseStep
  <2>4. L!Value' = [l \in LruKeys |-> IF l = k THEN v ELSE IF l \in {} THEN None ELSE L!Value[l]]
    BY <1>t, <2>2, LruAssumption DEF L!Value
  <2>5. L!Cached \ ({} \cup {k}) = L!Cached \ {k}
    OBVIOUS
  <2>. QED  BY <1>c, <2>1, <2>3, <2>4, <2>5 DEF L!Lru!Insert
<1>3. ASSUME NEW k \in LruKeys, NEW v \in LruValues, L!InsertNew(k, v),
             Cardinality(L!Cached) < LruCapacity
      PROVE  LruInv' /\ L!Lru!Insert(k, v)
  <2>1. k \notin L!Cached /\ LruCapacity > 0
    BY <1>3 DEF L!InsertNew, L!Cached
  <2>2. entries' = [entries EXCEPT ![k] = [value |-> v, sequence |-> n]]
    <3>. DEFINE e == [value |-> v, sequence |-> n]
    <3>1. entries' = [[entries EXCEPT ![k] = e] EXCEPT ![k].sequence = n]
      BY <1>3, SameCardinality DEF L!InsertNew, L!touch, L!Entry
    <3>2. [e EXCEPT !.sequence = n] = e
      OBVIOUS
    <3>. HIDE DEF e
    <3>3. entries' = [entries EXCEPT ![k] = e]
      BY <1>t, <3>1, <3>2, Restamp
    <3>. QED  BY <3>3 DEF e
  <2>3. IsFiniteSet(L!Cached \cup {k}) /\ Cardinality(L!Cached \cup {k}) <= LruCapacity
    <3>1. Cardinality(L!Cached \cup {k}) = Cardinality(L!Cached) + 1
      BY <1>t, <2>1, FS_AddElement
    <3>. QED  BY <1>t, <1>3, <3>1, FS_AddElement
  <2>4. LruInv' /\ L!Lru!Use(k, L!Cached \ {k})
    <3>1. order' = Append(order, <<k, n>>) /\ next_sequence' = n + 1
      BY <1>3, SameCardinality DEF L!InsertNew, L!touch, L!advance_sequence
    <3>2. PICK fs : fs = Stamped(entries, k, v, n)
      OBVIOUS
    <3>3. entries' = fs
      BY <2>2, <3>2 DEF Stamped
    <3>4. PICK ks : ks = L!Cached \ {k}
      OBVIOUS
    <3>5. /\ IsFiniteSet(InCache(entries) \cup {k})
          /\ Cardinality(InCache(entries) \cup {k}) <= LruCapacity
          /\ ks = InCache(entries) \ {k}
      BY <2>3, <3>4, CachedIs
    <3>. QED  BY <1>t, <3>1, <3>2, <3>3, <3>4, <3>5, OwnOrder, UseStep
  <2>5. L!Value' = [l \in LruKeys |-> IF l = k THEN v ELSE IF l \in {} THEN None ELSE L!Value[l]]
    BY <1>t, <2>2, LruAssumption DEF L!Value
  <2>6. L!Cached \ ({} \cup {k}) = L!Cached \ {k}
    OBVIOUS
  <2>. QED  BY <1>c, <1>3, <2>1, <2>4, <2>5, <2>6, SameCardinality DEF L!Lru!Insert
<1>4. ASSUME NEW k \in LruKeys, NEW v \in LruValues, L!InsertNew(k, v),
             ~(Cardinality(L!Cached) < LruCapacity)
      PROVE  LruInv' /\ L!Lru!Insert(k, v)
  <2>w. PICK w : w = L!Victim
    OBVIOUS
  <2>o. PICK o : o = order[w][1]
    OBVIOUS
  <2>k. PICK kept : kept = [entries EXCEPT ![o] = None]
    OBVIOUS
  <2>r. PICK rest : rest = SubSeq(order, w + 1, Len(order))
    OBVIOUS
  <2>1. k \notin L!Cached /\ LruCapacity > 0
    BY <1>4 DEF L!InsertNew, L!Cached
  <2>2. L!Cached # {} /\ Cardinality(L!Cached) = LruCapacity
    BY <1>t, <1>4, <2>1, FS_EmptySet
  <2>3. /\ o \in L!Cached
        /\ \A l \in L!Cached \ {o} : entries[o].sequence < entries[l].sequence
        /\ Queued(kept, rest, n) /\ InCache(kept) = L!Cached \ {o}
        /\ UsedBefore(kept) = Within(L!Before, L!Cached \ {o})
    BY <2>2, <2>w, <2>o, <2>k, <2>r, Eviction
  <2>4. /\ entries' = [[kept EXCEPT ![k] = [value |-> v, sequence |-> n]] EXCEPT ![k].sequence = n]
        /\ order' = Append(rest, <<k, n>>) /\ next_sequence' = n + 1
    BY <1>4, <2>w, <2>o, <2>k, <2>r, SameCardinality
       DEF L!InsertNew, L!touch, L!Entry, L!advance_sequence
  <2>5. entries' = [kept EXCEPT ![k] = [value |-> v, sequence |-> n]]
    <3>. DEFINE e == [value |-> v, sequence |-> n]
    <3>1. DOMAIN kept = LruKeys /\ [e EXCEPT !.sequence = n] = e
      BY <2>3 DEF Queued
    <3>2. entries' = [[kept EXCEPT ![k] = e] EXCEPT ![k].sequence = n]
      BY <2>4
    <3>. HIDE DEF e
    <3>3. entries' = [kept EXCEPT ![k] = e]
      BY <3>1, <3>2, Restamp
    <3>. QED  BY <3>3 DEF e
  <2>6. /\ IsFiniteSet(InCache(kept) \cup {k})
        /\ Cardinality(InCache(kept) \cup {k}) <= LruCapacity
    <3>1. IsFiniteSet(L!Cached \ {o}) /\ Cardinality(L!Cached \ {o}) = LruCapacity - 1
      BY <1>t, <2>2, <2>3, FS_RemoveElement
    <3>2. /\ IsFiniteSet((L!Cached \ {o}) \cup {k})
          /\ Cardinality((L!Cached \ {o}) \cup {k}) = Cardinality(L!Cached \ {o}) + 1
      BY <2>1, <3>1, FS_AddElement
    <3>3. Cardinality((L!Cached \ {o}) \cup {k}) <= LruCapacity
      BY <1>t, <3>1, <3>2
    <3>. QED  BY <2>3, <3>2, <3>3
  <2>7. InCache(kept) \ {k} = L!Cached \ ({o} \cup {k})
    BY <2>3
  <2>8. LruInv' /\ L!Lru!Use(k, L!Cached \ ({o} \cup {k}))
    <3>1. PICK fs : fs = Stamped(kept, k, v, n)
      OBVIOUS
    <3>2. entries' = fs
      BY <2>5, <3>1 DEF Stamped
    <3>3. PICK ks : ks = L!Cached \ ({o} \cup {k})
      OBVIOUS
    <3>4. ks = InCache(kept) \ {k} /\ UsedBefore(kept) = Within(L!Before, InCache(kept))
      BY <2>3, <2>7, <3>3
    <3>. QED  BY <2>3, <2>4, <2>6, <3>1, <3>2, <3>3, <3>4, UseStep
  <2>9. L!Value' = [l \in LruKeys |-> IF l = k THEN v ELSE IF l \in {o} THEN None ELSE L!Value[l]]
    BY <1>t, <2>k, <2>1, <2>3, <2>5, LruAssumption DEF L!Value, L!Cached
  <2>10. o \in L!Lru!Oldest
    <3>1. ASSUME NEW l \in L!Cached \ {o} PROVE <<o, l>> \in L!Before
      BY <2>3 DEF L!Before
    <3>. QED  BY <1>c, <2>3, <3>1 DEF L!Lru!Oldest
  <2>. QED
    BY <1>c, <1>4, <2>1, <2>8, <2>9, <2>10, SameCardinality DEF L!Lru!Insert
<1>5. CASE UNCHANGED L!vars
  BY <1>5 DEF L!vars, LruInv, Queued, L!Cached, L!Lru!vars, L!Value, L!Before, InCache
<1>. QED
  BY <1>1, <1>2, <1>3, <1>4, <1>5 DEF L!Next, L!Lru!Next

LEMMA LruStart == L!Init => LruInv /\ L!Lru!Init
<1>. SUFFICES ASSUME L!Init PROVE LruInv /\ L!Lru!Init
  OBVIOUS
<1>1. /\ entries \in [LruKeys -> LruEntry \cup {None}] /\ \A k \in LruKeys : entries[k] = None
      /\ order = <<>> /\ next_sequence = 0
  BY DEF L!Init
<1>2. L!Cached = {} /\ InCache(entries) = {}
  BY <1>1 DEF L!Cached, InCache
<1>3. Queued(entries, order, next_sequence)
  <2>1. order \in Seq(LruKeys \X Nat) /\ Len(order) = 0 /\ next_sequence \in Nat
    BY <1>1
  <2>. QED  BY <1>1, <1>2, <2>1 DEF Queued
<1>4. IsFiniteSet(L!Cached) /\ Cardinality(L!Cached) <= LruCapacity
  BY <1>2, FS_EmptySet, LruAssumption
<1>5. L!Value = [k \in LruKeys |-> None] /\ L!Before = {}
  BY <1>1, <1>2 DEF L!Value, L!Before
<1>. QED  BY <1>3, <1>4, <1>5 DEF LruInv, L!Lru!Init

(* What the other parts do leaves the bounded cache alone.                 *)
LEMMA LruFrame == [MCNext]_mcVars => [L!Next]_(L!vars)
BY DEF MCNext, mcVars, Finished, lruVars, L!vars

LEMMA LruInvariant == MCSpec => []LruInv
<1>1. MCInit => LruInv
  BY LruStart DEF MCInit
<1>2. LruInv /\ [MCNext]_mcVars => LruInv'
  BY LruStep, LruFrame
<1>. QED  BY <1>1, <1>2, PTL DEF MCSpec

(* Whatever its keys, its values and its capacity, the bounded cache with  *)
(* its lazily cleaned queue never has more entries than its capacity, and  *)
(* the entry it drops is the one that was used first (get_cloned, insert   *)
(* and evict_lru in hot_cache.rs).                                         *)
THEOREM LruExact == MCSpec => ImplementsLru
<1>1. MCInit => L!Lru!Init
  BY LruStart DEF MCInit
<1>2. LruInv /\ [MCNext]_mcVars => [L!Lru!Next]_(L!Lru!vars)
  BY LruStep, LruFrame
<1>. QED
  BY <1>1, <1>2, LruInvariant, PTL DEF MCSpec, ImplementsLru, L!ImplementsLru, L!Lru!Spec
=============================================================================
