--------------------------- MODULE BlobCacheProofs ---------------------------
(***************************************************************************)
(* For any sets of blobs, handlers and jobs: one download per blob at a    *)
(* time, with any limit; and without a limit, that what is called ready is *)
(* on disk and is served, through failures and restarts.                   *)
(*                                                                         *)
(* Single flight rests on three facts: the guard of a blob belongs to the  *)
(* handlers inside the section (GuardHeld) and to one of them (OneGuard);  *)
(* a handler on its way to register a job has seen the registry empty, and *)
(* nobody else can fill it (NoneActive); every live job is the one the     *)
(* registry holds for its blob (LiveIsActive), since only its own          *)
(* Deregister removes it.                                                  *)
(*                                                                         *)
(* The last part is about the temporary file of one blob over all its      *)
(* downloads (DownloadInv): what a ready blob holds, and what leaves a     *)
(* temporary file too long to resume.                                      *)
(***************************************************************************)
EXTENDS MCBlobs, FiniteSetTheorems, SequenceTheorems, WellFoundedInduction, TLAPS

(* TypeOK in its two parts. *)
Shapes ==
  /\ row \in [Blobs -> {"missing", "pending", "ready"}]
  /\ file \subseteq Blobs
  /\ hot \subseteq Blobs
  /\ active \in [Blobs -> Jobs \cup {None}]
  /\ locks \in [Blobs -> SUBSET Clients]
  /\ pc \in [Clients -> ClientPC]
  /\ want \in [Clients -> Blobs \cup {None}]
  /\ joined \in [Clients -> Jobs \cup {None}]
  /\ jpc \in [Jobs -> JobPC]
  /\ jblob \in [Jobs -> Blobs \cup {None}]
  /\ evicted \in [Jobs -> SUBSET Blobs]
  /\ todo \in [Jobs -> SUBSET Blobs]

Refs ==
  /\ \A c \in Clients : /\ pc[c] # "idle" => want[c] \in Blobs
                        /\ pc[c] \in {"join", "joinGuarded"} => joined[c] \in Jobs
  /\ \A j \in Jobs : jpc[j] \in LiveJob => jblob[j] \in Blobs

(* Every step keeps every variable in its type (server.rs:1641-1763,       *)
(* 2239-2464).                                                             *)
LEMMA ShapesStep == Shapes /\ Refs /\ [Next]_vars => Shapes'
<1> SUFFICES ASSUME Shapes, Refs, [Next]_vars PROVE Shapes'
  OBVIOUS
<1> USE DEF Shapes, Refs, ClientPC, Answered, Guarded, Unguarded, JobPC, LiveJob,
            Goto, JobGoto, cacheVars, clientVars, jobVars
<1>1. ASSUME NEW c \in Clients, NEW b \in Blobs, Request(c, b) PROVE Shapes'
  BY <1>1 DEF Request
<1>2. ASSUME NEW c \in Clients, LookMemory(c) PROVE Shapes'
  BY <1>2 DEF LookMemory
<1>3. ASSUME NEW c \in Clients, LookStatus(c) PROVE Shapes'
  BY <1>3 DEF LookStatus
<1>4. ASSUME NEW c \in Clients, TouchHot(c) PROVE Shapes'
  BY <1>4 DEF TouchHot
<1>5. ASSUME NEW c \in Clients, Touch(c) PROVE Shapes'
  BY <1>5 DEF Touch, FillHot
<1>6. ASSUME NEW c \in Clients, TryRange(c) PROVE Shapes'
  BY <1>6 DEF TryRange
<1>7. ASSUME NEW c \in Clients, Peek(c) PROVE Shapes'
  BY <1>7 DEF Peek, JoinOr
<1>8. ASSUME NEW c \in Clients, Lock(c) PROVE Shapes'
  BY <1>8 DEF Lock, Mutex!Acquire
<1>9. ASSUME NEW c \in Clients, Recheck(c) PROVE Shapes'
  BY <1>9 DEF Recheck
<1>10. ASSUME NEW c \in Clients, TouchGuarded(c) PROVE Shapes'
  BY <1>10 DEF TouchGuarded, FillHot, DropGuard
<1>11. ASSUME NEW c \in Clients, PeekGuarded(c) PROVE Shapes'
  BY <1>11 DEF PeekGuarded, JoinOr
<1>12. ASSUME NEW c \in Clients, MarkPending(c) PROVE Shapes'
  BY <1>12 DEF MarkPending, InsertPending
<1>13. ASSUME NEW c \in Clients, NEW j \in Jobs, Register(c, j) PROVE Shapes'
  BY <1>13 DEF Register, Unused, DropGuard
<1>14. ASSUME NEW c \in Clients, JoinEnd(c) PROVE Shapes'
  BY <1>14 DEF JoinEnd, Started, DropGuard
<1>15. ASSUME NEW c \in Clients, Serve(c) PROVE Shapes'
  BY <1>15 DEF Serve
<1>16. ASSUME NEW c \in Clients, Leave(c) PROVE Shapes'
  BY <1>16 DEF Leave, AwaitPC, DropGuard, InsertPending
<1>17. ASSUME NEW j \in Jobs, Open(j) PROVE Shapes'
  BY <1>17 DEF Open
<1>18. ASSUME NEW j \in Jobs, Commit(j) PROVE Shapes'
  BY <1>18 DEF Commit
<1>19. ASSUME NEW j \in Jobs, MarkReady(j) PROVE Shapes'
  BY <1>19 DEF MarkReady, UpdateReady
<1>20. ASSUME NEW j \in Jobs, Prune(j) PROVE Shapes'
  BY <1>20 DEF Prune, Victims, ReadyBlobs
<1>21. ASSUME NEW j \in Jobs, NEW b \in Blobs, Unlink(j, b) PROVE Shapes'
  BY <1>21 DEF Unlink
<1>22. ASSUME NEW j \in Jobs, Invalidate(j) PROVE Shapes'
  BY <1>22 DEF Invalidate, Stale
<1>23. ASSUME NEW j \in Jobs, InsertHot(j) PROVE Shapes'
  BY <1>23 DEF InsertHot
<1>24. ASSUME NEW j \in Jobs, Deregister(j) PROVE Shapes'
  BY <1>24 DEF Deregister
<1>25. ASSUME NEW j \in Jobs, Fail(j) PROVE Shapes'
  BY <1>25 DEF Fail
<1>26. ASSUME NEW b \in Blobs, EvictHot(b) PROVE Shapes'
  BY <1>26 DEF EvictHot
<1>27. ASSUME Crash PROVE Shapes'
  BY <1>27 DEF Crash, InitMemory
<1>28. CASE UNCHANGED vars
  BY <1>28 DEF vars
<1> QED
  BY <1>1, <1>2, <1>3, <1>4, <1>5, <1>6, <1>7, <1>8, <1>9, <1>10, <1>11,
      <1>12, <1>13, <1>14, <1>15, <1>16, <1>17, <1>18, <1>19, <1>20, <1>21,
      <1>22, <1>23, <1>24, <1>25, <1>26, <1>27, <1>28
  DEF Next, Handle, Work

LEMMA RefsStep == Shapes /\ Refs /\ [Next]_vars => Refs'
<1> SUFFICES ASSUME Shapes, Refs, [Next]_vars PROVE Refs'
  OBVIOUS
<1> USE DEF Shapes, Refs, ClientPC, Answered, Guarded, Unguarded, JobPC, LiveJob,
            Goto, JobGoto, cacheVars, clientVars, jobVars
<1>1. ASSUME NEW c \in Clients, NEW b \in Blobs, Request(c, b) PROVE Refs'
  BY <1>1 DEF Request
<1>2. ASSUME NEW c \in Clients, LookMemory(c) PROVE Refs'
  BY <1>2 DEF LookMemory
<1>3. ASSUME NEW c \in Clients, LookStatus(c) PROVE Refs'
  BY <1>3 DEF LookStatus
<1>4. ASSUME NEW c \in Clients, TouchHot(c) PROVE Refs'
  BY <1>4 DEF TouchHot
<1>5. ASSUME NEW c \in Clients, Touch(c) PROVE Refs'
  BY <1>5 DEF Touch, FillHot
<1>6. ASSUME NEW c \in Clients, TryRange(c) PROVE Refs'
  BY <1>6 DEF TryRange
<1>7. ASSUME NEW c \in Clients, Peek(c) PROVE Refs'
  BY <1>7 DEF Peek, JoinOr
<1>8. ASSUME NEW c \in Clients, Lock(c) PROVE Refs'
  BY <1>8 DEF Lock, Mutex!Acquire
<1>9. ASSUME NEW c \in Clients, Recheck(c) PROVE Refs'
  BY <1>9 DEF Recheck
<1>10. ASSUME NEW c \in Clients, TouchGuarded(c) PROVE Refs'
  BY <1>10 DEF TouchGuarded, FillHot, DropGuard
<1>11. ASSUME NEW c \in Clients, PeekGuarded(c) PROVE Refs'
  BY <1>11 DEF PeekGuarded, JoinOr
<1>12. ASSUME NEW c \in Clients, MarkPending(c) PROVE Refs'
  BY <1>12 DEF MarkPending, InsertPending
<1>13. ASSUME NEW c \in Clients, NEW j \in Jobs, Register(c, j) PROVE Refs'
  BY <1>13 DEF Register, Unused, DropGuard
<1>14. ASSUME NEW c \in Clients, JoinEnd(c) PROVE Refs'
  BY <1>14 DEF JoinEnd, Started, DropGuard
<1>15. ASSUME NEW c \in Clients, Serve(c) PROVE Refs'
  BY <1>15 DEF Serve
<1>16. ASSUME NEW c \in Clients, Leave(c) PROVE Refs'
  BY <1>16 DEF Leave, AwaitPC, DropGuard, InsertPending
<1>17. ASSUME NEW j \in Jobs, Open(j) PROVE Refs'
  BY <1>17 DEF Open
<1>18. ASSUME NEW j \in Jobs, Commit(j) PROVE Refs'
  BY <1>18 DEF Commit
<1>19. ASSUME NEW j \in Jobs, MarkReady(j) PROVE Refs'
  BY <1>19 DEF MarkReady, UpdateReady
<1>20. ASSUME NEW j \in Jobs, Prune(j) PROVE Refs'
  BY <1>20 DEF Prune, Victims, ReadyBlobs
<1>21. ASSUME NEW j \in Jobs, NEW b \in Blobs, Unlink(j, b) PROVE Refs'
  BY <1>21 DEF Unlink
<1>22. ASSUME NEW j \in Jobs, Invalidate(j) PROVE Refs'
  BY <1>22 DEF Invalidate, Stale
<1>23. ASSUME NEW j \in Jobs, InsertHot(j) PROVE Refs'
  BY <1>23 DEF InsertHot
<1>24. ASSUME NEW j \in Jobs, Deregister(j) PROVE Refs'
  BY <1>24 DEF Deregister
<1>25. ASSUME NEW j \in Jobs, Fail(j) PROVE Refs'
  BY <1>25 DEF Fail
<1>26. ASSUME NEW b \in Blobs, EvictHot(b) PROVE Refs'
  BY <1>26 DEF EvictHot
<1>27. ASSUME Crash PROVE Refs'
  BY <1>27 DEF Crash, InitMemory
<1>28. CASE UNCHANGED vars
  BY <1>28 DEF vars
<1> QED
  BY <1>1, <1>2, <1>3, <1>4, <1>5, <1>6, <1>7, <1>8, <1>9, <1>10, <1>11,
      <1>12, <1>13, <1>14, <1>15, <1>16, <1>17, <1>18, <1>19, <1>20, <1>21,
      <1>22, <1>23, <1>24, <1>25, <1>26, <1>27, <1>28
  DEF Next, Handle, Work

LEMMA TypeStep == TypeOK /\ [Next]_vars => TypeOK'
  BY ShapesStep, RefsStep DEF TypeOK, Shapes, Refs

(* Type correctness (server.rs:1641-1763, 2239-2464).                      *)
THEOREM TypeCorrect == Spec => []TypeOK
<1>1. Init => TypeOK
  BY DEF Init, InitMemory, TypeOK, ClientPC, Answered, JobPC, LiveJob
<1>2. TypeOK /\ [Next]_vars => TypeOK'
  BY TypeStep
<1> QED
  BY <1>1, <1>2, PTL DEF Spec

-----------------------------------------------------------------------------
(* The guard of b belongs to the handlers inside the section of b. *)
GuardHeld ==
  \A c \in Clients, b \in Blobs :
    c \in locks[b] <=> pc[c] \in Guarded /\ want[c] = b

OneGuard == \A b \in Blobs : \A c, d \in locks[b] : c = d

(* A handler that is to register a job has the registry to itself. *)
NoneActive ==
  \A c \in Clients : pc[c] \in {"pending", "register"} => active[want[c]] = None

(* The registry holds every live job under its blob. *)
LiveIsActive == \A j \in Jobs : jpc[j] \in LiveJob => active[jblob[j]] = j

FlightInv == TypeOK /\ GuardHeld /\ OneGuard /\ NoneActive /\ LiveIsActive

(* Guards are taken by Lock alone, and dropped by every way out. *)
LEMMA GuardStep == FlightInv /\ [Next]_vars => GuardHeld' /\ OneGuard'
<1> SUFFICES ASSUME Shapes, Refs, GuardHeld, OneGuard, [Next]_vars
             PROVE  GuardHeld' /\ OneGuard'
  BY DEF FlightInv, TypeOK, Shapes, Refs
<1> USE DEF Shapes, Refs, Answered, Guarded, GuardHeld, OneGuard,
            Goto, cacheVars, clientVars, jobVars
<1>1. ASSUME NEW c \in Clients, NEW b \in Blobs, Request(c, b)
      PROVE  GuardHeld' /\ OneGuard'
  BY <1>1 DEF Request
<1>2. ASSUME NEW c \in Clients, LookMemory(c) PROVE GuardHeld' /\ OneGuard'
  BY <1>2 DEF LookMemory
<1>3. ASSUME NEW c \in Clients, LookStatus(c) PROVE GuardHeld' /\ OneGuard'
  BY <1>3 DEF LookStatus
<1>4. ASSUME NEW c \in Clients, TouchHot(c) PROVE GuardHeld' /\ OneGuard'
  BY <1>4 DEF TouchHot
<1>5. ASSUME NEW c \in Clients, Touch(c) PROVE GuardHeld' /\ OneGuard'
  BY <1>5 DEF Touch, FillHot
<1>6. ASSUME NEW c \in Clients, TryRange(c) PROVE GuardHeld' /\ OneGuard'
  BY <1>6 DEF TryRange
<1>7. ASSUME NEW c \in Clients, Peek(c) PROVE GuardHeld' /\ OneGuard'
  BY <1>7 DEF Peek, JoinOr
<1>8. ASSUME NEW c \in Clients, Lock(c) PROVE GuardHeld' /\ OneGuard'
  BY <1>8 DEF Lock, Mutex!Acquire
<1>9. ASSUME NEW c \in Clients, Recheck(c) PROVE GuardHeld' /\ OneGuard'
  BY <1>9 DEF Recheck
<1>10. ASSUME NEW c \in Clients, TouchGuarded(c) PROVE GuardHeld' /\ OneGuard'
  BY <1>10 DEF TouchGuarded, FillHot, DropGuard
<1>11. ASSUME NEW c \in Clients, PeekGuarded(c) PROVE GuardHeld' /\ OneGuard'
  BY <1>11 DEF PeekGuarded, JoinOr
<1>12. ASSUME NEW c \in Clients, MarkPending(c) PROVE GuardHeld' /\ OneGuard'
  BY <1>12 DEF MarkPending, InsertPending
<1>13. ASSUME NEW c \in Clients, NEW j \in Jobs, Register(c, j)
      PROVE  GuardHeld' /\ OneGuard'
  BY <1>13 DEF Register, Unused, DropGuard
<1>14. ASSUME NEW c \in Clients, JoinEnd(c) PROVE GuardHeld' /\ OneGuard'
  BY <1>14 DEF JoinEnd, Started, DropGuard
<1>15. ASSUME NEW c \in Clients, Serve(c) PROVE GuardHeld' /\ OneGuard'
  BY <1>15 DEF Serve
<1>16. ASSUME NEW c \in Clients, Leave(c) PROVE GuardHeld' /\ OneGuard'
  BY <1>16 DEF Leave, AwaitPC, DropGuard, InsertPending
<1>17. ASSUME NEW j \in Jobs, Open(j) PROVE GuardHeld' /\ OneGuard'
  BY <1>17 DEF Open
<1>18. ASSUME NEW j \in Jobs, Commit(j) PROVE GuardHeld' /\ OneGuard'
  BY <1>18 DEF Commit
<1>19. ASSUME NEW j \in Jobs, MarkReady(j) PROVE GuardHeld' /\ OneGuard'
  BY <1>19 DEF MarkReady, UpdateReady
<1>20. ASSUME NEW j \in Jobs, Prune(j) PROVE GuardHeld' /\ OneGuard'
  BY <1>20 DEF Prune, Victims, ReadyBlobs
<1>21. ASSUME NEW j \in Jobs, NEW b \in Blobs, Unlink(j, b)
      PROVE  GuardHeld' /\ OneGuard'
  BY <1>21 DEF Unlink
<1>22. ASSUME NEW j \in Jobs, Invalidate(j) PROVE GuardHeld' /\ OneGuard'
  BY <1>22 DEF Invalidate, Stale
<1>23. ASSUME NEW j \in Jobs, InsertHot(j) PROVE GuardHeld' /\ OneGuard'
  BY <1>23 DEF InsertHot
<1>24. ASSUME NEW j \in Jobs, Deregister(j) PROVE GuardHeld' /\ OneGuard'
  BY <1>24 DEF Deregister
<1>25. ASSUME NEW j \in Jobs, Fail(j) PROVE GuardHeld' /\ OneGuard'
  BY <1>25 DEF Fail
<1>26. ASSUME NEW b \in Blobs, EvictHot(b) PROVE GuardHeld' /\ OneGuard'
  BY <1>26 DEF EvictHot
<1>27. ASSUME Crash PROVE GuardHeld' /\ OneGuard'
  BY <1>27 DEF Crash, InitMemory
<1>28. CASE UNCHANGED vars
  BY <1>28 DEF vars
<1> QED
  BY <1>1, <1>2, <1>3, <1>4, <1>5, <1>6, <1>7, <1>8, <1>9, <1>10, <1>11,
      <1>12, <1>13, <1>14, <1>15, <1>16, <1>17, <1>18, <1>19, <1>20, <1>21,
      <1>22, <1>23, <1>24, <1>25, <1>26, <1>27, <1>28
  DEF Next, Handle, Work

(* Only Register fills the registry, inside the section. *)
LEMMA NoneActiveStep == FlightInv /\ [Next]_vars => NoneActive'
<1> SUFFICES ASSUME Shapes, Refs, GuardHeld, OneGuard, NoneActive, [Next]_vars
             PROVE  NoneActive'
  BY DEF FlightInv, TypeOK, Shapes, Refs
<1> USE DEF Shapes, Refs, Answered, Guarded, GuardHeld, OneGuard, NoneActive,
            Goto, cacheVars, clientVars, jobVars
<1>1. ASSUME NEW c \in Clients, NEW b \in Blobs, Request(c, b)
      PROVE  NoneActive'
  BY <1>1 DEF Request
<1>2. ASSUME NEW c \in Clients, LookMemory(c) PROVE NoneActive'
  BY <1>2 DEF LookMemory
<1>3. ASSUME NEW c \in Clients, LookStatus(c) PROVE NoneActive'
  BY <1>3 DEF LookStatus
<1>4. ASSUME NEW c \in Clients, TouchHot(c) PROVE NoneActive'
  BY <1>4 DEF TouchHot
<1>5. ASSUME NEW c \in Clients, Touch(c) PROVE NoneActive'
  BY <1>5 DEF Touch, FillHot
<1>6. ASSUME NEW c \in Clients, TryRange(c) PROVE NoneActive'
  BY <1>6 DEF TryRange
<1>7. ASSUME NEW c \in Clients, Peek(c) PROVE NoneActive'
  BY <1>7 DEF Peek, JoinOr
<1>8. ASSUME NEW c \in Clients, Lock(c) PROVE NoneActive'
  BY <1>8 DEF Lock, Mutex!Acquire
<1>9. ASSUME NEW c \in Clients, Recheck(c) PROVE NoneActive'
  BY <1>9 DEF Recheck
<1>10. ASSUME NEW c \in Clients, TouchGuarded(c) PROVE NoneActive'
  BY <1>10 DEF TouchGuarded, FillHot, DropGuard
<1>11. ASSUME NEW c \in Clients, PeekGuarded(c) PROVE NoneActive'
  BY <1>11 DEF PeekGuarded, JoinOr
<1>12. ASSUME NEW c \in Clients, MarkPending(c) PROVE NoneActive'
  BY <1>12 DEF MarkPending, InsertPending
<1>13. ASSUME NEW c \in Clients, NEW j \in Jobs, Register(c, j)
      PROVE  NoneActive'
  BY <1>13 DEF Register, Unused, DropGuard
<1>14. ASSUME NEW c \in Clients, JoinEnd(c) PROVE NoneActive'
  BY <1>14 DEF JoinEnd, Started, DropGuard
<1>15. ASSUME NEW c \in Clients, Serve(c) PROVE NoneActive'
  BY <1>15 DEF Serve
<1>16. ASSUME NEW c \in Clients, Leave(c) PROVE NoneActive'
  BY <1>16 DEF Leave, AwaitPC, DropGuard, InsertPending
<1>17. ASSUME NEW j \in Jobs, Open(j) PROVE NoneActive'
  BY <1>17 DEF Open
<1>18. ASSUME NEW j \in Jobs, Commit(j) PROVE NoneActive'
  BY <1>18 DEF Commit
<1>19. ASSUME NEW j \in Jobs, MarkReady(j) PROVE NoneActive'
  BY <1>19 DEF MarkReady, UpdateReady
<1>20. ASSUME NEW j \in Jobs, Prune(j) PROVE NoneActive'
  BY <1>20 DEF Prune, Victims, ReadyBlobs
<1>21. ASSUME NEW j \in Jobs, NEW b \in Blobs, Unlink(j, b) PROVE NoneActive'
  BY <1>21 DEF Unlink
<1>22. ASSUME NEW j \in Jobs, Invalidate(j) PROVE NoneActive'
  BY <1>22 DEF Invalidate, Stale
<1>23. ASSUME NEW j \in Jobs, InsertHot(j) PROVE NoneActive'
  BY <1>23 DEF InsertHot
<1>24. ASSUME NEW j \in Jobs, Deregister(j) PROVE NoneActive'
  BY <1>24 DEF Deregister
<1>25. ASSUME NEW j \in Jobs, Fail(j) PROVE NoneActive'
  BY <1>25 DEF Fail
<1>26. ASSUME NEW b \in Blobs, EvictHot(b) PROVE NoneActive'
  BY <1>26 DEF EvictHot
<1>27. ASSUME Crash PROVE NoneActive'
  BY <1>27 DEF Crash, InitMemory
<1>28. CASE UNCHANGED vars
  BY <1>28 DEF vars
<1> QED
  BY <1>1, <1>2, <1>3, <1>4, <1>5, <1>6, <1>7, <1>8, <1>9, <1>10, <1>11,
      <1>12, <1>13, <1>14, <1>15, <1>16, <1>17, <1>18, <1>19, <1>20, <1>21,
      <1>22, <1>23, <1>24, <1>25, <1>26, <1>27, <1>28
  DEF Next, Handle, Work

(* Register adds a live job where there was none; Deregister takes out the *)
(* entry of its own blob, which is its own.                                *)
LEMMA LiveIsActiveStep == FlightInv /\ [Next]_vars => LiveIsActive'
<1> SUFFICES ASSUME Shapes, Refs, NoneActive, LiveIsActive, [Next]_vars
             PROVE  LiveIsActive'
  BY DEF FlightInv, TypeOK, Shapes, Refs
<1> USE NoneAssumption
    DEF Shapes, Refs, NoneActive, LiveIsActive, LiveJob, JobGoto,
            cacheVars, clientVars, jobVars
<1>1. ASSUME NEW c \in Clients, NEW b \in Blobs, Request(c, b)
      PROVE  LiveIsActive'
  BY <1>1 DEF Request
<1>2. ASSUME NEW c \in Clients, LookMemory(c) PROVE LiveIsActive'
  BY <1>2 DEF LookMemory
<1>3. ASSUME NEW c \in Clients, LookStatus(c) PROVE LiveIsActive'
  BY <1>3 DEF LookStatus
<1>4. ASSUME NEW c \in Clients, TouchHot(c) PROVE LiveIsActive'
  BY <1>4 DEF TouchHot
<1>5. ASSUME NEW c \in Clients, Touch(c) PROVE LiveIsActive'
  BY <1>5 DEF Touch, FillHot
<1>6. ASSUME NEW c \in Clients, TryRange(c) PROVE LiveIsActive'
  BY <1>6 DEF TryRange
<1>7. ASSUME NEW c \in Clients, Peek(c) PROVE LiveIsActive'
  BY <1>7 DEF Peek, JoinOr
<1>8. ASSUME NEW c \in Clients, Lock(c) PROVE LiveIsActive'
  BY <1>8 DEF Lock, Mutex!Acquire
<1>9. ASSUME NEW c \in Clients, Recheck(c) PROVE LiveIsActive'
  BY <1>9 DEF Recheck
<1>10. ASSUME NEW c \in Clients, TouchGuarded(c) PROVE LiveIsActive'
  BY <1>10 DEF TouchGuarded, FillHot, DropGuard
<1>11. ASSUME NEW c \in Clients, PeekGuarded(c) PROVE LiveIsActive'
  BY <1>11 DEF PeekGuarded, JoinOr
<1>12. ASSUME NEW c \in Clients, MarkPending(c) PROVE LiveIsActive'
  BY <1>12 DEF MarkPending, InsertPending
<1>13. ASSUME NEW c \in Clients, NEW j \in Jobs, Register(c, j)
      PROVE  LiveIsActive'
  BY <1>13 DEF Register, Unused, DropGuard
<1>14. ASSUME NEW c \in Clients, JoinEnd(c) PROVE LiveIsActive'
  BY <1>14 DEF JoinEnd, Started, DropGuard
<1>15. ASSUME NEW c \in Clients, Serve(c) PROVE LiveIsActive'
  BY <1>15 DEF Serve
<1>16. ASSUME NEW c \in Clients, Leave(c) PROVE LiveIsActive'
  BY <1>16 DEF Leave, AwaitPC, DropGuard, InsertPending
<1>17. ASSUME NEW j \in Jobs, Open(j) PROVE LiveIsActive'
  BY <1>17 DEF Open
<1>18. ASSUME NEW j \in Jobs, Commit(j) PROVE LiveIsActive'
  BY <1>18 DEF Commit
<1>19. ASSUME NEW j \in Jobs, MarkReady(j) PROVE LiveIsActive'
  BY <1>19 DEF MarkReady, UpdateReady
<1>20. ASSUME NEW j \in Jobs, Prune(j) PROVE LiveIsActive'
  BY <1>20 DEF Prune, Victims, ReadyBlobs
<1>21. ASSUME NEW j \in Jobs, NEW b \in Blobs, Unlink(j, b) PROVE LiveIsActive'
  BY <1>21 DEF Unlink
<1>22. ASSUME NEW j \in Jobs, Invalidate(j) PROVE LiveIsActive'
  BY <1>22 DEF Invalidate, Stale
<1>23. ASSUME NEW j \in Jobs, InsertHot(j) PROVE LiveIsActive'
  BY <1>23 DEF InsertHot
<1>24. ASSUME NEW j \in Jobs, Deregister(j) PROVE LiveIsActive'
  BY <1>24 DEF Deregister
<1>25. ASSUME NEW j \in Jobs, Fail(j) PROVE LiveIsActive'
  BY <1>25 DEF Fail
<1>26. ASSUME NEW b \in Blobs, EvictHot(b) PROVE LiveIsActive'
  BY <1>26 DEF EvictHot
<1>27. ASSUME Crash PROVE LiveIsActive'
  BY <1>27 DEF Crash, InitMemory
<1>28. CASE UNCHANGED vars
  BY <1>28 DEF vars
<1> QED
  BY <1>1, <1>2, <1>3, <1>4, <1>5, <1>6, <1>7, <1>8, <1>9, <1>10, <1>11,
      <1>12, <1>13, <1>14, <1>15, <1>16, <1>17, <1>18, <1>19, <1>20, <1>21,
      <1>22, <1>23, <1>24, <1>25, <1>26, <1>27, <1>28
  DEF Next, Handle, Work

LEMMA Flight == Spec => []FlightInv
<1>1. Init => FlightInv
  BY DEF Init, InitMemory, FlightInv, TypeOK, ClientPC, Answered, Guarded, JobPC,
         LiveJob, GuardHeld, OneGuard, NoneActive, LiveIsActive
<1>2. FlightInv /\ [Next]_vars => FlightInv'
  BY TypeStep, GuardStep, NoneActiveStep, LiveIsActiveStep DEF FlightInv
<1> QED
  BY <1>1, <1>2, PTL DEF Spec

(* A handler that goes drops the guard it has, and it has one at most.     *)
LEMMA DropStep ==
  ASSUME FlightInv, NEW c \in Clients, DropGuard(c)
  PROVE  UNCHANGED locks \/ Mutex!Next
<1>1. locks \in [Blobs -> SUBSET Clients] /\ want \in [Clients -> Blobs \cup {None}]
      /\ locks' = [b \in Blobs |-> locks[b] \ {c}]
  BY DEF FlightInv, TypeOK, DropGuard
<1>2. \A b \in Blobs : c \in locks[b] => b = want[c]
  BY DEF FlightInv, GuardHeld
<1>3. CASE \E b \in Blobs : c \in locks[b]
  <2>1. PICK b \in Blobs : c \in locks[b]
    BY <1>3
  <2>2. \A k \in Blobs : k # b => locks[k] \ {c} = locks[k]
    BY <1>2, <2>1
  <2>3. locks' = [locks EXCEPT ![b] = @ \ {c}]
    BY <1>1, <2>2
  <2>4. Mutex!Release(c, b)
    BY <2>1, <2>3 DEF Mutex!Release
  <2> QED BY <2>4 DEF Mutex!Next
<1>4. CASE \A b \in Blobs : c \notin locks[b]
  <2>1. \A b \in Blobs : locks[b] \ {c} = locks[b]
    BY <1>4
  <2> QED BY <1>1, <2>1
<1> QED BY <1>3, <1>4

(* What the handlers do with the locks of the blobs is what KeyedMutex, the*)
(* promise of RequestLocks, offers: a handler takes one lock at a time,    *)
(* when nobody has it, and however it ends it releases the one it has; a   *)
(* restart begins anew (server.rs:1641-1763).                              *)
THEOREM LocksAreKeyed == Spec => Mutex!Init /\ [][Mutex!Next \/ Crash]_locks
<1>1. Init => Mutex!Init
  BY DEF Init, InitMemory, Mutex!Init
<1>2. FlightInv /\ [Next]_vars => [Mutex!Next \/ Crash]_locks
  <2> SUFFICES ASSUME FlightInv, [Next]_vars, ~UNCHANGED locks, ~Crash PROVE Mutex!Next
    OBVIOUS
  <2>1. PICK c \in Clients : Handle(c) \/ Lock(c) \/ Leave(c)
    <3>1. ASSUME NEW c \in Clients, NEW b \in Blobs, Request(c, b) PROVE UNCHANGED locks
      BY <3>1 DEF Request
    <3>2. ASSUME NEW j \in Jobs, Work(j) \/ Fail(j) PROVE UNCHANGED locks
      BY <3>2 DEF Work, Fail, Open, Commit, MarkReady, Prune, Unlink, Invalidate, InsertHot,
                  Deregister
    <3>3. ASSUME NEW b \in Blobs, EvictHot(b) PROVE UNCHANGED locks
      BY <3>3 DEF EvictHot
    <3>4. UNCHANGED vars => UNCHANGED locks
      BY DEF vars
    <3> QED BY <3>1, <3>2, <3>3, <3>4 DEF Next
  <2>2. CASE Lock(c)
    <3>1. want[c] \in Blobs /\ Mutex!Acquire(c, want[c])
      BY <2>2 DEF Lock, FlightInv, TypeOK, Answered
    <3> QED BY <3>1 DEF Mutex!Next
  <2>3. CASE Leave(c)
    BY <2>3, DropStep DEF Leave
  <2>4. CASE Handle(c)
    <3>1. UNCHANGED locks \/ DropGuard(c)
      BY <2>4 DEF Handle, LookMemory, LookStatus, TouchHot, Touch, TryRange, Peek, Recheck,
                  TouchGuarded, PeekGuarded, MarkPending, JoinEnd, Serve, Register
    <3> QED BY <3>1, DropStep
  <2> QED BY <2>1, <2>2, <2>3, <2>4
<1> QED
  BY <1>1, <1>2, Flight, PTL DEF Spec

(* At most one download of a blob runs, for any number of handlers, jobs   *)
(* and blobs, any limit, and any failures and restarts (server.rs:1641).   *)
THEOREM OneDownload == Spec => []SingleFlight
<1>1. FlightInv => SingleFlight
  BY DEF FlightInv, LiveIsActive, SingleFlight
<1> QED
  BY <1>1, Flight, PTL

-----------------------------------------------------------------------------
(* Without a limit. Files are only added, so what was once on disk stays.  *)
Served == {"touchHot", "touch", "touchGuarded", "serve"}

FilesOnDisk ==
  /\ \A b \in Blobs : Ready(b) => b \in file
  /\ hot \subseteq file
  /\ \A c \in Clients : /\ pc[c] \in Served => want[c] \in file
                        /\ pc[c] # "gone"
  /\ \A j \in Jobs : /\ jpc[j] \notin {"prune", "unlink", "invalidate"}
                     /\ jpc[j] \in {"mark", "insert"} => jblob[j] \in file

(* A job runs, and is registered, only over a row. *)
RowsThere ==
  /\ \A c \in Clients : pc[c] = "register" => row[want[c]] # "missing"
  /\ \A j \in Jobs : jpc[j] \in LiveJob => row[jblob[j]] # "missing"

LEMMA FilesStep == MaxReady = 0 /\ TypeOK /\ FilesOnDisk /\ [Next]_vars => FilesOnDisk'
<1> SUFFICES ASSUME MaxReady = 0, Shapes, Refs, FilesOnDisk, [Next]_vars
             PROVE  FilesOnDisk'
  BY DEF TypeOK, Shapes, Refs
<1> USE DEF Shapes, Refs, ClientPC, Answered, JobPC, LiveJob, FilesOnDisk, Served,
            Ready, Goto, JobGoto, cacheVars, clientVars, jobVars
<1>1. ASSUME NEW c \in Clients, NEW b \in Blobs, Request(c, b)
      PROVE  FilesOnDisk'
  BY <1>1 DEF Request
<1>2. ASSUME NEW c \in Clients, LookMemory(c) PROVE FilesOnDisk'
  BY <1>2 DEF LookMemory
<1>3. ASSUME NEW c \in Clients, LookStatus(c) PROVE FilesOnDisk'
  BY <1>3 DEF LookStatus
<1>4. ASSUME NEW c \in Clients, TouchHot(c) PROVE FilesOnDisk'
  BY <1>4 DEF TouchHot
<1>5. ASSUME NEW c \in Clients, Touch(c) PROVE FilesOnDisk'
  BY <1>5 DEF Touch, FillHot
<1>6. ASSUME NEW c \in Clients, TryRange(c) PROVE FilesOnDisk'
  BY <1>6 DEF TryRange
<1>7. ASSUME NEW c \in Clients, Peek(c) PROVE FilesOnDisk'
  BY <1>7 DEF Peek, JoinOr
<1>8. ASSUME NEW c \in Clients, Lock(c) PROVE FilesOnDisk'
  BY <1>8 DEF Lock, Mutex!Acquire
<1>9. ASSUME NEW c \in Clients, Recheck(c) PROVE FilesOnDisk'
  BY <1>9 DEF Recheck
<1>10. ASSUME NEW c \in Clients, TouchGuarded(c) PROVE FilesOnDisk'
  BY <1>10 DEF TouchGuarded, FillHot, DropGuard
<1>11. ASSUME NEW c \in Clients, PeekGuarded(c) PROVE FilesOnDisk'
  BY <1>11 DEF PeekGuarded, JoinOr
<1>12. ASSUME NEW c \in Clients, MarkPending(c) PROVE FilesOnDisk'
  BY <1>12 DEF MarkPending, InsertPending
<1>13. ASSUME NEW c \in Clients, NEW j \in Jobs, Register(c, j)
      PROVE  FilesOnDisk'
  BY <1>13 DEF Register, Unused, DropGuard
<1>14. ASSUME NEW c \in Clients, JoinEnd(c) PROVE FilesOnDisk'
  BY <1>14 DEF JoinEnd, Started, DropGuard
<1>15. ASSUME NEW c \in Clients, Serve(c) PROVE FilesOnDisk'
  BY <1>15 DEF Serve
<1>16. ASSUME NEW c \in Clients, Leave(c) PROVE FilesOnDisk'
  BY <1>16 DEF Leave, AwaitPC, DropGuard, InsertPending
<1>17. ASSUME NEW j \in Jobs, Open(j) PROVE FilesOnDisk'
  BY <1>17 DEF Open
<1>18. ASSUME NEW j \in Jobs, Commit(j) PROVE FilesOnDisk'
  BY <1>18 DEF Commit
<1>19. ASSUME NEW j \in Jobs, MarkReady(j) PROVE FilesOnDisk'
  BY <1>19 DEF MarkReady, UpdateReady
<1>20. ASSUME NEW j \in Jobs, Prune(j) PROVE FilesOnDisk'
  BY <1>20 DEF Prune, Victims, ReadyBlobs
<1>21. ASSUME NEW j \in Jobs, NEW b \in Blobs, Unlink(j, b) PROVE FilesOnDisk'
  BY <1>21 DEF Unlink
<1>22. ASSUME NEW j \in Jobs, Invalidate(j) PROVE FilesOnDisk'
  BY <1>22 DEF Invalidate, Stale
<1>23. ASSUME NEW j \in Jobs, InsertHot(j) PROVE FilesOnDisk'
  BY <1>23 DEF InsertHot
<1>24. ASSUME NEW j \in Jobs, Deregister(j) PROVE FilesOnDisk'
  BY <1>24 DEF Deregister
<1>25. ASSUME NEW j \in Jobs, Fail(j) PROVE FilesOnDisk'
  BY <1>25 DEF Fail
<1>26. ASSUME NEW b \in Blobs, EvictHot(b) PROVE FilesOnDisk'
  BY <1>26 DEF EvictHot
<1>27. ASSUME Crash PROVE FilesOnDisk'
  BY <1>27 DEF Crash, InitMemory
<1>28. CASE UNCHANGED vars
  BY <1>28 DEF vars
<1> QED
  BY <1>1, <1>2, <1>3, <1>4, <1>5, <1>6, <1>7, <1>8, <1>9, <1>10, <1>11,
      <1>12, <1>13, <1>14, <1>15, <1>16, <1>17, <1>18, <1>19, <1>20, <1>21,
      <1>22, <1>23, <1>24, <1>25, <1>26, <1>27, <1>28
  DEF Next, Handle, Work

LEMMA RowsStep ==
  MaxReady = 0 /\ TypeOK /\ FilesOnDisk /\ RowsThere /\ [Next]_vars => RowsThere'
<1> SUFFICES ASSUME MaxReady = 0, Shapes, Refs, FilesOnDisk, RowsThere, [Next]_vars
             PROVE  RowsThere'
  BY DEF TypeOK, Shapes, Refs
<1> USE DEF Shapes, Refs, ClientPC, Answered, JobPC, LiveJob, FilesOnDisk, RowsThere,
            Goto, JobGoto, cacheVars, clientVars, jobVars
<1>1. ASSUME NEW c \in Clients, NEW b \in Blobs, Request(c, b) PROVE RowsThere'
  BY <1>1 DEF Request
<1>2. ASSUME NEW c \in Clients, LookMemory(c) PROVE RowsThere'
  BY <1>2 DEF LookMemory
<1>3. ASSUME NEW c \in Clients, LookStatus(c) PROVE RowsThere'
  BY <1>3 DEF LookStatus
<1>4. ASSUME NEW c \in Clients, TouchHot(c) PROVE RowsThere'
  BY <1>4 DEF TouchHot
<1>5. ASSUME NEW c \in Clients, Touch(c) PROVE RowsThere'
  BY <1>5 DEF Touch, FillHot
<1>6. ASSUME NEW c \in Clients, TryRange(c) PROVE RowsThere'
  BY <1>6 DEF TryRange
<1>7. ASSUME NEW c \in Clients, Peek(c) PROVE RowsThere'
  BY <1>7 DEF Peek, JoinOr
<1>8. ASSUME NEW c \in Clients, Lock(c) PROVE RowsThere'
  BY <1>8 DEF Lock, Mutex!Acquire
<1>9. ASSUME NEW c \in Clients, Recheck(c) PROVE RowsThere'
  BY <1>9 DEF Recheck
<1>10. ASSUME NEW c \in Clients, TouchGuarded(c) PROVE RowsThere'
  BY <1>10 DEF TouchGuarded, FillHot, DropGuard
<1>11. ASSUME NEW c \in Clients, PeekGuarded(c) PROVE RowsThere'
  BY <1>11 DEF PeekGuarded, JoinOr
<1>12. ASSUME NEW c \in Clients, MarkPending(c) PROVE RowsThere'
  BY <1>12 DEF MarkPending, InsertPending
<1>13. ASSUME NEW c \in Clients, NEW j \in Jobs, Register(c, j) PROVE RowsThere'
  BY <1>13 DEF Register, Unused, DropGuard
<1>14. ASSUME NEW c \in Clients, JoinEnd(c) PROVE RowsThere'
  BY <1>14 DEF JoinEnd, Started, DropGuard
<1>15. ASSUME NEW c \in Clients, Serve(c) PROVE RowsThere'
  BY <1>15 DEF Serve
<1>16. ASSUME NEW c \in Clients, Leave(c) PROVE RowsThere'
  BY <1>16 DEF Leave, AwaitPC, DropGuard, InsertPending
<1>17. ASSUME NEW j \in Jobs, Open(j) PROVE RowsThere'
  BY <1>17 DEF Open
<1>18. ASSUME NEW j \in Jobs, Commit(j) PROVE RowsThere'
  BY <1>18 DEF Commit
<1>19. ASSUME NEW j \in Jobs, MarkReady(j) PROVE RowsThere'
  BY <1>19 DEF MarkReady, UpdateReady
<1>20. ASSUME NEW j \in Jobs, Prune(j) PROVE RowsThere'
  BY <1>20 DEF Prune, Victims, ReadyBlobs
<1>21. ASSUME NEW j \in Jobs, NEW b \in Blobs, Unlink(j, b) PROVE RowsThere'
  BY <1>21 DEF Unlink
<1>22. ASSUME NEW j \in Jobs, Invalidate(j) PROVE RowsThere'
  BY <1>22 DEF Invalidate, Stale
<1>23. ASSUME NEW j \in Jobs, InsertHot(j) PROVE RowsThere'
  BY <1>23 DEF InsertHot
<1>24. ASSUME NEW j \in Jobs, Deregister(j) PROVE RowsThere'
  BY <1>24 DEF Deregister
<1>25. ASSUME NEW j \in Jobs, Fail(j) PROVE RowsThere'
  BY <1>25 DEF Fail
<1>26. ASSUME NEW b \in Blobs, EvictHot(b) PROVE RowsThere'
  BY <1>26 DEF EvictHot
<1>27. ASSUME Crash PROVE RowsThere'
  BY <1>27 DEF Crash, InitMemory
<1>28. CASE UNCHANGED vars
  BY <1>28 DEF vars
<1> QED
  BY <1>1, <1>2, <1>3, <1>4, <1>5, <1>6, <1>7, <1>8, <1>9, <1>10, <1>11,
      <1>12, <1>13, <1>14, <1>15, <1>16, <1>17, <1>18, <1>19, <1>20, <1>21,
      <1>22, <1>23, <1>24, <1>25, <1>26, <1>27, <1>28
  DEF Next, Handle, Work

LEMMA DiskInvariance ==
  ASSUME MaxReady = 0
  PROVE  Spec => [](FilesOnDisk /\ RowsThere)
<1>1. Init => FilesOnDisk /\ RowsThere
  BY DEF Init, InitMemory, FilesOnDisk, RowsThere, Served, LiveJob, Ready
<1>2. TypeOK /\ FilesOnDisk /\ RowsThere /\ [Next]_vars
      => FilesOnDisk' /\ RowsThere'
  BY FilesStep, RowsStep
<1> QED
  BY <1>1, <1>2, TypeCorrect, PTL DEF Spec

(* Without a limit, a row that says ready has its file, through failures   *)
(* and restarts (server.rs:2385-2400): rename first, then UPDATE.          *)
THEOREM ReadyOnDisk == Spec => []ReadyHasFile
<1>1. FilesOnDisk => ReadyHasFile
  BY DEF FilesOnDisk, ReadyHasFile
<1>2. MaxReady # 0 => ReadyHasFile
  BY DEF ReadyHasFile
<1>3. CASE MaxReady = 0
  BY <1>1, <1>3, DiskInvariance, PTL
<1>4. CASE MaxReady # 0
  BY <1>2, <1>4, PTL
<1> QED
  BY <1>3, <1>4

(* Without a limit, a handler that found its blob cached never answers     *)
(* that its file is missing (server.rs:1647-1696, 1836-1901).              *)
THEOREM CachedServed == Spec => []CachedIsServed
<1>1. FilesOnDisk => CachedIsServed
  BY DEF FilesOnDisk, CachedIsServed
<1>2. MaxReady # 0 => CachedIsServed
  BY DEF CachedIsServed
<1>3. CASE MaxReady = 0
  BY <1>1, <1>3, DiskInvariance, PTL
<1>4. CASE MaxReady # 0
  BY <1>2, <1>4, PTL
<1> QED
  BY <1>3, <1>4

(* Without a limit, the UPDATE of a running job finds the pending row that *)
(* its handler inserted (cache.rs:469-507, 555-632).                       *)
THEOREM RowFound == Spec => []LiveJobHasRow
<1>1. RowsThere => LiveJobHasRow
  BY DEF RowsThere, LiveJobHasRow
<1>2. MaxReady # 0 => LiveJobHasRow
  BY DEF LiveJobHasRow
<1>3. CASE MaxReady = 0
  BY <1>1, <1>3, DiskInvariance, PTL
<1>4. CASE MaxReady # 0
  BY <1>2, <1>4, PTL
<1> QED
  BY <1>3, <1>4

-----------------------------------------------------------------------------
(* With a limit and no faults. Only mark_blob_ready makes a blob ready, and *)
(* the job that did it goes on to a prune, which leaves no excess whatever  *)
(* other jobs marked before it; so there is an excess only as long as a     *)
(* job is on its way to its prune.                                          *)
NoPrune == \A j \in Jobs : jpc[j] # "prune"

Trimmed == /\ IsFiniteSet(ReadyBlobs)
           /\ NoPrune => Cardinality(ReadyBlobs) <= MaxReady

LEMMA PruneStep ==
  ASSUME Trimmed, NEW j \in Jobs, Prune(j)
  PROVE  Trimmed'
<1>1. PICK V \in Victims : row' = [b \in Blobs |-> IF b \in V THEN "missing" ELSE row[b]]
  BY DEF Prune
<1>2. ReadyBlobs' = ReadyBlobs \ V
  BY <1>1 DEF ReadyBlobs, Ready, Victims
<1>3. IsFiniteSet(ReadyBlobs')
  BY <1>2, FS_Difference DEF Trimmed
<1>4. Cardinality(ReadyBlobs) \in Nat
  BY FS_CardinalityType DEF Trimmed
<1>5. Cardinality(ReadyBlobs') = IF Cardinality(ReadyBlobs) > MaxReady
                                   THEN MaxReady ELSE Cardinality(ReadyBlobs)
  BY <1>1, <1>2 DEF Victims
<1>6. Cardinality(ReadyBlobs') <= MaxReady
  BY <1>4, <1>5, MaxReadyAssumption
<1> QED BY <1>3, <1>6 DEF Trimmed

LEMMA MarkStep ==
  ASSUME MaxReady > 0, TypeOK, Trimmed, NEW j \in Jobs, MarkReady(j)
  PROVE  Trimmed'
<1>1. ReadyBlobs' \subseteq ReadyBlobs \cup {jblob[j]}
  BY DEF MarkReady, UpdateReady, ReadyBlobs, Ready, TypeOK, LiveJob
<1>2. IsFiniteSet(ReadyBlobs \cup {jblob[j]})
  BY FS_AddElement DEF Trimmed
<1>3. IsFiniteSet(ReadyBlobs')
  BY <1>1, <1>2, FS_Subset
<1>4. jpc'[j] = "prune"
  BY DEF MarkReady, JobGoto, TypeOK
<1>5. ~NoPrune'
  BY <1>4 DEF NoPrune
<1> QED BY <1>3, <1>5 DEF Trimmed

(* No other step makes a blob ready or ends a prune that is due.           *)
LEMMA OtherSteps ==
  ASSUME ~IoErrors, ~Crashes, TypeOK, [Next]_vars
  PROVE  \/ \E j \in Jobs : Prune(j) \/ MarkReady(j)
         \/ ReadyBlobs' = ReadyBlobs /\ (NoPrune' => NoPrune)
<1> USE DEF TypeOK, ReadyBlobs, Ready, NoPrune, Goto, JobGoto, cacheVars, jobVars
<1>1. ASSUME NEW c \in Clients, MarkPending(c) \/ Leave(c)
      PROVE  ReadyBlobs' = ReadyBlobs /\ jpc' = jpc
  BY <1>1 DEF MarkPending, Leave, InsertPending
<1>2. ASSUME NEW c \in Clients, NEW b \in Blobs, Request(c, b)
      PROVE  ReadyBlobs' = ReadyBlobs /\ jpc' = jpc
  BY <1>2 DEF Request
<1>3. ASSUME NEW c \in Clients,
             LookMemory(c) \/ LookStatus(c) \/ TouchHot(c) \/ Touch(c) \/ TryRange(c)
             \/ Peek(c) \/ Recheck(c) \/ TouchGuarded(c) \/ PeekGuarded(c)
             \/ JoinEnd(c) \/ Serve(c) \/ Lock(c)
      PROVE  ReadyBlobs' = ReadyBlobs /\ jpc' = jpc
  BY <1>3 DEF LookMemory, LookStatus, TouchHot, Touch, TryRange, Peek, Recheck,
              TouchGuarded, PeekGuarded, JoinEnd, Serve, Lock
<1>4. ASSUME NEW c \in Clients, NEW j \in Jobs, Register(c, j)
      PROVE  ReadyBlobs' = ReadyBlobs /\ (NoPrune' => NoPrune)
  BY <1>4 DEF Register, Unused
<1>5. ASSUME NEW j \in Jobs,
             Open(j) \/ Commit(j) \/ Invalidate(j) \/ InsertHot(j) \/ Deregister(j) \/ Fail(j)
      PROVE  ReadyBlobs' = ReadyBlobs /\ (NoPrune' => NoPrune)
  BY <1>5 DEF Open, Commit, Invalidate, InsertHot, Deregister, Fail
<1>6. ASSUME NEW j \in Jobs, NEW b \in Blobs, Unlink(j, b)
      PROVE  ReadyBlobs' = ReadyBlobs /\ (NoPrune' => NoPrune)
  BY <1>6 DEF Unlink
<1>7. ASSUME NEW b \in Blobs, EvictHot(b) PROVE ReadyBlobs' = ReadyBlobs /\ jpc' = jpc
  BY <1>7 DEF EvictHot
<1>8. ~Crash
  BY DEF Crash
<1>9. CASE UNCHANGED vars
  BY <1>9 DEF vars
<1> QED
  BY <1>1, <1>2, <1>3, <1>4, <1>5, <1>6, <1>7, <1>8, <1>9 DEF Next, Handle, Work

(* Jobs that mark and prune concurrently leave no excess over any limit,   *)
(* once none of them runs (server.rs:2385-2464, cache.rs:626-660).         *)
THEOREM Limited == Spec => []WithinLimit
<1>1. CASE MaxReady > 0 /\ ~IoErrors /\ ~Crashes
  <2>1. Init => Trimmed
    <3> SUFFICES ASSUME Init PROVE Trimmed
      OBVIOUS
    <3>1. ReadyBlobs = {}
      BY DEF Init, ReadyBlobs, Ready
    <3> QED BY <3>1, FS_EmptySet, MaxReadyAssumption DEF Trimmed
  <2>2. TypeOK /\ Trimmed /\ [Next]_vars => Trimmed'
    <3> SUFFICES ASSUME TypeOK, Trimmed, [Next]_vars PROVE Trimmed'
      OBVIOUS
    <3>1. ASSUME ReadyBlobs' = ReadyBlobs, NoPrune' => NoPrune PROVE Trimmed'
      BY <3>1 DEF Trimmed
    <3> QED BY <1>1, <3>1, OtherSteps, PruneStep, MarkStep
  <2>3. Trimmed => WithinLimit
    BY DEF Trimmed, NoPrune, WithinLimit, LiveJob
  <2> QED BY <2>1, <2>2, <2>3, TypeCorrect, PTL DEF Spec
<1>2. CASE ~(MaxReady > 0 /\ ~IoErrors /\ ~Crashes)
  <2>1. WithinLimit
    BY <1>2 DEF WithinLimit
  <2> QED BY <2>1, PTL
<1> QED BY <1>1, <1>2
-----------------------------------------------------------------------------
(* The temporary file over all its downloads, for an upstream file of any   *)
(* size, any chunks, channel and flush sizes, any number of writer tasks    *)
(* and of faults (BlobDownload, as MCBlobs instantiates it).                *)
(*                                                                          *)
(* A stretch of the file is on its way in four places: on disk up to the    *)
(* writer's cursor, gathered in pending, queued in the channel, and in the  *)
(* hasher; DownloadInv says that they are one stretch, cut at the same      *)
(* bytes, as long as no late writer has changed the file.  Late writers     *)
(* keep nothing but the types.                                              *)
LEMMA LeastOf ==
  ASSUME NEW S \in SUBSET Nat, S # {}
  PROVE  D!Min(S) \in S
<1>1. IsWellFoundedOn(OpToRel(<, Nat), Nat)
  BY NatLessThanWellFounded
<1>2. PICK m \in S : \A x \in S : <<x, m>> \notin OpToRel(<, Nat)
  BY <1>1, WFMin
<1>3. ASSUME NEW x \in S PROVE m <= x
  <2>1. ~ (x < m)
    BY <1>2 DEF OpToRel
  <2> QED BY <2>1
<1> QED BY <1>2, <1>3 DEF D!Min

LEMMA LargerOf ==
  ASSUME NEW a \in Nat, NEW b \in Nat
  PROVE  D!Max({a, b}) = IF a >= b THEN a ELSE b
<1>1. \E m \in {a, b} : \A x \in {a, b} : m >= x
  OBVIOUS
<1>2. D!Max({a, b}) \in {a, b} /\ \A x \in {a, b} : D!Max({a, b}) >= x
  BY <1>1 DEF D!Max
<1> QED BY <1>2

LEMMA SameCardinality ==
  ASSUME NEW S
  PROVE  D!Cardinality(S) = Cardinality(S)
  BY DEF D!Cardinality, Cardinality

(* There is an inode left for a new file.                                  *)
LEMMA InodeLeft ==
  ASSUME temp = None
  PROVE  D!FreeInode \in D!Inodes /\ D!FreeInode # final
<1> DEFINE X == {task[w].inode : w \in Writers}
           U == X \cup {final}
           f == [w \in Writers |-> task[w].inode]
<1>1. IsFiniteSet(Writers) /\ Cardinality(Writers) \in Nat
  BY FS_CardinalityType, DownloadAssumption
<1>2. f \in Surjection(Writers, X)
  BY DEF Surjection
<1>3. IsFiniteSet(X) /\ Cardinality(X) <= Cardinality(Writers)
  BY <1>1, <1>2, FS_Surjection
<1> HIDE DEF f, X
<1>4. IsFiniteSet(U) /\ Cardinality(U) <= Cardinality(Writers) + 1 /\ Cardinality(U) \in Nat
  <2>1. Cardinality(X) \in Nat
    BY <1>3, FS_CardinalityType
  <2>2. /\ IsFiniteSet(U)
        /\ Cardinality(U) = IF final \in X THEN Cardinality(X) ELSE Cardinality(X) + 1
    BY <1>3, FS_AddElement
  <2> QED BY <1>1, <1>3, <2>1, <2>2
<1>5. Cardinality(D!Inodes) = Cardinality(Writers) + 2
  BY <1>1, FS_Interval, SameCardinality DEF D!Inodes
<1> HIDE DEF U
<1>6. ~ (D!Inodes \subseteq U)
  <2> SUFFICES ASSUME D!Inodes \subseteq U PROVE FALSE
    OBVIOUS
  <2>1. Cardinality(D!Inodes) <= Cardinality(U)
    BY <1>4, FS_Subset
  <2> QED BY <1>1, <1>4, <1>5, <2>1
<1>7. None \notin D!Inodes /\ D!Inodes \subseteq Nat
  BY <1>1, SameCardinality, DownloadAssumption DEF D!Inodes
<1> DEFINE S == D!Inodes \ ({temp, final} \cup X)
<1>8. S # {} /\ S \subseteq Nat /\ final \notin S
  BY <1>6, <1>7 DEF U
<1>9. D!FreeInode = D!Min(S)
  BY DEF D!FreeInode, X
<1> QED BY <1>8, <1>9, LeastOf

-----------------------------------------------------------------------------
(* Bytes of the upstream file, from at on.                                 *)
Counting(s, at) == s \in Seq(Nat) /\ \A k \in 1 .. Len(s) : s[k] = at + k

LEMMA PartCounts ==
  ASSUME NEW a \in Nat, NEW n \in Nat, a + n <= Size
  PROVE  Counting(D!Part(a, a + n), a) /\ Len(D!Part(a, a + n)) = n
<1>1. D!Whole \in Seq(Nat) /\ Len(D!Whole) = Size /\ \A i \in 1 .. Size : D!Whole[i] = i
  BY DownloadAssumption DEF D!Whole
<1>2. /\ SubSeq(D!Whole, a + 1, a + n) \in Seq(Nat)
      /\ Len(SubSeq(D!Whole, a + 1, a + n)) = n
      /\ \A k \in 1 .. n : SubSeq(D!Whole, a + 1, a + n)[k] = D!Whole[a + k]
  <2> HIDE DEF D!Whole
  <2>1. Size \in Nat
    BY DownloadAssumption
  <2> QED BY <1>1, <2>1
<1> QED BY <1>1, <1>2, DownloadAssumption DEF D!Part, Counting

LEMMA CountsTo ==
  ASSUME NEW s, NEW at \in Nat, Counting(s, at), NEW t, Counting(t, at + Len(s))
  PROVE  Counting(s \o t, at) /\ Len(s \o t) = Len(s) + Len(t)
  BY DEF Counting

LEMMA AllCounts ==
  ASSUME NEW s, Counting(s, 0), Len(s) = Size
  PROVE  s = D!Whole
<1>1. D!Whole \in Seq(Nat) /\ Len(D!Whole) = Size /\ \A i \in 1 .. Size : D!Whole[i] = i
  BY DownloadAssumption DEF D!Whole
<1> QED BY <1>1, SeqEqual, DownloadAssumption DEF Counting

(* The chunks of a queue, from a byte to another.                          *)
QueuedFrom(q, from, to) ==
  /\ q \in Seq(Seq(Nat))
  /\ \E e \in [1 .. Len(q) + 1 -> 0 .. Size] :
       /\ e[1] = from /\ e[Len(q) + 1] = to
       /\ \A i, j \in 1 .. Len(q) + 1 : i <= j => e[i] <= e[j]
       /\ \A i \in 1 .. Len(q) : Counting(q[i], e[i]) /\ e[i + 1] = e[i] + Len(q[i])

LEMMA NothingQueued ==
  ASSUME NEW t \in 0 .. Size
  PROVE  QueuedFrom(<<>>, t, t)
<1> DEFINE e == [i \in {1} |-> t]
<1>1. Len(<<>>) = 0 /\ <<>> \in Seq(Seq(Nat)) /\ 1 .. 0 + 1 = {1}
  OBVIOUS
<1>2. e \in [1 .. Len(<<>>) + 1 -> 0 .. Size] /\ e[1] = t /\ e[Len(<<>>) + 1] = t
  BY <1>1
<1>3. \A i, j \in 1 .. Len(<<>>) + 1 : i <= j => e[i] <= e[j]
  BY <1>1, <1>2
<1>4. 1 .. Len(<<>>) = {}
  BY <1>1
<1> HIDE DEF e
<1> QED BY <1>1, <1>2, <1>3, <1>4 DEF QueuedFrom

LEMMA QueueBounds ==
  ASSUME NEW q, NEW s, NEW t, QueuedFrom(q, s, t)
  PROVE  s \in 0 .. Size /\ t \in 0 .. Size /\ s <= t /\ (q = <<>> => s = t)
<1>1. PICK e \in [1 .. Len(q) + 1 -> 0 .. Size] :
       /\ e[1] = s /\ e[Len(q) + 1] = t
       /\ \A i, j \in 1 .. Len(q) + 1 : i <= j => e[i] <= e[j]
  BY DEF QueuedFrom
<1>2. Len(q) \in Nat /\ 1 \in 1 .. Len(q) + 1 /\ Len(q) + 1 \in 1 .. Len(q) + 1
  BY DEF QueuedFrom
<1>3. s \in 0 .. Size /\ t \in 0 .. Size /\ s <= t
  BY <1>1, <1>2
<1>4. q = <<>> => Len(q) + 1 = 1
  OBVIOUS
<1> QED BY <1>1, <1>3, <1>4

LEMMA QueueOne ==
  ASSUME NEW q, NEW s, NEW t, QueuedFrom(q, s, t), NEW c, Counting(c, t), t + Len(c) <= Size
  PROVE  QueuedFrom(Append(q, c), s, t + Len(c))
<1>1. PICK e \in [1 .. Len(q) + 1 -> 0 .. Size] :
       /\ e[1] = s /\ e[Len(q) + 1] = t
       /\ \A i, j \in 1 .. Len(q) + 1 : i <= j => e[i] <= e[j]
       /\ \A i \in 1 .. Len(q) : Counting(q[i], e[i]) /\ e[i + 1] = e[i] + Len(q[i])
  BY DEF QueuedFrom
<1>2. q \in Seq(Seq(Nat)) /\ c \in Seq(Nat) /\ Len(q) \in Nat /\ Len(c) \in Nat /\ t \in 0 .. Size
  BY <1>1 DEF QueuedFrom, Counting
<1> DEFINE r == Append(q, c)
           f == [i \in 1 .. Len(q) + 2 |-> IF i <= Len(q) + 1 THEN e[i] ELSE t + Len(c)]
<1>3. /\ r \in Seq(Seq(Nat)) /\ Len(r) = Len(q) + 1
      /\ r[Len(q) + 1] = c /\ \A i \in 1 .. Len(q) : r[i] = q[i]
  BY <1>2
<1>4. f \in [1 .. Len(q) + 2 -> 0 .. Size]
  <2>1. t + Len(c) \in 0 .. Size
    BY <1>2, QueueBounds
  <2>2. \A i \in 1 .. Len(q) + 1 : e[i] \in 0 .. Size
    BY <1>1
  <2>3. \A i \in 1 .. Len(q) + 2 : i <= Len(q) + 1 => i \in 1 .. Len(q) + 1
    BY <1>2
  <2> QED BY <2>1, <2>2, <2>3
<1>5. f[1] = s /\ f[Len(q) + 2] = t + Len(c) /\ f[Len(q) + 1] = t
  BY <1>1, <1>2
<1>6. ASSUME NEW i \in 1 .. Len(q) + 2, NEW j \in 1 .. Len(q) + 2, i <= j PROVE f[i] <= f[j]
  <2>1. ASSUME NEW k \in 1 .. Len(q) + 1 PROVE e[k] <= t /\ e[k] \in Nat
    <3>1. Len(q) + 1 \in 1 .. Len(q) + 1 /\ k <= Len(q) + 1
      BY <1>2
    <3>2. e[k] \in 0 .. Size
      BY <1>1
    <3> QED BY <1>1, <3>1, <3>2
  <2> QED BY <1>1, <1>2, <1>6, <2>1
<1>7. ASSUME NEW i \in 1 .. Len(q) + 1
      PROVE  Counting(r[i], f[i]) /\ f[i + 1] = f[i] + Len(r[i])
  <2>1. CASE i \in 1 .. Len(q)
    <3>1. r[i] = q[i]
      BY <1>3, <2>1
    <3>2. /\ i \in 1 .. Len(q) + 2 /\ i <= Len(q) + 1
          /\ i + 1 \in 1 .. Len(q) + 2 /\ i + 1 <= Len(q) + 1
      BY <1>2, <2>1
    <3>3. f[i] = e[i] /\ f[i + 1] = e[i + 1]
      BY <3>2
    <3> HIDE DEF f, r
    <3> QED BY <1>1, <2>1, <3>1, <3>3
  <2>2. CASE i = Len(q) + 1
    <3>1. r[i] = c /\ f[i] = t /\ f[i + 1] = t + Len(c)
      <4>1. i + 1 = Len(q) + 2
        BY <1>2, <2>2
      <4> HIDE DEF f, r
      <4> QED BY <1>3, <1>5, <2>2, <4>1
    <3> HIDE DEF f, r
    <3> QED BY <1>2, <3>1
  <2> QED BY <1>2, <2>1, <2>2
<1>8. Len(r) + 1 = Len(q) + 2
  BY <1>2, <1>3
<1> HIDE DEF f, r
<1> QED BY <1>3, <1>4, <1>5, <1>6, <1>7, <1>8 DEF QueuedFrom, r

LEMMA TakeOne ==
  ASSUME NEW q, NEW s, NEW t, QueuedFrom(q, s, t), q # <<>>
  PROVE  Counting(Head(q), s) /\ QueuedFrom(Tail(q), s + Len(Head(q)), t)
<1>1. PICK e \in [1 .. Len(q) + 1 -> 0 .. Size] :
       /\ e[1] = s /\ e[Len(q) + 1] = t
       /\ \A i, j \in 1 .. Len(q) + 1 : i <= j => e[i] <= e[j]
       /\ \A i \in 1 .. Len(q) : Counting(q[i], e[i]) /\ e[i + 1] = e[i] + Len(q[i])
  BY DEF QueuedFrom
<1>2. q \in Seq(Seq(Nat)) /\ Len(q) \in Nat \ {0}
  BY DEF QueuedFrom
<1> DEFINE r == Tail(q)
           f == [i \in 1 .. Len(q) |-> e[i + 1]]
<1>3. /\ r \in Seq(Seq(Nat)) /\ Len(r) = Len(q) - 1 /\ Head(q) = q[1]
      /\ \A i \in 1 .. Len(q) - 1 : r[i] = q[i + 1]
  BY <1>2
<1>4. /\ f \in [1 .. Len(r) + 1 -> 0 .. Size] /\ f[Len(r) + 1] = t
      /\ f[1] = s + Len(Head(q))
  <2>1. \A i \in 1 .. Len(q) : i + 1 \in 1 .. Len(q) + 1
    BY <1>2
  <2>2. Len(r) + 1 = Len(q) /\ 1 \in 1 .. Len(q)
    BY <1>2, <1>3
  <2>3. f \in [1 .. Len(q) -> 0 .. Size]
    BY <1>1, <2>1
  <2>4. f[Len(q)] = t /\ f[1] = e[1 + 1]
    BY <1>1, <1>2
  <2> QED BY <1>1, <1>2, <1>3, <2>2, <2>3, <2>4
<1>5. ASSUME NEW i \in 1 .. Len(r) + 1, NEW j \in 1 .. Len(r) + 1, i <= j PROVE f[i] <= f[j]
  <2>1. i \in 1 .. Len(q) /\ j \in 1 .. Len(q)
    BY <1>2, <1>3
  <2>2. i + 1 \in 1 .. Len(q) + 1 /\ j + 1 \in 1 .. Len(q) + 1 /\ i + 1 <= j + 1
    BY <1>2, <1>5, <2>1
  <2>3. f[i] = e[i + 1] /\ f[j] = e[j + 1]
    BY <2>1
  <2> QED BY <1>1, <2>2, <2>3
<1>6. \A i \in 1 .. Len(r) : Counting(r[i], f[i]) /\ f[i + 1] = f[i] + Len(r[i])
  <2> TAKE i \in 1 .. Len(r)
  <2>1. i + 1 \in 1 .. Len(q) /\ i \in 1 .. Len(q) /\ i \in 1 .. Len(q) - 1
    BY <1>2, <1>3
  <2>2. r[i] = q[i + 1] /\ f[i] = e[i + 1] /\ f[i + 1] = e[(i + 1) + 1]
    BY <1>3, <2>1
  <2> QED BY <1>1, <2>1, <2>2
<1>7. Counting(Head(q), s)
  <2>1. 1 \in 1 .. Len(q)
    BY <1>2
  <2> QED BY <1>1, <1>3, <2>1
<1> HIDE DEF f, r
<1> QED BY <1>2, <1>3, <1>4, <1>5, <1>6, <1>7 DEF QueuedFrom, r
-----------------------------------------------------------------------------
(* The invariant. *)
Streaming == {"stream", "await", "mismatch", "commit", "mark"}

JobType ==
  [pc : {"none", "hash", "fetch"} \cup Streaming, resume : Nat, digest : Seq(Nat),
   received : 0 .. Size, writer : Writers \cup {None}]
TaskType ==
  [pc : {"none", "open", "recv", "over", "failed"}, from : Nat, inode : D!Inodes \cup {None},
   queue : Seq(Seq(Nat)), closed : BOOLEAN, pending : Seq(Nat), cursor : Nat]

Types ==
  /\ status \in {"missing", "pending", "ready"}
  /\ data \in [D!Inodes -> Seq(Nat)]
  /\ temp \in D!Inodes \cup {None} /\ final \in D!Inodes \cup {None}
  /\ job \in JobType /\ task \in [Writers -> TaskType]
  /\ late \subseteq Writers /\ crossed \subseteq D!Inodes
  /\ cutShort \in BOOLEAN /\ missized \in BOOLEAN

(* The writer whose turn it is: of the download, or of the last one that   *)
(* ended.                                                                  *)
Current ==
  {w \in Writers \ late :
     \/ task[w].pc \in {"open", "recv"}
     \/ task[w].pc = "over" /\ job.pc # "mark"}

Owned ==
  /\ job.pc \in Streaming =>
       job.writer \in Writers \ late /\ task[job.writer].pc # "none"
  /\ job.pc \notin Streaming => job.writer = None
  /\ \A w \in Writers : task[w].pc \in {"over", "failed"} => w = job.writer
  /\ \A w \in Writers : task[w].pc \in {"recv", "over"} => task[w].inode \in D!Inodes
  /\ job.pc # "none" => \A w \in Current : w = job.writer
  /\ \A v, w \in Current : v = w
  /\ job.pc \in {"commit", "mark"} =>
       task[job.writer].pc = "over" /\ task[job.writer].cursor = job.received
  /\ job.pc \in Streaming => task[job.writer].from = job.resume
  /\ temp # None => temp # final
  /\ status = "ready" \/ job.pc = "mark" => final # None

(* The bytes it has written, gathered and been sent are one stretch of the *)
(* file, up to what the download received.                                 *)
Bound(w, t) == IF w = job.writer THEN t = job.received ELSE t < Size \/ cutShort

Writes ==
  \A w \in Current :
    /\ task[w].pc = "open" =>
         /\ task[w].cursor = task[w].from /\ task[w].pending = <<>>
         /\ task[w].from > 0 =>
              temp # None /\ (temp \notin crossed => Len(data[temp]) = task[w].from)
    /\ task[w].pc # "open" =>
         task[w].inode = temp /\ (temp \notin crossed => Len(data[temp]) = task[w].cursor)
    /\ Counting(task[w].pending, task[w].cursor)
    /\ \E t \in 0 .. Size :
         QueuedFrom(task[w].queue, task[w].cursor + Len(task[w].pending), t) /\ Bound(w, t)

(* The files that no late writer has changed.                              *)
Files ==
  /\ final # None /\ final \notin crossed => data[final] = D!Whole
  /\ temp # None /\ temp \notin crossed =>
       Counting(data[temp], 0) /\ (Len(data[temp]) < Size \/ cutShort \/ D!HasAll)
  /\ job.pc \in {"hash", "fetch"} /\ job.resume > 0 =>
       temp # None /\ (temp \notin crossed => Len(data[temp]) = job.resume)
  /\ job.pc \in Streaming \ {"mark"} /\ job.resume > 0 => temp # None

(* What was hashed.                                                        *)
Hashed ==
  /\ job.pc = "hash" => job.resume > 0
  /\ job.pc \in {"fetch"} \cup Streaming
     /\ (job.resume = 0 \/ (IF job.pc = "mark" THEN final ELSE temp) \notin crossed) =>
       /\ Counting(job.digest, 0)
       /\ Len(job.digest) = IF job.pc = "fetch" THEN job.resume ELSE job.received
  /\ job.pc \in {"await", "commit", "mark"} => job.digest = D!Whole
  /\ job.pc = "mismatch" => job.received < Size \/ (job.resume > 0 /\ temp \in crossed)

Sized == status = "ready" /\ ~missized => recorded = Size

DownloadInv == Types /\ Owned /\ Writes /\ Files /\ Hashed /\ Sized

LEMMA Constants ==
         /\ Size \in Nat /\ Size > 0 /\ None \notin D!Inodes /\ D!Inodes \subseteq Nat
         /\ None \notin Writers /\ D!Whole \in Seq(Nat) /\ Len(D!Whole) = Size
<1>1. Cardinality(Writers) \in Nat
  BY FS_CardinalityType, DownloadAssumption
<1>2. D!Inodes \subseteq Nat
  BY <1>1, SameCardinality DEF D!Inodes
<1>3. D!Whole \in Seq(Nat) /\ Len(D!Whole) = Size
  BY DownloadAssumption DEF D!Whole
<1>4. Size \in Nat /\ Size > 0
  BY DownloadAssumption
<1>5. None \notin D!Inodes /\ None \notin Writers
  BY <1>2, DownloadAssumption
<1> QED BY <1>2, <1>3, <1>4, <1>5

LEMMA NoneTypes ==
         /\ D!NoJob \in JobType /\ D!NoTask \in TaskType
         /\ D!NoJob.pc = "none" /\ D!NoJob.writer = None /\ D!NoJob.resume = 0
         /\ D!NoTask.pc = "none"
<1>1. 0 \in 0 .. Size /\ <<>> \in Seq(Nat) /\ <<>> \in Seq(Seq(Nat))
  BY Constants
<1> QED BY <1>1 DEF D!NoJob, D!NoTask, JobType, TaskType

LEMMA InitInv == D!Init => DownloadInv
<1> SUFFICES ASSUME D!Init PROVE DownloadInv
  OBVIOUS
<1>1. Types
  <2>1. <<>> \in Seq(Nat)
    OBVIOUS
  <2>2. data \in [D!Inodes -> Seq(Nat)]
    BY <2>1 DEF D!Init
  <2>3. task \in [Writers -> TaskType] /\ job \in JobType
    BY NoneTypes DEF D!Init
  <2> QED BY <2>2, <2>3 DEF D!Init, Types
<1>2. Current = {}
  BY DEF D!Init, Current, D!NoTask
<1>3. Owned
  BY <1>2, Constants DEF D!Init, Owned, D!NoJob, D!NoTask, Streaming
<1>4. Writes
  BY <1>2 DEF Writes
<1>5. Files /\ Hashed /\ Sized
  BY DEF D!Init, Files, Hashed, Sized, D!NoJob, Streaming
<1> QED BY <1>1, <1>3, <1>4, <1>5 DEF DownloadInv

(* A download ends and leaves its writer behind.                           *)
Left(v, w) ==
  /\ w.pc = IF v.pc \in {"over", "failed"} THEN "none" ELSE v.pc
  /\ w.pc # "none" =>
       /\ w.from = v.from /\ w.inode = v.inode /\ w.cursor = v.cursor
       /\ w.queue = v.queue /\ w.pending = v.pending

LEMMA Ended ==
  ASSUME Types, Owned, D!EndJob, late' = late
  PROVE  /\ job' = D!NoJob /\ task' \in [Writers -> TaskType]
         /\ \A w \in Writers : Left(task[w], task'[w])
         /\ Current' \subseteq Current /\ \A w \in Current' : task[w].pc \in {"open", "recv"}
<1>0. D!NoTask \in TaskType /\ D!NoTask.pc = "none" /\ D!NoJob.pc = "none"
  BY NoneTypes
<1>1. job' = D!NoJob
  BY DEF D!EndJob
<1>2. ASSUME NEW w \in Writers, task[w].pc \notin {"over", "failed"}
      PROVE  Left(task[w], task[w]) /\ Left(task[w], [task[w] EXCEPT !.closed = TRUE])
  BY <1>2 DEF Left, Types, TaskType
<1>3. task' \in [Writers -> TaskType] /\ \A w \in Writers : Left(task[w], task'[w])
  <2>1. CASE job.writer = None
    <3>1. task' = task /\ \A w \in Writers : task[w].pc \notin {"over", "failed"}
      BY <2>1, Constants DEF D!EndJob, Owned
    <3> QED BY <1>2, <3>1 DEF Types
  <2>2. CASE job.writer \in Writers
    <3> DEFINE w0 == job.writer
               t == IF task[w0].pc \in {"over", "failed"} THEN D!NoTask
                    ELSE [task[w0] EXCEPT !.closed = TRUE]
    <3>1. task' = [task EXCEPT ![w0] = t]
      BY <2>2, Constants DEF D!EndJob
    <3>2. \A w \in Writers \ {w0} : task[w].pc \notin {"over", "failed"}
      BY DEF Owned
    <3>3. t \in TaskType
      <4>1. [task[w0] EXCEPT !.closed = TRUE] \in TaskType
        BY <2>2 DEF Types, TaskType
      <4> QED BY <1>0, <4>1
    <3>4. Left(task[w0], t)
      BY <1>0, <1>2, <2>2 DEF Left
    <3> HIDE DEF t
    <3>5. task'[w0] = t /\ \A w \in Writers \ {w0} : task'[w] = task[w]
      BY <2>2, <3>1 DEF Types
    <3>6. task' \in [Writers -> TaskType]
      BY <3>1, <3>3 DEF Types
    <3> QED BY <1>2, <3>2, <3>4, <3>5, <3>6
  <2> QED BY <2>1, <2>2 DEF Types, JobType
<1>4. ASSUME NEW w \in Current' PROVE w \in Current /\ task[w].pc \in {"open", "recv"}
  <2>1. w \in Writers /\ w \notin late /\ task'[w].pc \in {"open", "recv", "over"}
    BY <1>4 DEF Current
  <2>2. task[w].pc \in {"open", "recv"}
    BY <1>3, <2>1 DEF Left
  <2> QED BY <2>1, <2>2 DEF Current
<1> QED BY <1>1, <1>3, <1>4

-----------------------------------------------------------------------------
(* Handlers and the download. *)
LEMMA Idle ==
  ASSUME DownloadInv, UNCHANGED <<status, recorded, D!diskVars, job, task, D!history>>
  PROVE  DownloadInv'
<1> USE DEF DownloadInv, D!diskVars, D!history
<1>1. Types' /\ Sized'
  BY DEF Types, Sized
<1>2. Current' = Current
  BY DEF Current
<1>3. Owned'
  BY <1>2 DEF Owned
<1>4. Writes'
  BY <1>2 DEF Writes, Bound
<1>5. Files' /\ Hashed'
  BY DEF Files, Hashed, D!HasAll
<1> QED BY <1>1, <1>3, <1>4, <1>5

LEMMA StartInv ==
  ASSUME DownloadInv, D!Start
  PROVE  DownloadInv'
<1> USE DEF DownloadInv
<1> DEFINE j == [D!NoJob EXCEPT !.pc = IF D!TempLen > 0 THEN "hash" ELSE "fetch",
                                !.resume = D!TempLen]
<1>1. /\ job.pc = "none" /\ status' = (IF status = "missing" THEN "pending" ELSE status)
      /\ job' = j /\ late' = {w \in Writers : task[w].pc \in {"open", "recv"}}
      /\ UNCHANGED <<recorded, data, temp, final, task, crossed, cutShort, missized>>
  BY DEF D!Start, D!diskVars
<1>2. /\ D!TempLen \in Nat /\ (temp = None => D!TempLen = 0)
      /\ temp # None => D!TempLen = Len(data[temp])
  BY DEF D!TempLen, Types
<1>3. /\ j.pc = (IF D!TempLen > 0 THEN "hash" ELSE "fetch") /\ j.resume = D!TempLen
      /\ j.digest = <<>> /\ j.received = 0 /\ j.writer = None
      /\ j.digest \in Seq(Nat)
  BY DEF D!NoJob
<1>4. j \in JobType
  BY <1>2, NoneTypes DEF JobType
<1> HIDE DEF j
<1>5. Types'
  BY <1>1, <1>4 DEF Types
<1>6. job.writer = None /\ \A w \in Writers : task[w].pc \notin {"over", "failed"}
  BY <1>1, Constants DEF Owned, Streaming
<1>7. Current' = {}
  BY <1>1, <1>6 DEF Current
<1>8. Owned'
  BY <1>1, <1>3, <1>6, <1>7 DEF Owned, Streaming
<1>9. Writes'
  BY <1>7 DEF Writes
<1>10. Files'
  BY <1>1, <1>2, <1>3 DEF Files, D!HasAll, Streaming
<1>11. Hashed'
  BY <1>1, <1>2, <1>3 DEF Hashed, Streaming, Counting
<1>12. Sized'
  BY <1>1 DEF Sized
<1> QED BY <1>5, <1>8, <1>9, <1>10, <1>11, <1>12

LEMMA HashPrefixInv ==
  ASSUME DownloadInv, D!HashPrefix
  PROVE  DownloadInv'
<1> USE DEF DownloadInv
<1> DEFINE j == [job EXCEPT !.pc = "fetch", !.digest = data[temp]]
<1>1. /\ job.pc = "hash" /\ job' = j
      /\ UNCHANGED <<status, recorded, data, temp, final, task, late, crossed, cutShort, missized>>
  BY DEF D!HashPrefix, D!diskVars, D!rowVars, D!history
<1>2. temp # None /\ temp \in D!Inodes /\ data[temp] \in Seq(Nat) /\ job.resume > 0
  BY <1>1 DEF Files, Hashed, Types
<1>3. /\ j.pc = "fetch" /\ j.digest = data[temp] /\ j.resume = job.resume
      /\ j.received = job.received /\ j.writer = job.writer /\ j \in JobType
  BY <1>2 DEF Types, JobType
<1> HIDE DEF j
<1>4. Types'
  BY <1>1, <1>3 DEF Types
<1>5. Current' = Current
  BY <1>1, <1>3 DEF Current
<1>6. Owned'
  BY <1>1, <1>3, <1>5 DEF Owned, Streaming
<1>7. Writes'
  BY <1>1, <1>3, <1>5 DEF Writes, Bound
<1>8. Files'
  BY <1>1, <1>3 DEF Files, D!HasAll, Streaming
<1>9. Hashed'
  BY <1>1, <1>2, <1>3 DEF Hashed, Streaming, Files, Types, JobType
<1>10. Sized'
  BY <1>1 DEF Sized
<1> QED BY <1>4, <1>6, <1>7, <1>8, <1>9, <1>10

LEMMA FetchInv ==
  ASSUME DownloadInv, NEW w \in Writers, D!Fetch(w)
  PROVE  DownloadInv'
<1> USE DEF DownloadInv
<1> DEFINE j == [job EXCEPT !.pc = "stream", !.received = job.resume, !.writer = w]
           t == [D!NoTask EXCEPT !.pc = "open", !.from = job.resume, !.cursor = job.resume]
<1>1. /\ job.pc = "fetch" /\ job.resume < Size /\ task[w].pc = "none"
      /\ job' = j /\ task' = [task EXCEPT ![w] = t] /\ late' = late \ {w}
      /\ UNCHANGED <<status, recorded, data, temp, final, crossed, cutShort, missized>>
  BY DEF D!Fetch, D!diskVars, D!rowVars
<1>2. job.resume \in Nat /\ job.resume \in 0 .. Size /\ job.writer = None
  BY <1>1, Constants DEF Types, JobType, Owned, Streaming
<1>3. /\ j.pc = "stream" /\ j.digest = job.digest /\ j.resume = job.resume
      /\ j.received = job.resume /\ j.writer = w /\ j \in JobType
  BY <1>2 DEF Types, JobType, Streaming
<1>4. /\ t.pc = "open" /\ t.from = job.resume /\ t.cursor = job.resume
      /\ t.queue = <<>> /\ t.pending = <<>> /\ t \in TaskType
  <2>1. <<>> \in Seq(Nat) /\ <<>> \in Seq(Seq(Nat))
    OBVIOUS
  <2> QED BY <1>2, <2>1 DEF D!NoTask, TaskType
<1> HIDE DEF j, t
<1>5. task'[w] = t /\ \A v \in Writers \ {w} : task'[v] = task[v]
  BY <1>1 DEF Types
<1>6. Types'
  BY <1>1, <1>3, <1>4 DEF Types
<1>7. Current' = {w}
  <2>1. \A v \in Writers \ {w} : v \in Current' => v \in Current
    BY <1>1, <1>3, <1>5 DEF Current
  <2>2. Current = {}
    BY <1>1, <1>2, Constants DEF Owned, Current
  <2>3. w \in Current'
    BY <1>1, <1>4, <1>5 DEF Current
  <2>4. Current' \subseteq Writers
    BY DEF Current
  <2> QED BY <2>1, <2>2, <2>3, <2>4
<1>8. Owned'
  <2>1. \A v \in Writers : task'[v].pc \notin {"over", "failed"}
    BY <1>1, <1>2, <1>4, <1>5, Constants DEF Owned
  <2> QED BY <1>1, <1>3, <1>4, <1>5, <1>7, <2>1 DEF Owned, Streaming
<1>9. Writes'
  <2>1. Counting(t.pending, t.cursor)
    BY <1>4 DEF Counting, TaskType
  <2>2. QueuedFrom(t.queue, t.cursor + Len(t.pending), job.resume)
    BY <1>2, <1>4, NothingQueued
  <2>3. t.from > 0 => temp # None /\ (temp \notin crossed => Len(data[temp]) = t.from)
    BY <1>1, <1>4 DEF Files
  <2> QED BY <1>1, <1>2, <1>3, <1>4, <1>5, <1>7, <2>1, <2>2, <2>3 DEF Writes, Bound
<1>10. Files'
  BY <1>1, <1>3 DEF Files, D!HasAll, Streaming
<1>11. Hashed'
  BY <1>1, <1>3 DEF Hashed, Streaming
<1>12. Sized'
  BY <1>1 DEF Sized
<1> QED BY <1>6, <1>8, <1>9, <1>10, <1>11, <1>12

LEMMA UnsatisfiableInv ==
  ASSUME DownloadInv, D!Unsatisfiable
  PROVE  DownloadInv'
<1> USE DEF DownloadInv
<1>1. /\ job.pc = "fetch" /\ job.resume >= Size /\ D!EndJob /\ late' = late
      /\ UNCHANGED <<status, recorded, data, temp, final, crossed, cutShort, missized>>
  BY DEF D!Unsatisfiable, D!diskVars, D!rowVars, D!history
<1>2. /\ job.writer = None /\ task' = task /\ job' = D!NoJob
      /\ D!NoJob.pc = "none" /\ D!NoJob.writer = None
  BY <1>1, NoneTypes DEF D!EndJob, Owned, Streaming
<1>3. Types'
  BY <1>1, <1>2, NoneTypes DEF Types
<1>4. Current' = {}
  BY <1>1, <1>2, Constants DEF Current, Owned
<1>5. Owned'
  BY <1>1, <1>2, <1>4 DEF Owned, Streaming
<1>6. Writes'
  BY <1>4 DEF Writes
<1>7. Files' /\ Hashed'
  BY <1>1, <1>2 DEF Files, Hashed, D!HasAll, Streaming
<1>8. Sized'
  BY <1>1 DEF Sized
<1> QED BY <1>3, <1>5, <1>6, <1>7, <1>8

LEMMA RestartInv ==
  ASSUME DownloadInv, D!Restart
  PROVE  DownloadInv'
<1> USE DEF DownloadInv
<1> DEFINE j == [job EXCEPT !.resume = 0, !.digest = <<>>]
<1>1. /\ job.pc = "fetch" /\ job' = j /\ temp' = None
      /\ UNCHANGED <<status, recorded, data, final, task, late, crossed, cutShort, missized>>
  BY DEF D!Restart, D!rowVars, D!history
<1>2. /\ j.pc = job.pc /\ j.digest = <<>> /\ j.resume = 0
      /\ j.received = job.received /\ j.writer = job.writer /\ j \in JobType
  <2>1. <<>> \in Seq(Nat)
    OBVIOUS
  <2> QED BY <2>1 DEF Types, JobType
<1> HIDE DEF j
<1>3. Types'
  BY <1>1, <1>2 DEF Types
<1>4. Current' = {}
  BY <1>1, <1>2, Constants DEF Current, Owned, Streaming
<1>5. Owned'
  BY <1>1, <1>2, <1>4 DEF Owned, Streaming
<1>6. Writes'
  BY <1>4 DEF Writes
<1>7. Files' /\ Hashed'
  BY <1>1, <1>2 DEF Files, Hashed, D!HasAll, Streaming, Counting
<1>8. Sized'
  BY <1>1 DEF Sized
<1> QED BY <1>3, <1>5, <1>6, <1>7, <1>8

LEMMA ReceiveInv ==
  ASSUME DownloadInv, NEW n \in ChunkSizes, D!Receive(n)
  PROVE  DownloadInv'
<1> USE DEF DownloadInv
<1> DEFINE w == job.writer
           chunk == D!Part(job.received, job.received + n)
           j == [job EXCEPT !.digest = @ \o chunk, !.received = @ + n]
           t == [task[w] EXCEPT !.queue = Append(@, chunk)]
<1>1. /\ job.pc = "stream" /\ job.received + n <= Size /\ task[w].pc # "failed"
      /\ job' = j /\ task' = [task EXCEPT ![w] = t]
      /\ UNCHANGED <<status, recorded, data, temp, final, late, crossed, cutShort, missized>>
  BY DEF D!Receive, D!diskVars, D!rowVars, D!history
<1>2. n \in Nat /\ job.received \in Nat /\ job.received + n \in 0 .. Size
  BY <1>1, DownloadAssumption DEF Types, JobType
<1>3. /\ w \in Writers \ late /\ task[w].pc \in {"open", "recv", "over"} /\ w \in Current
  BY <1>1 DEF Owned, Streaming, Types, TaskType, Current
<1>4. Counting(chunk, job.received) /\ Len(chunk) = n /\ chunk \in Seq(Nat)
  BY <1>1, <1>2, PartCounts DEF Counting
<1> HIDE DEF chunk
<1>5. /\ j.pc = "stream" /\ j.digest = job.digest \o chunk /\ j.resume = job.resume
      /\ j.received = job.received + n /\ j.writer = w /\ j \in JobType
  <2>1. job.digest \o chunk \in Seq(Nat)
    BY <1>4 DEF Types, JobType
  <2> QED BY <1>1, <1>2, <2>1 DEF Types, JobType
<1>6. /\ t.pc = task[w].pc /\ t.from = task[w].from /\ t.cursor = task[w].cursor
      /\ t.pending = task[w].pending /\ t.queue = Append(task[w].queue, chunk)
      /\ t.inode = task[w].inode /\ t \in TaskType
  <2>1. task[w] \in TaskType
    BY <1>3 DEF Types
  <2>2. Append(task[w].queue, chunk) \in Seq(Seq(Nat))
    BY <1>4, <2>1 DEF TaskType
  <2> QED BY <2>1, <2>2 DEF TaskType
<1> HIDE DEF j, t
<1>7. task'[w] = t /\ \A v \in Writers \ {w} : task'[v] = task[v]
  BY <1>1, <1>3 DEF Types
<1>8. Types'
  BY <1>1, <1>3, <1>5, <1>6 DEF Types
<1>9. Current' = Current /\ Current = {w}
  BY <1>1, <1>3, <1>5, <1>6, <1>7 DEF Current, Owned
<1>10. Owned'
  BY <1>1, <1>3, <1>5, <1>6, <1>7, <1>9 DEF Owned, Streaming
<1>11. Writes'
  <2>1. PICK u \in 0 .. Size :
          QueuedFrom(task[w].queue, task[w].cursor + Len(task[w].pending), u) /\ Bound(w, u)
    BY <1>3 DEF Writes
  <2>2. u = job.received
    BY <2>1 DEF Bound
  <2>3. QueuedFrom(t.queue, t.cursor + Len(t.pending), job.received + n)
    BY <1>1, <1>4, <1>6, <2>1, <2>2, QueueOne
  <2>4. task[w] \in TaskType
    BY <1>3 DEF Types
  <2>5. job'.writer = w /\ job'.received = job.received + n
    BY <1>1, <1>5
  <2> HIDE DEF w
  <2>6. \E x \in 0 .. Size :
          QueuedFrom(t.queue, t.cursor + Len(t.pending), x) /\ x = job'.received
    BY <1>2, <2>3, <2>5
  <2>7. /\ t.pc = "open" =>
              /\ t.cursor = t.from /\ t.pending = <<>>
              /\ t.from > 0 => temp # None /\ (temp \notin crossed => Len(data[temp]) = t.from)
        /\ t.pc # "open" => t.inode = temp /\ (temp \notin crossed => Len(data[temp]) = t.cursor)
        /\ Counting(t.pending, t.cursor)
    BY <1>3, <1>6 DEF Writes
  <2> QED BY <1>1, <1>7, <1>9, <2>5, <2>6, <2>7 DEF Writes, Bound
<1>12. Files'
  BY <1>1, <1>2, <1>5 DEF Files, D!HasAll, Streaming
<1>13. Hashed'
  <2>1. ASSUME Counting(job.digest, 0), Len(job.digest) = job.received
        PROVE  Counting(j.digest, 0) /\ Len(j.digest) = j.received
    BY <1>2, <1>4, <1>5, <2>1, CountsTo
  <2> QED BY <1>1, <1>5, <2>1 DEF Hashed, Streaming
<1>14. Sized'
  BY <1>1 DEF Sized
<1> QED BY <1>8, <1>10, <1>11, <1>12, <1>13, <1>14

LEMMA VerifyInv ==
  ASSUME DownloadInv, D!Verify
  PROVE  DownloadInv'
<1> USE DEF DownloadInv
<1> DEFINE w == job.writer
           j == [job EXCEPT !.pc = IF job.digest = D!Whole THEN "await" ELSE "mismatch"]
           t == [task[w] EXCEPT !.closed = TRUE]
<1>1. /\ job.pc = "stream" /\ job' = j /\ task' = [task EXCEPT ![w] = t]
      /\ UNCHANGED <<status, recorded, data, temp, final, late, crossed, cutShort, missized>>
  BY DEF D!Verify, D!BodyEnds, D!CloseQueue, D!diskVars, D!rowVars, D!history
<1>2. w \in Writers \ late
  BY <1>1 DEF Owned, Streaming
<1>3. /\ j.pc = (IF job.digest = D!Whole THEN "await" ELSE "mismatch")
      /\ j.digest = job.digest /\ j.resume = job.resume
      /\ j.received = job.received /\ j.writer = w /\ j \in JobType
  BY DEF Types, JobType, Streaming
<1>4. /\ t.pc = task[w].pc /\ t.from = task[w].from /\ t.cursor = task[w].cursor
      /\ t.pending = task[w].pending /\ t.queue = task[w].queue
      /\ t.inode = task[w].inode /\ t \in TaskType
  BY <1>2 DEF Types, TaskType
<1> HIDE DEF j, t
<1>5. task'[w] = t /\ \A v \in Writers \ {w} : task'[v] = task[v]
  BY <1>1, <1>2 DEF Types
<1>6. Types'
  BY <1>1, <1>2, <1>3, <1>4 DEF Types
<1>7. Current' = Current
  BY <1>1, <1>2, <1>3, <1>4, <1>5 DEF Current
<1>8. Owned'
  BY <1>1, <1>2, <1>3, <1>4, <1>5, <1>7 DEF Owned, Streaming
<1>9. Writes'
  <2>1. \A v \in Writers : /\ task'[v].pc = task[v].pc /\ task'[v].from = task[v].from
                           /\ task'[v].cursor = task[v].cursor
                           /\ task'[v].pending = task[v].pending
                           /\ task'[v].queue = task[v].queue /\ task'[v].inode = task[v].inode
    BY <1>4, <1>5
  <2>2. Current \subseteq Writers
    BY DEF Current
  <2> QED BY <1>1, <1>3, <1>7, <2>1, <2>2 DEF Writes, Bound
<1>10. job.received = Size /\ (job.resume = 0 \/ temp \notin crossed) => j.pc = "await"
  BY <1>1, <1>3, AllCounts DEF Hashed, Streaming
<1>11. Files'
  <2>1. temp \notin crossed /\ D!HasAll => D!HasAll'
    BY <1>1, <1>3, <1>10 DEF D!HasAll
  <2> QED BY <1>1, <1>3, <2>1 DEF Files, Streaming
<1>12. Hashed'
  <2>1. job.received \in 0 .. Size
    BY DEF Types, JobType
  <2>2. j.pc = "mismatch" => j.received < Size \/ (j.resume > 0 /\ temp \in crossed)
    <3> SUFFICES ASSUME job.received = Size, j.pc = "mismatch"
                 PROVE  job.resume > 0 /\ temp \in crossed
      BY <1>3, <2>1, Constants
    <3>1. job.resume # 0 /\ temp \in crossed
      BY <1>10
    <3>2. job.resume \in Nat
      BY DEF Types, JobType
    <3> QED BY <3>1, <3>2
  <2> QED BY <1>1, <1>3, <2>2 DEF Hashed, Streaming
<1>13. Sized'
  BY <1>1 DEF Sized
<1> QED BY <1>6, <1>8, <1>9, <1>11, <1>12, <1>13

LEMMA MismatchInv ==
  ASSUME DownloadInv, D!Mismatch
  PROVE  DownloadInv'
<1> USE DEF DownloadInv
<1>1. /\ job.pc = "mismatch" /\ task[job.writer].pc \in {"over", "failed"}
      /\ temp' = None /\ D!EndJob /\ late' = late
      /\ UNCHANGED <<status, recorded, data, final, crossed, cutShort, missized>>
  BY DEF D!Mismatch, D!rowVars, D!history
<1>2. /\ job' = D!NoJob /\ task' \in [Writers -> TaskType]
      /\ \A w \in Writers : Left(task[w], task'[w])
      /\ Current' \subseteq Current /\ \A w \in Current' : task[w].pc \in {"open", "recv"}
  BY <1>1, Ended
<1>3. D!NoJob \in JobType /\ D!NoJob.pc = "none" /\ D!NoJob.writer = None /\ D!NoJob.resume = 0
  BY NoneTypes
<1>4. Types'
  BY <1>1, <1>2, <1>3 DEF Types
<1>5. Current' = {}
  BY <1>1, <1>2 DEF Owned
<1>6. Owned'
  BY <1>1, <1>2, <1>3, <1>5 DEF Owned, Streaming, Left
<1>7. Writes'
  BY <1>5 DEF Writes
<1>8. Files' /\ Hashed'
  BY <1>1, <1>2, <1>3 DEF Files, Hashed, D!HasAll, Streaming
<1>9. Sized'
  BY <1>1 DEF Sized
<1> QED BY <1>4, <1>6, <1>7, <1>8, <1>9

LEMMA AwaitInv ==
  ASSUME DownloadInv, D!AwaitWriter
  PROVE  DownloadInv'
<1> USE DEF DownloadInv
<1> DEFINE j == [job EXCEPT !.pc = "commit"]
<1>1. /\ job.pc = "await" /\ job' = j /\ task[job.writer].pc = "over"
      /\ task[job.writer].cursor = job.received
      /\ UNCHANGED <<status, recorded, data, temp, final, task, late, crossed, cutShort, missized>>
  BY DEF D!AwaitWriter, D!diskVars, D!rowVars, D!history
<1>2. /\ j.pc = "commit" /\ j.digest = job.digest /\ j.resume = job.resume
      /\ j.received = job.received /\ j.writer = job.writer /\ j \in JobType
  BY DEF Types, JobType, Streaming
<1> HIDE DEF j
<1>3. Types'
  BY <1>1, <1>2 DEF Types
<1>4. Current' = Current
  BY <1>1, <1>2 DEF Current
<1>5. Owned'
  BY <1>1, <1>2, <1>4 DEF Owned, Streaming
<1>6. Writes'
  BY <1>1, <1>2, <1>4 DEF Writes, Bound
<1>7. Files' /\ Hashed'
  BY <1>1, <1>2 DEF Files, Hashed, D!HasAll, Streaming
<1>8. Sized'
  BY <1>1 DEF Sized
<1> QED BY <1>3, <1>5, <1>6, <1>7, <1>8

LEMMA CommitInv ==
  ASSUME DownloadInv, D!Commit
  PROVE  DownloadInv'
<1> USE DEF DownloadInv
<1> DEFINE j == [job EXCEPT !.pc = "mark"]
           w == job.writer
<1>1. /\ job.pc = "commit" /\ job' = j /\ final' = temp /\ temp' = None
      /\ UNCHANGED <<status, recorded, data, task, late, crossed, cutShort, missized>>
  BY DEF D!Commit, D!rowVars, D!history
<1>2. /\ j.pc = "mark" /\ j.digest = job.digest /\ j.resume = job.resume
      /\ j.received = job.received /\ j.writer = w /\ j \in JobType
  BY DEF Types, JobType, Streaming
<1> HIDE DEF j
<1>3. /\ w \in Writers \ late /\ task[w].pc = "over" /\ task[w].cursor = job.received
      /\ w \in Current /\ task[w].inode = temp /\ temp \in D!Inodes /\ temp # None
      /\ temp \notin crossed => Len(data[temp]) = job.received
  <2>1. w \in Writers \ late /\ task[w].pc = "over" /\ task[w].cursor = job.received
        /\ task[w].inode \in D!Inodes
    BY <1>1 DEF Owned, Streaming
  <2>2. w \in Current
    BY <1>1, <2>1 DEF Current
  <2> QED BY <2>1, <2>2, Constants DEF Writes
<1>4. temp \notin crossed => data[temp] = D!Whole /\ job.received = Size
  <2> SUFFICES ASSUME temp \notin crossed
               PROVE  data[temp] = D!Whole /\ job.received = Size
    OBVIOUS
  <2>1. Len(job.digest) = job.received /\ job.digest = D!Whole
    BY <1>1 DEF Hashed, Streaming
  <2>2. job.received = Size
    BY <2>1, Constants
  <2>3. Counting(data[temp], 0) /\ Len(data[temp]) = Size
    BY <1>3, <2>2 DEF Files
  <2> QED BY <2>2, <2>3, AllCounts
<1>5. Types'
  BY <1>1, <1>2 DEF Types
<1>6. Current' = {}
  BY <1>1, <1>2, <1>3 DEF Current, Owned
<1>7. Owned'
  BY <1>1, <1>2, <1>3, <1>6 DEF Owned, Streaming
<1>8. Writes'
  BY <1>6 DEF Writes
<1>9. Files'
  BY <1>1, <1>2, <1>4 DEF Files, Streaming
<1>10. Hashed'
  BY <1>1, <1>2 DEF Hashed, Streaming
<1>11. Sized'
  BY <1>1 DEF Sized
<1> QED BY <1>5, <1>7, <1>8, <1>9, <1>10, <1>11

LEMMA MarkReadyInv ==
  ASSUME DownloadInv, D!MarkReady
  PROVE  DownloadInv'
<1> USE DEF DownloadInv
<1>1. /\ job.pc = "mark" /\ D!EndJob /\ late' = late /\ status' = "ready"
      /\ recorded' = job.received /\ missized' = (final \in crossed)
      /\ UNCHANGED <<data, temp, final, crossed, cutShort>>
  BY DEF D!MarkReady, D!diskVars
<1>2. /\ job' = D!NoJob /\ task' \in [Writers -> TaskType]
      /\ \A w \in Writers : Left(task[w], task'[w])
      /\ Current' \subseteq Current /\ \A w \in Current' : task[w].pc \in {"open", "recv"}
  BY <1>1, Ended
<1>3. D!NoJob \in JobType /\ D!NoJob.pc = "none" /\ D!NoJob.writer = None /\ D!NoJob.resume = 0
  BY NoneTypes
<1>4. Types'
  BY <1>1, <1>2, <1>3 DEF Types
<1>5. Current' = {}
  BY <1>1, <1>2 DEF Owned
<1>6. Owned'
  BY <1>1, <1>2, <1>3, <1>5 DEF Owned, Streaming, Left
<1>7. Writes'
  BY <1>5 DEF Writes
<1>8. Files' /\ Hashed'
  BY <1>1, <1>2, <1>3 DEF Files, Hashed, D!HasAll, Streaming
<1>9. Sized'
  <2>1. final \notin crossed => job.received = Size
    BY <1>1, Constants DEF Hashed, Streaming
  <2> QED BY <1>1, <2>1 DEF Sized
<1> QED BY <1>4, <1>6, <1>7, <1>8, <1>9
LEMMA FailInv ==
  ASSUME DownloadInv, D!Fail
  PROVE  DownloadInv'
<1> USE DEF DownloadInv
<1>1. /\ \/ job.pc \in {"hash", "fetch", "stream", "commit", "mark"}
         \/ job.pc \in {"stream", "await"}
      /\ D!EndJob /\ late' = late /\ cutShort' = (cutShort \/ D!HasAll)
      /\ UNCHANGED <<status, recorded, data, temp, final, crossed, missized>>
  BY DEF D!Fail, D!diskVars, D!rowVars
<1>2. /\ job' = D!NoJob /\ task' \in [Writers -> TaskType]
      /\ \A w \in Writers : Left(task[w], task'[w])
      /\ Current' \subseteq Current /\ \A w \in Current' : task[w].pc \in {"open", "recv"}
  BY <1>1, Ended
<1>3. D!NoJob \in JobType /\ D!NoJob.pc = "none" /\ D!NoJob.writer = None /\ D!NoJob.resume = 0
  BY NoneTypes
<1>4. Types'
  BY <1>1, <1>2, <1>3 DEF Types, D!HasAll
<1>5. Owned'
  BY <1>1, <1>2, <1>3 DEF Owned, Streaming, Left
<1>6. Writes'
  <2> SUFFICES ASSUME NEW w \in Current'
               PROVE  /\ task'[w].pc = "open" =>
                           /\ task'[w].cursor = task'[w].from /\ task'[w].pending = <<>>
                           /\ task'[w].from > 0 =>
                                /\ temp # None
                                /\ temp \notin crossed => Len(data[temp]) = task'[w].from
                      /\ task'[w].pc # "open" =>
                           task'[w].inode = temp
                           /\ (temp \notin crossed => Len(data[temp]) = task'[w].cursor)
                      /\ Counting(task'[w].pending, task'[w].cursor)
                      /\ \E t \in 0 .. Size :
                           QueuedFrom(task'[w].queue, task'[w].cursor + Len(task'[w].pending), t)
                           /\ (t < Size \/ cutShort')
    BY <1>1, <1>2, <1>3, Constants DEF Writes, Bound, Current
  <2>1. w \in Current /\ task[w].pc \in {"open", "recv"} /\ w \in Writers
    BY <1>2 DEF Current
  <2>2. w = job.writer /\ job.pc \in {"stream", "await"}
    BY <1>1, <2>1, Constants DEF Owned, Streaming
  <2>3. /\ task'[w].pc = task[w].pc /\ task'[w].from = task[w].from
        /\ task'[w].cursor = task[w].cursor /\ task'[w].inode = task[w].inode
        /\ task'[w].queue = task[w].queue /\ task'[w].pending = task[w].pending
    BY <1>2, <2>1 DEF Left
  <2>4. job.received < Size \/ cutShort'
    <3>1. job.received \in 0 .. Size
      BY DEF Types, JobType
    <3>2. CASE job.received = Size
      <4>1. D!HasAll
        BY <2>2, <3>2 DEF D!HasAll
      <4> QED BY <1>1, <4>1
    <3> QED BY <3>1, <3>2, Constants
  <2> QED BY <2>1, <2>2, <2>3, <2>4 DEF Writes, Bound
<1>7. Files' /\ Hashed'
  BY <1>1, <1>2, <1>3 DEF Files, Hashed, Streaming
<1>8. Sized'
  BY <1>1 DEF Sized
<1> QED BY <1>4, <1>5, <1>6, <1>7, <1>8

LEMMA CrashInv ==
  ASSUME DownloadInv, D!Crash
  PROVE  DownloadInv'
<1> USE DEF DownloadInv
<1>1. /\ job' = D!NoJob /\ task' = [w \in Writers |-> D!NoTask] /\ late' = {}
      /\ cutShort' = (cutShort \/ D!HasAll)
      /\ UNCHANGED <<status, recorded, data, temp, final, crossed, missized>>
  BY DEF D!Crash, D!diskVars
<1>2. /\ D!NoJob \in JobType /\ D!NoJob.pc = "none" /\ D!NoJob.writer = None /\ D!NoJob.resume = 0
      /\ D!NoTask \in TaskType /\ D!NoTask.pc = "none"
  BY NoneTypes
<1>3. Types'
  BY <1>1, <1>2 DEF Types, D!HasAll
<1>4. Current' = {}
  BY <1>1, <1>2 DEF Current
<1>5. Owned'
  BY <1>1, <1>2, <1>4 DEF Owned, Streaming
<1>6. Writes'
  BY <1>4 DEF Writes
<1>7. Files' /\ Hashed' /\ Sized'
  BY <1>1, <1>2 DEF Files, Hashed, Streaming, Sized
<1> QED BY <1>3, <1>5, <1>6, <1>7

-----------------------------------------------------------------------------
(* The writer tasks. *)
LEMMA WrittenSeq ==
  ASSUME Types, NEW w \in Writers, task[w].inode \in D!Inodes,
         NEW bytes \in Seq(Nat)
  PROVE  /\ D!Written(w, bytes) \in Seq(Nat)
         /\ Len(data[task[w].inode]) = task[w].cursor
            /\ Counting(data[task[w].inode], 0) /\ Counting(bytes, task[w].cursor) =>
              Counting(D!Written(w, bytes), 0)
              /\ Len(D!Written(w, bytes)) = task[w].cursor + Len(bytes)
<1> DEFINE old == data[task[w].inode]
           at == IF task[w].from > 0 THEN Len(old) ELSE task[w].cursor
           n == D!Max({Len(old), at + Len(bytes)})
           s == [i \in 1 .. n |->
                   IF i \in at + 1 .. at + Len(bytes) THEN bytes[i - at]
                   ELSE IF i \in DOMAIN old THEN old[i] ELSE D!Hole]
<1>1. old \in Seq(Nat) /\ at \in Nat /\ Len(bytes) \in Nat /\ Len(old) \in Nat
  <2>1. task[w] \in TaskType /\ old \in Seq(Nat)
    BY DEF Types
  <2> QED BY <2>1 DEF TaskType
<1>2. n = IF Len(old) >= at + Len(bytes) THEN Len(old) ELSE at + Len(bytes)
  <2> HIDE DEF old, at
  <2>1. at + Len(bytes) \in Nat
    BY <1>1
  <2> QED BY <1>1, <2>1, LargerOf
<1>3. n \in Nat
  BY <1>1, <1>2
<1>4. D!Written(w, bytes) = s
  BY DEF D!Written
<1> HIDE DEF old, at, n
<1>5. ASSUME NEW i \in 1 .. n
      PROVE  s[i] \in Nat
  <2>1. CASE i \in at + 1 .. at + Len(bytes)
    <3>1. i - at \in 1 .. Len(bytes)
      BY <1>1, <2>1
    <3> QED BY <2>1, <3>1
  <2>2. CASE i \notin at + 1 .. at + Len(bytes)
    BY <1>1, <2>2 DEF D!Hole
  <2> QED BY <2>1, <2>2
<1>6. s \in [1 .. n -> Nat]
  BY <1>5
<1>7. s \in Seq(Nat) /\ Len(s) = n
  BY <1>3, <1>6
<1>8. ASSUME Len(old) = task[w].cursor, Counting(old, 0), Counting(bytes, task[w].cursor)
      PROVE  Counting(s, 0) /\ Len(s) = task[w].cursor + Len(bytes)
  <2>1. at = task[w].cursor
    BY <1>8 DEF at
  <2>2. n = task[w].cursor + Len(bytes)
    BY <1>1, <1>2, <1>8, <2>1
  <2>3. ASSUME NEW i \in 1 .. n PROVE s[i] = i
    <3>1. CASE i \in at + 1 .. at + Len(bytes)
      <4>1. i - at \in 1 .. Len(bytes)
        BY <1>1, <3>1
      <4>2. bytes[i - at] = at + (i - at)
        BY <1>8, <2>1, <4>1 DEF Counting
      <4> QED BY <1>1, <1>3, <3>1, <4>2
    <3>2. CASE i \notin at + 1 .. at + Len(bytes)
      <4>1. i \in 1 .. Len(old)
        BY <1>1, <1>3, <1>8, <2>1, <2>2, <3>2
      <4> QED BY <1>1, <1>8, <3>2, <4>1 DEF Counting
    <3> QED BY <3>1, <3>2
  <2> HIDE DEF s
  <2> QED BY <1>7, <2>2, <2>3 DEF Counting
<1> QED BY <1>4, <1>7, <1>8 DEF old

(* What a writer writes to its inode, whole or in part.                    *)
LEMMA Wrote ==
  ASSUME DownloadInv, NEW w \in Writers, task[w].pc = "recv",
         NEW bytes \in Seq(Nat), Len(bytes) <= Len(task[w].pending),
         \A k \in 1 .. Len(bytes) : bytes[k] = task[w].pending[k],
         data' = [data EXCEPT ![task[w].inode] = D!Written(w, bytes)],
         D!Mark(w, task[w].inode),
         UNCHANGED <<status, temp, final, job, late, cutShort>>
  PROVE  /\ data' \in [D!Inodes -> Seq(Nat)] /\ crossed' \subseteq D!Inodes /\ Files' /\ Hashed'
         /\ w \notin late =>
              /\ crossed' = crossed /\ w \in Current /\ task[w].inode = temp
              /\ temp \notin crossed => Len(data'[temp]) = task[w].cursor + Len(bytes)
         /\ w \in late =>
              /\ w \notin Current /\ crossed \subseteq crossed'
              /\ \A i \in D!Inodes : i \notin crossed' => data'[i] = data[i]
<1> USE DEF DownloadInv
<1> DEFINE i == task[w].inode
<1>1. i \in D!Inodes /\ task[w] \in TaskType
  BY DEF Owned, Types
<1>2. D!Written(w, bytes) \in Seq(Nat)
  BY <1>1, WrittenSeq
<1>3. data' \in [D!Inodes -> Seq(Nat)] /\ data'[i] = D!Written(w, bytes)
      /\ \A k \in D!Inodes : k # i => data'[k] = data[k]
  BY <1>1, <1>2 DEF Types
<1>4. CASE w \in late
  <2>1. crossed' = crossed \cup {i}
    BY <1>4 DEF D!Mark
  <2>2. w \notin Current
    BY <1>4 DEF Current
  <2>3. \A k \in D!Inodes : k \notin crossed' => data'[k] = data[k]
    BY <1>3, <2>1
  <2>4. Files'
    BY <2>1, <2>3 DEF Files, D!HasAll, Types
  <2>5. Hashed'
    BY <2>1 DEF Hashed
  <2> QED BY <1>1, <1>3, <1>4, <2>1, <2>2, <2>3, <2>4, <2>5 DEF Types
<1>5. CASE w \notin late
  <2>1. crossed' = crossed
    BY <1>5 DEF D!Mark
  <2>2. w \in Current
    BY <1>5 DEF Current
  <2>3. /\ i = temp /\ (temp \notin crossed => Len(data[temp]) = task[w].cursor)
        /\ Counting(task[w].pending, task[w].cursor)
    BY <2>2 DEF Writes
  <2>4. PICK t \in 0 .. Size :
          QueuedFrom(task[w].queue, task[w].cursor + Len(task[w].pending), t) /\ Bound(w, t)
    BY <2>2 DEF Writes
  <2>5. task[w].cursor + Len(task[w].pending) <= t /\ t <= Size
    BY <2>4, QueueBounds, Constants
  <2>6. Counting(bytes, task[w].cursor)
    BY <1>1, <2>3 DEF Counting, TaskType
  <2>7. temp \in D!Inodes /\ temp # None /\ temp # final
    BY <1>1, <2>3, Constants DEF Owned
  <2>8. ASSUME temp \notin crossed
        PROVE  Counting(data'[temp], 0) /\ Len(data'[temp]) = task[w].cursor + Len(bytes)
    <3>1. Counting(data[temp], 0)
      BY <2>7, <2>8 DEF Files
    <3> QED BY <1>1, <1>3, <2>3, <2>6, <2>8, <3>1, WrittenSeq
  <2>9. ASSUME temp \notin crossed
        PROVE  Len(data'[temp]) < Size \/ cutShort \/ D!HasAll
    <3>1. task[w].cursor + Len(bytes) <= t
      BY <1>1, <2>5 DEF TaskType
    <3>2. CASE t < Size \/ cutShort
      BY <1>1, <2>8, <2>9, <3>1, <3>2, Constants DEF TaskType
    <3>3. CASE w = job.writer /\ job.received = Size
      <4>1. job.pc \in Streaming /\ job.pc \notin {"commit", "mark"}
        BY <3>3, Constants DEF Owned
      <4>2. job.pc # "mismatch"
        BY <2>9, <3>3, Constants DEF Hashed
      <4> QED BY <3>3, <4>1, <4>2 DEF D!HasAll, Streaming
    <3>4. w = job.writer => t = job.received
      BY <2>4 DEF Bound
    <3>5. w # job.writer => t < Size \/ cutShort
      BY <2>4 DEF Bound
    <3> QED BY <2>5, <3>2, <3>3, <3>4, <3>5, Constants
  <2>10. Files'
    <3>1. job.pc \in {"hash", "fetch"} => FALSE
      BY <2>2, Constants DEF Owned, Streaming, Current
    <3> QED BY <1>3, <2>1, <2>3, <2>7, <2>8, <2>9, <3>1 DEF Files, D!HasAll, Types
  <2>11. Hashed'
    BY <2>1 DEF Hashed
  <2> QED BY <1>3, <1>5, <2>1, <2>2, <2>3, <2>8, <2>10, <2>11 DEF Types
<1> QED BY <1>4, <1>5

(* A late writer disturbs nobody whose file is not crossed.                *)
LEMMA Beside ==
  ASSUME Types, Owned, Writes, NEW v \in Current,
         crossed \subseteq crossed', temp' = temp,
         \A i \in D!Inodes : i \notin crossed' => data'[i] = data[i]
  PROVE  /\ task[v].pc = "open" /\ task[v].from > 0 =>
              temp # None /\ (temp \notin crossed' => Len(data'[temp]) = task[v].from)
         /\ task[v].pc # "open" =>
              task[v].inode = temp /\ (temp \notin crossed' => Len(data'[temp]) = task[v].cursor)
<1>1. v \in Writers /\ task[v].pc \in {"open", "recv", "over"}
  BY DEF Current
<1>2. task[v].pc # "open" => temp \in D!Inodes
  BY <1>1 DEF Owned, Writes
<1>3. task[v].pc = "open" /\ task[v].from > 0 => temp \in D!Inodes
  BY DEF Writes, Types
<1> QED BY <1>2, <1>3, Constants DEF Writes

LEMMA GatherInv ==
  ASSUME DownloadInv, NEW w \in Writers, D!Gather(w)
  PROVE  DownloadInv'
<1> USE DEF DownloadInv
<1> DEFINE t == [task[w] EXCEPT !.pending = @ \o Head(task[w].queue), !.queue = Tail(@)]
<1>1. /\ task[w].pc = "recv" /\ task[w].queue # <<>> /\ task' = [task EXCEPT ![w] = t]
      /\ UNCHANGED <<status, recorded, data, temp, final, job, late, crossed, cutShort, missized>>
  BY DEF D!Gather, D!diskVars, D!rowVars, D!history
<1>2. task[w] \in TaskType
  BY DEF Types
<1>3. /\ t.pc = task[w].pc /\ t.from = task[w].from /\ t.cursor = task[w].cursor
      /\ t.pending = task[w].pending \o Head(task[w].queue) /\ t.queue = Tail(task[w].queue)
      /\ t.inode = task[w].inode /\ t \in TaskType
  <2>1. Head(task[w].queue) \in Seq(Nat) /\ Tail(task[w].queue) \in Seq(Seq(Nat))
    BY <1>1, <1>2 DEF TaskType
  <2>2. task[w].pending \o Head(task[w].queue) \in Seq(Nat)
    BY <1>2, <2>1 DEF TaskType
  <2> QED BY <1>2, <2>1, <2>2 DEF TaskType
<1> HIDE DEF t
<1>4. task'[w] = t /\ \A v \in Writers \ {w} : task'[v] = task[v]
  BY <1>1 DEF Types
<1>5. Types'
  BY <1>1, <1>3 DEF Types
<1>6. Current' = Current
  BY <1>1, <1>3, <1>4 DEF Current
<1>7. Owned'
  BY <1>1, <1>3, <1>4, <1>6 DEF Owned
<1>8. ASSUME w \in Current
      PROVE  /\ t.inode = temp /\ (temp \notin crossed => Len(data[temp]) = t.cursor)
             /\ Counting(t.pending, t.cursor)
             /\ \E u \in 0 .. Size :
                  QueuedFrom(t.queue, t.cursor + Len(t.pending), u) /\ Bound(w, u)
  <2>1. PICK u \in 0 .. Size :
          QueuedFrom(task[w].queue, task[w].cursor + Len(task[w].pending), u) /\ Bound(w, u)
    BY <1>8 DEF Writes
  <2>2. Counting(task[w].pending, task[w].cursor)
    BY <1>8 DEF Writes
  <2>3. /\ Counting(Head(task[w].queue), task[w].cursor + Len(task[w].pending))
        /\ QueuedFrom(Tail(task[w].queue),
             task[w].cursor + Len(task[w].pending) + Len(Head(task[w].queue)), u)
    BY <1>1, <2>1, TakeOne
  <2>4. task[w].cursor \in Nat /\ Len(task[w].pending) \in Nat /\ Len(Head(task[w].queue)) \in Nat
    BY <1>2, <2>3 DEF TaskType, Counting
  <2>5. /\ Counting(t.pending, t.cursor)
        /\ Len(t.pending) = Len(task[w].pending) + Len(Head(task[w].queue))
    BY <1>3, <2>2, <2>3, <2>4, CountsTo
  <2>6. t.cursor + Len(t.pending) = task[w].cursor + Len(task[w].pending) + Len(Head(task[w].queue))
    <3> DEFINE a == Len(task[w].pending)
               b == Len(Head(task[w].queue))
               p == Len(t.pending)
    <3>1. p = a + b /\ t.cursor = task[w].cursor
      BY <1>3, <2>5
    <3>2. task[w].cursor \in Nat /\ a \in Nat /\ b \in Nat
      BY <2>4
    <3> HIDE DEF a, b, p
    <3>3. t.cursor + p = task[w].cursor + a + b
      BY <3>1, <3>2
    <3> QED BY <3>3 DEF a, b, p
  <2>7. QueuedFrom(t.queue, t.cursor + Len(t.pending), u)
    BY <1>3, <2>3, <2>6
  <2>8. t.inode = temp /\ (temp \notin crossed => Len(data[temp]) = t.cursor)
    BY <1>1, <1>3, <1>8 DEF Writes
  <2> QED BY <2>1, <2>5, <2>7, <2>8
<1>9. Writes'
  <2> SUFFICES ASSUME NEW v \in Current
               PROVE  /\ task'[v].pc = "open" =>
                           /\ task'[v].cursor = task'[v].from /\ task'[v].pending = <<>>
                           /\ task'[v].from > 0 =>
                                /\ temp # None
                                /\ temp \notin crossed => Len(data[temp]) = task'[v].from
                      /\ task'[v].pc # "open" =>
                           task'[v].inode = temp
                           /\ (temp \notin crossed => Len(data[temp]) = task'[v].cursor)
                      /\ Counting(task'[v].pending, task'[v].cursor)
                      /\ \E u \in 0 .. Size :
                           /\ QueuedFrom(task'[v].queue, task'[v].cursor + Len(task'[v].pending), u)
                           /\ Bound(v, u)
    BY <1>1, <1>6 DEF Writes, Bound
  <2>1. CASE v = w
    BY <1>1, <1>3, <1>4, <1>8, <2>1
  <2>2. CASE v # w
    BY <1>4, <2>2 DEF Writes, Current
  <2> QED BY <2>1, <2>2
<1>10. Files' /\ Hashed' /\ Sized'
  BY <1>1 DEF Files, Hashed, D!HasAll, Sized
<1> QED BY <1>5, <1>7, <1>9, <1>10

LEMMA OpenTempInv ==
  ASSUME DownloadInv, NEW w \in Writers, D!OpenTemp(w)
  PROVE  DownloadInv'
<1> USE DEF DownloadInv
<1> DEFINE i == IF temp = None THEN D!FreeInode ELSE temp
           emptied == temp = None \/ task[w].from = 0
           t == [task[w] EXCEPT !.pc = "recv", !.inode = i]
<1>1. /\ task[w].pc = "open" /\ task' = [task EXCEPT ![w] = t] /\ temp' = i
      /\ data' = IF emptied THEN [data EXCEPT ![i] = <<>>] ELSE data
      /\ crossed' = IF ~emptied THEN crossed
                    ELSE IF w \in late THEN crossed \cup {i} ELSE crossed \ {i}
      /\ UNCHANGED <<status, recorded, final, job, late, cutShort, missized>>
  BY DEF D!OpenTemp, D!rowVars
<1>2. i \in D!Inodes /\ i # final /\ i # None
  BY InodeLeft, Constants DEF Owned, Types
<1>3. /\ emptied => temp = None \/ task[w].from = 0
      /\ ~emptied => temp # None /\ task[w].from # 0
      /\ temp # None => i = temp
  OBVIOUS
<1> HIDE DEF i, emptied
<1>4. task[w] \in TaskType
  BY DEF Types
<1>5. /\ t.pc = "recv" /\ t.from = task[w].from /\ t.cursor = task[w].cursor
      /\ t.pending = task[w].pending /\ t.queue = task[w].queue
      /\ t.inode = i /\ t \in TaskType
  BY <1>2, <1>4 DEF TaskType
<1> HIDE DEF t
<1>6. task'[w] = t /\ \A v \in Writers \ {w} : task'[v] = task[v]
  BY <1>1 DEF Types
<1>7. /\ data' \in [D!Inodes -> Seq(Nat)] /\ data'[final] = data[final]
      /\ emptied => data'[i] = <<>>
      /\ ~emptied => data' = data
  BY <1>1, <1>2 DEF Types
<1>8. Types'
  BY <1>1, <1>2, <1>5, <1>7 DEF Types
<1>9. Current' = Current
  BY <1>1, <1>5, <1>6 DEF Current
<1>10. Owned'
  BY <1>1, <1>2, <1>5, <1>6, <1>9 DEF Owned
<1>11. w \notin late => Current = {w} /\ (job.pc # "none" => w = job.writer)
  BY <1>1 DEF Current, Owned
<1>12. Writes'
  <2>1. CASE w \in late
    <3>1. \A v \in Current : v # w /\ v \in Writers /\ task'[v] = task[v]
      BY <1>6, <2>1 DEF Current
    <3>2. ASSUME NEW v \in Current
          PROVE  /\ task[v].pc = "open" /\ task[v].from > 0 =>
                      temp' # None /\ (temp' \notin crossed' => Len(data'[temp']) = task[v].from)
                 /\ task[v].pc # "open" =>
                      /\ task[v].inode = temp'
                      /\ temp' \notin crossed' => Len(data'[temp']) = task[v].cursor
      <4>1. task[v].pc \in {"open", "recv", "over"} /\ v \in Writers
        BY DEF Current
      <4>2. task[v].pc # "open" \/ task[v].from > 0 => temp # None
        BY <4>1, Constants DEF Writes, Owned
      <4>3. temp' = i /\ (emptied => temp' \in crossed') /\ (~emptied => crossed' = crossed)
        BY <1>1, <2>1
      <4> QED BY <1>2, <1>3, <1>7, <4>2, <4>3 DEF Writes
    <3> QED BY <1>1, <1>9, <3>1, <3>2 DEF Writes, Bound
  <2>2. CASE w \notin late
    <3>1. w \in Current /\ task[w].cursor = task[w].from /\ task[w].pending = <<>>
      BY <1>1, <1>11, <2>2 DEF Writes
    <3>2. i \notin crossed' => Len(data'[i]) = t.cursor
      <4>1. CASE emptied
        <5>1. task[w].from = 0
          BY <1>1, <1>3, <1>4, <3>1, <4>1 DEF Writes, TaskType
        <5> QED BY <1>5, <1>7, <3>1, <4>1, <5>1
      <4>2. CASE ~emptied
        <5>1. temp # None /\ task[w].from > 0 /\ i = temp
          BY <1>3, <1>4, <4>2 DEF TaskType
        <5> QED BY <1>1, <1>5, <1>7, <3>1, <4>2, <5>1 DEF Writes
      <4> QED BY <4>1, <4>2
    <3>3. /\ Counting(t.pending, t.cursor)
          /\ \E u \in 0 .. Size :
               QueuedFrom(t.queue, t.cursor + Len(t.pending), u) /\ Bound(w, u)
      BY <1>5, <3>1 DEF Writes
    <3> QED BY <1>1, <1>5, <1>6, <1>9, <1>11, <2>2, <3>2, <3>3 DEF Writes, Bound
  <2> QED BY <2>1, <2>2
<1>13. final \notin crossed' => final \notin crossed
  BY <1>1, <1>2
<1>14. job.pc \in {"hash", "fetch"} => w \in late
  BY <1>11, Constants DEF Owned, Streaming
<1>15. Files'
  <2>1. temp' \notin crossed' =>
          Counting(data'[temp'], 0) /\ (Len(data'[temp']) < Size \/ cutShort' \/ D!HasAll')
    <3>1. CASE emptied
      <4>1. Counting(<<>>, 0) /\ Len(<<>>) < Size
        BY Constants DEF Counting
      <4> QED BY <1>1, <1>7, <3>1, <4>1
    <3>2. CASE ~emptied
      BY <1>1, <1>3, <1>7, <3>2 DEF Files, D!HasAll
    <3> QED BY <3>1, <3>2
  <2>2. ASSUME job.pc \in {"hash", "fetch"}, job.resume > 0
        PROVE  temp' # None /\ (temp' \notin crossed' => Len(data'[temp']) = job.resume)
    <3>1. temp # None /\ i = temp
      BY <1>3, <2>2 DEF Files
    <3> QED BY <1>1, <1>2, <1>7, <1>14, <2>2, <3>1 DEF Files
  <2> QED BY <1>1, <1>2, <1>7, <1>13, <2>1, <2>2 DEF Files
<1>16. ASSUME job.pc \in {"fetch"} \cup Streaming, job.pc # "mark", job.resume > 0, temp \in crossed
       PROVE  temp' \in crossed'
  <2>1. temp # None /\ i = temp
    BY <1>3, <1>16 DEF Files
  <2>2. CASE w \in late
    BY <1>1, <1>16, <2>1, <2>2
  <2>3. CASE w \notin late
    <3>1. task[w].from = job.resume
      BY <1>11, <1>14, <1>16, <2>3 DEF Owned, Streaming
    <3> QED BY <1>1, <1>3, <1>16, <2>1, <3>1
  <2> QED BY <2>2, <2>3
<1>17. Hashed'
  <2>1. job.resume \in Nat
    BY DEF Types, JobType
  <2>2. (job.pc \in {"fetch"} \cup Streaming
         /\ (job.resume = 0 \/ (IF job.pc = "mark" THEN final ELSE temp') \notin crossed')) =>
          (job.resume = 0 \/ (IF job.pc = "mark" THEN final ELSE temp) \notin crossed)
    BY <1>13, <1>16, <2>1
  <2>3. job.pc = "mismatch" => job.received < Size \/ (job.resume > 0 /\ temp' \in crossed')
    BY <1>16 DEF Hashed, Streaming
  <2> QED BY <1>1, <2>2, <2>3 DEF Hashed
<1>18. Sized'
  BY <1>1 DEF Sized
<1> QED BY <1>8, <1>10, <1>12, <1>15, <1>17, <1>18

LEMMA FlushInv ==
  ASSUME DownloadInv, NEW w \in Writers, D!Flush(w)
  PROVE  DownloadInv'
<1> USE DEF DownloadInv
<1> DEFINE t == [task[w] EXCEPT !.pending = <<>>, !.cursor = @ + Len(task[w].pending)]
<1>1. /\ task[w].pc = "recv" /\ task' = [task EXCEPT ![w] = t]
      /\ data' = [data EXCEPT ![task[w].inode] = D!Written(w, task[w].pending)]
      /\ D!Mark(w, task[w].inode)
      /\ UNCHANGED <<status, recorded, temp, final, job, late, cutShort, missized>>
  BY DEF D!Flush, D!rowVars
<1>2. /\ task[w] \in TaskType /\ task[w].pending \in Seq(Nat)
      /\ Len(task[w].pending) \in Nat /\ Len(task[w].pending) <= Len(task[w].pending)
  <2>1. task[w] \in TaskType /\ task[w].pending \in Seq(Nat)
    BY DEF Types, TaskType
  <2>2. Len(task[w].pending) \in Nat
    BY <2>1
  <2> QED BY <2>1, <2>2
<1>3. /\ t.pc = "recv" /\ t.from = task[w].from /\ t.pending = <<>>
      /\ t.cursor = task[w].cursor + Len(task[w].pending) /\ t.cursor \in Nat
      /\ t.queue = task[w].queue /\ t.inode = task[w].inode /\ t \in TaskType
  <2>1. task[w].cursor + Len(task[w].pending) \in Nat /\ <<>> \in Seq(Nat)
    BY <1>2 DEF TaskType
  <2> QED BY <1>1, <1>2, <2>1 DEF TaskType
<1> HIDE DEF t
<1>4. task'[w] = t /\ \A v \in Writers \ {w} : task'[v] = task[v]
  BY <1>1 DEF Types
<1>5. /\ data' \in [D!Inodes -> Seq(Nat)] /\ crossed' \subseteq D!Inodes /\ Files' /\ Hashed'
      /\ w \notin late =>
           /\ crossed' = crossed /\ w \in Current /\ task[w].inode = temp
           /\ temp \notin crossed => Len(data'[temp]) = task[w].cursor + Len(task[w].pending)
      /\ w \in late =>
           /\ w \notin Current /\ crossed \subseteq crossed'
           /\ \A i \in D!Inodes : i \notin crossed' => data'[i] = data[i]
  BY <1>1, <1>2, Wrote
<1>6. Types'
  BY <1>1, <1>3, <1>5 DEF Types
<1>7. Current' = Current
  BY <1>1, <1>3, <1>4 DEF Current
<1>8. Owned'
  BY <1>1, <1>3, <1>4, <1>7 DEF Owned
<1>9. Writes'
  <2>1. CASE w \in late
    <3>1. \A v \in Current : v # w /\ v \in Writers /\ task'[v] = task[v]
      BY <1>4, <1>5, <2>1 DEF Current
    <3>2. \A v \in Current :
            /\ task[v].pc = "open" /\ task[v].from > 0 =>
                 temp # None /\ (temp \notin crossed' => Len(data'[temp]) = task[v].from)
            /\ task[v].pc # "open" =>
                 task[v].inode = temp /\ (temp \notin crossed' => Len(data'[temp]) = task[v].cursor)
      BY <1>1, <1>5, <2>1, Beside
    <3> QED BY <1>1, <1>7, <3>1, <3>2 DEF Writes, Bound
  <2>2. CASE w \notin late
    <3>1. Current = {w}
      BY <1>5, <2>2 DEF Owned
    <3>2. t.inode = temp /\ (temp \notin crossed' => Len(data'[temp]) = t.cursor)
      BY <1>3, <1>5, <2>2
    <3>3. Counting(t.pending, t.cursor) /\ t.cursor + Len(t.pending) = t.cursor
      BY <1>3 DEF Counting
    <3>4. \E u \in 0 .. Size : QueuedFrom(t.queue, t.cursor + Len(t.pending), u) /\ Bound(w, u)
      BY <1>3, <1>5, <2>2, <3>3 DEF Writes
    <3> QED BY <1>1, <1>3, <1>4, <1>7, <3>1, <3>2, <3>3, <3>4 DEF Writes, Bound
  <2> QED BY <2>1, <2>2
<1>10. Sized'
  BY <1>1 DEF Sized
<1> QED BY <1>5, <1>6, <1>8, <1>9, <1>10

LEMMA TaskEnds ==
  ASSUME Types, Owned, NEW w \in Writers, task[w].pc \in {"open", "recv"},
         NEW x \in {"over", "failed"}, D!EndTask(w, x),
         task[w].pc = "recv" \/ x = "failed", UNCHANGED <<status, temp, final, job, late>>
  PROVE  /\ task' \in [Writers -> TaskType] /\ Owned'
         /\ \A v \in Writers \ {w} : task'[v] = task[v]
         /\ job.writer = w =>
              /\ task'[w].pc = x /\ task'[w].from = task[w].from
              /\ task'[w].cursor = task[w].cursor /\ task'[w].inode = task[w].inode
              /\ task'[w].queue = task[w].queue /\ task'[w].pending = task[w].pending
         /\ Current' \subseteq Current
         /\ job.writer # w \/ x = "failed" => w \notin Current'
<1> DEFINE t == IF job.writer = w THEN [task[w] EXCEPT !.pc = x] ELSE D!NoTask
<1>1. task' = [task EXCEPT ![w] = t]
  BY DEF D!EndTask
<1>2. D!NoTask \in TaskType /\ D!NoTask.pc = "none"
  BY NoneTypes
<1>3. /\ t \in TaskType
      /\ job.writer = w =>
           /\ t.pc = x /\ t.from = task[w].from /\ t.cursor = task[w].cursor
           /\ t.inode = task[w].inode /\ t.queue = task[w].queue /\ t.pending = task[w].pending
      /\ job.writer # w => t.pc = "none"
  BY <1>2 DEF Types, TaskType
<1> HIDE DEF t
<1>4. task' \in [Writers -> TaskType] /\ task'[w] = t
      /\ \A v \in Writers \ {w} : task'[v] = task[v]
  BY <1>1, <1>3 DEF Types
<1>5. Current' \subseteq Current /\ (job.writer # w \/ x = "failed" => w \notin Current')
  BY <1>3, <1>4 DEF Current
<1>6. Owned'
  BY <1>3, <1>4, <1>5 DEF Owned, Streaming
<1> QED BY <1>3, <1>4, <1>5, <1>6

LEMMA FinishInv ==
  ASSUME DownloadInv, NEW w \in Writers, D!Finish(w)
  PROVE  DownloadInv'
<1> USE DEF DownloadInv
<1>1. /\ task[w].pc = "recv" /\ D!EndTask(w, "over")
      /\ UNCHANGED <<status, recorded, data, temp, final, job, late, crossed, cutShort, missized>>
  BY DEF D!Finish, D!diskVars, D!rowVars, D!history
<1>2. /\ task' \in [Writers -> TaskType] /\ Owned' /\ Current' \subseteq Current
      /\ \A v \in Writers \ {w} : task'[v] = task[v]
      /\ job.writer = w =>
           /\ task'[w].pc = "over" /\ task'[w].from = task[w].from
           /\ task'[w].cursor = task[w].cursor /\ task'[w].inode = task[w].inode
           /\ task'[w].queue = task[w].queue /\ task'[w].pending = task[w].pending
      /\ job.writer # w => w \notin Current'
  BY <1>1, TaskEnds
<1>3. Types'
  BY <1>1, <1>2 DEF Types
<1>4. Writes'
  <2> SUFFICES ASSUME NEW v \in Current'
               PROVE  /\ task'[v].pc = "open" =>
                           /\ task'[v].cursor = task'[v].from /\ task'[v].pending = <<>>
                           /\ task'[v].from > 0 =>
                                /\ temp # None
                                /\ temp \notin crossed => Len(data[temp]) = task'[v].from
                      /\ task'[v].pc # "open" =>
                           task'[v].inode = temp
                           /\ (temp \notin crossed => Len(data[temp]) = task'[v].cursor)
                      /\ Counting(task'[v].pending, task'[v].cursor)
                      /\ \E u \in 0 .. Size :
                           /\ QueuedFrom(task'[v].queue, task'[v].cursor + Len(task'[v].pending), u)
                           /\ Bound(v, u)
    BY <1>1 DEF Writes, Bound
  <2>1. v \in Current /\ v \in Writers
    BY <1>2 DEF Current
  <2>2. CASE v = w
    BY <1>1, <1>2, <2>1, <2>2 DEF Writes
  <2>3. CASE v # w
    BY <1>2, <2>1, <2>3 DEF Writes
  <2> QED BY <2>2, <2>3
<1>5. Files' /\ Hashed' /\ Sized'
  BY <1>1 DEF Files, Hashed, D!HasAll, Sized
<1> QED BY <1>2, <1>3, <1>4, <1>5

LEMMA WriterFailsInv ==
  ASSUME DownloadInv, NEW w \in Writers, D!WriterFails(w)
  PROVE  DownloadInv'
<1> USE DEF DownloadInv
<1>1. /\ task[w].pc \in {"open", "recv"} /\ D!EndTask(w, "failed")
      /\ UNCHANGED <<status, recorded, temp, final, job, late, cutShort, missized>>
  BY DEF D!WriterFails, D!rowVars
<1>2. /\ task' \in [Writers -> TaskType] /\ Owned' /\ Current' \subseteq Current
      /\ \A v \in Writers \ {w} : task'[v] = task[v]
      /\ w \notin Current'
  BY <1>1, TaskEnds
<1>3. /\ data' \in [D!Inodes -> Seq(Nat)] /\ crossed' \subseteq D!Inodes /\ Files' /\ Hashed'
      /\ Current' # {} => crossed \subseteq crossed'
                          /\ \A i \in D!Inodes : i \notin crossed' => data'[i] = data[i]
  <2>1. CASE UNCHANGED <<data, crossed>>
    BY <1>1, <2>1 DEF Files, Hashed, D!HasAll, Types
  <2>2. ASSUME task[w].pc = "recv", D!Mark(w, task[w].inode),
               NEW n \in 0 .. Len(task[w].pending) - 1,
               data' = [data EXCEPT ![task[w].inode] = D!Written(w, SubSeq(task[w].pending, 1, n))]
        PROVE  /\ data' \in [D!Inodes -> Seq(Nat)] /\ crossed' \subseteq D!Inodes
               /\ Files' /\ Hashed'
               /\ Current' # {} => crossed \subseteq crossed'
                                   /\ \A i \in D!Inodes : i \notin crossed' => data'[i] = data[i]
    <3> DEFINE bytes == SubSeq(task[w].pending, 1, n)
    <3>1. task[w].pending \in Seq(Nat)
      BY DEF Types, TaskType
    <3>2. /\ bytes \in Seq(Nat) /\ Len(bytes) = n /\ n <= Len(task[w].pending)
          /\ \A k \in 1 .. n : bytes[k] = task[w].pending[k]
      BY <3>1
    <3> HIDE DEF bytes
    <3>3. data' = [data EXCEPT ![task[w].inode] = D!Written(w, bytes)]
      BY <2>2 DEF bytes
    <3>4. /\ data' \in [D!Inodes -> Seq(Nat)] /\ crossed' \subseteq D!Inodes /\ Files' /\ Hashed'
          /\ w \notin late => w \in Current
          /\ w \in late =>
               /\ crossed \subseteq crossed'
               /\ \A i \in D!Inodes : i \notin crossed' => data'[i] = data[i]
      BY <1>1, <2>2, <3>2, <3>3, Wrote
    <3>5. w \in Current => Current' = {}
      BY <1>2 DEF Owned
    <3> QED BY <3>4, <3>5
  <2> QED BY <2>1, <2>2 DEF D!WriterFails
<1>4. Types'
  BY <1>1, <1>2, <1>3 DEF Types
<1>5. Writes'
  <2> SUFFICES ASSUME NEW v \in Current'
               PROVE  /\ task[v].pc = "open" =>
                           /\ task[v].cursor = task[v].from /\ task[v].pending = <<>>
                           /\ task[v].from > 0 =>
                                /\ temp # None
                                /\ temp \notin crossed' => Len(data'[temp]) = task[v].from
                      /\ task[v].pc # "open" =>
                           task[v].inode = temp
                           /\ (temp \notin crossed' => Len(data'[temp]) = task[v].cursor)
                      /\ Counting(task[v].pending, task[v].cursor)
                      /\ \E u \in 0 .. Size :
                           /\ QueuedFrom(task[v].queue, task[v].cursor + Len(task[v].pending), u)
                           /\ Bound(v, u)
    BY <1>1, <1>2 DEF Writes, Bound, Current
  <2>1. v \in Current
    BY <1>2
  <2> QED BY <1>1, <1>3, <2>1, Beside DEF Writes
<1>6. Sized'
  BY <1>1 DEF Sized
<1> QED BY <1>2, <1>3, <1>4, <1>5, <1>6

LEMMA NextInv == DownloadInv /\ [D!Next]_(D!vars) => DownloadInv'
<1> SUFFICES ASSUME DownloadInv, [D!Next]_(D!vars) PROVE DownloadInv'
  OBVIOUS
<1>1. CASE D!Ask \/ D!Join \/ UNCHANGED D!vars
  <2>1. UNCHANGED <<status, recorded, D!diskVars, job, task, D!history>>
    BY <1>1 DEF D!Ask, D!Join, D!vars, D!rowVars
  <2> QED BY <2>1, Idle
<1>2. CASE D!Download
  BY <1>2, HashPrefixInv, UnsatisfiableInv, RestartInv, VerifyInv, MismatchInv, AwaitInv,
     CommitInv, MarkReadyInv, FailInv, ReceiveInv, FetchInv DEF D!Download
<1>3. CASE \E w \in Writers : D!WriterStep(w)
  BY <1>3, OpenTempInv, GatherInv, FlushInv, FinishInv, WriterFailsInv DEF D!WriterStep
<1> QED BY <1>1, <1>2, <1>3, StartInv, CrashInv DEF D!Next

LEMMA InvSays ==
  ASSUME DownloadInv
  PROVE  D!CachedUnlessCrossed /\ D!WedgeHasCause
<1> USE DEF DownloadInv
<1>1. D!CachedUnlessCrossed
  BY Constants DEF D!CachedUnlessCrossed, Owned, Files, Sized
<1>2. D!WedgeHasCause
  <2> SUFFICES ASSUME D!TempLen >= Size, job.pc = "none", ~cutShort PROVE temp \in crossed
    BY DEF D!WedgeHasCause
  <2>1. temp # None /\ D!TempLen = Len(data[temp]) /\ temp \in D!Inodes
    BY Constants DEF D!TempLen, Types
  <2>2. ~D!HasAll
    BY DEF D!HasAll
  <2>3. Len(data[temp]) \in Nat
    BY <2>1 DEF Types
  <2> QED BY <2>1, <2>2, <2>3, Constants DEF Files
<1> QED BY <1>1, <1>2

(* Whatever was resumed, restarted, cut off, refused or killed before.     *)
LEMMA Downloaded == MCSpec => []DownloadInv
<1>1. MCInit => DownloadInv
  BY InitInv DEF MCInit
<1>2. DownloadInv /\ [MCNext]_mcVars => DownloadInv'
  <2> SUFFICES ASSUME DownloadInv, [MCNext]_mcVars PROVE DownloadInv'
    OBVIOUS
  <2>1. D!Next \/ UNCHANGED downloadVars
    BY DEF MCNext, mcVars, Cached
  <2>2. UNCHANGED downloadVars => UNCHANGED D!vars
    BY DEF downloadVars, D!vars, D!rowVars, D!diskVars, D!history
  <2> QED BY <2>1, <2>2, NextInv
<1> QED BY <1>1, <1>2, PTL DEF MCSpec

(* A ready blob has the bytes of the upstream file, and the row its size,   *)
(* unless a late writer changed the file (server.rs:2338-2417).             *)
THEOREM CachedBytes == MCSpec => []CachedUnlessCrossed
<1>1. DownloadInv => CachedUnlessCrossed
  BY InvSays DEF CachedUnlessCrossed
<1> QED BY <1>1, Downloaded, PTL

(* A temporary file as long as the upstream file, which every later download *)
(* is refused for, is left by a download stopped between its last byte and   *)
(* the rename, or by a late writer (server.rs:2239-2299, 2338-2387).         *)
THEOREM WedgeCaused == MCSpec => []WedgeHasCause
<1>1. DownloadInv => WedgeHasCause
  BY InvSays DEF WedgeHasCause
<1> QED BY <1>1, Downloaded, PTL
=============================================================================
