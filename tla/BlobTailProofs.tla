--------------------------- MODULE BlobTailProofs ---------------------------
(***************************************************************************)
(* For any size of the file and of its chunks, any capacity of the ring    *)
(* and of the writer's channel, and any followers: what a client receives  *)
(* of a growing download is a prefix of the file, a failed download never  *)
(* looks complete, a restart from 0 has no reader, and a download that     *)
(* says success is on disk in full.                                        *)
(*                                                                         *)
(* The invariant has a part of the two tasks (TaskInv) and one of each     *)
(* follower (FollowerInv). A follower changes nothing that the tasks read, *)
(* and a task changes of the followers only who was woken.                 *)
(***************************************************************************)
EXTENDS BlobTail, TLAPS

PCs == {"new"} \cup StartPC \cup StreamPC \cup OverPC

(* The types of the two tasks' state.                                      *)
TaskTypes ==
  /\ contentLength \in 0 .. Size /\ initialBytes \in 0 .. Size
  /\ bytesWritten \in 0 .. Size
  /\ finished \in BOOLEAN /\ failure \in BOOLEAN
  /\ ring \in Seq(Chunk)
  /\ jpc \in {"open", "restart", "reopen", "body", "push", "drain", "fail",
              "failed", "commit", "finish", "over"}
  /\ resumeFrom \in 0 .. Size /\ received \in 0 .. Size /\ inHand \in 0 .. Size
  /\ wpc \in {"none", "open", "recv", "sync", "ok", "dead"}
  /\ wq \in Seq(0 .. Size) /\ Len(wq) <= WriteCap
  /\ closed \in BOOLEAN
  /\ pending \in 0 .. Size /\ written \in 0 .. Size
  /\ place \in {"none", "temp", "final"}
  /\ disk \in 0 .. Size /\ disk <= written

FollowerTypes ==
  /\ pc \in [Followers -> PCs]
  /\ pos \in [Followers -> 0 .. Len(ring)]
  /\ armed \in [Followers -> {"no", "armed", "fired"}]
  /\ seen \in [Followers -> 0 .. Size]
  /\ opened \in [Followers -> BOOLEAN]
  /\ announced \in [Followers -> 0 .. Size \cup {Unknown}]
  /\ out \in [Followers -> Seq(0 .. Size)]

(* Every byte received is in the hand of the download task, in the channel,*)
(* with the writer, or written: ends[i] is where the i-th chunk of the     *)
(* channel ends in the file.                                               *)
Accounts(ends) ==
  /\ ends[0] = written + pending
  /\ \A i \in 1 .. Len(wq) : ends[i] = ends[i - 1] + wq[i]

Accounted ==
  wpc # "none" => \E ends \in [0 .. Len(wq) -> 0 .. received - inHand] : Accounts(ends)

(* Which states of the two tasks go together.                              *)
Phases ==
  /\ jpc \in {"open", "restart", "reopen"} => wpc = "none" /\ resumeFrom = written
  /\ jpc \in {"body", "push", "drain", "commit", "finish"} => wpc # "none"
  /\ wpc = "none" => wq = <<>> /\ pending = 0
  /\ jpc # "push" => inHand = 0
  /\ inHand <= received
  /\ written = bytesWritten
  /\ jpc \in {"drain", "commit", "finish"} => received = Size

(* How the download ends: finished is the last store, and success has the  *)
(* writer's word for every byte.                                           *)
Endings ==
  /\ finished => jpc = "over"
  /\ failure => jpc \in {"failed", "over"}
  /\ jpc = "failed" => failure
  /\ wpc = "ok" => disk = written
  /\ jpc \in {"commit", "finish"} => wpc = "ok" /\ written = Size
  /\ jpc = "finish" => place = "final"
  /\ finished /\ ~failure => wpc = "ok" /\ written = Size /\ place = "final"

(* Until the upstream has answered nobody can have seen a start.           *)
Begun == finished \/ failure \/ contentLength > 0 \/ NewBytes(bytesWritten)
Quiet == jpc \in {"open", "restart"} => ~Begun /\ bytesWritten = initialBytes

TaskInv == TaskTypes /\ Accounted /\ Phases /\ Endings /\ Quiet

Waiting == {"new", "gone"} \cup StartPC

FollowerInv ==
  \A f \in Followers :
    /\ \A i \in 1 .. Len(out[f]) : out[f][i] = i - 1
    /\ pc[f] = "ended" => finished /\ ~failure
    /\ pc[f] \notin Waiting \/ opened[f] => jpc \notin {"open", "restart"}

IInv == TaskInv /\ FollowerTypes /\ FollowerInv
-----------------------------------------------------------------------------
(* The bytes that are accounted for are no more than were received.        *)
LEMMA WithinReceived ==
  ASSUME TaskTypes, Phases, Accounted, wpc # "none"
  PROVE  written + pending <= received - inHand /\ received - inHand <= Size
<1>1. PICK ends \in [0 .. Len(wq) -> 0 .. received - inHand] : Accounts(ends)
  BY DEF Accounted
<1>2. Len(wq) \in Nat
  BY DEF TaskTypes
<1>3. ends[0] \in 0 .. received - inHand
  BY <1>1, <1>2
<1> QED BY <1>1, <1>3, SizeAssumption DEF TaskTypes, Phases, Accounts

(* The account of a step that leaves the channel alone, and moves bytes    *)
(* from pending to written at most.                                        *)
LEMMA SameAccount ==
  ASSUME TaskTypes, Phases, Accounted, wpc # "none", wq' = wq,
         written' + pending' = written + pending,
         received' - inHand' = received - inHand
  PROVE  Accounted'
<1>1. PICK ends \in [0 .. Len(wq) -> 0 .. received - inHand] : Accounts(ends)
  BY DEF Accounted
<1>2. Accounts(ends)'
  BY <1>1 DEF Accounts
<1>3. ends \in [0 .. Len(wq') -> 0 .. received' - inHand']
  BY <1>1
<1> QED BY <1>2, <1>3 DEF Accounted

(* A chunk that is pushed ends where the download has received to.         *)
LEMMA PushAccount ==
  ASSUME TaskTypes, Phases, Accounted, jpc = "push",
         wq' = Append(wq, inHand), inHand' = 0,
         UNCHANGED <<received, written, pending>>
  PROVE  Accounted'
<1>1. PICK ends \in [0 .. Len(wq) -> 0 .. received - inHand] : Accounts(ends)
  BY DEF Accounted, Phases
<1>0. PICK n \in Nat \ {0} : n = Len(wq) + 1
  BY DEF TaskTypes
<1>2. PICK to \in 0 .. received : to = ends[Len(wq)] + inHand
  <2>1. Len(wq) \in 0 .. Len(wq)
    BY DEF TaskTypes
  <2>2. ends[Len(wq)] \in 0 .. received - inHand
    BY <1>1, <2>1
  <2> QED BY <2>2 DEF TaskTypes
<1> DEFINE after == [i \in 0 .. n |-> IF i = n THEN to ELSE ends[i]]
<1>3. Len(wq') = n /\ wq'[n] = inHand /\ \A i \in 1 .. Len(wq) : wq'[i] = wq[i]
  BY <1>0 DEF TaskTypes
<1>4. n = Len(wq) + 1 /\ Len(wq) \in Nat
  BY <1>0 DEF TaskTypes
<1>5. after \in [0 .. n -> 0 .. received]
  <2>1. ASSUME NEW i \in 0 .. n PROVE after[i] \in 0 .. received
    <3>1. CASE i = n
      BY <1>2, <3>1
    <3>2. CASE i # n
      <4>1. ends[i] \in 0 .. received - inHand
        BY <1>1, <1>4, <3>2
      <4> QED BY <3>2, <4>1 DEF TaskTypes
    <3> QED BY <3>1, <3>2
  <2> QED BY <2>1
<1>6. after[0] = written + pending
  BY <1>1, <1>4 DEF Accounts
<1>7. ASSUME NEW i \in 1 .. n PROVE after[i] = after[i - 1] + wq'[i]
  <2>1. CASE i = n
    BY <1>2, <1>3, <1>4, <2>1
  <2>2. CASE i # n
    <3>1. i \in 1 .. Len(wq) /\ i - 1 \in 0 .. n /\ i \in 0 .. n /\ i - 1 # n
      BY <1>4, <2>2
    <3>2. ends[i] = ends[i - 1] + wq[i]
      BY <1>1, <3>1 DEF Accounts
    <3> QED BY <1>3, <2>2, <3>1, <3>2
  <2> QED BY <2>1, <2>2
<1> HIDE DEF after
<1>8. Accounts(after)'
  BY <1>3, <1>6, <1>7 DEF Accounts
<1>9. received' - inHand' = received
  BY DEF TaskTypes
<1> QED BY <1>3, <1>5, <1>8, <1>9 DEF Accounted

(* The first chunk of the channel joins what the writer holds.             *)
LEMMA TakeAccount ==
  ASSUME TaskTypes, Phases, Accounted, wpc # "none", wq # <<>>, wq' = Tail(wq),
         written' + pending' = written + pending + Head(wq),
         UNCHANGED <<received, inHand>>
  PROVE  /\ Accounted'
         /\ written + pending + Head(wq) <= received - inHand
<1>1. PICK ends \in [0 .. Len(wq) -> 0 .. received - inHand] : Accounts(ends)
  BY DEF Accounted
<1>0. PICK m \in Nat : m = Len(wq) - 1
  <2>1. wq \in Seq(0 .. Size) /\ wq # <<>>
    BY DEF TaskTypes
  <2>2. Len(wq) - 1 \in Nat
    BY <2>1
  <2> QED BY <2>2
<1> DEFINE after == [i \in 0 .. m |-> ends[i + 1]]
<1>2. /\ Len(wq) = m + 1 /\ Head(wq) = wq[1]
      /\ Len(wq') = m /\ \A i \in 1 .. m : wq'[i] = wq[i + 1]
  BY <1>0 DEF TaskTypes
<1>3. ends[1] = written + pending + Head(wq) /\ ends[1] \in 0 .. received - inHand
  BY <1>1, <1>2 DEF Accounts
<1>4. after \in [0 .. m -> 0 .. received - inHand]
  BY <1>1, <1>2
<1>5. ASSUME NEW i \in 1 .. m PROVE after[i] = after[i - 1] + wq'[i]
  <2>1. i + 1 \in 1 .. Len(wq) /\ i - 1 \in 0 .. m /\ i \in 0 .. m
        /\ (i + 1) - 1 = i /\ (i - 1) + 1 = i
    BY <1>2
  <2>2. ends[i + 1] = ends[i] + wq[i + 1]
    BY <1>1, <2>1 DEF Accounts
  <2> QED BY <1>2, <2>1, <2>2
<1>6. after[0] = written' + pending'
  BY <1>2, <1>3
<1> HIDE DEF after
<1>7. Accounts(after)'
  BY <1>2, <1>5, <1>6 DEF Accounts
<1>8. Accounted'
  BY <1>2, <1>4, <1>7 DEF Accounted
<1> QED BY <1>3, <1>8

-----------------------------------------------------------------------------
(* The steps of the two tasks, part by part of TaskInv.                    *)
LEMMA AccountedStep ==
  ASSUME TaskInv, Job \/ Writer \/ WriterFails
  PROVE  Accounted'
<1> USE DEF TaskInv, activeVars, jobVars, writerVars, fileVars, JobGoto, WriterGoto
<1>1. CASE OpenUpstream \/ Restart
  BY <1>1 DEF OpenUpstream, Restart, Phases, Accounted
<1>2. CASE StartBody
  <2>1. wq' = <<>> /\ pending' = 0 /\ received' = written' /\ inHand' = 0
    BY <1>2 DEF StartBody, Phases
  <2>2. PICK n \in 0 .. Size : n = written
    BY DEF TaskTypes
  <2> DEFINE ends == [i \in 0 .. 0 |-> n]
  <2>3. written' = n /\ received' - inHand' = n /\ Len(wq') = 0
    BY <1>2, <2>1, <2>2 DEF StartBody
  <2>4. Accounts(ends)'
    BY <2>1, <2>3 DEF Accounts
  <2>5. ends \in [0 .. Len(wq') -> 0 .. received' - inHand']
    BY <2>3
  <2> QED BY <2>4, <2>5 DEF Accounted
<1>3. CASE ReceiveChunk
  <2>1. /\ wpc # "none" /\ inHand = 0 /\ received' - inHand' = received - inHand
        /\ UNCHANGED <<wq, written, pending>>
    BY <1>3, SizeAssumption DEF ReceiveChunk, Phases, TaskTypes
  <2> QED BY <2>1, SameAccount
<1>4. CASE PushChunk
  <2>1. CASE wq' = Append(wq, inHand)
    BY <1>4, <2>1, PushAccount DEF PushChunk
  <2>2. CASE UNCHANGED wq
    <3>1. PICK ends \in [0 .. Len(wq) -> 0 .. received - inHand] : Accounts(ends)
      BY <1>4 DEF PushChunk, Accounted, Phases
    <3>2. Accounts(ends)' /\ received' = received /\ inHand' = 0
      BY <1>4, <2>2, <3>1 DEF PushChunk, Accounts
    <3>3. ends \in [0 .. Len(wq') -> 0 .. received' - inHand']
      BY <2>2, <3>1, <3>2 DEF TaskTypes
    <3> QED BY <3>2, <3>3 DEF Accounted
  <2> QED BY <1>4, <2>1, <2>2 DEF PushChunk
<1>5. CASE EndBody \/ DrainWriter \/ Commit \/ Finish \/ Fail
  <2>1. UNCHANGED <<wpc, wq, written, pending, received, inHand>>
    BY <1>5 DEF EndBody, DrainWriter, Commit, Finish, Fail
  <2> QED BY <2>1, SameAccount DEF Accounted
<1>6. CASE OpenTemp \/ SyncDisk \/ WriterEnd \/ WriterFails
  <2>1. UNCHANGED <<wq, written, pending, received, inHand>> /\ wpc # "none"
    BY <1>6 DEF OpenTemp, SyncDisk, WriterEnd, WriterFails
  <2> QED BY <2>1, SameAccount
<1>7. CASE ReceiveWrite
  <2>0. wq # <<>> /\ Head(wq) \in Nat
    <3>1. wq # <<>> /\ wq \in Seq(0 .. Size)
      BY <1>7 DEF ReceiveWrite, TaskTypes
    <3> QED BY <3>1, SizeAssumption
  <2>1. /\ wpc # "none" /\ wq # <<>> /\ wq' = Tail(wq) /\ UNCHANGED <<received, inHand>>
        /\ written' + pending' = written + pending + Head(wq)
    BY <1>7, <2>0 DEF ReceiveWrite, Flush, TaskTypes
  <2> QED BY <2>1, TakeAccount
<1>8. CASE FlushRest
  <2>1. /\ wpc # "none" /\ UNCHANGED <<wq, received, inHand>>
        /\ written' + pending' = written + pending
    BY <1>8 DEF FlushRest, Flush, TaskTypes
  <2> QED BY <2>1, SameAccount
<1> QED
  BY <1>1, <1>2, <1>3, <1>4, <1>5, <1>6, <1>7, <1>8 DEF Job, Writer

LEMMA TaskTypesStep ==
  ASSUME TaskInv, Job \/ Writer \/ WriterFails
  PROVE  TaskTypes'
<1> USE SizeAssumption, CapAssumption
    DEF TaskInv, TaskTypes, activeVars, jobVars, writerVars, fileVars, JobGoto, WriterGoto
<1>1. CASE OpenUpstream
  BY <1>1 DEF OpenUpstream
<1>2. CASE Restart
  BY <1>2 DEF Restart
<1>3. CASE StartBody
  BY <1>3 DEF StartBody
<1>4. CASE ReceiveChunk
  BY <1>4 DEF ReceiveChunk, Chunk
<1>5. CASE PushChunk
  <2>1. CASE wq' = Append(wq, inHand)
    <3>1. Len(wq) < WriteCap \/ wq' = wq
      BY <1>5 DEF PushChunk, Room
    <3>2. wq' \in Seq(0 .. Size) /\ Len(wq') = Len(wq) + 1
      BY <2>1
    <3>3. wq' \in Seq(0 .. Size) /\ Len(wq') <= WriteCap
      BY <3>1, <3>2
    <3> QED BY <1>5, <3>3 DEF PushChunk
  <2>2. CASE UNCHANGED wq
    BY <1>5, <2>2 DEF PushChunk
  <2> QED BY <1>5, <2>1, <2>2 DEF PushChunk
<1>6. CASE EndBody
  BY <1>6 DEF EndBody
<1>7. CASE DrainWriter
  BY <1>7 DEF DrainWriter, SizeAgrees
<1>8. CASE Commit
  BY <1>8 DEF Commit
<1>9. CASE Finish
  BY <1>9 DEF Finish
<1>10. CASE Fail
  BY <1>10 DEF Fail
<1>11. CASE OpenTemp
  BY <1>11 DEF OpenTemp
<1>12. CASE ReceiveWrite
  <2>0. wq # <<>> /\ Head(wq) \in Nat
    BY <1>12 DEF ReceiveWrite
  <2>1. /\ wpc # "none" /\ wq' = Tail(wq) /\ UNCHANGED <<received, inHand>>
        /\ written' + pending' = written + pending + Head(wq)
    BY <1>12, <2>0 DEF ReceiveWrite, Flush
  <2>2. written + pending + Head(wq) <= received - inHand
    BY <2>0, <2>1, TakeAccount
  <2>3. Head(wq) \in 0 .. Size /\ written + pending + Head(wq) <= Size
    BY <2>0, <2>1, <2>2
  <2>4. wq' \in Seq(0 .. Size) /\ Len(wq') <= WriteCap
    BY <2>0, <2>1
  <2>5. UNCHANGED <<contentLength, initialBytes, finished, failure, ring, jobVars, wpc, closed,
                    place>>
    BY <1>12 DEF ReceiveWrite
  <2>6. /\ pending' \in 0 .. Size /\ written' \in 0 .. Size /\ bytesWritten' \in 0 .. Size
        /\ disk' \in 0 .. Size /\ disk' <= written'
    <3>1. CASE Flush(pending + Head(wq))
      BY <2>3, <3>1 DEF Flush
    <3>2. CASE pending' = pending + Head(wq) /\ UNCHANGED <<bytesWritten, written, disk>>
      BY <2>3, <3>2
    <3> QED BY <1>12, <3>1, <3>2 DEF ReceiveWrite
  <2> QED BY <2>4, <2>5, <2>6
<1>13. CASE FlushRest
  <2>1. written + pending <= Size
    BY <1>13, WithinReceived DEF FlushRest
  <2> QED BY <1>13, <2>1 DEF FlushRest, Flush
<1>14. CASE SyncDisk
  BY <1>14 DEF SyncDisk
<1>15. CASE WriterEnd
  BY <1>15 DEF WriterEnd, Synced
<1>16. CASE WriterFails
  BY <1>16 DEF WriterFails
<1> QED
  BY <1>1, <1>2, <1>3, <1>4, <1>5, <1>6, <1>7, <1>8, <1>9, <1>10, <1>11, <1>12, <1>13, <1>14, <1>15, <1>16
  DEF Job, Writer

LEMMA PhasesStep ==
  ASSUME TaskInv, Job \/ Writer \/ WriterFails
  PROVE  Phases' /\ Endings' /\ Quiet'
<1> USE SizeAssumption DEF TaskInv, TaskTypes, Phases, Endings, Quiet, Begun, NewBytes,
        activeVars, jobVars, writerVars, fileVars, JobGoto, WriterGoto
<1>1. CASE OpenUpstream
  BY <1>1 DEF OpenUpstream
<1>2. CASE Restart
  BY <1>2 DEF Restart
<1>3. CASE StartBody
  BY <1>3 DEF StartBody
<1>4. CASE ReceiveChunk
  BY <1>4 DEF ReceiveChunk, Chunk
<1>5. CASE PushChunk
  BY <1>5 DEF PushChunk, Room
<1>6. CASE EndBody
  BY <1>6 DEF EndBody
<1>7. CASE DrainWriter
  BY <1>7 DEF DrainWriter, SizeAgrees
<1>8. CASE Commit
  BY <1>8 DEF Commit
<1>9. CASE Finish
  BY <1>9 DEF Finish
<1>10. CASE Fail
  BY <1>10 DEF Fail
<1>11. CASE OpenTemp
  BY <1>11 DEF OpenTemp
<1>12. CASE ReceiveWrite
  BY <1>12 DEF ReceiveWrite, Flush, Holds
<1>13. CASE FlushRest
  BY <1>13 DEF FlushRest, Flush
<1>14. CASE SyncDisk
  BY <1>14 DEF SyncDisk
<1>15. CASE WriterEnd
  BY <1>15 DEF WriterEnd, Synced
<1>16. CASE WriterFails
  BY <1>16 DEF WriterFails
<1> QED
  BY <1>1, <1>2, <1>3, <1>4, <1>5, <1>6, <1>7, <1>8, <1>9, <1>10, <1>11, <1>12, <1>13, <1>14, <1>15, <1>16
  DEF Job, Writer

-----------------------------------------------------------------------------
(* What a step of a follower does: it goes to a pc, to "ended" only when   *)
(* the download has succeeded, past the response start only when there is  *)
(* something to see; it moves in the ring; and it delivers the bytes from  *)
(* its offset up to some end, if any.                                      *)
Goes(f, label) ==
  /\ label \in PCs
  /\ pc' = [pc EXCEPT ![f] = label]
  /\ label = "ended" => finished /\ ~failure
  /\ pc[f] \in Waiting => label \in Waiting \/ Begun

Delivers(f, end) ==
  /\ offset(f) < end /\ end <= Size
  /\ out' = [out EXCEPT ![f] = @ \o [i \in 1 .. end - offset(f) |-> offset(f) + i - 1]]

FollowerStep(f) ==
  /\ UNCHANGED <<activeVars, jobVars, writerVars, fileVars>>
  /\ \E label \in PCs : Goes(f, label)
  /\ pos' \in [Followers -> 0 .. Len(ring)]
  /\ armed' \in [Followers -> {"no", "armed", "fired"}]
  /\ seen' \in [Followers -> 0 .. Size]
  /\ announced' \in [Followers -> 0 .. Size \cup {Unknown}]
  /\ \/ opened' = opened
     \/ opened' = [opened EXCEPT ![f] = TRUE] /\ pc[f] \notin Waiting
  /\ out' = out \/ \E end \in Nat : Delivers(f, end)

LEMMA MoveStep ==
  ASSUME IInv, NEW f \in Followers, NEW from, NEW label \in PCs, Move(f, from, label),
         label = "ended" => finished /\ ~failure,
         from \in Waiting => label \in Waiting \/ Begun
  PROVE  FollowerStep(f)
BY DEF IInv, FollowerTypes, Move, Goto, FollowerOnly, FollowerStep, Goes

LEMMA ArmStep ==
  ASSUME IInv, NEW f \in Followers, NEW from, NEW label \in PCs, Arm(f, from, label),
         label # "ended", from \in Waiting => label \in Waiting
  PROVE  FollowerStep(f)
BY DEF IInv, FollowerTypes, Arm, Goto, FollowerOnly, FollowerStep, Goes

LEMMA LoadStep ==
  ASSUME IInv, NEW f \in Followers, NEW from, NEW label \in PCs,
         Load(f, from, bytesWritten, label),
         label # "ended", from \in Waiting => label \in Waiting
  PROVE  FollowerStep(f)
BY DEF IInv, TaskInv, TaskTypes, FollowerTypes, Load, Goto, FollowerOnly, FollowerStep, Goes

LEMMA AnnounceStep ==
  ASSUME IInv, NEW f \in Followers, NEW from, NEW length \in 0 .. Size \cup {Unknown},
         Announce(f, from, length), Begun
  PROVE  FollowerStep(f)
BY DEF IInv, FollowerTypes, Announce, Goto, FollowerOnly, FollowerStep, Goes, PCs, StreamPC

LEMMA SkipStep ==
  ASSUME IInv, NEW f \in Followers, NEW from, NEW label \in PCs, SkipLag(f, from, label),
         label # "ended", from \notin Waiting
  PROVE  FollowerStep(f)
<1>1. Len(ring) \in Nat /\ Len(ring) - RingCap \in 0 .. Len(ring)
  <2>1. ring \in Seq(Chunk)
    BY DEF IInv, TaskInv, TaskTypes
  <2>2. pos[f] \in 0 .. Len(ring)
    BY DEF IInv, FollowerTypes
  <2>3. Len(ring) \in Nat
    BY <2>1
  <2>4. RingCap \in Nat /\ Len(ring) - pos[f] > RingCap
    BY CapAssumption DEF SkipLag, Lagged
  <2> QED BY <2>2, <2>3, <2>4
<1>2. pos' \in [Followers -> 0 .. Len(ring)]
  BY <1>1 DEF IInv, FollowerTypes, SkipLag
<1> QED BY <1>2 DEF IInv, FollowerTypes, SkipLag, Goto, FollowerOnly, FollowerStep, Goes

LEMMA TakeStep ==
  ASSUME IInv, NEW f \in Followers, NEW from, NEW already \in PCs, NEW gap \in PCs,
         Take(f, from, already, gap),
         already # "ended", gap # "ended", from \notin Waiting
  PROVE  FollowerStep(f)
<1>1. pos[f] \in 0 .. Len(ring) /\ Len(ring) \in Nat /\ pos[f] # Len(ring)
  BY DEF IInv, TaskInv, TaskTypes, FollowerTypes, Take, Empty
<1>2. pos[f] + 1 \in 1 .. Len(ring)
  BY <1>1
<1>3. Next1(f) \in Chunk
  BY <1>2 DEF IInv, TaskInv, TaskTypes, Next1
<1>4. pos' \in [Followers -> 0 .. Len(ring)]
  BY <1>2 DEF IInv, FollowerTypes, Take
<1>5. ASSUME Continues(Next1(f), offset(f)),
             out' = [out EXCEPT ![f] = @ \o Slice(Next1(f), offset(f))]
      PROVE  Delivers(f, Next1(f).to) /\ Next1(f).to \in Nat
  BY <1>3, <1>5, SizeAssumption DEF Continues, Slice, Delivers, Chunk
<1>6. out' = out \/ \E end \in Nat : Delivers(f, end)
  BY <1>5 DEF Take
<1>7. \E label \in PCs : Goes(f, label)
  BY DEF Take, Goto, Goes, PCs, StreamPC
<1> QED BY <1>4, <1>6, <1>7 DEF IInv, FollowerTypes, Take, FollowerOnly, FollowerStep

LEMMA SubscribeStep ==
  ASSUME IInv, NEW f \in Followers, Subscribe(f)
  PROVE  FollowerStep(f)
<1>1. pos' \in [Followers -> 0 .. Len(ring)]
  BY DEF IInv, TaskInv, TaskTypes, FollowerTypes, Subscribe
<1> QED BY <1>1 DEF IInv, FollowerTypes, Subscribe, Goto, FollowerOnly, FollowerStep, Goes,
           PCs, StartPC, Waiting

LEMMA OpenedStep ==
  ASSUME IInv, NEW f \in Followers, NEW from, Opened(f, from), from \notin Waiting
  PROVE  FollowerStep(f)
BY DEF IInv, FollowerTypes, Opened, Goto, FollowerOnly, FollowerStep, Goes, PCs, StreamPC

(* A read of the file delivers bytes that are there.                       *)
Reads(f) ==
  /\ pc[f] = "read"
  /\ \E n \in offset(f) + 1 .. seen[f] :
       /\ n <= disk
       /\ out' = [out EXCEPT ![f] = @ \o [i \in 1 .. n - offset(f) |-> offset(f) + i - 1]]
  /\ Goto(f, "top")
  /\ FollowerOnly
  /\ UNCHANGED <<pos, armed, seen, opened, announced>>

LEMMA ReadStep ==
  ASSUME IInv, NEW f \in Followers, Reads(f)
  PROVE  FollowerStep(f)
<1>1. PICK n \in offset(f) + 1 .. seen[f] :
        /\ n <= disk
        /\ out' = [out EXCEPT ![f] = @ \o [i \in 1 .. n - offset(f) |-> offset(f) + i - 1]]
  BY DEF Reads
<1>2. offset(f) \in Nat /\ disk <= Size /\ seen[f] \in Nat /\ disk \in Nat
  BY SizeAssumption DEF IInv, TaskInv, TaskTypes, FollowerTypes, offset
<1>3. n \in Nat /\ Delivers(f, n)
  BY <1>1, <1>2, SizeAssumption DEF Delivers
<1>4. \E label \in PCs : Goes(f, label)
  BY DEF Reads, Goto, Goes, PCs, StreamPC, Waiting, StartPC
<1> QED BY <1>3, <1>4 DEF IInv, FollowerTypes, Reads, FollowerOnly, FollowerStep

(* Every step of a follower is one of these.                               *)
LEMMA WaitStartStep ==
  ASSUME IInv, NEW f \in Followers, WaitStart(f)
  PROVE  FollowerStep(f)
<1> USE DEF PCs, StartPC, StreamPC, OverPC, Waiting, Begun
<1>1. CASE ArmFirst(f)
  BY <1>1, ArmStep DEF ArmFirst
<1>2. CASE Move(f, "failStart", IF failure THEN "refused" ELSE "lengthStart")
  BY <1>2, MoveStep
<1>3. CASE contentLength > 0 /\ Announce(f, "lengthStart", contentLength)
  BY <1>3, AnnounceStep DEF IInv, TaskInv, TaskTypes
<1>4. CASE contentLength = 0 /\ Move(f, "lengthStart", "bytesStart")
  BY <1>4, MoveStep
<1>5. CASE NewBytes(bytesWritten) /\ Announce(f, "bytesStart", Unknown)
  BY <1>5, AnnounceStep
<1>6. CASE ~NewBytes(bytesWritten) /\ Load(f, "bytesStart", bytesWritten, "finStart")
  BY <1>6, LoadStep
<1>7. CASE ~finished /\ Move(f, "finStart", "sleepStart")
  BY <1>7, MoveStep
<1>8. CASE finished /\ failure /\ Move(f, "finStart", "refused")
  BY <1>8, MoveStep
<1>9. CASE finished /\ ~failure /\ Announce(f, "finStart", seen[f])
  BY <1>9, AnnounceStep DEF IInv, FollowerTypes
<1>10. CASE Wake(f, "sleepStart", "armStart")
  BY <1>10, MoveStep DEF Wake
<1> QED
  BY <1>1, <1>2, <1>3, <1>4, <1>5, <1>6, <1>7, <1>8, <1>9, <1>10 DEF WaitStart

LEMMA StreamStep ==
  ASSUME IInv, NEW f \in Followers, Stream(f)
  PROVE  FollowerStep(f)
<1> USE DEF PCs, StartPC, StreamPC, OverPC, Waiting
<1>0. ASSUME NEW from \in StreamPC, NEW label \in PCs, Move(f, from, label),
             label # "ended" \/ (finished /\ label = Outcome)
      PROVE  FollowerStep(f)
  BY <1>0, MoveStep DEF Outcome
<1>1. CASE TryReceive(f)
  BY <1>0, <1>1, TakeStep, SkipStep DEF TryReceive
<1>2. CASE Coalesce(f)
  BY <1>0, <1>2, TakeStep, SkipStep DEF Coalesce
<1>3. CASE OpenFile(f)
  BY <1>0, <1>3, OpenedStep DEF OpenFile
<1>4. CASE ReadFile(f)
  <2>1. ASSUME Move(f, "readNone", IF finished THEN Outcome ELSE "armWait")
        PROVE  FollowerStep(f)
    BY <1>0, <2>1 DEF Outcome
  <2> QED BY <1>0, <1>4, <2>1, LoadStep, ReadStep DEF ReadFile, Reads
<1>5. CASE WaitMore(f)
  <2>1. ASSUME NEW from \in {"full", "fin", "woken"}, NEW label \in PCs, label # "ended",
               Move(f, from, IF finished THEN Outcome ELSE label)
        PROVE  FollowerStep(f)
    BY <1>0, <2>1 DEF Outcome
  <2> QED BY <1>0, <1>5, <2>1, ArmStep, TakeStep, SkipStep DEF WaitMore, Wake
<1>6. CASE WaitProgress(f)
  BY <1>0, <1>6, ArmStep DEF WaitProgress, Wake
<1> QED BY <1>1, <1>2, <1>3, <1>4, <1>5, <1>6 DEF Stream

LEMMA AnyFollowerStep ==
  ASSUME IInv, NEW f \in Followers, Subscribe(f) \/ WaitStart(f) \/ Stream(f) \/ Drop(f)
  PROVE  FollowerStep(f)
<1>1. CASE Drop(f)
  BY <1>1, MoveStep DEF Drop, PCs, OverPC, Waiting
<1> QED BY <1>1, SubscribeStep, WaitStartStep, StreamStep
-----------------------------------------------------------------------------
(* The invariant under a step of the tasks, and under one of a follower.   *)

(* TaskInv is about the tasks only.                                        *)
LEMMA TaskFrame ==
  ASSUME TaskInv, UNCHANGED <<activeVars, jobVars, writerVars, fileVars>>
  PROVE  TaskInv'
<1> USE DEF activeVars, jobVars, writerVars, fileVars
<1>1. TaskTypes'
  BY DEF TaskInv, TaskTypes
<1>2. Accounted'
  BY DEF TaskInv, Accounted, Accounts
<1>3. Phases' /\ Endings' /\ Quiet'
  BY DEF TaskInv, Phases, Endings, Quiet, Begun, NewBytes
<1> QED BY <1>1, <1>2, <1>3 DEF TaskInv

(* What a step of the tasks leaves of the followers' view: who waits is    *)
(* woken at most, the ring only grows, an end is final, and a download     *)
(* that has left "open" and "restart" never returns to them.               *)
TaskStep ==
  /\ UNCHANGED <<pc, pos, seen, opened, announced, out>>
  /\ armed' \in [Followers -> {"no", "armed", "fired"}]
  /\ Len(ring) <= Len(ring')
  /\ finished => finished' /\ failure' = failure
  /\ jpc \notin {"open", "restart"} => jpc' \notin {"open", "restart"}

LEMMA AnyTaskStep ==
  ASSUME IInv, Job \/ Writer \/ WriterFails
  PROVE  TaskStep
<1> USE DEF IInv, TaskInv, TaskTypes, FollowerTypes, TaskStep, NotifyWaiters, Endings,
        activeVars, jobVars, writerVars, fileVars, followerVars, JobGoto, WriterGoto
<1>0. Len(ring) \in Nat
  OBVIOUS
<1>1. CASE OpenUpstream
  BY <1>0, <1>1 DEF OpenUpstream
<1>2. CASE Restart
  BY <1>0, <1>2 DEF Restart
<1>3. CASE StartBody
  BY <1>0, <1>3 DEF StartBody
<1>4. CASE ReceiveChunk
  BY <1>0, <1>4 DEF ReceiveChunk, Chunk
<1>5. CASE PushChunk
  BY <1>0, <1>5 DEF PushChunk
<1>6. CASE EndBody
  BY <1>0, <1>6 DEF EndBody
<1>7. CASE DrainWriter
  BY <1>0, <1>7 DEF DrainWriter
<1>8. CASE Commit
  BY <1>0, <1>8 DEF Commit
<1>9. CASE Finish
  BY <1>0, <1>9 DEF Finish
<1>10. CASE Fail
  <2>1. ~finished /\ UNCHANGED <<ring, followerVars>> /\ jpc' = "failed"
    BY <1>10 DEF Fail
  <2> QED BY <1>0, <2>1
<1>11. CASE OpenTemp \/ SyncDisk \/ WriterEnd \/ WriterFails
  BY <1>0, <1>11 DEF OpenTemp, SyncDisk, WriterEnd, WriterFails
<1>12. CASE ReceiveWrite
  BY <1>0, <1>12 DEF ReceiveWrite, Flush
<1>13. CASE FlushRest
  BY <1>0, <1>13 DEF FlushRest, Flush
<1> QED
  BY <1>1, <1>2, <1>3, <1>4, <1>5, <1>6, <1>7, <1>8, <1>9, <1>10, <1>11, <1>12, <1>13
  DEF Job, Writer

LEMMA TasksKeepIInv ==
  ASSUME IInv, Job \/ Writer \/ WriterFails
  PROVE  IInv'
<1>1. TaskInv'
  BY AccountedStep, TaskTypesStep, PhasesStep DEF IInv, TaskInv
<1>2. TaskStep
  BY AnyTaskStep
<1>3. FollowerTypes'
  <2>1. Len(ring) \in Nat /\ Len(ring') \in Nat /\ Len(ring) <= Len(ring')
    <3>1. ring \in Seq(Chunk) /\ ring' \in Seq(Chunk)
      BY <1>1 DEF IInv, TaskInv, TaskTypes
    <3>2. Len(ring) <= Len(ring')
      BY <1>2 DEF TaskStep
    <3> QED BY <3>1, <3>2
  <2>2. pos' \in [Followers -> 0 .. Len(ring')]
    BY <1>2, <2>1 DEF IInv, FollowerTypes, TaskStep
  <2> QED BY <1>2, <2>2 DEF IInv, FollowerTypes, TaskStep
<1>4. FollowerInv'
  BY <1>1, <1>2 DEF IInv, TaskInv, TaskTypes, FollowerInv, TaskStep
<1> QED BY <1>1, <1>3, <1>4 DEF IInv

LEMMA FunctionIsSeq ==
  ASSUME NEW n \in Nat, NEW S, NEW s \in [1 .. n -> S]
  PROVE  s \in Seq(S) /\ Len(s) = n
OBVIOUS

(* What is delivered continues the prefix that is out already.             *)
LEMMA DeliverStep ==
  ASSUME IInv, NEW f \in Followers, NEW end \in Nat, Delivers(f, end)
  PROVE  /\ out' \in [Followers -> Seq(0 .. Size)]
         /\ \A g \in Followers : \A i \in 1 .. Len(out'[g]) : out'[g][i] = i - 1
<1> DEFINE more == [i \in 1 .. end - offset(f) |-> offset(f) + i - 1]
<1>1. /\ out \in [Followers -> Seq(0 .. Size)] /\ out[f] \in Seq(0 .. Size)
      /\ offset(f) \in Nat /\ offset(f) = Len(out[f])
  BY DEF IInv, FollowerTypes, offset
<1>2. end - offset(f) \in Nat /\ end <= Size
  BY <1>1 DEF Delivers
<1>3. more \in Seq(0 .. Size) /\ Len(more) = end - offset(f)
  <2>1. \A i \in 1 .. end - offset(f) : offset(f) + i - 1 \in 0 .. Size
    BY <1>1, <1>2, SizeAssumption
  <2>2. more \in [1 .. end - offset(f) -> 0 .. Size]
    BY <2>1
  <2>3. more \in Seq(0 .. Size) /\ Len(more) = end - offset(f)
    BY <1>2, <2>2, FunctionIsSeq
  <2> QED BY <1>2, <2>2, <2>3
<1>4. \A i \in 1 .. Len(more) : more[i] = offset(f) + i - 1
  BY <1>3
<1>5. out' = [out EXCEPT ![f] = out[f] \o more]
  BY <1>1 DEF Delivers
<1> HIDE DEF more
<1>6. out[f] \o more \in Seq(0 .. Size)
  BY <1>1, <1>3
<1>7. out' \in [Followers -> Seq(0 .. Size)]
  BY <1>1, <1>5, <1>6
<1>8. ASSUME NEW g \in Followers, NEW i \in 1 .. Len(out'[g])
      PROVE  out'[g][i] = i - 1
  <2>1. CASE g # f
    BY <1>1, <1>5, <1>8, <2>1 DEF IInv, FollowerInv
  <2>2. CASE g = f
    <3>1. out'[g] = out[f] \o more
      BY <1>1, <1>5, <2>2
    <3>2. CASE i \in 1 .. Len(out[f])
      <4>1. out'[g][i] = out[f][i]
        BY <1>1, <1>3, <3>1, <3>2
      <4> QED BY <3>2, <4>1 DEF IInv, FollowerInv
    <3>3. CASE i \notin 1 .. Len(out[f])
      <4>1. /\ i - Len(out[f]) \in 1 .. Len(more)
            /\ out'[g][i] = more[i - Len(out[f])]
        BY <1>1, <1>3, <1>8, <3>1, <3>3
      <4>2. more[i - Len(out[f])] = offset(f) + (i - Len(out[f])) - 1
        BY <1>4, <4>1
      <4> QED BY <1>1, <4>1, <4>2
    <3> QED BY <3>2, <3>3
  <2> QED BY <2>1, <2>2
<1> QED BY <1>7, <1>8

LEMMA FollowersKeepIInv ==
  ASSUME IInv, NEW f \in Followers, FollowerStep(f)
  PROVE  IInv'
<1>1. TaskInv'
  BY TaskFrame DEF IInv, FollowerStep
<1>2. UNCHANGED <<finished, failure, jpc, ring, contentLength, bytesWritten, initialBytes>>
  BY DEF FollowerStep, activeVars, jobVars
<1>3. PICK label \in PCs : Goes(f, label)
  BY DEF FollowerStep
<1>4. /\ out' \in [Followers -> Seq(0 .. Size)]
      /\ \A g \in Followers : \A i \in 1 .. Len(out'[g]) : out'[g][i] = i - 1
  BY DeliverStep DEF FollowerStep, IInv, FollowerTypes, FollowerInv
<1>5. opened' \in [Followers -> BOOLEAN] /\ pc' \in [Followers -> PCs]
  BY <1>3 DEF FollowerStep, Goes, IInv, FollowerTypes
<1>6. FollowerTypes'
  BY <1>2, <1>4, <1>5 DEF FollowerStep, FollowerTypes
<1>7. ASSUME NEW g \in Followers
      PROVE  /\ pc'[g] = "ended" => finished' /\ ~failure'
             /\ pc'[g] \notin Waiting \/ opened'[g] => jpc' \notin {"open", "restart"}
  <2>1. CASE g # f
    <3>1. pc'[g] = pc[g] /\ opened'[g] = opened[g]
      BY <1>3, <2>1 DEF FollowerStep, Goes, IInv, FollowerTypes
    <3> QED BY <1>2, <3>1 DEF IInv, FollowerInv
  <2>2. CASE g = f
    <3>1. pc'[f] = label
      BY <1>3 DEF Goes, IInv, FollowerTypes
    <3>2. Begun => jpc \notin {"open", "restart"}
      BY DEF IInv, TaskInv, Quiet
    <3>3. pc[f] \notin Waiting \/ opened[f] => jpc \notin {"open", "restart"}
      BY DEF IInv, FollowerInv
    <3>4. opened'[f] => opened[f] \/ pc[f] \notin Waiting
      BY DEF FollowerStep
    <3> QED BY <1>2, <1>3, <2>2, <3>1, <3>2, <3>3, <3>4 DEF Goes
  <2> QED BY <2>1, <2>2
<1>8. FollowerInv'
  BY <1>4, <1>7 DEF FollowerInv
<1> QED BY <1>1, <1>6, <1>8 DEF IInv

LEMMA InitIInv == Init => IInv
<1> SUFFICES ASSUME Init PROVE IInv
  OBVIOUS
<1> USE SizeAssumption, CapAssumption, ResumeAssumption DEF Init
<1>1. PICK r \in Resumes :
        /\ initialBytes = r /\ bytesWritten = r /\ resumeFrom = r
        /\ written = r /\ disk = r
        /\ place = IF r > 0 THEN "temp" ELSE "none"
  OBVIOUS
<1>2. r \in 0 .. Size
  OBVIOUS
<1>3. TaskTypes
  <2>1. ring \in Seq(Chunk) /\ wq \in Seq(0 .. Size) /\ Len(wq) = 0
    OBVIOUS
  <2>2. Len(wq) <= WriteCap /\ written \in 0 .. Size /\ disk <= written
    BY <1>1, <1>2, <2>1
  <2>3. place \in {"none", "temp", "final"}
    BY <1>1
  <2>4. /\ initialBytes \in 0 .. Size /\ bytesWritten \in 0 .. Size
        /\ resumeFrom \in 0 .. Size /\ written \in 0 .. Size /\ disk \in 0 .. Size
    BY <1>1, <1>2
  <2>5. /\ contentLength \in 0 .. Size /\ received \in 0 .. Size
        /\ inHand \in 0 .. Size /\ pending \in 0 .. Size
    OBVIOUS
  <2>6. finished \in BOOLEAN /\ failure \in BOOLEAN /\ closed \in BOOLEAN
    OBVIOUS
  <2> QED BY <2>1, <2>2, <2>3, <2>4, <2>5, <2>6 DEF TaskTypes
<1>4. Accounted /\ Phases /\ Endings /\ Quiet
  BY <1>1, <1>2 DEF Accounted, Phases, Endings, Quiet, Begun, NewBytes
<1>5. FollowerTypes
  BY DEF FollowerTypes, PCs
<1>6. FollowerInv
  BY DEF FollowerInv, Waiting
<1> QED BY <1>3, <1>4, <1>5, <1>6 DEF IInv, TaskInv

LEMMA StepIInv == IInv /\ [Next]_vars => IInv'
<1> SUFFICES ASSUME IInv, [Next]_vars PROVE IInv'
  OBVIOUS
<1>1. CASE Job \/ Writer \/ WriterFails
  BY <1>1, TasksKeepIInv
<1>2. ASSUME NEW f \in Followers, Subscribe(f) \/ WaitStart(f) \/ Stream(f) \/ Drop(f)
      PROVE  IInv'
  BY <1>2, AnyFollowerStep, FollowersKeepIInv
<1>3. CASE UNCHANGED vars
  <2>1. TaskInv'
    BY <1>3, TaskFrame DEF vars, IInv, activeVars, jobVars, writerVars, fileVars
  <2>2. FollowerTypes' /\ FollowerInv'
    BY <1>3 DEF vars, IInv, FollowerTypes, FollowerInv
  <2> QED BY <2>1, <2>2 DEF IInv
<1> QED BY <1>1, <1>2, <1>3 DEF Next

LEMMA Invariance == Spec => []IInv
BY InitIInv, StepIInv, PTL DEF Spec
-----------------------------------------------------------------------------
(* The state of the tasks and of the followers has its type: the chunks of *)
(* the channel are within its capacity, the file is never longer than what *)
(* was written of it, and no byte past Size is counted (server.rs:2018-    *)
(* 2495).                                                                  *)
THEOREM TypeCorrect == Spec => []TypeOK
<1>1. IInv => TypeOK
  BY DEF IInv, TaskInv, TaskTypes, FollowerTypes, TypeOK, PCs
<1> QED BY <1>1, Invariance, PTL

(* What a client has received is a prefix of the file, whatever mixture of *)
(* ring, lag and file reads it came from (server.rs:2018-2222).            *)
THEOREM Prefix == Spec => []PrefixDelivered
<1>1. IInv => PrefixDelivered
  BY DEF IInv, FollowerInv, PrefixDelivered
<1> QED BY <1>1, Invariance, PTL

(* A body that ends without error belongs to a download that succeeded and *)
(* is over: the failure is stored before finished (server.rs:2249-2253).   *)
THEOREM FailureShows == Spec => []NoCleanEndOnFailure
<1>1. IInv => NoCleanEndOnFailure
  BY DEF IInv, TaskInv, Endings, FollowerInv, NoCleanEndOnFailure
<1> QED BY <1>1, Invariance, PTL

(* A download that restarts from 0 has no reader: nobody can have seen a   *)
(* start before the upstream answered (server.rs:1968, 2287-2299).         *)
THEOREM RestartAlone == Spec => []RestartUnseen
<1>1. IInv => RestartUnseen
  BY DEF IInv, FollowerInv, RestartUnseen, Waiting, StartPC, StreamPC
<1> QED BY <1>1, Invariance, PTL

(* When success is published every byte is counted and in the file under   *)
(* its final name (server.rs:2376-2417, 2493-2495).                        *)
THEOREM OnDisk == Spec => []SuccessIsOnDisk
<1>1. IInv => SuccessIsOnDisk
  BY DEF IInv, TaskInv, Phases, Endings, SuccessIsOnDisk
<1> QED BY <1>1, Invariance, PTL
=============================================================================
