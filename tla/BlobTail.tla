------------------------------ MODULE BlobTail ------------------------------
(***************************************************************************)
(* One ActiveBlob: the task that downloads it, the task that writes it, and*)
(* the followers that stream it to their clients while it grows.           *)
(*                                                                         *)
(* The download task sends every chunk to a broadcast channel (a ring that *)
(* overwrites what slow receivers have not read) and to the writer through *)
(* a bounded channel.  The writer gathers chunks, appends them to the      *)
(* temporary file and publishes bytes_written.  A follower takes its bytes *)
(* from the ring when the next chunk continues its offset, and otherwise   *)
(* from the file; when it has neither it sleeps on a Notify.               *)
(*                                                                         *)
(* The atomics of ActiveBlob are shared between threads: every load and    *)
(* store of a follower is a step of its own.  A store that is followed by  *)
(* notify_waiters is one step with it, since a wake-up in between is only a*)
(* spurious one.  notify_waiters wakes the Notified futures created before *)
(* it and leaves no permit to later ones.                                  *)
(*                                                                         *)
(* A byte is its position in the file.  Abstracted: chunk contents, the    *)
(* 1 MiB cap of a read (a read returns any part of what is there), the     *)
(* database steps between the rename and the end (BlobCache).              *)
(***************************************************************************)
EXTENDS Naturals, Sequences, FiniteSets

CONSTANTS
  Followers,   \* handlers that stream this blob, the leader included
  Size,        \* bytes of the upstream file
  ChunkSizes,  \* sizes of the chunks the upstream body arrives in
  RingCap,     \* BLOB_BROADCAST_CHANNEL_CAPACITY
  WriteCap,    \* BLOB_WRITE_CHANNEL_CAPACITY
  FlushBytes,  \* DISK_FLUSH_BYTES
  Resumes,     \* possible lengths of the temporary file at the start
  Faults,      \* BOOLEAN: the upstream, the hash or the disk may fail
  Unknown      \* a Content-Length that is not given

ASSUME SizeAssumption == Size \in Nat \ {0} /\ ChunkSizes \subseteq Nat \ {0}
ASSUME CapAssumption == RingCap \in Nat \ {0} /\ WriteCap \in Nat \ {0}
ASSUME ResumeAssumption == Resumes \subseteq 0 .. (Size - 1)
ASSUME FaultsAssumption == Faults \in BOOLEAN

VARIABLES
  \* ActiveBlob
  contentLength,  \* content_length; 0 until it is known
  initialBytes,   \* initial_bytes
  bytesWritten,   \* bytes_written
  finished, failure,
  ring,           \* the chunks sent so far, as [from, to) intervals
  \* the download task
  jpc, resumeFrom, received, inHand,
  \* the writer task, its channel and the file
  wpc, wq, closed, pending, written,
  place,          \* where the file is: "none", "temp" or "final"
  disk,           \* its length
  \* the followers
  pc, pos, armed, seen, opened, announced, out

activeVars == <<contentLength, initialBytes, bytesWritten, finished, failure, ring>>
jobVars == <<jpc, resumeFrom, received, inHand>>
writerVars == <<wpc, wq, closed, pending, written>>
fileVars == <<place, disk>>
followerVars == <<pc, pos, armed, seen, opened, announced, out>>
vars == <<contentLength, initialBytes, bytesWritten, finished, failure, ring,
          jpc, resumeFrom, received, inHand, wpc, wq, closed, pending, written,
          place, disk, pc, pos, armed, seen, opened, announced, out>>

Chunk == [from : 0 .. Size, to : 0 .. Size]

(* wait_for_active_response_start *)
StartPC == {"armStart", "failStart", "lengthStart", "bytesStart", "finStart",
            "sleepStart"}
(* tail_file_stream *)
StreamPC == {"top", "try", "coalesce", "openTemp", "openFinal", "notFound",
             "load", "read", "readNone", "length", "full", "armFull", "sleepFull",
             "fin", "armSelect", "select", "woken",
             "armWait", "bytesWait", "finWait", "failWait", "sleepWait"}
(* "refused": an error status; "ended": the body is complete; "broken": the*)
(* body ends with an error; "gone": the client went away.                  *)
OverPC == {"refused", "ended", "broken", "gone"}

TypeOK ==
  /\ contentLength \in 0 .. Size
  /\ initialBytes \in 0 .. Size
  /\ bytesWritten \in 0 .. Size
  /\ finished \in BOOLEAN /\ failure \in BOOLEAN
  /\ ring \in Seq(Chunk)
  /\ jpc \in {"open", "restart", "reopen", "body", "push", "drain", "fail",
              "failed", "commit", "finish", "over"}
  /\ resumeFrom \in 0 .. Size
  /\ received \in 0 .. Size /\ inHand \in 0 .. Size
  /\ wpc \in {"none", "open", "recv", "sync", "ok", "dead"}
  /\ wq \in Seq(0 .. Size) /\ Len(wq) <= WriteCap
  /\ closed \in BOOLEAN
  /\ pending \in 0 .. Size /\ written \in 0 .. Size
  /\ place \in {"none", "temp", "final"}
  /\ disk \in 0 .. Size /\ disk <= written
  /\ pc \in [Followers -> {"new"} \cup StartPC \cup StreamPC \cup OverPC]
  /\ pos \in [Followers -> 0 .. Len(ring)]
  /\ armed \in [Followers -> {"no", "armed", "fired"}]
  /\ seen \in [Followers -> 0 .. Size]
  /\ opened \in [Followers -> BOOLEAN]
  /\ announced \in [Followers -> 0 .. Size \cup {Unknown}]
  /\ out \in [Followers -> Seq(0 .. Size)]

(* ensure_link_blob has registered the ActiveBlob. *)
Init ==
  /\ \E r \in Resumes :
       /\ initialBytes = r /\ bytesWritten = r /\ resumeFrom = r
       /\ written = r /\ disk = r
       /\ place = IF r > 0 THEN "temp" ELSE "none"
  /\ contentLength = 0
  /\ finished = FALSE /\ failure = FALSE
  /\ ring = <<>>
  /\ jpc = "open" /\ received = 0 /\ inHand = 0
  /\ wpc = "none" /\ wq = <<>> /\ closed = FALSE /\ pending = 0
  /\ pc = [f \in Followers |-> "new"]
  /\ pos = [f \in Followers |-> 0]
  /\ armed = [f \in Followers |-> "no"]
  /\ seen = [f \in Followers |-> 0]
  /\ opened = [f \in Followers |-> FALSE]
  /\ announced = [f \in Followers |-> Unknown]
  /\ out = [f \in Followers |-> <<>>]

(* active.notify.notify_waiters() *)
NotifyWaiters ==
  armed' = [f \in Followers |-> IF armed[f] = "armed" THEN "fired" ELSE armed[f]]

-----------------------------------------------------------------------------
(* The download task. *)

JobGoto(label) == jpc' = label

(* The response to the (range) request: a failure, a 206 from resumeFrom,  *)
(* or a 200 that does not honour the range.                                *)
OpenUpstream ==
  /\ jpc = "open"
  /\ \/ Faults /\ JobGoto("fail")
     \/ resumeFrom = 0 /\ JobGoto("reopen")
     \/ resumeFrom > 0 /\ \E label \in {"reopen", "restart"} : JobGoto(label)
  /\ UNCHANGED <<activeVars, resumeFrom, received, inHand, writerVars, fileVars,
                 followerVars>>

(* Range not honoured: remove the temporary file and start from 0. *)
Restart ==
  /\ jpc = "restart"
  /\ place' = "none" /\ disk' = 0 /\ written' = 0
  /\ resumeFrom' = 0
  /\ bytesWritten' = 0
  /\ NotifyWaiters
  /\ \/ JobGoto("reopen")
     \/ Faults /\ JobGoto("fail")
  /\ UNCHANGED <<contentLength, initialBytes, finished, failure, ring, received,
                 inHand, wpc, wq, closed, pending, pc, pos, seen, opened,
                 announced, out>>

(* The response is accepted: publish its length if it has one, spawn the   *)
(* writer and start on the body.                                           *)
StartBody ==
  /\ jpc = "reopen"
  /\ \/ contentLength' = Size /\ NotifyWaiters
     \/ UNCHANGED <<contentLength, armed>>
  /\ received' = resumeFrom
  /\ wpc' = "open"
  /\ JobGoto("body")
  /\ UNCHANGED <<initialBytes, bytesWritten, finished, failure, ring, resumeFrom,
                 inHand, wq, closed, pending, written, fileVars, pc, pos, seen,
                 opened, announced, out>>

(* stream.next(): a chunk goes to the ring, which overwrites and so never  *)
(* waits, and wakes the followers.                                         *)
ReceiveChunk ==
  /\ jpc = "body"
  /\ \E n \in ChunkSizes :
       /\ received + n <= Size
       /\ ring' = Append(ring, [from |-> received, to |-> received + n])
       /\ received' = received + n
       /\ inHand' = n
  /\ NotifyWaiters
  /\ JobGoto("push")
  /\ UNCHANGED <<contentLength, initialBytes, bytesWritten, finished, failure,
                 resumeFrom, writerVars, fileVars, pc, pos, seen, opened,
                 announced, out>>

(* Mutants: an unbounded channel, and one that waits for slow streams too. *)
NoLimit == TRUE
RoomForAll == /\ Len(wq) < WriteCap
              /\ \A f \in Followers : pc[f] \in StreamPC => Len(ring) - pos[f] <= RingCap

Room == Len(wq) < WriteCap

(* write_tx.send(chunk).await: wait for room, or find the writer gone. *)
PushChunk ==
  /\ jpc = "push"
  /\ \/ /\ wpc # "dead" /\ Room
        /\ wq' = Append(wq, inHand)
        /\ JobGoto("body")
     \/ /\ wpc = "dead"
        /\ JobGoto("fail")
        /\ UNCHANGED wq
  /\ inHand' = 0
  /\ UNCHANGED <<activeVars, resumeFrom, received, wpc, closed, pending, written,
                 fileVars, followerVars>>

(* End of the body, or an error in it: write_tx is dropped. *)
EndBody ==
  /\ jpc = "body"
  /\ \/ received = Size /\ JobGoto("drain")
     \/ Faults /\ JobGoto("fail")
  /\ closed' = TRUE
  /\ UNCHANGED <<activeVars, resumeFrom, received, inHand, wpc, wq, pending,
                 written, fileVars, followerVars>>

(* bytes_written != bytes_received *)
SizeAgrees == written = received

(* The hash is checked and the writer awaited: commit, or remove the file  *)
(* and fail.                                                               *)
DrainWriter ==
  /\ jpc = "drain"
  /\ wpc \in {"ok", "dead"}
  /\ \/ wpc = "ok" /\ SizeAgrees /\ JobGoto("commit") /\ UNCHANGED fileVars
     \/ wpc = "dead" /\ JobGoto("fail") /\ UNCHANGED fileVars
     \/ /\ Faults \/ (wpc = "ok" /\ ~SizeAgrees)
        /\ JobGoto("fail")
        /\ place' = "none" /\ UNCHANGED disk
  /\ UNCHANGED <<activeVars, resumeFrom, received, inHand, writerVars, followerVars>>

(* commit_blob_file; mark_blob_ready and the prune after it may fail. *)
Commit ==
  /\ jpc = "commit"
  /\ place' = "final"
  /\ \/ JobGoto("finish")
     \/ Faults /\ JobGoto("fail")
  /\ UNCHANGED <<activeVars, resumeFrom, received, inHand, writerVars, disk,
                 followerVars>>

(* finished.store(true); notify_waiters() *)
Finish ==
  /\ jpc \in {"finish", "failed"}
  /\ finished' = TRUE
  /\ NotifyWaiters
  /\ JobGoto("over")
  /\ UNCHANGED <<contentLength, initialBytes, bytesWritten, failure, ring,
                 resumeFrom, received, inHand, writerVars, fileVars, pc, pos,
                 seen, opened, announced, out>>

(* Mutant: finished is published before the failure. *)
FailLate ==
  /\ jpc = "fail"
  /\ IF finished THEN failure' = TRUE /\ JobGoto("over") /\ UNCHANGED <<finished, armed>>
     ELSE finished' = TRUE /\ NotifyWaiters /\ UNCHANGED <<failure, jpc>>
  /\ closed' = TRUE
  /\ UNCHANGED <<contentLength, initialBytes, bytesWritten, ring, resumeFrom,
                 received, inHand, wpc, wq, pending, written, fileVars, pc, pos,
                 seen, opened, announced, out>>

(* download_blob_task: the failure is stored before finished. Leaving the  *)
(* inner function dropped write_tx.                                        *)
Fail ==
  /\ jpc = "fail"
  /\ failure' = TRUE
  /\ closed' = TRUE
  /\ JobGoto("failed")
  /\ UNCHANGED <<contentLength, initialBytes, bytesWritten, finished, ring,
                 resumeFrom, received, inHand, wpc, wq, pending, written, fileVars,
                 followerVars>>

Job == OpenUpstream \/ Restart \/ StartBody \/ ReceiveChunk \/ PushChunk \/ EndBody
       \/ DrainWriter \/ Commit \/ Finish \/ Fail

-----------------------------------------------------------------------------
(* The writer task. *)

WriterGoto(label) == wpc' = label

OpenTemp ==
  /\ wpc = "open"
  /\ \/ WriterGoto("recv") /\ place' = "temp"
     \/ Faults /\ WriterGoto("dead") /\ UNCHANGED place
  /\ UNCHANGED <<activeVars, jobVars, wq, closed, pending, written, disk,
                 followerVars>>

(* After the first flush, pending is kept until FlushBytes are together.   *)
Holds(n) == written > resumeFrom /\ n < FlushBytes

(* write_all of pending, bytes_written.store, notify_waiters. tokio's File *)
(* first waits for the write before and completes this one in the          *)
(* background (SyncDisk).                                                  *)
Flush(n) ==
  /\ disk' = written
  /\ written' = written + n
  /\ bytesWritten' = written + n
  /\ pending' = 0
  /\ NotifyWaiters

ReceiveWrite ==
  /\ wpc = "recv"
  /\ wq # <<>>
  /\ wq' = Tail(wq)
  /\ IF Holds(pending + Head(wq))
       THEN /\ pending' = pending + Head(wq)
            /\ UNCHANGED <<bytesWritten, written, disk, armed>>
       ELSE Flush(pending + Head(wq))
  /\ UNCHANGED <<contentLength, initialBytes, finished, failure, ring, jobVars,
                 wpc, closed, place, pc, pos, seen, opened, announced, out>>

(* The channel is closed and empty: flush what is left. *)
FlushRest ==
  /\ wpc = "recv"
  /\ wq = <<>> /\ closed
  /\ IF pending > 0 THEN Flush(pending)
                    ELSE UNCHANGED <<bytesWritten, written, pending, disk, armed>>
  /\ WriterGoto("sync")
  /\ UNCHANGED <<contentLength, initialBytes, finished, failure, ring, jobVars,
                 wq, closed, place, pc, pos, seen, opened, announced, out>>

(* A part of what was written reaches the file. *)
SyncDisk ==
  /\ disk < written
  /\ wpc \in {"recv", "sync"}
  /\ \E n \in disk + 1 .. written : disk' = n
  /\ UNCHANGED <<activeVars, jobVars, writerVars, place, followerVars>>

(* Mutant: the writer returns without flush and sync_all. *)
NotSynced == TRUE

Synced == disk = written

WriterEnd ==
  /\ wpc = "sync"
  /\ Synced
  /\ WriterGoto("ok")
  /\ UNCHANGED <<activeVars, jobVars, wq, closed, pending, written, fileVars,
                 followerVars>>

WriterFails ==
  /\ Faults
  /\ wpc \in {"recv", "sync"}
  /\ WriterGoto("dead")
  /\ UNCHANGED <<activeVars, jobVars, wq, closed, pending, written, fileVars,
                 followerVars>>

Writer == OpenTemp \/ ReceiveWrite \/ FlushRest \/ SyncDisk \/ WriterEnd

-----------------------------------------------------------------------------
(* The followers. *)

Goto(f, label) == pc' = [pc EXCEPT ![f] = label]

FollowerOnly == UNCHANGED <<activeVars, jobVars, writerVars, fileVars>>

(* A step that only moves on, having read a shared value. *)
Move(f, from, label) ==
  /\ pc[f] = from
  /\ Goto(f, label)
  /\ FollowerOnly
  /\ UNCHANGED <<pos, armed, seen, opened, announced, out>>

(* active.notify.notified(): only notifications after this step count. *)
Arm(f, from, label) ==
  /\ pc[f] = from
  /\ armed' = [armed EXCEPT ![f] = "armed"]
  /\ Goto(f, label)
  /\ FollowerOnly
  /\ UNCHANGED <<pos, seen, opened, announced, out>>

(* notified.await *)
Wake(f, from, label) == armed[f] = "fired" /\ Move(f, from, label)

(* A load of an atomic into a local variable. *)
Load(f, from, value, label) ==
  /\ pc[f] = from
  /\ seen' = [seen EXCEPT ![f] = value]
  /\ Goto(f, label)
  /\ FollowerOnly
  /\ UNCHANGED <<pos, armed, opened, announced, out>>

(* Subscribe to the ring: the leader before its task is spawned, a follower*)
(* at any time it still finds the ActiveBlob.                              *)
Subscribe(f) ==
  /\ pc[f] = "new"
  /\ pos' = [pos EXCEPT ![f] = Len(ring)]
  /\ Goto(f, "armStart")
  /\ FollowerOnly
  /\ UNCHANGED <<armed, seen, opened, announced, out>>

Announce(f, from, length) ==
  /\ pc[f] = from
  /\ announced' = [announced EXCEPT ![f] = length]
  /\ Goto(f, "top")
  /\ FollowerOnly
  /\ UNCHANGED <<pos, armed, seen, opened, out>>

(* Mutant: bytes of an earlier download count as a start. *)
AnyBytes(n) == n > 0

NewBytes(n) == n > initialBytes

(* Mutant: the future is created only when there is nothing to see. *)
ArmLast(f) == \/ Move(f, "armStart", "failStart")
              \/ armed[f] = "no" /\ Arm(f, "sleepStart", "sleepStart")

ArmFirst(f) == Arm(f, "armStart", "failStart")

(* wait_for_active_response_start: arm, then look, then sleep. *)
WaitStart(f) ==
  \/ ArmFirst(f)
  \/ Move(f, "failStart", IF failure THEN "refused" ELSE "lengthStart")
  \/ contentLength > 0 /\ Announce(f, "lengthStart", contentLength)
  \/ contentLength = 0 /\ Move(f, "lengthStart", "bytesStart")
  \/ NewBytes(bytesWritten) /\ Announce(f, "bytesStart", Unknown)
  \/ ~NewBytes(bytesWritten) /\ Load(f, "bytesStart", bytesWritten, "finStart")
  \/ ~finished /\ Move(f, "finStart", "sleepStart")
  \/ finished /\ failure /\ Move(f, "finStart", "refused")
  \/ finished /\ ~failure /\ Announce(f, "finStart", seen[f])
  \/ Wake(f, "sleepStart", "armStart")

(* Where a stream that found the download finished goes. *)
Outcome == IF failure THEN "broken" ELSE "ended"

offset(f) == Len(out[f])

(* Mutant: a chunk that overlaps the offset is not cut. *)
WholeChunk(chunk, o) == [i \in 1 .. chunk.to - chunk.from |-> chunk.from + i - 1]

(* chunk_for_offset: the bytes of the chunk from the offset on. *)
Slice(chunk, o) == [i \in 1 .. chunk.to - o |-> o + i - 1]

Continues(chunk, o) == chunk.from <= o /\ o < chunk.to
AlreadyRead(chunk, o) == chunk.to <= o
Gap(chunk, o) == ~Continues(chunk, o) /\ ~AlreadyRead(chunk, o)

Next1(f) == ring[pos[f] + 1]
Empty(f) == pos[f] = Len(ring)
Lagged(f) == Len(ring) - pos[f] > RingCap

(* A receiver that lags is moved to the oldest chunk of the ring. *)
SkipLag(f, from, label) ==
  /\ pc[f] = from
  /\ Lagged(f)
  /\ pos' = [pos EXCEPT ![f] = Len(ring) - RingCap]
  /\ Goto(f, label)
  /\ FollowerOnly
  /\ UNCHANGED <<armed, seen, opened, announced, out>>

(* A chunk is received: delivered when it continues the offset. *)
Take(f, from, already, gap) ==
  /\ pc[f] = from
  /\ ~Empty(f) /\ ~Lagged(f)
  /\ pos' = [pos EXCEPT ![f] = @ + 1]
  /\ \/ /\ Continues(Next1(f), offset(f))
        /\ out' = [out EXCEPT ![f] = @ \o Slice(Next1(f), offset(f))]
        /\ Goto(f, "coalesce")
     \/ /\ AlreadyRead(Next1(f), offset(f))
        /\ Goto(f, already)
        /\ UNCHANGED out
     \/ /\ Gap(Next1(f), offset(f))
        /\ Goto(f, gap)
        /\ UNCHANGED out
  /\ FollowerOnly
  /\ UNCHANGED <<armed, seen, opened, announced>>

(* The head of the loop: failure, then try_recv. *)
TryReceive(f) ==
  \/ Move(f, "top", IF failure THEN "broken" ELSE "try")
  \/ Take(f, "try", "top", "openTemp")
  \/ SkipLag(f, "try", "openTemp")
  \/ Empty(f) /\ Move(f, "try", "openTemp")

(* coalesce_broadcast_chunks adds what else is there, up to a size; then   *)
(* the stream yields.                                                      *)
Coalesce(f) ==
  \/ Take(f, "coalesce", "coalesce", "top")
  \/ SkipLag(f, "coalesce", "top")
  \/ Move(f, "coalesce", "top")

(* open_active_blob_file: the temporary path, then the final one. *)
Opened(f, from) ==
  /\ pc[f] = from
  /\ opened' = [opened EXCEPT ![f] = TRUE]
  /\ Goto(f, "load")
  /\ FollowerOnly
  /\ UNCHANGED <<pos, armed, seen, announced, out>>

OpenFile(f) ==
  \/ opened[f] /\ Move(f, "openTemp", "load")
  \/ ~opened[f] /\ place = "temp" /\ Opened(f, "openTemp")
  \/ ~opened[f] /\ place # "temp" /\ Move(f, "openTemp", "openFinal")
  \/ place = "final" /\ Opened(f, "openFinal")
  \/ place # "final" /\ Move(f, "openFinal", "notFound")
  \/ Move(f, "notFound", IF finished THEN "broken" ELSE "armWait")

(* Read from the file when bytes_written is past the offset. *)
ReadFile(f) ==
  \/ offset(f) < bytesWritten /\ Load(f, "load", bytesWritten, "read")
  \/ offset(f) >= bytesWritten /\ Move(f, "load", "length")
  \/ /\ pc[f] = "read"
     /\ \E n \in offset(f) + 1 .. seen[f] :
          /\ n <= disk
          /\ out' = [out EXCEPT ![f] = @ \o [i \in 1 .. n - offset(f) |-> offset(f) + i - 1]]
     /\ Goto(f, "top")
     /\ FollowerOnly
     /\ UNCHANGED <<pos, armed, seen, opened, announced>>
  \/ disk <= offset(f) /\ Move(f, "read", "readNone")
  \/ Move(f, "readNone", IF finished THEN Outcome ELSE "armWait")

(* Everything announced is sent: wait for the end. Otherwise wait for a    *)
(* chunk or a notification. Both look at finished before they arm.         *)
WaitMore(f) ==
  \/ Move(f, "length", IF contentLength > 0 /\ offset(f) >= contentLength
                         THEN "full" ELSE "fin")
  \/ Move(f, "full", IF finished THEN Outcome ELSE "armFull")
  \/ Arm(f, "armFull", "sleepFull")
  \/ Wake(f, "sleepFull", "top")
  \/ Move(f, "fin", IF finished THEN Outcome ELSE "armSelect")
  \/ Arm(f, "armSelect", "select")
  \/ Take(f, "select", "top", "top")
  \/ SkipLag(f, "select", "top")
  \/ Wake(f, "select", "woken")
  \/ Move(f, "woken", IF finished THEN Outcome ELSE "top")

(* wait_for_active_progress: arm, look, sleep. *)
WaitProgress(f) ==
  \/ Arm(f, "armWait", "bytesWait")
  \/ Move(f, "bytesWait", IF bytesWritten <= offset(f) THEN "finWait" ELSE "top")
  \/ Move(f, "finWait", IF finished THEN "top" ELSE "failWait")
  \/ Move(f, "failWait", IF failure THEN "top" ELSE "sleepWait")
  \/ Wake(f, "sleepWait", "top")

Stream(f) == TryReceive(f) \/ Coalesce(f) \/ OpenFile(f) \/ ReadFile(f)
             \/ WaitMore(f) \/ WaitProgress(f)

(* The client closes its connection. *)
Drop(f) == pc[f] \in StartPC \cup StreamPC /\ Move(f, pc[f], "gone")

Next ==
  \/ Job \/ Writer \/ WriterFails
  \/ \E f \in Followers : Subscribe(f) \/ WaitStart(f) \/ Stream(f) \/ Drop(f)

Spec == Init /\ [][Next]_vars

(* The upstream delivers or its read timeout fails the task; both tasks    *)
(* are polled. Nothing is assumed of clients.                              *)
TaskFairness == WF_vars(Job) /\ WF_vars(Writer)

(* Followers are polled: before the response always, afterwards as long as *)
(* the client reads.                                                       *)
StartFairness == \A f \in Followers : WF_vars(WaitStart(f))
StreamFairness == \A f \in Followers : WF_vars(Stream(f))

TaskSpec == Spec /\ TaskFairness
StartSpec == Spec /\ TaskFairness /\ StartFairness
ReadingSpec == Spec /\ TaskFairness /\ StartFairness /\ StreamFairness

-----------------------------------------------------------------------------
(* What a client has received is a prefix of the file, whatever mixture of *)
(* ring, lag and file reads it came from (server.rs:2018-2222).            *)
PrefixDelivered == \A f \in Followers : \A i \in 1 .. Len(out[f]) : out[f][i] = i - 1

(* A failed download never looks complete: a body that ends without error  *)
(* belongs to a download that succeeded (server.rs:2249-2253).             *)
NoCleanEndOnFailure ==
  \A f \in Followers : pc[f] = "ended" => finished /\ ~failure /\ jpc = "over"

(* A download that restarts from 0 has no reader: nobody holds the file it *)
(* removes, nor has bytes of it (server.rs:2287-2299, 1968).               *)
RestartUnseen ==
  jpc = "restart" => \A f \in Followers : pc[f] \notin StreamPC /\ ~opened[f]

(* When success is published, every byte is counted in bytes_written and is *)
(* in the file under its final name (server.rs:2376-2417, 2493-2495).      *)
SuccessIsOnDisk ==
  finished /\ ~failure => bytesWritten = Size /\ disk = Size /\ place = "final"

(* The download ends whatever its clients do (the test at server.rs:3824). *)
DownloadTerminates == <>finished

(* A follower gets its status line, or its client leaves: arming before    *)
(* looking loses no wake-up (server.rs:1957-1979).                         *)
StartAnswered ==
  \A f \in Followers : (pc[f] = "armStart") ~> (pc[f] \notin StartPC)

(* The test at server.rs:2993 (body == data), and those of followers at    *)
(* 3767 and 3885: a body that ends cleanly is the whole file.              *)
CleanEndIsComplete == \A f \in Followers : pc[f] = "ended" => offset(f) = Size

(* The test at server.rs:3017: a stream wakes after a failure ("stream did *)
(* not wake after failure"); a client that reads sees its end.             *)
StreamEnds ==
  \A f \in Followers : (pc[f] \in StreamPC) ~> (pc[f] \in OverPC)
=============================================================================
