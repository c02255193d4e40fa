---------------------------- MODULE BlobDownload ----------------------------
(***************************************************************************)
(* The temporary file of one package file over all the downloads of it.    *)
(*                                                                         *)
(* A download takes up the temporary file where the last one left it: it   *)
(* measures the file, hashes it, asks the upstream for the rest, and hands *)
(* the chunks to a writer task of its own.  When the chunks are all there  *)
(* and their hash is the one of the link, the file is renamed to its final *)
(* name and the row of the blob says ready.  A download that fails before  *)
(* that does not wait for its writer: the writer goes on with what is in   *)
(* its channel, and the next download of the blob may run beside it.  A    *)
(* restart of the process ends both and leaves the file.                   *)
(*                                                                         *)
(* A file is what an inode holds; a byte is its position in the upstream   *)
(* file, Hole where nothing was written.  The link has a sha256: a link    *)
(* without one never resumes.  Abstracted: followers (BlobTail), limits,   *)
(* hot_blobs and eviction (BlobCache).                                     *)
(***************************************************************************)
EXTENDS Naturals, Sequences, SequencesExt, FiniteSetsExt

CONSTANTS
  Size,        \* bytes of the upstream file
  ChunkSizes,  \* sizes of the chunks a body arrives in
  WriteCap,    \* BLOB_WRITE_CHANNEL_CAPACITY
  FlushBytes,  \* DISK_FLUSH_BYTES
  Writers,     \* writer tasks that may be alive at once
  MaxFaults,   \* bound on what goes wrong
  None

VARIABLES
  asking,      \* a handler found the blob not ready and goes for its lock
  row,         \* the row of the blob: "missing", "pending" or "ready"
  recorded,    \* size_bytes of the row
  data,        \* what the inodes hold
  temp, final, \* the inode of blob_temp_path and of blob_path, or None
  job,         \* the download: pc, resume, digest (what the hasher saw), received, writer
  task,        \* the writer tasks: pc, from, inode, queue, closed, pending, cursor
  faults,
  \* what happened, for the properties only
  late,        \* writers left behind that a later download has followed
  crossed,     \* inodes a late writer has changed
  cutShort,    \* a download that had every byte was stopped before the rename
  missized     \* the size in the row was recorded for a crossed file

rowVars == <<asking, row, recorded>>
diskVars == <<data, temp, final>>
history == <<late, crossed, cutShort, missized>>
vars == <<rowVars, diskVars, job, task, faults, history>>

Hole == 0
Whole == [i \in 1 .. Size |-> i]
Part(from, to) == SubSeq(Whole, from + 1, to)
Inodes == 1 .. (2 + Cardinality(Writers))

NoJob == [pc |-> "none", resume |-> 0, digest |-> <<>>, received |-> 0, writer |-> None]
NoTask == [pc |-> "none", from |-> 0, inode |-> None, queue |-> <<>>, closed |-> FALSE,
           pending |-> <<>>, cursor |-> 0]

Init ==
  /\ asking = FALSE /\ row = "missing" /\ recorded = 0
  /\ data = [i \in Inodes |-> <<>>] /\ temp = None /\ final = None
  /\ job = NoJob /\ task = [w \in Writers |-> NoTask]
  /\ faults = 0
  /\ late = {} /\ crossed = {} /\ cutShort = FALSE /\ missized = FALSE

Fault == faults < MaxFaults /\ faults' = faults + 1
HasAll == job.received = Size /\ job.pc \in {"stream", "await", "commit"}

-----------------------------------------------------------------------------
(* Handlers. *)

\* The row is not ready: the handler goes for the lock of the blob.
Ask ==
  /\ ~asking /\ row # "ready"
  /\ asking' = TRUE
  /\ UNCHANGED <<row, recorded, diskVars, job, task, faults, history>>

\* Under the lock: the cache was filled, or a download is registered.
Join ==
  /\ asking /\ (row = "ready" \/ job.pc # "none")
  /\ asking' = FALSE
  /\ UNCHANGED <<row, recorded, diskVars, job, task, faults, history>>

TempLen == IF temp = None THEN 0 ELSE Len(data[temp])

\* Under the lock: no download is registered.  The row was read before the
\* registry and may say ready by now; INSERT OR IGNORE leaves it.
Start ==
  /\ asking /\ job.pc = "none"
  /\ asking' = FALSE
  /\ row' = IF row = "missing" THEN "pending" ELSE row
  /\ job' = [NoJob EXCEPT !.pc = IF TempLen > 0 THEN "hash" ELSE "fetch", !.resume = TempLen]
  /\ late' = {w \in Writers : task[w].pc \in {"open", "recv"}}
  /\ UNCHANGED <<recorded, diskVars, task, faults, crossed, cutShort, missized>>

-----------------------------------------------------------------------------
(* The download task. *)

\* The task leaves the registry and drops its sender; nobody waits for the writer.
EndJob ==
  /\ job' = NoJob
  /\ task' = IF job.writer = None THEN task
             ELSE [task EXCEPT ![job.writer] =
                     IF @.pc \in {"over", "failed"} THEN NoTask ELSE [@ EXCEPT !.closed = TRUE]]

HashPrefix ==
  /\ job.pc = "hash"
  /\ job' = [job EXCEPT !.pc = "fetch", !.digest = data[temp]]
  /\ UNCHANGED <<rowVars, diskVars, task, faults, history>>

\* 200, or 206 from where the temporary file ended when it was measured.
Fetch(w) ==
  /\ job.pc = "fetch" /\ job.resume < Size
  /\ task[w].pc = "none"
  /\ task' = [task EXCEPT ![w] = [NoTask EXCEPT !.pc = "open", !.from = job.resume,
                                                !.cursor = job.resume]]
  /\ job' = [job EXCEPT !.pc = "stream", !.received = job.resume, !.writer = w]
  /\ late' = late \ {w}
  /\ UNCHANGED <<rowVars, diskVars, faults, crossed, cutShort, missized>>

\* 416: the temporary file is as long as the upstream file, or longer.
Unsatisfiable ==
  /\ job.pc = "fetch" /\ job.resume >= Size
  /\ EndJob
  /\ UNCHANGED <<rowVars, diskVars, faults, history>>

\* 200 to a range request: the file is removed and asked for from its beginning.
Restart ==
  /\ job.pc = "fetch" /\ job.resume > 0 /\ Fault
  /\ temp' = None
  /\ job' = [job EXCEPT !.resume = 0, !.digest = <<>>]
  /\ UNCHANGED <<rowVars, data, final, task, history>>

\* A chunk is hashed and sent to the writer, whose channel has room.
Receive(n) ==
  /\ job.pc = "stream" /\ job.received + n <= Size
  /\ task[job.writer].pc # "failed" /\ Len(task[job.writer].queue) < WriteCap
  /\ LET chunk == Part(job.received, job.received + n)
     IN /\ job' = [job EXCEPT !.digest = @ \o chunk, !.received = @ + n]
        /\ task' = [task EXCEPT ![job.writer].queue = Append(@, chunk)]
  /\ UNCHANGED <<rowVars, diskVars, faults, history>>

BodyEnds ==
  /\ job.pc = "stream"
  /\ \/ job.received = Size /\ UNCHANGED faults
     \/ job.received < Size /\ Fault
CloseQueue == task' = [task EXCEPT ![job.writer].closed = TRUE]

VerifyUnchecked ==   \* for a mutant: the hash is not compared
  /\ BodyEnds /\ CloseQueue
  /\ job' = [job EXCEPT !.pc = "await"]
  /\ UNCHANGED <<rowVars, diskVars, history>>

VerifyHolding ==   \* for a mutant: the sender is not dropped before the writer is awaited
  /\ BodyEnds
  /\ job' = [job EXCEPT !.pc = IF job.digest = Whole THEN "await" ELSE "mismatch"]
  /\ UNCHANGED <<rowVars, diskVars, task, history>>

\* The body ends, perhaps early and without an error; the hash decides.
Verify ==
  /\ BodyEnds /\ CloseQueue
  /\ job' = [job EXCEPT !.pc = IF job.digest = Whole THEN "await" ELSE "mismatch"]
  /\ UNCHANGED <<rowVars, diskVars, history>>

\* The hash is wrong: once the writer has ended the file is removed.
Mismatch ==
  /\ job.pc = "mismatch" /\ task[job.writer].pc \in {"over", "failed"}
  /\ temp' = None
  /\ EndJob
  /\ UNCHANGED <<rowVars, data, final, faults, history>>

\* The writer has written all it was sent.
AwaitWriter ==
  /\ job.pc = "await" /\ task[job.writer].pc = "over"
  /\ task[job.writer].cursor = job.received
  /\ job' = [job EXCEPT !.pc = "commit"]
  /\ UNCHANGED <<rowVars, diskVars, task, faults, history>>

CommitByCopy ==   \* for a mutant: the temporary file stays
  /\ job.pc = "commit"
  /\ final' = temp
  /\ job' = [job EXCEPT !.pc = "mark"]
  /\ UNCHANGED <<rowVars, data, temp, task, faults, history>>

Commit ==
  /\ job.pc = "commit"
  /\ final' = temp /\ temp' = None
  /\ job' = [job EXCEPT !.pc = "mark"]
  /\ UNCHANGED <<rowVars, data, task, faults, history>>

MarkReady ==
  /\ job.pc = "mark"
  /\ row' = "ready" /\ recorded' = job.received
  /\ missized' = (final \in crossed)
  /\ EndJob
  /\ UNCHANGED <<asking, diskVars, faults, late, crossed, cutShort>>

\* The upstream, SQLite or the file system fails the task, or its writer failed.
Fail ==
  /\ \/ job.pc \in {"hash", "fetch", "stream", "commit", "mark"} /\ Fault
     \/ job.pc \in {"stream", "await"} /\ task[job.writer].pc = "failed" /\ UNCHANGED faults
  /\ EndJob
  /\ cutShort' = (cutShort \/ HasAll)
  /\ UNCHANGED <<rowVars, diskVars, late, crossed, missized>>

-----------------------------------------------------------------------------
(* The writer task of a download; it may outlive the download. *)

FreeInode == Min(Inodes \ ({temp, final} \cup {task[w].inode : w \in Writers}))
Mark(w, i) == crossed' = IF w \in late THEN crossed \cup {i} ELSE crossed

\* create; append when the download resumes, else truncate.
OpenTemp(w) ==
  /\ task[w].pc = "open"
  /\ LET i == IF temp = None THEN FreeInode ELSE temp
         emptied == temp = None \/ task[w].from = 0
     IN /\ task' = [task EXCEPT ![w].pc = "recv", ![w].inode = i]
        /\ temp' = i
        /\ data' = IF emptied THEN [data EXCEPT ![i] = <<>>] ELSE data
        /\ crossed' = CASE ~emptied -> crossed
                         [] emptied /\ w \in late -> crossed \cup {i}
                         [] OTHER -> crossed \ {i}
  /\ UNCHANGED <<rowVars, final, job, faults, late, cutShort, missized>>

\* The first chunk is written at once, later ones when they are enough.
MustFlush(w) ==
  /\ task[w].pending # <<>>
  /\ \/ task[w].cursor = task[w].from
     \/ Len(task[w].pending) >= FlushBytes
     \/ task[w].closed /\ task[w].queue = <<>>

Gather(w) ==
  /\ task[w].pc = "recv" /\ task[w].queue # <<>> /\ ~MustFlush(w)
  /\ task' = [task EXCEPT ![w].pending = @ \o Head(task[w].queue), ![w].queue = Tail(@)]
  /\ UNCHANGED <<rowVars, diskVars, job, faults, history>>

\* O_APPEND writes at the end of the file, the other mode at the task's own offset.
Written(w, bytes) ==
  LET old == data[task[w].inode]
      at == IF task[w].from > 0 THEN Len(old) ELSE task[w].cursor
  IN [i \in 1 .. Max({Len(old), at + Len(bytes)}) |->
        IF i \in at + 1 .. at + Len(bytes) THEN bytes[i - at]
        ELSE IF i \in DOMAIN old THEN old[i] ELSE Hole]

Flush(w) ==
  /\ task[w].pc = "recv" /\ MustFlush(w)
  /\ data' = [data EXCEPT ![task[w].inode] = Written(w, task[w].pending)]
  /\ task' = [task EXCEPT ![w].pending = <<>>, ![w].cursor = @ + Len(task[w].pending)]
  /\ Mark(w, task[w].inode)
  /\ UNCHANGED <<rowVars, temp, final, job, faults, late, cutShort, missized>>

EndTask(w, pc) ==
  task' = [task EXCEPT ![w] = IF job.writer = w THEN [@ EXCEPT !.pc = pc] ELSE NoTask]

Finish(w) ==
  /\ task[w].pc = "recv" /\ task[w].closed
  /\ task[w].queue = <<>> /\ task[w].pending = <<>>
  /\ EndTask(w, "over")
  /\ UNCHANGED <<rowVars, diskVars, job, faults, history>>

\* The open fails, or a write, of which any part may have been done.
WriterFails(w) ==
  /\ Fault
  /\ \/ task[w].pc = "open" /\ UNCHANGED <<data, crossed>>
     \/ /\ task[w].pc = "recv" /\ MustFlush(w)
        /\ \E n \in 0 .. Len(task[w].pending) - 1 :
             data' = [data EXCEPT ![task[w].inode] = Written(w, SubSeq(task[w].pending, 1, n))]
        /\ Mark(w, task[w].inode)
  /\ EndTask(w, "failed")
  /\ UNCHANGED <<rowVars, temp, final, job, late, cutShort, missized>>

-----------------------------------------------------------------------------
\* The process is killed and started again; the files stay.
Crash ==
  /\ Fault
  /\ asking' = FALSE /\ job' = NoJob /\ task' = [w \in Writers |-> NoTask]
  /\ cutShort' = (cutShort \/ HasAll) /\ late' = {}
  /\ UNCHANGED <<row, recorded, diskVars, crossed, missized>>

Download ==
  \/ HashPrefix \/ Unsatisfiable \/ Restart \/ Verify \/ Mismatch \/ AwaitWriter
  \/ Commit \/ MarkReady \/ Fail
  \/ \E n \in ChunkSizes : Receive(n)
  \/ \E w \in Writers : Fetch(w)
WriterStep(w) == OpenTemp(w) \/ Gather(w) \/ Flush(w) \/ Finish(w) \/ WriterFails(w)

Next == Ask \/ Join \/ Start \/ Download \/ (\E w \in Writers : WriterStep(w)) \/ Crash

Spec == Init /\ [][Next]_vars

\* Clients ask again, and the runtime runs every task.
Fairness ==
  /\ WF_vars(Ask) /\ WF_vars(Join \/ Start) /\ WF_vars(Download)
  /\ \A w \in Writers : WF_vars(WriterStep(w))
FairSpec == Spec /\ Fairness

-----------------------------------------------------------------------------
\* A blob that is ready has the bytes of the upstream file (download_blob_task_inner
\* renames the file only when the hash of what it hashed is the one of the link).
\* The code breaks it: see the README.
CachedIsUpstream == row = "ready" => data[final] = Whole

\* Whatever was resumed, restarted, cut off, refused or killed before, a ready blob
\* has the bytes and the size of the upstream file, unless a writer left behind by an
\* earlier download wrote to this very file after a later one had begun.
CachedUnlessCrossed ==
  row = "ready" =>
    /\ final \notin crossed => data[final] = Whole
    /\ ~missized => recorded = Size

\* A temporary file at least as long as the upstream file makes every later download
\* fail with 416.  It is left behind only by a download stopped between its last byte
\* and the rename, or by such a late writer.
WedgeHasCause ==
  TempLen >= Size /\ job.pc = "none" => cutShort \/ temp \in crossed

\* Clients that go on asking get the blob into the cache after any bounded number of
\* failures and restarts, unless the temporary file has become that long.
CachedOrWedged == <>[](row = "ready" \/ TempLen >= Size)
=============================================================================
