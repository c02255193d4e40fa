------------------------------ MODULE MCBlobs ------------------------------
(***************************************************************************)
(* The requests for a package file (BlobCache), and the temporary file     *)
(* over its downloads (BlobDownload), checked side by side: part, chosen at*)
(* the start, says which of them runs; the other keeps still.              *)
(***************************************************************************)
EXTENDS BlobCache

CONSTANTS Size, ChunkSizes, WriteCap, FlushBytes, Writers, MaxFaults  \* BlobDownload

\* The upstream file has bytes; None is neither a task nor an inode.
ASSUME DownloadAssumption ==
  /\ Size \in Nat \ {0} /\ ChunkSizes \subseteq Nat
  /\ IsFiniteSet(Writers) /\ None \notin Writers /\ None \notin Nat

VARIABLES
  part,
  asking, status, recorded, data, temp, final, job, task, faults,  \* BlobDownload
  late, crossed, cutShort, missized

D == INSTANCE BlobDownload WITH row <- status

downloadVars == <<asking, status, recorded, data, temp, final, job, task, faults,
                  late, crossed, cutShort, missized>>
mcVars == <<part, vars, downloadVars>>

MCInit == part \in {"requests", "download"} /\ Init /\ D!Init

Cached == part = "download" /\ status = "ready" /\ UNCHANGED downloadVars

MCNext ==
  /\ UNCHANGED part
  /\ \/ part = "requests" /\ Next /\ UNCHANGED downloadVars
     \/ part = "download" /\ (D!Next \/ Cached) /\ UNCHANGED vars

(* What keeps still has no fair action enabled but Ask, which is gated.    *)
MCSpec ==
  /\ MCInit /\ [][MCNext]_mcVars
  /\ Fairness
  /\ WF_downloadVars(part = "download" /\ D!Ask)
  /\ WF_downloadVars(D!Join \/ D!Start) /\ WF_downloadVars(D!Download)
  /\ \A w \in Writers : WF_downloadVars(D!WriterStep(w))

(* A ready blob has the bytes and the size of the upstream file, whatever  *)
(* was resumed, cut off or killed before, unless a late writer changed it  *)
(* (see BlobDownload).                                                     *)
CachedUnlessCrossed == D!CachedUnlessCrossed

(* A temporary file too long to resume has one of two causes (see BlobDownload). *)
WedgeHasCause == D!WedgeHasCause

(* Clients that go on asking get the blob, or it is in that state (see BlobDownload). *)
CachedOrWedged == part = "download" => D!CachedOrWedged
=============================================================================
