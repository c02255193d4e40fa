------------------------------ MODULE MCParts ------------------------------
(***************************************************************************)
(* Five parts of the server checked side by side: the size limit of the    *)
(* cache (BlobCache), requests for files by the URLs of pages              *)
(* (FileRequests), the wheel index of a channel (FlatIndex), the migrations*)
(* of the database (Startup), and samples of the conversions (SimplePages, *)
(* ByteRange).  part, chosen at the start, says which of them runs; the    *)
(* others are absent.                                                      *)
(***************************************************************************)
EXTENDS BlobCache, Integers, Sequences, TLC

CONSTANTS
  Pagers, Readers, Links, Names, Decoded, Unsafe, Sizes, Ranges,                 \* FileRequests
  Digits, RouteB, MaxByte, MaxAscii, MaxLate,                                    \* FlatIndex too
  Handlers, Projects, Upstreams, MaxVersion, MaxTime, TTL, Tagged, Lists, Root,  \* FlatIndex
  OldProjects, OldBlobs, Legacies                                                \* Startup

VARIABLES
  part, sample,
  rows, hot_links, carry, storing, file_late, file_pc, shown, metadata, link,  \* FileRequests
  answer, moved, overtaken,
  up, born, clock, client, page, owner, flat_row, flat_late, flat_pc, flat_want,  \* FlatIndex
  inst, known, started, reply, crossed,
  startup_pc, next, changed, objects, traits, index, version, free, owed, kept  \* Startup

(* One part runs at a time: jobs, pagers and handlers share their model    *)
(* values, as do blobs and upstreams, and few permutations are left.       *)
Symmetry == UNION {Permutations(s) : s \in {Blobs, Jobs, Pagers, Handlers, Upstreams}}

(* s0 is too short for a route, and m1 ends in the last ASCII byte.        *)
MCDigits == "s1" :> <<0, 1, 0>> @@ "s0" :> <<0>> @@ "m1" :> <<1, 2, 1>>

Plain(f, u, hash) ==
  [filename |-> f, upstream_url |-> u, requires_python |-> None, yanked |-> None,
   gpg_sig |-> None, dist_info_metadata |-> None, core_metadata |-> None, hash |-> hash]

(* One file with and without a metadata digest; and another, without a     *)
(* hash, of which decoding makes the same name.                            *)
MCLinks == {Plain("x+y", "u1", <<"sha256", "s1">>),
            [Plain("x+y", "u1", <<"sha256", "s1">>) EXCEPT !.core_metadata = <<"sha256", "m1">>],
            Plain("x%2By", "u2", None)}

MCNames == {l.filename : l \in MCLinks}
MCDecoded ==
  [n \in MCNames \cup {m \o ".metadata" : m \in MCNames} |->
     CASE n = "x%2By" -> "x+y" [] n = "x%2By.metadata" -> "x+y.metadata" [] OTHER -> n]

MCRanges == [bytes : {TRUE}, list : {FALSE}, dash : {TRUE}, first : {1, -2}, last : {9}]
MCLists == <<Projects, Projects>>

(* Databases of older programs: with page bodies, with one access index of *)
(* the links and no rendered pages; before statistics; before access times.*)
OldTables == {"projects", "project_links", "blobs"}
Older == OldTables \cup {"project_responses", "idx_blobs_state_size"}
Recent == Older \cup {"project_stats", "root_stats_samples", "idx_blobs_state_fetched_at",
                      "idx_project_links_blob_lookup"}
MCLegacies ==
  {OldTables \cup {"idx_project_links_project_order", "idx_project_links_blob_lookup"},
   Older, Recent}

-----------------------------------------------------------------------------
(* The parts. They are instances of the modules with the theorems about    *)
(* them, whose assumptions on the constants are those below.               *)
R == INSTANCE FileRequestsProofs WITH
       hot <- hot_links, late <- file_late, pc <- file_pc, Handlers <- Readers

F == INSTANCE FlatIndexProofs WITH
       pc <- flat_pc, row <- flat_row, late <- flat_late, want <- flat_want,
       Clients <- Upstreams

S == INSTANCE Startup WITH pc <- startup_pc, Projects <- OldProjects, Blobs <- OldBlobs

(* The words of the samples below.                                         *)
Words == {"", "true", "TRUE", "false", "sha256", "SHA256", "md5", "s0", "s1", "m1", "x", "why"}

ASSUME FilesAssumption ==
  /\ R!ConstantsOK /\ Ranges \subseteq R!Header /\ Sizes \subseteq Nat
  /\ R!TextsOK(Words)
ASSUME FlatAssumption == F!Instance
ASSUME StartupAssumption ==
  /\ IsFiniteSet(OldBlobs) /\ Legacies \subseteq SUBSET (S!Objects \cup {S!Redundant})
  /\ None \notin [files : Nat, cached : Nat]

-----------------------------------------------------------------------------
(* Anchors and files of upstream pages, with every shape of an attribute.  *)
Hashes == {None, <<"sha256">>, <<"sha256", "s1">>, <<"SHA256", "s0">>, <<"sha256", "">>,
           <<"md5", "x">>}
Texts == {None, <<"">>, <<"true">>, <<"TRUE">>, <<"false">>, <<"sha256", "m1">>, <<"sha256", "">>}
Anchors ==
  [url : {"u"}, segment : {"f"}, text : {"", "g"}, fragment : Hashes, requires_python : {None, "3"},
   yanked : {None, <<"">>, <<"why">>}, gpg_sig : {None, <<"true">>, <<"no">>},
   dist_info_metadata : Texts, core_metadata : {None, <<"true">>}]

Fields == {<<>>, <<<<"md5", R!String(<<"x">>)>>, <<"sha256", R!String(<<"s1">>)>>>>,
           <<<<"sha256", R!Null>>, <<"md5", R!String(<<"x">>)>>>>}
Values == {R!Null, R!Bool(TRUE), R!Bool(FALSE)} \cup {R!String(t) : t \in Texts \ {None}}
Files ==
  [url : {"u"}, segment : {"f"}, filename : {None, "g"}, fragment : Hashes, hashes : Fields \cup {None},
   requires_python : {None}, yanked : Values, gpg_sig : {None, <<FALSE>>},
   dist_info_metadata : {R!Null} \cup {R!Object(fs) : fs \in Fields}, core_metadata : Values]

Headers == [bytes : BOOLEAN, list : {FALSE}, dash : BOOLEAN, first : -2 .. 4, last : -2 .. 4]

Samples == {R!parse_anchor(a) : a \in Anchors} \cup {R!parse_file(f) : f \in Files}
           \cup [header : Headers, size : 0 .. 3]

-----------------------------------------------------------------------------
fileVars == <<rows, hot_links, carry, storing, file_late, file_pc, shown, metadata, link,
              answer, moved, overtaken>>
flatVars == <<up, born, clock, client, page, owner, flat_row, flat_late, flat_pc, flat_want,
              inst, known, started, reply, crossed>>
startupVars == <<startup_pc, next, changed, objects, traits, index, version, free, owed,
                 kept>>
mcVars == <<part, sample, vars, fileVars, flatVars, startupVars>>

NoFiles ==
  /\ rows = None /\ hot_links = None /\ carry = None /\ storing = None /\ file_late = None
  /\ file_pc = None /\ shown = None /\ metadata = None /\ link = None /\ answer = None
  /\ moved = None /\ overtaken = None
NoFlat ==
  /\ up = None /\ born = None /\ clock = None /\ client = None /\ page = None
  /\ owner = None /\ flat_row = None /\ flat_late = None /\ flat_pc = None
  /\ flat_want = None /\ inst = None /\ known = None /\ started = None /\ reply = None
  /\ crossed = None

NoStartup ==
  /\ startup_pc = None /\ next = None /\ changed = None /\ objects = None /\ traits = None
  /\ index = None /\ version = None /\ free = None /\ owed = None /\ kept = None

MCInit ==
  /\ part \in {"limit", "files", "flat", "startup", "samples"}
  /\ Init
  /\ IF part = "samples" THEN sample \in Samples ELSE sample = None
  /\ IF part = "files" THEN R!Init ELSE NoFiles
  /\ IF part = "flat" THEN F!Init ELSE NoFlat
  /\ IF part = "startup" THEN S!Init ELSE NoStartup

Converted == part = "samples" /\ UNCHANGED mcVars

MCNext ==
  \/ /\ UNCHANGED <<part, sample>>
     /\ \/ part = "limit" /\ Next /\ UNCHANGED <<fileVars, flatVars, startupVars>>
        \/ part = "files" /\ R!Next /\ UNCHANGED <<vars, flatVars, startupVars>>
        \/ part = "flat" /\ F!Next /\ UNCHANGED <<vars, fileVars, startupVars>>
        \/ part = "startup" /\ S!Next /\ UNCHANGED <<vars, fileVars, flatVars>>
  \/ Converted

MCSpec == MCInit /\ [][MCNext]_mcVars

(* A file that a page offers is answered with its bytes (see FileRequests). *)
ShownIsServed == part = "files" => R!ShownIsServed

(* A link in memory is the index's but for named races (see FileRequests). *)
HotLinkIsCurrent == part = "files" => R!HotLinkIsCurrent

(* A wheel page answered from memory was current a time to live ago (see FlatIndex). *)
FreshIsRecent == part = "flat" => F!FreshIsRecent

(* The links of a wheel project never go back to an older page (see FlatIndex). *)
RowAdvances == [][part = "flat" => F!LinksAdvance]_flatVars

(* The server serves a database of today's schema that lost nothing (see Startup). *)
ServingReady == part = "startup" => S!ServingReady

(* A migrated database has given its free space back (see Startup).        *)
MigratedIsCompacted == part = "startup" => S!MigratedIsCompacted

(* A page rendered as HTML and as JSON reads back as the links it was made *)
(* of (SimplePages, Readable), and a Range header is parsed to the bytes it*)
(* means (ByteRange, Exact).                                               *)
ReadsBack ==
  part = "samples" =>
    IF "header" \in DOMAIN sample THEN R!Exact(sample.header, sample.size)
    ELSE R!Readable(sample)
=============================================================================
