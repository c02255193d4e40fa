---------------------------- MODULE FileRequests ----------------------------
(***************************************************************************)
(* Requests for package files and their metadata files: from the URL a     *)
(* page of this server shows to the link (hot_links, else the index), and  *)
(* from the link to the answer, whole or a range, cached or not.           *)
(*                                                                         *)
(* Pagers are the handlers and refreshes that render a page: they store    *)
(* new links (one at a time) or load the links of the index, and put what  *)
(* they have into hot_links later.  Handlers look a file up and put what   *)
(* they found in the index into hot_links, later too.  Either may be       *)
(* dropped at any await, when its client leaves; what SQLite was to write  *)
(* for a pager is then written all the same, later and without the lock of *)
(* the project.  A restart does no more: it drops them all and empties     *)
(* hot_links.                                                              *)
(*                                                                         *)
(* A page names a file as its link does; the router percent-decodes the    *)
(* name a client asks for, and the suffix .metadata of what it gets decides*)
(* whether the file is meant or the metadata of another one.               *)
(*                                                                         *)
(* Abstracted: one project, whose page has one file; the download of a     *)
(* file that is not cached, which is sent whole while it goes on           *)
(* (BlobTail); whether it is cached is open (BlobCache).                   *)
(***************************************************************************)
EXTENDS SimplePages, ByteRange

CONSTANTS
  Pagers, Handlers,
  Links,      \* links the upstream pages have, as they are parsed
  Names,      \* names of files
  Decoded,    \* Decoded[n]: n at the end of a URL, as the router hands it to a handler,
              \* or None if no route takes the URL (n has a slash, or is no UTF-8)
  Sizes,      \* sizes of files
  Ranges,     \* Range headers
  MaxLate     \* bound: writes of dropped pagers under way at once

VARIABLES
  rows,       \* project_links
  hot,        \* hot_links: routes to links
  carry,      \* per pager: the links it will put into hot_links, or None
  storing,    \* the pager that has stored its links and holds the lock of the project
  late,       \* links that SQLite has yet to store for pagers who were dropped
  pc,         \* per handler: "idle", "lookup", "found", "serve", "answered"
  shown,      \* per handler: the link whose URL the client has from a page
  metadata,   \* per handler: its client asks for the metadata file
  link,       \* per handler: the link it has looked up, or None
  answer,     \* per handler
  \* what happened, for the properties only
  moved,      \* handlers whose link has left the index since they asked
  overtaken   \* routes of the index that memory has fallen behind (see HotLinkIsCurrent)

handlerVars == <<pc, shown, metadata, link, answer>>
vars == <<rows, hot, carry, storing, late, handlerVars, moved, overtaken>>

\* package_file_from_parts: the file whose metadata a name asks for, if any.
Suffixed(name) == \E base \in Names : name = base \o ".metadata"
strip_suffix(name) == CHOOSE base \in Names : name = base \o ".metadata"

\* The route a client gets by the URL of l on a page.
AddressOf(l) == [local_file_url(l) EXCEPT !.file = Decoded[l.filename]]
RouteOfMetadata(l) == [route_key_for_link(l) EXCEPT !.file = l.filename \o ".metadata"]

\* What is relied on of the links of upstream pages: a sha256 is text of ASCII, with nothing
\* to decode; files that agree in the characters of a route are one; and a file has not
\* those of the one that its name would make it the metadata of.
LinksRouted ==
  \A k, l \in Links :
    /\ BlobOf(l).kind = "sha256" => Digits[BlobOf(l).id] \in Seq(0 .. MaxAscii - 1)
    /\ route_key_for_link(k) \in {route_key_for_link(l), AddressOf(l)} => BlobOf(k) = BlobOf(l)
    /\ RouteOfMetadata(k) \notin {route_key_for_link(l), AddressOf(l)}

\* An answer: what it is, of which blob, and the bytes from start to end of a part.
NoAnswer == [is |-> "none", blob |-> None, start |-> 0, end |-> 0, header |-> None, size |-> 0]
Whole(l) == [NoAnswer EXCEPT !.is = "whole", !.blob = BlobOf(l)]
Part(l, s, e) == [NoAnswer EXCEPT !.is = "part", !.blob = BlobOf(l), !.start = s, !.end = e]
Refused(is) == [NoAnswer EXCEPT !.is = is]

Init ==
  /\ rows = {} /\ hot = <<>> /\ storing = None /\ late = {}
  /\ carry = [p \in Pagers |-> None]
  /\ pc = [h \in Handlers |-> "idle"]
  /\ shown = [h \in Handlers |-> None] /\ link = [h \in Handlers |-> None]
  /\ metadata = [h \in Handlers |-> FALSE] /\ answer = [h \in Handlers |-> NoAnswer]
  /\ moved = {} /\ overtaken = {}

PutIfAbsent(cache, ls) ==   \* for a mutant: a link in memory is not replaced
  [r \in DOMAIN cache \cup {route_key_for_link(l) : l \in ls} |->
     IF r \in DOMAIN cache THEN cache[r]
     ELSE CHOOSE l \in ls : route_key_for_link(l) = r]

Put(cache, ls) ==
  [r \in DOMAIN cache \cup {route_key_for_link(l) : l \in ls} |->
     IF \E l \in ls : route_key_for_link(l) = r
     THEN CHOOSE l \in ls : route_key_for_link(l) = r ELSE cache[r]]

\* The history of an insertion: it is late if the index has another link for the route.
Insert(r, l) ==
  overtaken' = IF l \in rows THEN overtaken \ {r}
               ELSE overtaken \cup ({r} \cap {route_key_for_link(k) : k \in rows})

-----------------------------------------------------------------------------
(* Pages. *)

\* The routes under which memory has another link than ls.
Behind(ls) ==
  {route_key_for_link(l) : l \in
     {k \in ls : route_key_for_link(k) \in DOMAIN hot /\ hot[route_key_for_link(k)] # k}}

\* The index has l and nothing else.
WriteRows(l) ==
  /\ rows' = {l}
  /\ moved' = moved \cup {h \in Handlers : pc[h] # "idle" /\ shown[h] # l}

\* refresh_project_cache stores what it fetched, under the lock of the project.
StoreProject(p, l) ==
  /\ carry[p] = None /\ storing = None
  /\ WriteRows(l) /\ storing' = p
  /\ carry' = [carry EXCEPT ![p] = {l}]
  /\ overtaken' = {}
  /\ UNCHANGED <<hot, late, handlerVars>>

\* The pager is dropped at the await of store_project: its guard is gone, the write is
\* still to come.
LeaveStore(p, l) ==
  /\ carry[p] = None /\ storing = None
  /\ Cardinality(late) < MaxLate
  /\ late' = late \cup {l}
  /\ UNCHANGED <<rows, hot, carry, storing, handlerVars, moved, overtaken>>

LateWrite(l) ==
  /\ late' = late \ {l}
  /\ WriteRows(l)
  /\ overtaken' = Behind({l})
  /\ UNCHANGED <<hot, carry, storing, handlerVars>>

\* A handler that renders what the index has, or a page that was not modified.
LoadProject(p) ==
  /\ carry[p] = None /\ rows # {}
  /\ carry' = [carry EXCEPT ![p] = rows]
  /\ UNCHANGED <<rows, hot, storing, late, handlerVars, moved, overtaken>>

\* The pager has nothing left to put into memory, and lets go of the lock it may hold.
Finish(p) ==
  /\ carry' = [carry EXCEPT ![p] = None]
  /\ storing' = IF storing = p THEN None ELSE storing
  /\ UNCHANGED <<rows, late, handlerVars, moved>>

CacheHotProject(p) ==
  /\ carry[p] # None
  /\ hot' = Put(hot, carry[p])
  /\ \E l \in carry[p] : Insert(route_key_for_link(l), l)
  /\ Finish(p)

\* The pager is dropped before that, at the await of store_project_responses.
LeavePage(p) ==
  /\ carry[p] # None
  /\ overtaken' = overtaken \cup IF storing = p THEN Behind(rows) ELSE {}
  /\ Finish(p) /\ UNCHANGED hot

\* hot_links is bounded, and may drop any entry; it is empty after a restart.
Drop(r) ==
  /\ r \in DOMAIN hot
  /\ hot' = [s \in DOMAIN hot \ {r} |-> hot[s]]
  /\ overtaken' = overtaken \ {r}
  /\ UNCHANGED <<rows, carry, storing, late, handlerVars, moved>>

-----------------------------------------------------------------------------
(* Files. *)

\* A client takes a URL from a page, with or without .metadata.
Request(h) ==
  /\ pc[h] = "idle"
  /\ \E l \in rows, m \in BOOLEAN :
       /\ m => Offered(l) # None
       /\ shown' = [shown EXCEPT ![h] = l]
       /\ metadata' = [metadata EXCEPT ![h] = m]
  /\ pc' = [pc EXCEPT ![h] = "lookup"]
  /\ moved' = moved \ {h}
  /\ UNCHANGED <<rows, hot, carry, storing, late, link, answer, overtaken>>

\* What the client asks for, as the router decodes it.
Route(h) ==
  [local_file_url(shown[h]) EXCEPT
     !.file = Decoded[IF metadata[h] THEN @ \o ".metadata" ELSE @]]

\* The file that is looked up: the one that is named, or whose metadata is.
Base(h) == [Route(h) EXCEPT !.file = IF Suffixed(@) THEN strip_suffix(@) ELSE @]

Take(h, l, at) ==
  /\ link' = [link EXCEPT ![h] = l]
  /\ pc' = [pc EXCEPT ![h] = at]
  /\ UNCHANGED <<shown, metadata, answer>>

LookupHot(h) ==
  /\ pc[h] = "lookup" /\ Base(h) \in DOMAIN hot
  /\ Take(h, hot[Base(h)], "serve")
  /\ UNCHANGED <<rows, hot, carry, storing, late, moved, overtaken>>

Reply(h, a) ==
  /\ answer' = [answer EXCEPT ![h] = a]
  /\ pc' = [pc EXCEPT ![h] = "answered"]

LookupIndex(h) ==
  /\ pc[h] = "lookup" /\ Base(h) \notin DOMAIN hot
  /\ LET found == find_link_by_blob(rows, Base(h))
     IN \/ \E l \in found : Take(h, l, "found")
        \/ found = {} /\ Reply(h, Refused("notFound")) /\ UNCHANGED <<shown, metadata, link>>
  /\ UNCHANGED <<rows, hot, carry, storing, late, moved, overtaken>>

InsertLink(h) ==
  /\ pc[h] = "found"
  /\ hot' = [r \in DOMAIN hot \cup {Base(h)} |-> IF r = Base(h) THEN link[h] ELSE hot[r]]
  /\ Insert(Base(h), link[h])
  /\ pc' = [pc EXCEPT ![h] = "serve"]
  /\ UNCHANGED <<rows, carry, storing, late, shown, metadata, link, answer, moved>>

RangeAnswer(l, range, otherwise) ==
  CASE range.is = "none" -> otherwise
    [] range.is = "range" -> Part(l, range.start, range.end)
    [] OTHER -> Refused("unsatisfiable")

\* cached_file_response
CachedAnswer(l, header, size) ==
  RangeAnswer(l, IF header = None THEN NoRange ELSE parse_byte_range(header, size), Whole(l))

\* The file is sent whole while it is downloaded, if there is a path to store it at.
Download(l) == IF HasPath(l) THEN Whole(l) ELSE Refused("badRequest")

\* The upstream's own answer to the header of the client; 200, and a failure other than
\* 404, are as good as no range.
fetch_file_range(header, size) ==
  {NoRange} \cup
    {IF WellFormed(header) /\ Wanted(header, size) # {}
       THEN Some(Min(Wanted(header, size)), Max(Wanted(header, size)))
       ELSE RangeParseError}

uncached_range_response(l, header, size) ==
  {RangeAnswer(l, range, Download(l)) :
     range \in IF header = None THEN {NoRange} ELSE fetch_file_range(header, size)}

\* ensure_link_blob: only what has a path can be cached.
Answers(l, header, size) ==
  uncached_range_response(l, header, size)
  \cup {a \in {CachedAnswer(l, header, size)} : HasPath(l)}

ServeFile(h, header, size) ==
  /\ pc[h] = "serve" /\ ~Suffixed(Route(h).file)
  /\ \E a \in Answers(link[h], header, size) :
       Reply(h, [a EXCEPT !.header = header, !.size = size])
  /\ UNCHANGED <<rows, hot, carry, storing, late, shown, metadata, link, moved, overtaken>>

\* ensure_metadata_blob: the link of the metadata file goes into hot_links as well.
ServeMetadata(h, header, size) ==
  /\ pc[h] = "serve" /\ Suffixed(Route(h).file)
  /\ LET l == MetadataLink(link[h], Route(h).file)
     IN IF Offered(link[h]) = None
          THEN Reply(h, Refused("notFound")) /\ UNCHANGED hot
          ELSE /\ hot' = [s \in DOMAIN hot \cup {Route(h)} |-> IF s = Route(h) THEN l ELSE hot[s]]
               /\ \E a \in Answers(l, header, size) :
                    Reply(h, [a EXCEPT !.header = header, !.size = size])
  /\ UNCHANGED <<rows, carry, storing, late, shown, metadata, link, moved, overtaken>>

\* The client has its answer, or leaves before and the handler is dropped.
Done(h) ==
  /\ pc[h] # "idle"
  /\ pc' = [pc EXCEPT ![h] = "idle"]
  /\ shown' = [shown EXCEPT ![h] = None] /\ link' = [link EXCEPT ![h] = None]
  /\ metadata' = [metadata EXCEPT ![h] = FALSE]
  /\ answer' = [answer EXCEPT ![h] = NoAnswer]
  /\ moved' = moved \ {h}
  /\ UNCHANGED <<rows, hot, carry, storing, late, overtaken>>

Page(p) ==
  \/ \E l \in Links : StoreProject(p, l) \/ LeaveStore(p, l)
  \/ LoadProject(p) \/ CacheHotProject(p) \/ LeavePage(p)
Handle(h) ==
  \/ Request(h) \/ LookupHot(h) \/ LookupIndex(h) \/ InsertLink(h) \/ Done(h)
  \/ \E header \in Ranges \cup {None}, size \in Sizes :
       ServeFile(h, header, size) \/ ServeMetadata(h, header, size)

Next ==
  \/ \E p \in Pagers : Page(p)
  \/ \E h \in Handlers : Handle(h)
  \/ \E l \in late : LateWrite(l)
  \/ \E r \in DOMAIN hot : Drop(r)

Spec == Init /\ [][Next]_vars

-----------------------------------------------------------------------------
\* What a client asks for: the file of the link, or its metadata file.
Asked(h) ==
  IF metadata[h] THEN MetadataLink(shown[h], shown[h].filename \o ".metadata") ELSE shown[h]

\* The server reads the request as the client meant it.  It does not if the name of the
\* file is changed by decoding (it was taken from a URL with escapes and written into the
\* page unencoded) or ends in .metadata itself.
Understood(h) ==
  Base(h).file = shown[h].filename /\ (Suffixed(Route(h).file) <=> metadata[h])

\* The answer to the header of a client, of the blob of l if it has bytes.
Fits(l, a) ==
  /\ a.is \in {"whole", "part"} => a.blob = BlobOf(l)
  /\ a.header # None /\ WellFormed(a.header) =>
       CASE a.is = "part" -> a.start .. a.end = Wanted(a.header, a.size)
         [] a.is = "unsatisfiable" -> Wanted(a.header, a.size) = {}
         [] OTHER -> TRUE

\* A file that a page offers, that stays on it and that can be stored is found, under the
\* blob whose hash the page names, and answered with the bytes that were asked for,
\* whether it is in memory, in the index, in the cache or at the upstream; so is its
\* metadata file, unless the link in memory is not the one the page was made of
\* (local_file_url_with_base, the decoding of the route, route_key_for_link,
\* find_link_by_blob, parse_byte_range: five places that must agree).  They do not agree
\* on a name that is not understood: such a file may be refused though the page offers
\* it, but it is never answered with the bytes of another.
ShownIsServed ==
  \A h \in Handlers :
    /\ pc[h] = "answered" /\ h \notin moved
    /\ metadata[h] => Understood(h) /\ link[h] \in {shown[h], None}
    /\ HasPath(shown[h]) /\ HasPath(Asked(h))
    => /\ Fits(Asked(h), answer[h])
       /\ Understood(h) =>
            /\ answer[h].is \in {"whole", "part", "unsatisfiable"}
            /\ answer[h].header = None => answer[h].is = "whole"

\* A link in memory is the one the index has for its route, but for the time between the
\* two writes of a refresh, and but for routes that are overtaken, in one of three ways:
\* somebody put a link there that the index no longer had, having read it before his last
\* await (ensure_blob, materialize_project); the write of a dropped pager came late and
\* changed the index under it (store_project runs on under spawn_blocking); or a pager was
\* dropped between its two writes, and memory kept the link of before.
HotLinkIsCurrent ==
  \A l \in rows :
    LET r == route_key_for_link(l)
    IN r \in DOMAIN hot /\ hot[r] # l =>
         r \in overtaken \/ (storing # None /\ carry[storing] = {l})
=============================================================================
