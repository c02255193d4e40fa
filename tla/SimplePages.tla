----------------------------- MODULE SimplePages -----------------------------
(***************************************************************************)
(* What PyTail reads from a project page of the upstream and writes into   *)
(* its own, in the two formats of the simple API, as operators: links of   *)
(* an HTML page (anchors) and of a JSON page (files) become ParsedLinks;   *)
(* a link becomes an anchor and a file again, with a URL of this server;   *)
(* and the route of such a URL leads back to the link.                     *)
(*                                                                         *)
(* A text is the sequence of its parts around the first "=": <<word>> or   *)
(* <<word, word>>; no text is None.  Escaping and the HTML and JSON syntax *)
(* undo each other and are left out.  A digest is a word; Digits gives its *)
(* bytes, of which the first RouteB (16 in the code) make a route.  A name *)
(* is a word too, and is written into URLs as it is, unencoded; a name     *)
(* taken from the last segment of an upstream URL is still percent-encoded.*)
(***************************************************************************)
EXTENDS Integers, Sequences, FiniteSets, FiniteSetsExt

CONSTANTS
  Digits,    \* the bytes of each word that is used as a sha256 value
  RouteB,    \* length of the prefix a route is made of
  MaxByte,   \* u8::MAX
  MaxAscii,  \* the last byte that is a character of its own
  Unsafe,    \* names no file is stored under: empty, or with a slash or a backslash
  None

TRUE_TEXT == <<"true">>
IsTrue(t) == t \in {<<"true">>, <<"TRUE">>}   \* eq_ignore_ascii_case
Pair(t) == t # None /\ Len(t) = 2 /\ t[1] # "" /\ t[2] # ""

-----------------------------------------------------------------------------
(* Reading an HTML page. *)

split_hash_fragment(t) == IF Pair(t) THEN t ELSE None

\* The name is the text of the anchor, or else the last segment of its URL, encoded as
\* it is there.
parse_anchor(a) ==
  [filename |-> IF a.text = "" THEN a.segment ELSE a.text, upstream_url |-> a.url,
   requires_python |-> a.requires_python, yanked |-> a.yanked,
   gpg_sig |-> IF a.gpg_sig = None THEN None ELSE <<IsTrue(a.gpg_sig)>>,
   dist_info_metadata |-> a.dist_info_metadata, core_metadata |-> a.core_metadata,
   hash |-> split_hash_fragment(a.fragment)]

(* Reading a JSON page.  A value is [is, text, fields]; fields are <<name, value>>. *)

Null == [is |-> "null", text |-> None, fields |-> <<>>]
Bool(b) == [Null EXCEPT !.is = IF b THEN "true" ELSE "false"]
String(t) == [Null EXCEPT !.is = "string", !.text = t]
Object(fs) == [Null EXCEPT !.is = "object", !.fields = fs]

\* The first field with a string, sha256 before others.
FirstField(fs) ==
  LET strings == {i \in DOMAIN fs : fs[i][2].is = "string"}
      sha == {i \in strings : fs[i][1] = "sha256"}
  IN IF strings = {} THEN None
     ELSE LET f == fs[Min(IF sha # {} THEN sha ELSE strings)] IN <<f[1], f[2].text[1]>>

first_hash(fs) == FirstField(fs)

yanked_from_json(v) ==
  CASE v.is = "true" -> <<"">>
    [] v.is = "string" -> v.text
    [] OTHER -> None

MetadataDigestOnly(v) ==   \* for a mutant: the name of the hash is lost
  CASE v.is = "true" -> TRUE_TEXT
    [] v.is = "string" -> v.text
    [] v.is = "object" -> IF FirstField(v.fields) = None THEN None
                          ELSE <<FirstField(v.fields)[2]>>
    [] OTHER -> None

metadata_from_json(v) ==
  CASE v.is = "true" -> TRUE_TEXT
    [] v.is = "string" -> v.text
    [] v.is = "object" -> FirstField(v.fields)
    [] OTHER -> None

\* As for an anchor, without a name the last segment of the URL is taken, not decoded.
parse_file(f) ==
  [filename |-> IF f.filename = None THEN f.segment ELSE f.filename, upstream_url |-> f.url,
   requires_python |-> f.requires_python, yanked |-> yanked_from_json(f.yanked),
   gpg_sig |-> f.gpg_sig,
   dist_info_metadata |-> metadata_from_json(f.dist_info_metadata),
   core_metadata |-> metadata_from_json(f.core_metadata),
   hash |-> IF f.hashes # None /\ first_hash(f.hashes) # None THEN first_hash(f.hashes)
            ELSE split_hash_fragment(f.fragment)]

-----------------------------------------------------------------------------
(* The blob of a link. *)

fallback_blob_identity(url) == [kind |-> "url", id |-> url]

hash_blob_identity(hash, url) ==
  IF hash[1] \in {"sha256", "SHA256"} /\ hash[2] # ""
  THEN [kind |-> "sha256", id |-> hash[2]]
  ELSE fallback_blob_identity(url)

BlobOf(l) ==
  IF l.hash = None THEN fallback_blob_identity(l.upstream_url)
  ELSE hash_blob_identity(l.hash, l.upstream_url)

\* dist_info_metadata, or else core_metadata.
Offered(l) == IF l.dist_info_metadata # None THEN l.dist_info_metadata ELSE l.core_metadata

\* The link of the metadata file of l, under the name that was asked for: its hash is
\* the one the page offers, if any.
MetadataLink(l, metadata_filename) ==
  [l EXCEPT !.filename = metadata_filename, !.upstream_url = @ \o ".metadata",
            !.requires_python = None, !.yanked = None, !.gpg_sig = None,
            !.dist_info_metadata = None, !.core_metadata = None,
            !.hash = IF Pair(Offered(l)) THEN Offered(l) ELSE None]

-----------------------------------------------------------------------------
(* Routes.  A route is the two segments before the file name, and the name. *)

UrlRoute(id, file) == [url |-> TRUE, prefix |-> <<>>, id |-> id, file |-> file]
HashRoute(digits, file) ==
  [url |-> FALSE, prefix |-> SubSeq(digits, 1, RouteB), id |-> "", file |-> file]

local_file_url(l) ==
  LET b == BlobOf(l)
  IN IF b.kind = "sha256" /\ Len(Digits[b.id]) >= RouteB
     THEN HashRoute(Digits[b.id], l.filename) ELSE UrlRoute(b.id, l.filename)

route_key_for_link(l) ==
  LET b == BlobOf(l)
  IN IF b.kind = "sha256" /\ Len(Digits[b.id]) >= RouteB
     THEN HashRoute(Digits[b.id], l.filename) ELSE UrlRoute(b.id, l.filename)

\* memcmp of two texts.
Less(s, t) ==
  \E i \in DOMAIN t : /\ \A j \in 1 .. i - 1 : j \in DOMAIN s /\ s[j] = t[j]
                      /\ i \in DOMAIN s => s[i] < t[i]

PrefixItself(prefix) == prefix   \* for a mutant: the range ends where it begins

\* The last byte that is not u8::MAX goes up and the rest is cut; None if that is no UTF-8.
next_lexicographic_prefix(prefix) ==
  LET small == {i \in DOMAIN prefix : prefix[i] # MaxByte}
  IN IF small = {} \/ prefix[Max(small)] >= MaxAscii THEN None
     ELSE [SubSeq(prefix, 1, Max(small)) EXCEPT ![Max(small)] = @ + 1]

\* The rows find_link_by_blob may return.
find_link_by_blob(rows, r) ==
  {l \in rows :
     LET b == BlobOf(l)
         end == next_lexicographic_prefix(r.prefix)
     IN /\ l.filename = r.file
        /\ IF r.url THEN b.kind = "url" /\ b.id = r.id
           ELSE /\ b.kind = "sha256" /\ end # None
                /\ ~Less(Digits[b.id], r.prefix) /\ Less(Digits[b.id], end)}

\* blob_storage_relpath and sanitize_filename: there is a path for the blob.
HasPath(l) ==
  /\ l.filename \notin Unsafe
  /\ BlobOf(l).kind = "sha256" => Len(Digits[BlobOf(l).id]) >= RouteB

-----------------------------------------------------------------------------
(* Writing a page. *)

yanked_json(t) == IF t = <<"">> THEN Bool(TRUE) ELSE String(t)

metadata_json(t) ==
  CASE IsTrue(t) -> Bool(TRUE)
    [] ~IsTrue(t) /\ Pair(t) -> Object(<<<<t[1], String(<<t[2]>>)>>>>)
    [] OTHER -> String(t)

AnchorOf(l) ==
  [url |-> local_file_url(l), segment |-> l.filename, text |-> l.filename, fragment |-> l.hash,
   requires_python |-> l.requires_python, yanked |-> l.yanked,
   gpg_sig |-> CASE l.gpg_sig = None -> None
                 [] l.gpg_sig = <<TRUE>> -> <<"true">>
                 [] OTHER -> <<"false">>,
   dist_info_metadata |-> l.dist_info_metadata, core_metadata |-> l.core_metadata]

FileOf(l) ==
  [url |-> local_file_url(l), segment |-> l.filename, filename |-> l.filename,
   fragment |-> None,
   hashes |-> IF l.hash = None THEN <<>> ELSE <<<<l.hash[1], String(<<l.hash[2]>>)>>>>,
   requires_python |-> l.requires_python,
   yanked |-> IF l.yanked = None THEN Null ELSE yanked_json(l.yanked),
   gpg_sig |-> l.gpg_sig,
   dist_info_metadata |-> IF l.dist_info_metadata = None THEN Null
                          ELSE metadata_json(l.dist_info_metadata),
   core_metadata |-> IF l.core_metadata = None THEN Null
                     ELSE metadata_json(l.core_metadata)]

\* What the two formats have in common: JSON has no case for true, and a fragment no
\* empty hash.
Common(l) ==
  LET truth(t) == IF t # None /\ IsTrue(t) THEN TRUE_TEXT ELSE t
  IN [l EXCEPT !.dist_info_metadata = truth(@), !.core_metadata = truth(@),
               !.hash = split_hash_fragment(@)]

\* A page of this server, in either format, read as it reads its upstream's, has the
\* links it was made of, each under a URL of this server (render_project_html_with_
\* file_base and render_project_json_with_file_base, which share nothing but the URL).
Readable(l) ==
  LET served == [l EXCEPT !.upstream_url = local_file_url(l)]
  IN /\ Common(parse_anchor(AnchorOf(l))) = Common(served)
     /\ Common(parse_file(FileOf(l))) = Common(served)
=============================================================================
