------------------------- MODULE FileRequestsProofs -------------------------
(***************************************************************************)
(* For any links, pagers, handlers, Range headers and sizes: a file that a *)
(* page shows, and that stays on it, is found by the URL of the page and   *)
(* answered with the bytes that were asked for, if decoding the URL leaves *)
(* its name as it is; and a link in memory is the one of the index, but    *)
(* for the overlaps that are named.                                        *)
(*                                                                         *)
(* Three things are proved of the conversions first.  parse_byte_range     *)
(* finds the range a well-formed header means, inside the file (InsideFile,*)
(* Parses); the search of a route by a range of prefixes finds exactly the *)
(* rows whose digest begins with the route (PrefixRange); so a route finds *)
(* every link that has it and none that has not (FindSound, FindComplete). *)
(* The invariant of the requests (IInv) then follows a link from the page  *)
(* to the answer.                                                          *)
(***************************************************************************)
EXTENDS FileRequests, WellFoundedInduction, SequenceTheorems, TLAPS

(* Every set of naturals that is not empty has a least element.            *)
LEMMA Least ==
  ASSUME NEW S \in SUBSET Nat, S # {}
  PROVE  \E m \in S : \A x \in S : m <= x
<1>1. IsWellFoundedOn(OpToRel(<, Nat), Nat)
  BY NatLessThanWellFounded
<1>2. PICK m \in S : \A x \in S : <<x, m>> \notin OpToRel(<, Nat)
  BY <1>1, WFMin
<1>3. ASSUME NEW x \in S PROVE m <= x
  <2>1. ~ (x < m)
    BY <1>2 DEF OpToRel
  <2> QED BY <2>1
<1> QED BY <1>3

LEMMA Greatest ==
  ASSUME NEW S \in SUBSET Nat, S # {}, NEW n \in Nat, \A x \in S : x <= n
  PROVE  Max(S) \in S /\ \A x \in S : x <= Max(S)
<1> DEFINE T == {n - x : x \in S}
<1>1. T \in SUBSET Nat /\ T # {}
  <2>1. \A x \in S : n - x \in Nat
    OBVIOUS
  <2> QED BY <2>1
<1>2. PICK m \in T : \A x \in T : m <= x
  BY <1>1, Least
<1>3. PICK g \in S : m = n - g
  BY <1>2
<1>4. ASSUME NEW x \in S PROVE g >= x
  <2>1. n - g <= n - x /\ x \in Nat /\ g \in Nat
    BY <1>2, <1>3
  <2> QED BY <2>1
<1>5. \E x \in S : \A y \in S : x >= y
  BY <1>4
<1> QED BY <1>5 DEF Max

-----------------------------------------------------------------------------
(* What parse_byte_range finds, for files of any size and headers with any *)
(* numbers.                                                                *)
Word == Nat \cup {Empty, Bad}
Header == [bytes : BOOLEAN, list : BOOLEAN, dash : BOOLEAN, first : Word, last : Word]

LEMMA MinOfTwo ==
  ASSUME NEW a \in Int, NEW b \in Int
  PROVE  Min({a, b}) = IF a <= b THEN a ELSE b
<1>1. Min({a, b}) \in {a, b} /\ \A x \in {a, b} : Min({a, b}) <= x
  <2>1. \E m \in {a, b} : \A x \in {a, b} : m <= x
    OBVIOUS
  <2>. QED  BY <2>1 DEF Min
<1>. QED  BY <1>1

(* A range that was found is part of the file: the length of the answer,   *)
(* end - start + 1, does not underflow, and the file can be read that far  *)
(* (cached_file_response).                                                 *)
THEOREM InsideFile ==
  ASSUME NEW h \in Header, NEW size \in Nat, parse_byte_range(h, size).is = "range"
  PROVE  LET r == parse_byte_range(h, size)
         IN r.start \in Nat /\ r.end \in Nat /\ r.start <= r.end /\ r.end < size
<1>1. NoRange.is # "range" /\ RangeParseError.is # "range"
  BY DEF NoRange, RangeParseError
<1>2. \A s, e : Some(s, e).start = s /\ Some(s, e).end = e
  BY DEF Some
<1>h. h.bytes \in BOOLEAN /\ h.list \in BOOLEAN /\ h.dash \in BOOLEAN
      /\ h.first \in Word /\ h.last \in Word
  BY DEF Header
<1>3. h.bytes /\ ~h.list /\ h.dash
  BY <1>1, <1>h DEF parse_byte_range
<1>4. CASE h.first = Empty
  <2>1. /\ parse_byte_range(h, size) = Some(SuffixStart(h.last, size), size - 1)
        /\ h.last \notin {Bad, Empty, 0} /\ size # 0
    BY <1>1, <1>3, <1>4 DEF parse_byte_range
  <2>2. h.last \in Nat
    BY <1>h, <2>1 DEF Word
  <2>3. SuffixStart(h.last, size) \in Nat /\ SuffixStart(h.last, size) <= size - 1
    BY <2>1, <2>2 DEF SuffixStart
  <2>. QED  BY <1>2, <2>1, <2>3
<1>5. CASE h.first # Empty
  <2>1. h.first # Bad /\ ~(h.first >= size) /\ h.last # Bad
    BY <1>1, <1>3, <1>5 DEF parse_byte_range
  <2>2. h.first \in Nat
    BY <1>h, <1>5, <2>1 DEF Word
  <2>3. CASE h.last = Empty
    <3>1. parse_byte_range(h, size) = Some(h.first, size - 1)
      BY <1>3, <1>5, <2>1, <2>3 DEF parse_byte_range
    <3>. QED  BY <1>2, <2>1, <2>2, <3>1
  <2>4. CASE h.last # Empty
    <3>1. h.last \in Nat
      BY <1>h, <2>1, <2>4 DEF Word
    <3>2. ~(h.first > h.last) /\ parse_byte_range(h, size) = Some(h.first, Min({h.last, size - 1}))
      BY <1>1, <1>3, <1>5, <2>1, <2>4 DEF parse_byte_range
    <3>3. Min({h.last, size - 1}) = IF h.last <= size - 1 THEN h.last ELSE size - 1
      BY <3>1, MinOfTwo
    <3>. QED  BY <1>2, <2>1, <2>2, <3>1, <3>2, <3>3
  <2>. QED  BY <2>3, <2>4
<1>. QED  BY <1>4, <1>5

(* A well-formed header is answered with exactly the bytes it means, or    *)
(* refused when there are none.                                            *)
THEOREM Parses == ASSUME NEW h \in Header, NEW size \in Nat PROVE Exact(h, size)
<1>. SUFFICES ASSUME WellFormed(h)
              PROVE  LET r == parse_byte_range(h, size)
                     IN IF Wanted(h, size) = {} THEN r = RangeParseError
                        ELSE r.is = "range" /\ r.start .. r.end = Wanted(h, size)
  BY DEF Exact
<1>1. h.bytes /\ ~h.list /\ h.dash /\ h.first # Bad /\ h.last # Bad
      /\ (h.first = Empty => h.last # Empty)
      /\ (h.first # Empty /\ h.last # Empty => h.first <= h.last)
  BY DEF WellFormed
<1>2. h.first \in Nat \cup {Empty} /\ h.last \in Nat \cup {Empty}
  BY <1>1 DEF Header, Word
<1>s. \A s, e : Some(s, e).is = "range" /\ Some(s, e).start = s /\ Some(s, e).end = e
  BY DEF Some
<1>e. -1 \notin Nat /\ Empty = -1
  BY DEF Empty
<1>3. CASE h.first = Empty
  <2>1. h.last \in Nat
    BY <1>1, <1>2, <1>3
  <2>2. Wanted(h, size) = {i \in 0 .. size - 1 : i + h.last >= size}
    BY <1>3 DEF Wanted
  <2>3. CASE h.last = 0 \/ size = 0
    <3>1. Wanted(h, size) = {}
      BY <2>1, <2>2, <2>3
    <3>2. parse_byte_range(h, size) = RangeParseError
      BY <1>1, <1>3, <2>3 DEF parse_byte_range
    <3>. QED  BY <3>1, <3>2
  <2>4. CASE h.last # 0 /\ size # 0
    <3>1. parse_byte_range(h, size) = Some(SuffixStart(h.last, size), size - 1)
      BY <1>1, <1>3, <2>4 DEF parse_byte_range
    <3>2. SuffixStart(h.last, size) .. size - 1 = Wanted(h, size)
      BY <2>1, <2>2 DEF SuffixStart
    <3>3. size - 1 \in Wanted(h, size)
      BY <2>1, <2>2, <2>4
    <3>. QED  BY <1>s, <3>1, <3>2, <3>3
  <2>. QED  BY <2>3, <2>4
<1>4. CASE h.first # Empty
  <2>1. h.first \in Nat
    BY <1>2, <1>4
  <2>2. Wanted(h, size) = {i \in 0 .. size - 1 : h.first <= i /\ (h.last # Empty => i <= h.last)}
    BY <1>4 DEF Wanted
  <2>3. CASE h.first >= size
    <3>1. Wanted(h, size) = {}
      BY <2>1, <2>2, <2>3
    <3>2. parse_byte_range(h, size) = RangeParseError
      BY <1>1, <1>4, <2>3 DEF parse_byte_range
    <3>. QED  BY <3>1, <3>2
  <2>4. CASE h.first < size /\ h.last = Empty
    <3>1. parse_byte_range(h, size) = Some(h.first, size - 1)
      BY <1>1, <1>4, <2>1, <2>4 DEF parse_byte_range
    <3>2. h.first .. size - 1 = Wanted(h, size)
      BY <2>1, <2>2, <2>4
    <3>3. h.first \in Wanted(h, size)
      BY <2>1, <2>2, <2>4
    <3>. QED  BY <1>s, <3>1, <3>2, <3>3
  <2>5. CASE h.first < size /\ h.last # Empty
    <3>1. h.last \in Nat /\ h.first <= h.last
      BY <1>1, <1>2, <1>4, <2>5
    <3>2. parse_byte_range(h, size) = Some(h.first, Min({h.last, size - 1}))
      BY <1>1, <1>4, <2>1, <2>5, <3>1 DEF parse_byte_range
    <3>3. Min({h.last, size - 1}) = IF h.last <= size - 1 THEN h.last ELSE size - 1
      BY <3>1, MinOfTwo
    <3>4. h.first .. Min({h.last, size - 1}) = Wanted(h, size)
      BY <2>1, <2>2, <2>5, <3>1, <3>3
    <3>5. h.first \in Wanted(h, size)
      BY <2>1, <2>2, <2>5, <3>1
    <3>. QED  BY <1>s, <3>2, <3>4, <3>5
  <2>. QED  BY <2>1, <2>3, <2>4, <2>5
<1>. QED  BY <1>3, <1>4
-----------------------------------------------------------------------------
(* The routes of files. *)
Text == Seq(0 .. MaxByte)
Starts(d, p) == Len(p) <= Len(d) /\ \A i \in 1 .. Len(p) : d[i] = p[i]

(* What next_lexicographic_prefix finds. *)
LEMMA NextPrefix ==
  ASSUME MaxByte \in Nat, NEW p \in Text, next_lexicographic_prefix(p) # None
  PROVE  \E m \in 1 .. Len(p) :
           /\ p[m] < MaxByte
           /\ \A i \in m + 1 .. Len(p) : p[i] = MaxByte
           /\ next_lexicographic_prefix(p) = [i \in 1 .. m |-> IF i = m THEN p[m] + 1 ELSE p[i]]
<1> DEFINE small == {i \in DOMAIN p : p[i] # MaxByte}
           m == Max(small)
<1>1. /\ Len(p) \in Nat /\ DOMAIN p = 1 .. Len(p)
      /\ \A i \in 1 .. Len(p) : p[i] \in 0 .. MaxByte
  BY DEF Text
<1>2. small # {} /\ next_lexicographic_prefix(p) = [SubSeq(p, 1, m) EXCEPT ![m] = @ + 1]
  BY DEF next_lexicographic_prefix
<1>3. small \in SUBSET Nat /\ \A i \in small : i <= Len(p)
  BY <1>1
<1>4. m \in small /\ \A i \in small : i <= m
  BY <1>1, <1>2, <1>3, Greatest
<1>5. m \in 1 .. Len(p) /\ p[m] < MaxByte
  BY <1>1, <1>4
<1>6. ASSUME NEW i \in m + 1 .. Len(p) PROVE p[i] = MaxByte
  <2>1. i \in DOMAIN p /\ ~ (i <= m)
    BY <1>1, <1>5
  <2>2. i \notin small
    BY <1>4, <2>1
  <2> QED BY <2>1, <2>2
<1> HIDE DEF m
<1>7. SubSeq(p, 1, m) = [i \in 1 .. m |-> p[i]]
  BY <1>1, <1>5 DEF Text
<1>8. next_lexicographic_prefix(p) = [i \in 1 .. m |-> IF i = m THEN p[m] + 1 ELSE p[i]]
  BY <1>2, <1>5, <1>7
<1> QED BY <1>5, <1>6, <1>8

(* find_link_by_blob asks SQLite for the digests from the prefix of the    *)
(* route up to the next prefix: these are the digests that start with it,  *)
(* whatever their bytes (cache.rs:418-433, 1847-1857).                     *)
THEOREM PrefixRange ==
  ASSUME MaxByte \in Nat, NEW p \in Text, NEW d \in Text,
         next_lexicographic_prefix(p) # None
  PROVE  ~Less(d, p) /\ Less(d, next_lexicographic_prefix(p)) <=> Starts(d, p)
<1> DEFINE end == next_lexicographic_prefix(p)
<1>1. /\ Len(p) \in Nat /\ DOMAIN p = 1 .. Len(p)
      /\ \A i \in 1 .. Len(p) : p[i] \in 0 .. MaxByte
      /\ Len(d) \in Nat /\ DOMAIN d = 1 .. Len(d)
      /\ \A i \in 1 .. Len(d) : d[i] \in 0 .. MaxByte
  BY DEF Text
<1>2. PICK m \in 1 .. Len(p) :
           /\ p[m] < MaxByte
           /\ \A i \in m + 1 .. Len(p) : p[i] = MaxByte
           /\ end = [i \in 1 .. m |-> IF i = m THEN p[m] + 1 ELSE p[i]]
  BY NextPrefix
<1>3. DOMAIN end = 1 .. m /\ end[m] = p[m] + 1 /\ \A i \in 1 .. m - 1 : end[i] = p[i]
  BY <1>1, <1>2
<1> HIDE DEF end
<1>4. ASSUME Starts(d, p) PROVE ~Less(d, p) /\ Less(d, end)
  <2>1. ~Less(d, p)
    BY <1>1, <1>4 DEF Less, Starts
  <2>2. /\ \A j \in 1 .. m - 1 : j \in DOMAIN d /\ d[j] = end[j]
        /\ d[m] < end[m]
    BY <1>1, <1>2, <1>3, <1>4 DEF Starts
  <2>3. Less(d, end)
    <3>1. m \in DOMAIN end
      BY <1>1, <1>2, <1>3
    <3> QED BY <2>2, <3>1 DEF Less
  <2> QED BY <2>1, <2>3
<1>5. ASSUME ~Less(d, p), Less(d, end) PROVE Starts(d, p)
  <2>0. ASSUME NEW i \in 1 .. Len(p), \A j \in 1 .. i - 1 : j \in DOMAIN d /\ d[j] = p[j]
        PROVE  i \in DOMAIN d /\ d[i] >= p[i]
    BY <1>1, <1>5, <2>0 DEF Less
  <2>1. PICK i \in 1 .. m : /\ \A j \in 1 .. i - 1 : j \in DOMAIN d /\ d[j] = end[j]
                            /\ i \in DOMAIN d => d[i] < end[i]
    BY <1>3, <1>5 DEF Less
  <2>2. \A j \in 1 .. i - 1 : j \in DOMAIN d /\ d[j] = p[j]
    BY <1>2, <1>3, <2>1
  <2>3. i \in DOMAIN d /\ d[i] >= p[i] /\ d[i] < end[i]
    BY <1>2, <2>0, <2>1, <2>2
  <2>4. i = m
    BY <1>1, <1>2, <1>3, <2>3
  <2>5. d[m] = p[m]
    BY <1>1, <1>2, <1>3, <2>3, <2>4
  <2> DEFINE Off == {k \in 1 .. Len(p) : ~ (k \in DOMAIN d /\ d[k] = p[k])}
  <2>6. Off = {}
    <3> SUFFICES ASSUME Off # {} PROVE FALSE
      OBVIOUS
    <3>1. PICK k \in Off : \A x \in Off : k <= x
      <4>1. Off \in SUBSET Nat
        BY <1>1
      <4> QED BY <4>1, Least
    <3>2. \A j \in 1 .. k - 1 : j \in DOMAIN d /\ d[j] = p[j]
      BY <1>1, <3>1
    <3>3. k \in DOMAIN d /\ d[k] >= p[k]
      BY <2>0, <3>1, <3>2
    <3>4. k > m
      BY <1>2, <2>2, <2>3, <2>4, <2>5, <3>1
    <3>5. p[k] = MaxByte
      BY <1>2, <3>1, <3>4
    <3> QED BY <1>1, <3>1, <3>3, <3>5
  <2> QED BY <1>1, <2>6 DEF Starts
<1> QED BY <1>4, <1>5 DEF end
-----------------------------------------------------------------------------
Fields(l) ==
  [filename |-> l.filename, upstream_url |-> l.upstream_url,
   requires_python |-> l.requires_python, yanked |-> l.yanked, gpg_sig |-> l.gpg_sig,
   dist_info_metadata |-> l.dist_info_metadata, core_metadata |-> l.core_metadata,
   hash |-> l.hash]

(* The constants: bytes, links that are records of these fields and of     *)
(* which routes are good, and None apart from what it stands beside.       *)
ConstantsOK ==
  /\ MaxByte \in Nat /\ MaxAscii \in 1 .. MaxByte /\ RouteB \in Nat \ {0}
  /\ None \notin Seq(0 .. MaxByte) /\ None \notin Pagers /\ None \notin Links
  /\ \A l \in Links : l = Fields(l)
  /\ LinksRouted

LEMMA PrefixOf ==
  ASSUME ConstantsOK, NEW d \in Text, RouteB <= Len(d)
  PROVE  /\ SubSeq(d, 1, RouteB) \in Text
         /\ Len(SubSeq(d, 1, RouteB)) = RouteB
         /\ \A i \in 1 .. RouteB : SubSeq(d, 1, RouteB)[i] = d[i]
  BY DEF ConstantsOK, Text

LEMMA SamePrefix ==
  ASSUME ConstantsOK, NEW d \in Text, NEW p \in Text, Len(p) = RouteB, Starts(d, p)
  PROVE  RouteB <= Len(d) /\ SubSeq(d, 1, RouteB) = p
<1>1. RouteB <= Len(d) /\ RouteB \in Nat /\ Len(d) \in Nat
  BY DEF Starts, ConstantsOK, Text
<1>2. /\ SubSeq(d, 1, RouteB) \in Text /\ Len(SubSeq(d, 1, RouteB)) = Len(p)
      /\ \A i \in 1 .. Len(p) : SubSeq(d, 1, RouteB)[i] = p[i]
  BY <1>1, PrefixOf DEF Starts
<1>3. SubSeq(d, 1, RouteB) = p
  BY <1>2, SeqEqual DEF Text
<1> QED BY <1>1, <1>3

LEMMA DigestIsText ==
  ASSUME ConstantsOK, NEW l \in Links, BlobOf(l).kind = "sha256"
  PROVE  /\ Digits[BlobOf(l).id] \in Text
         /\ \A i \in 1 .. Len(Digits[BlobOf(l).id]) : Digits[BlobOf(l).id][i] < MaxAscii
<1>1. Digits[BlobOf(l).id] \in Seq(0 .. MaxAscii - 1)
  BY DEF ConstantsOK, LinksRouted
<1>2. 0 .. MaxAscii - 1 \subseteq 0 .. MaxByte
  BY DEF ConstantsOK
<1> QED BY <1>1, <1>2, SeqMonotonic DEF Text, ConstantsOK

(* The end of the range of an ASCII prefix is text.                        *)
LEMMA AsciiEnd ==
  ASSUME ConstantsOK, NEW p \in Text, Len(p) = RouteB,
         \A i \in 1 .. RouteB : p[i] < MaxAscii
  PROVE  next_lexicographic_prefix(p) # None
<1> DEFINE small == {i \in DOMAIN p : p[i] # MaxByte}
           m == Max(small)
<1>1. DOMAIN p = 1 .. RouteB /\ RouteB \in Nat \ {0} /\ MaxAscii \in 1 .. MaxByte
      /\ MaxByte \in Nat /\ \A i \in 1 .. RouteB : p[i] \in 0 .. MaxByte
  BY DEF ConstantsOK, Text
<1>2. 1 \in small /\ small \in SUBSET Nat /\ \A i \in small : i <= RouteB
  BY <1>1
<1>3. m \in small
  BY <1>1, <1>2, Greatest
<1> HIDE DEF m
<1>4. m \in 1 .. RouteB /\ p[m] < MaxAscii
  BY <1>1, <1>3
<1>5. [SubSeq(p, 1, m) EXCEPT ![m] = @ + 1] \in Seq(0 .. MaxByte)
  <2>1. /\ SubSeq(p, 1, m) \in Seq(0 .. MaxByte) /\ m \in 1 .. Len(SubSeq(p, 1, m))
        /\ SubSeq(p, 1, m)[m] = p[m]
    BY <1>1, <1>4 DEF Text
  <2>2. p[m] + 1 \in 0 .. MaxByte
    BY <1>1, <1>4
  <2> QED BY <2>1, <2>2, ExceptSeq
<1>6. next_lexicographic_prefix(p) = [SubSeq(p, 1, m) EXCEPT ![m] = @ + 1]
  <2>1. small # {} /\ ~ (p[m] >= MaxAscii)
    BY <1>1, <1>2, <1>4
  <2> QED BY <2>1 DEF next_lexicographic_prefix, m
<1> QED BY <1>5, <1>6 DEF ConstantsOK

LEMMA HashFields ==
  ASSUME NEW d, NEW file
  PROVE  /\ HashRoute(d, file).url = FALSE
         /\ HashRoute(d, file).prefix = SubSeq(d, 1, RouteB)
         /\ HashRoute(d, file).file = file
  BY DEF HashRoute

(* Another name at the end of a route: the same two segments before it.    *)
LEMMA OtherName ==
  ASSUME NEW x, NEW file, NEW n
  PROVE  /\ [HashRoute(x, file) EXCEPT !.file = n] = HashRoute(x, n)
         /\ [UrlRoute(x, file) EXCEPT !.file = n] = UrlRoute(x, n)
         /\ UrlRoute(x, file).file = file
<1>0. \A url, prefix, id :
        [[url |-> url, prefix |-> prefix, id |-> id, file |-> file] EXCEPT !.file = n]
          = [url |-> url, prefix |-> prefix, id |-> id, file |-> n]
  OBVIOUS
<1>1. [HashRoute(x, file) EXCEPT !.file = n] = HashRoute(x, n)
  BY <1>0, Zenon DEF HashRoute
<1>2. [UrlRoute(x, file) EXCEPT !.file = n] = UrlRoute(x, n)
  BY <1>0, Zenon DEF UrlRoute
<1>3. UrlRoute(x, file).file = file
  BY DEF UrlRoute
<1> QED BY <1>1, <1>2, <1>3

(* A row that the search for a route finds has that route.                 *)
LEMMA FindSound ==
  ASSUME ConstantsOK, NEW k \in Links, NEW n, NEW rs \in SUBSET Links,
         NEW l \in find_link_by_blob(rs, [route_key_for_link(k) EXCEPT !.file = n])
  PROVE  l \in Links /\ route_key_for_link(l) = [route_key_for_link(k) EXCEPT !.file = n]
<1> DEFINE b == BlobOf(k)
           c == BlobOf(l)
           r == [route_key_for_link(k) EXCEPT !.file = n]
<1>1. l \in Links /\ l.filename = r.file
      /\ IF r.url THEN c.kind = "url" /\ c.id = r.id
         ELSE /\ c.kind = "sha256" /\ next_lexicographic_prefix(r.prefix) # None
              /\ ~Less(Digits[c.id], r.prefix)
              /\ Less(Digits[c.id], next_lexicographic_prefix(r.prefix))
  BY DEF find_link_by_blob
<1>2. CASE b.kind = "sha256" /\ Len(Digits[b.id]) >= RouteB
  <2>0. route_key_for_link(k) = HashRoute(Digits[b.id], k.filename)
    BY <1>2 DEF route_key_for_link
  <2>1. r = HashRoute(Digits[b.id], n)
    BY <2>0, OtherName
  <2>2. r.url = FALSE /\ r.prefix = SubSeq(Digits[b.id], 1, RouteB) /\ r.file = n
    <3> DEFINE h == HashRoute(Digits[b.id], n)
    <3>1. h.url = FALSE /\ h.prefix = SubSeq(Digits[b.id], 1, RouteB) /\ h.file = n
      BY HashFields
    <3> HIDE DEF h
    <3>2. r = h
      BY <2>1 DEF h
    <3> QED BY <3>1, <3>2
  <2>3. Digits[b.id] \in Text /\ RouteB <= Len(Digits[b.id])
    BY <1>2, DigestIsText DEF ConstantsOK, Text
  <2>4. r.prefix \in Text /\ Len(r.prefix) = RouteB
    BY <2>2, <2>3, PrefixOf
  <2>5. Digits[c.id] \in Text
    BY <1>1, <2>2, DigestIsText
  <2>6. Starts(Digits[c.id], r.prefix)
    BY <1>1, <2>2, <2>4, <2>5, PrefixRange DEF ConstantsOK
  <2>7. RouteB <= Len(Digits[c.id]) /\ SubSeq(Digits[c.id], 1, RouteB) = r.prefix
    BY <2>4, <2>5, <2>6, SamePrefix
  <2>8. route_key_for_link(l) = HashRoute(Digits[c.id], l.filename)
    BY <1>1, <2>2, <2>5, <2>7 DEF route_key_for_link, ConstantsOK, Text
  <2>9. l.filename = n /\ SubSeq(Digits[c.id], 1, RouteB) = SubSeq(Digits[b.id], 1, RouteB)
    BY <1>1, <2>2, <2>7
  <2> QED BY <1>1, <2>1, <2>8, <2>9 DEF HashRoute
<1>3. CASE ~ (b.kind = "sha256" /\ Len(Digits[b.id]) >= RouteB)
  <2>0. route_key_for_link(k) = UrlRoute(b.id, k.filename)
    BY <1>3 DEF route_key_for_link
  <2>1. r = UrlRoute(b.id, n)
    BY <2>0, OtherName
  <2>2. r.url /\ r.id = b.id /\ r.file = n
    BY <2>1 DEF UrlRoute
  <2>3. route_key_for_link(l) = UrlRoute(c.id, l.filename)
    BY <1>1, <2>2 DEF route_key_for_link
  <2> QED BY <1>1, <2>1, <2>2, <2>3
<1> QED BY <1>2, <1>3

(* A file that can be stored is found by its route as long as a page has it*)
LEMMA FindComplete ==
  ASSUME ConstantsOK, NEW rs \in SUBSET Links, NEW k \in rs, HasPath(k)
  PROVE  k \in find_link_by_blob(rs, route_key_for_link(k))
<1> DEFINE b == BlobOf(k)
           r == route_key_for_link(k)
<1>0. b.kind \in {"sha256", "url"}
  BY DEF BlobOf, hash_blob_identity, fallback_blob_identity
<1>1. CASE b.kind = "sha256"
  <2>1. RouteB <= Len(Digits[b.id]) /\ Digits[b.id] \in Text
    BY <1>1, DigestIsText DEF HasPath, ConstantsOK, Text
  <2>2. r = HashRoute(Digits[b.id], k.filename)
    BY <1>1, <2>1 DEF route_key_for_link, ConstantsOK, Text
  <2>3. r.url = FALSE /\ r.prefix = SubSeq(Digits[b.id], 1, RouteB) /\ r.file = k.filename
    <3> DEFINE h == HashRoute(Digits[b.id], k.filename)
    <3>1. h.url = FALSE /\ h.prefix = SubSeq(Digits[b.id], 1, RouteB) /\ h.file = k.filename
      BY HashFields
    <3> HIDE DEF h
    <3>2. r = h
      BY <2>2 DEF h
    <3> QED BY <3>1, <3>2
  <2>4. /\ r.prefix \in Text /\ Len(r.prefix) = RouteB
        /\ \A i \in 1 .. RouteB : r.prefix[i] = Digits[b.id][i]
    BY <2>1, <2>3, PrefixOf
  <2>5. \A i \in 1 .. RouteB : r.prefix[i] < MaxAscii
    <3>1. \A i \in 1 .. Len(Digits[b.id]) : Digits[b.id][i] < MaxAscii
      BY <1>1, DigestIsText
    <3>2. \A i \in 1 .. RouteB : i \in 1 .. Len(Digits[b.id])
      BY <2>1 DEF ConstantsOK, Text
    <3> QED BY <2>4, <3>1, <3>2
  <2>6. next_lexicographic_prefix(r.prefix) # None
    BY <2>4, <2>5, AsciiEnd
  <2>7. Starts(Digits[b.id], r.prefix)
    BY <2>1, <2>4 DEF Starts
  <2>8. ~Less(Digits[b.id], r.prefix) /\ Less(Digits[b.id], next_lexicographic_prefix(r.prefix))
    BY <2>1, <2>4, <2>6, <2>7, PrefixRange DEF ConstantsOK
  <2> QED BY <1>1, <2>3, <2>6, <2>8 DEF find_link_by_blob
<1>2. CASE b.kind = "url"
  <2>1. r = UrlRoute(b.id, k.filename)
    BY <1>2 DEF route_key_for_link
  <2> QED BY <1>2, <2>1 DEF find_link_by_blob, UrlRoute
<1> QED BY <1>0, <1>1, <1>2
-----------------------------------------------------------------------------
(* Answers. *)
LEMMA IntervalEnds ==
  ASSUME NEW s \in Nat, NEW e \in Nat, s <= e
  PROVE  Min(s .. e) = s /\ Max(s .. e) = e
<1>1. /\ s \in s .. e /\ \A y \in s .. e : s <= y
      /\ e \in s .. e /\ \A y \in s .. e : e >= y
  OBVIOUS
<1>2. Min(s .. e) \in s .. e /\ \A y \in s .. e : Min(s .. e) <= y
  BY <1>1 DEF Min
<1>3. Max(s .. e) \in s .. e /\ \A y \in s .. e : Max(s .. e) >= y
  BY <1>1 DEF Max
<1> QED BY <1>1, <1>2, <1>3

(* A range that is found is the one the header means, and none is found    *)
(* only when there is none.                                                *)
Apt(range, header, size) ==
  /\ range.is \in {"none", "range", "error"}
  /\ WellFormed(header) /\ range.is = "range" => range.start .. range.end = Wanted(header, size)
  /\ WellFormed(header) /\ range.is = "error" => Wanted(header, size) = {}

LEMMA NotRanges ==
  ASSUME NEW header, NEW size
  PROVE  /\ Apt(NoRange, header, size)
         /\ WellFormed(header) /\ Wanted(header, size) = {} => Apt(RangeParseError, header, size)
         /\ ~WellFormed(header) => Apt(RangeParseError, header, size)
         /\ ~WellFormed(header) => \A s, e : Apt(Some(s, e), header, size)
         /\ \A s, e : s .. e = Wanted(header, size) => Apt(Some(s, e), header, size)
  BY DEF Apt, NoRange, RangeParseError, Some

LEMMA ParsedApt ==
  ASSUME NEW header \in Header, NEW size \in Nat
  PROVE  Apt(parse_byte_range(header, size), header, size)
<1> DEFINE r == parse_byte_range(header, size)
<1>1. r = NoRange \/ r = RangeParseError \/ \E s, e : r = Some(s, e)
  BY DEF parse_byte_range, Header
<1>2. r.is \in {"none", "range", "error"}
  BY <1>1 DEF NoRange, RangeParseError, Some
<1>3. CASE WellFormed(header)
  <2>1. IF Wanted(header, size) = {} THEN r = RangeParseError
        ELSE r.is = "range" /\ r.start .. r.end = Wanted(header, size)
    BY <1>3, Parses DEF Exact
  <2>2. RangeParseError.is = "error"
    BY DEF RangeParseError
  <2> QED BY <1>2, <2>1, <2>2 DEF Apt
<1>4. CASE ~WellFormed(header)
  BY <1>2, <1>4 DEF Apt
<1> QED BY <1>3, <1>4

LEMMA FetchedApt ==
  ASSUME NEW header \in Header, NEW size \in Nat, NEW r \in fetch_file_range(header, size)
  PROVE  Apt(r, header, size)
<1>1. CASE r = NoRange
  BY <1>1, NotRanges
<1>2. CASE WellFormed(header) /\ Wanted(header, size) # {}
           /\ r = Some(Min(Wanted(header, size)), Max(Wanted(header, size)))
  <2> DEFINE q == parse_byte_range(header, size)
  <2>1. q.is = "range" /\ q.start .. q.end = Wanted(header, size)
    BY <1>2, Parses DEF Exact
  <2>2. q.start \in Nat /\ q.end \in Nat /\ q.start <= q.end
    BY <2>1, InsideFile
  <2>3. Min(Wanted(header, size)) = q.start /\ Max(Wanted(header, size)) = q.end
    BY <2>1, <2>2, IntervalEnds
  <2> QED BY <1>2, <2>1, <2>3, NotRanges
<1>3. CASE ~ (WellFormed(header) /\ Wanted(header, size) # {}) /\ r = RangeParseError
  BY <1>3, NotRanges
<1> QED BY <1>1, <1>2, <1>3 DEF fetch_file_range

(* The answer that ShownIsServed asks for.                                 *)
Right(l, a) ==
  /\ Fits(l, a)
  /\ a.is \in {"whole", "part", "unsatisfiable"}
  /\ a.header = None => a.is = "whole"

Sent(a, header, size) == [a EXCEPT !.header = header, !.size = size]

LEMMA SentFields ==
  ASSUME NEW l, NEW s, NEW e, NEW header, NEW size
  PROVE  /\ LET a == Sent(Whole(l), header, size)
            IN a.is = "whole" /\ a.blob = BlobOf(l) /\ a.header = header /\ a.size = size
         /\ LET a == Sent(Part(l, s, e), header, size)
            IN /\ a.is = "part" /\ a.blob = BlobOf(l) /\ a.header = header /\ a.size = size
               /\ a.start = s /\ a.end = e
         /\ LET a == Sent(Refused("unsatisfiable"), header, size)
            IN a.is = "unsatisfiable" /\ a.header = header /\ a.size = size
  BY DEF Sent, Whole, Part, Refused, NoAnswer

LEMMA RangeRight ==
  ASSUME NEW l, NEW r, NEW header, NEW size, header # None => Apt(r, header, size),
         header = None => r = NoRange
  PROVE  Right(l, Sent(RangeAnswer(l, r, Whole(l)), header, size))
<1>1. CASE r.is = "none"
  <2>1. RangeAnswer(l, r, Whole(l)) = Whole(l)
    BY <1>1 DEF RangeAnswer
  <2> QED BY <2>1, SentFields DEF Right, Fits
<1>2. CASE r.is = "range"
  <2>1. RangeAnswer(l, r, Whole(l)) = Part(l, r.start, r.end)
    BY <1>2 DEF RangeAnswer
  <2>2. header # None
    BY <1>2 DEF NoRange
  <2> QED BY <1>2, <2>1, <2>2, SentFields DEF Right, Fits, Apt
<1>3. CASE r.is = "error"
  <2>1. RangeAnswer(l, r, Whole(l)) = Refused("unsatisfiable")
    BY <1>3 DEF RangeAnswer
  <2>2. header # None
    BY <1>3 DEF NoRange
  <2> QED BY <1>3, <2>1, <2>2, SentFields DEF Right, Fits, Apt
<1>4. r.is \in {"none", "range", "error"}
  BY DEF Apt, NoRange
<1> QED BY <1>1, <1>2, <1>3, <1>4

LEMMA AnswersRight ==
  ASSUME Ranges \subseteq Header, NEW header \in Ranges \cup {None}, NEW size \in Nat,
         NEW l, HasPath(l), NEW a \in Answers(l, header, size)
  PROVE  Right(l, Sent(a, header, size))
<1>1. CASE a \in uncached_range_response(l, header, size)
  <2>1. PICK r \in IF header = None THEN {NoRange} ELSE fetch_file_range(header, size) :
          a = RangeAnswer(l, r, Whole(l))
    BY <1>1 DEF uncached_range_response, Download
  <2> QED BY <2>1, FetchedApt, RangeRight
<1>2. CASE a = CachedAnswer(l, header, size)
  BY <1>2, ParsedApt, RangeRight DEF CachedAnswer
<1> QED BY <1>1, <1>2 DEF Answers

(* Without a path for the file: an answer that has bytes has its.          *)
LEMMA AnswersFit ==
  ASSUME Ranges \subseteq Header, NEW header \in Ranges \cup {None}, NEW size \in Nat,
         NEW l, NEW a \in Answers(l, header, size)
  PROVE  Fits(l, Sent(a, header, size))
<1>1. CASE HasPath(l)
  BY <1>1, AnswersRight DEF Right
<1>2. CASE ~HasPath(l)
  <2>1. PICK r \in IF header = None THEN {NoRange} ELSE fetch_file_range(header, size) :
          a = RangeAnswer(l, r, Refused("badRequest"))
    BY <1>2 DEF Answers, uncached_range_response, Download
  <2>2. CASE r.is = "none"
    <3>1. a = Refused("badRequest")
      BY <2>1, <2>2 DEF RangeAnswer
    <3> QED BY <3>1 DEF Fits, Sent, Refused, NoAnswer
  <2>3. CASE r.is # "none"
    <3>1. a = RangeAnswer(l, r, Whole(l))
      BY <2>1, <2>3 DEF RangeAnswer
    <3>2. Right(l, Sent(a, header, size))
      BY <2>1, <3>1, FetchedApt, RangeRight
    <3> QED BY <3>2 DEF Right
  <2> QED BY <2>2, <2>3
<1> QED BY <1>1, <1>2

(* Fits is about the blob of the link only.                                *)
LEMMA FitsBlob ==
  ASSUME NEW k, NEW l, BlobOf(k) = BlobOf(l), NEW a, Fits(k, a)
  PROVE  Fits(l, a)
BY DEF Fits

LEMMA RoutesAgree == \A l : local_file_url(l) = route_key_for_link(l)
  BY DEF local_file_url, route_key_for_link
-----------------------------------------------------------------------------
(* The invariant. *)

(* The index has one file; a pager has its one link.                       *)
Pages ==
  /\ rows \subseteq Links /\ \A k, l \in rows : k = l
  /\ late \subseteq Links
  /\ carry \in [Pagers -> {None} \cup {{l} : l \in Links}]
  /\ storing # None => storing \in Pagers

(* A link of a page, or one of a metadata file, under a route of no page.  *)
Stored(l, r) ==
  \/ l \in Links /\ route_key_for_link(l) = r
  \/ /\ Offered(l) = None /\ Suffixed(r.file)
     /\ \A k \in Links : route_key_for_link(k) # r

HotLinks == \A r \in DOMAIN hot : Stored(hot[r], r)

(* A handler: what the client was shown is in the index unless it has      *)
(* moved, and what was looked up is of the route that was asked for.       *)
Handled ==
  /\ pc \in [Handlers -> {"idle", "lookup", "found", "serve", "answered"}]
  /\ shown \in [Handlers -> Links \cup {None}] /\ metadata \in [Handlers -> BOOLEAN]
  /\ link = [h \in Handlers |-> link[h]] /\ answer = [h \in Handlers |-> answer[h]]

Found(h) ==
  /\ pc[h] # "idle" => shown[h] \in Links
  /\ pc[h] # "idle" /\ metadata[h] => Offered(shown[h]) # None
  /\ pc[h] # "idle" /\ h \notin moved => shown[h] \in rows
  /\ pc[h] \in {"idle", "lookup"} => link[h] = None
  /\ pc[h] = "found" => link[h] \in Links /\ route_key_for_link(link[h]) = Base(h)
  /\ pc[h] = "serve" => Stored(link[h], Base(h))

Served(h) ==
  /\ pc[h] = "answered" /\ h \notin moved
  /\ metadata[h] => Understood(h) /\ link[h] \in {shown[h], None}
  /\ HasPath(shown[h]) /\ HasPath(Asked(h))
  => /\ Fits(Asked(h), answer[h])
     /\ Understood(h) =>
          /\ answer[h].is \in {"whole", "part", "unsatisfiable"}
          /\ answer[h].header = None => answer[h].is = "whole"

IInv ==
  /\ Pages /\ HotLinks /\ HotLinkIsCurrent /\ Handled
  /\ \A h \in Handlers : Found(h) /\ Served(h)

(* A route with another name is a route of the same two segments.          *)
LEMMA Renamed ==
  ASSUME NEW l, NEW n
  PROVE  LET r == [route_key_for_link(l) EXCEPT !.file = n]
         IN /\ r.file = n
            /\ \A m : [r EXCEPT !.file = m] = [route_key_for_link(l) EXCEPT !.file = m]
            /\ n = l.filename => r = route_key_for_link(l)
            /\ route_key_for_link(l).file = l.filename
<1> DEFINE k == route_key_for_link(l)
           r == [k EXCEPT !.file = n]
<1>1. CASE BlobOf(l).kind = "sha256" /\ Len(Digits[BlobOf(l).id]) >= RouteB
  <2> DEFINE at(m) == HashRoute(Digits[BlobOf(l).id], m)
  <2>1. k = at(l.filename)
    BY <1>1 DEF route_key_for_link
  <2>2. ASSUME NEW m PROVE [k EXCEPT !.file = m] = at(m)
    <3>1. [at(l.filename) EXCEPT !.file = m] = at(m)
      BY OtherName
    <3> HIDE DEF at, k
    <3> QED BY <2>1, <3>1
  <2>3. r = at(n)
    BY <2>2
  <2>4. ASSUME NEW m PROVE [at(n) EXCEPT !.file = m] = at(m)
    BY OtherName
  <2>5. \A m : at(m).file = m
    BY HashFields
  <2> HIDE DEF at, k, r
  <2> QED BY <2>1, <2>2, <2>3, <2>4, <2>5 DEF k, r
<1>2. CASE ~(BlobOf(l).kind = "sha256" /\ Len(Digits[BlobOf(l).id]) >= RouteB)
  <2> DEFINE at(m) == UrlRoute(BlobOf(l).id, m)
  <2>1. k = at(l.filename)
    BY <1>2 DEF route_key_for_link
  <2>2. ASSUME NEW m PROVE [k EXCEPT !.file = m] = at(m)
    <3>1. [at(l.filename) EXCEPT !.file = m] = at(m)
      BY OtherName
    <3> HIDE DEF at, k
    <3> QED BY <2>1, <3>1
  <2>3. r = at(n)
    BY <2>2
  <2>4. ASSUME NEW m PROVE [at(n) EXCEPT !.file = m] = at(m)
    BY OtherName
  <2>5. \A m : at(m).file = m
    BY OtherName
  <2> HIDE DEF at, k, r
  <2> QED BY <2>1, <2>2, <2>3, <2>4, <2>5 DEF k, r
<1> QED BY <1>1, <1>2

(* What a request says: the route, the file it is about, the two together. *)
LEMMA Requested ==
  ASSUME NEW h
  PROVE  /\ Route(h) = [route_key_for_link(shown[h]) EXCEPT !.file = Route(h).file]
         /\ Base(h) = [route_key_for_link(shown[h]) EXCEPT !.file = Base(h).file]
         /\ Suffixed(Route(h).file) =>
              /\ Route(h).file = Base(h).file \o ".metadata"
              /\ [Base(h) EXCEPT !.file = Base(h).file \o ".metadata"] = Route(h)
         /\ ~Suffixed(Route(h).file) => Base(h) = Route(h)
         /\ ~metadata[h] => Route(h) = AddressOf(shown[h])
         /\ Understood(h) => Base(h) = route_key_for_link(shown[h])
<1> DEFINE k == shown[h]
           u == local_file_url(k)
           n == Decoded[IF metadata[h] THEN u.file \o ".metadata" ELSE u.file]
           b == IF Suffixed(n) THEN strip_suffix(n) ELSE n
<1>1. u = route_key_for_link(k)
  BY RoutesAgree
<1>2. Route(h) = [u EXCEPT !.file = n]
  BY DEF Route
<1>3. u.file = k.filename
  BY <1>1, Renamed
<1> HIDE DEF n, u
<1>4. Route(h).file = n
  BY <1>1, <1>2, Renamed
<1>5. Base(h) = [u EXCEPT !.file = b]
  BY <1>1, <1>2, <1>4, Renamed DEF Base
<1> HIDE DEF b
<1>6. Base(h).file = b
  BY <1>1, <1>5, Renamed
<1>7. Suffixed(n) => n = b \o ".metadata"
  BY DEF b, Suffixed, strip_suffix
<1>8. Suffixed(n) => [Base(h) EXCEPT !.file = b \o ".metadata"] = Route(h)
  BY <1>1, <1>2, <1>5, <1>7, Renamed
<1>9. ~Suffixed(n) => Base(h) = Route(h)
  BY <1>2, <1>5 DEF b
<1>10. ~metadata[h] => Route(h) = AddressOf(k)
  BY <1>2, <1>3 DEF AddressOf, n, u
<1>11. Understood(h) => Base(h) = route_key_for_link(k)
  BY <1>1, <1>5, <1>6, Renamed DEF Understood
<1> QED BY <1>1, <1>2, <1>4, <1>5, <1>6, <1>7, <1>8, <1>9, <1>10, <1>11

(* A link that goes into memory under its route: current if the index has  *)
(* it, and late otherwise.                                                 *)
Under(r, l) == [s \in DOMAIN hot \cup {r} |-> IF s = r THEN l ELSE hot[s]]

LEMMA Inserted ==
  ASSUME Pages, HotLinks, HotLinkIsCurrent, NEW k \in Links,
         hot' = Under(route_key_for_link(k), k), Insert(route_key_for_link(k), k),
         rows' = rows,
         storing # None /\ carry[storing] # {k} =>
           storing' = storing /\ carry'[storing] = carry[storing]
  PROVE  HotLinks' /\ HotLinkIsCurrent'
<1> DEFINE r == route_key_for_link(k)
<1>1. /\ DOMAIN hot' = DOMAIN hot \cup {r}
      /\ hot'[r] = k
      /\ \A s \in DOMAIN hot : s # r => hot'[s] = hot[s]
  BY DEF Under
<1>2. overtaken' = IF k \in rows THEN overtaken \ {r}
                   ELSE overtaken \cup ({r} \cap {route_key_for_link(l) : l \in rows})
  BY DEF Insert
<1> HIDE DEF r
<1>3. HotLinks'
  BY <1>1 DEF HotLinks, Stored, r
<1>4. ASSUME NEW l \in rows, route_key_for_link(l) \in DOMAIN hot',
             hot'[route_key_for_link(l)] # l
      PROVE  route_key_for_link(l) \in overtaken' \/ (storing' # None /\ carry'[storing'] = {l})
  <2>1. CASE route_key_for_link(l) = r
    <3>1. k \notin rows
      BY <1>1, <1>4, <2>1 DEF Pages
    <3> QED BY <1>2, <2>1, <3>1
  <2>2. CASE route_key_for_link(l) # r
    <3>1. route_key_for_link(l) \in overtaken \/ (storing # None /\ carry[storing] = {l})
      BY <1>1, <1>4, <2>2 DEF HotLinkIsCurrent
    <3>2. k # l
      BY <2>2 DEF r
    <3> QED BY <1>2, <2>2, <3>1, <3>2
  <2> QED BY <2>1, <2>2
<1>5. HotLinkIsCurrent'
  BY <1>4 DEF HotLinkIsCurrent
<1> QED BY <1>3, <1>5

(* A step that leaves memory, the index and the pagers alone.              *)
LEMMA Memory ==
  ASSUME Pages, HotLinks, HotLinkIsCurrent,
         UNCHANGED <<rows, hot, carry, storing, late, overtaken>>
  PROVE  Pages' /\ HotLinks' /\ HotLinkIsCurrent'
  BY DEF Pages, HotLinks, HotLinkIsCurrent, Stored

(* A step of one handler leaves the others alone.                          *)
LEMMA Elsewhere ==
  ASSUME NEW h \in Handlers, Found(h), Served(h),
         pc'[h] = pc[h], shown'[h] = shown[h], metadata'[h] = metadata[h],
         link'[h] = link[h], answer'[h] = answer[h],
         h \notin moved' => h \notin moved /\ (shown[h] \in rows => shown[h] \in rows')
  PROVE  Found(h)' /\ Served(h)'
<1>1. Route(h)' = Route(h) /\ Base(h)' = Base(h)
  BY DEF Route, Base
<1>2. Found(h)'
  BY <1>1 DEF Found, Stored
<1>3. Served(h)'
  BY <1>1 DEF Served, Asked, Understood
<1> QED BY <1>2, <1>3

(* The index gets the link l: requests for others have moved.              *)
LEMMA Written ==
  ASSUME IInv, NEW l \in Links, WriteRows(l), UNCHANGED handlerVars
  PROVE  \A h \in Handlers : Found(h)' /\ Served(h)'
<1> SUFFICES ASSUME NEW h \in Handlers PROVE Found(h)' /\ Served(h)'
  OBVIOUS
<1>0. Found(h) /\ Served(h)
  BY DEF IInv
<1>1. CASE pc[h] = "idle"
  BY <1>0, <1>1 DEF Found, Served, handlerVars
<1>2. CASE pc[h] # "idle"
  <2>1. h \notin moved' => h \notin moved /\ shown[h] \in rows'
    BY <1>2 DEF WriteRows
  <2> QED BY <1>0, <2>1, Elsewhere DEF handlerVars
<1> QED BY <1>1, <1>2

LEMMA PagesStep ==
  ASSUME ConstantsOK, IInv, NEW p \in Pagers, Page(p)
  PROVE  IInv'
<1> USE DEF IInv
<1>1. CASE \E l \in Links : StoreProject(p, l)
  <2>1. PICK l \in Links : StoreProject(p, l)
    BY <1>1
  <2>2. storing' = p /\ p # None /\ rows' = {l} /\ carry' = [carry EXCEPT ![p] = {l}]
        /\ UNCHANGED <<hot, late, handlerVars>>
    BY <2>1 DEF StoreProject, WriteRows, ConstantsOK
  <2>3. Pages'
    BY <2>2 DEF Pages
  <2>4. carry'[storing'] = {l}
    BY <2>2 DEF Pages
  <2>5. HotLinks' /\ HotLinkIsCurrent' /\ Handled'
    BY <2>2, <2>4 DEF HotLinks, Stored, HotLinkIsCurrent, Handled, handlerVars
  <2>6. \A h \in Handlers : Found(h)' /\ Served(h)'
    BY <2>1, Written DEF StoreProject
  <2> QED BY <2>3, <2>5, <2>6
<1>2. CASE LoadProject(p) \/ \E l \in Links : LeaveStore(p, l)
  <2>1. /\ carry[p] = None
        /\ \A q \in Pagers : q # p => carry'[q] = carry[q]
        /\ UNCHANGED <<rows, hot, storing, overtaken, moved, handlerVars>>
    BY <1>2 DEF LoadProject, LeaveStore, Pages
  <2>2. Pages'
    <3>1. CASE LoadProject(p)
      <4>1. PICK l \in Links : rows = {l}
        BY <3>1 DEF LoadProject, Pages
      <4> QED BY <3>1, <4>1 DEF LoadProject, Pages
    <3>2. CASE \E l \in Links : LeaveStore(p, l)
      BY <3>2 DEF LeaveStore, Pages
    <3> QED BY <1>2, <3>1, <3>2
  <2>3. HotLinkIsCurrent'
    <3>1. ASSUME NEW l \in rows, storing # None, carry[storing] = {l}
          PROVE  carry'[storing] = {l}
      <4>1. CASE storing = p /\ LoadProject(p)
        BY <3>1, <4>1 DEF LoadProject, Pages
      <4>2. CASE \E k \in Links : LeaveStore(p, k)
        BY <3>1, <4>2 DEF LeaveStore
      <4>3. CASE storing # p
        BY <2>1, <3>1, <4>3 DEF Pages
      <4> QED BY <1>2, <4>1, <4>2, <4>3
    <3> QED BY <2>1, <3>1 DEF HotLinkIsCurrent
  <2>4. HotLinks' /\ Handled'
    BY <2>1 DEF HotLinks, Stored, Handled, handlerVars
  <2>5. \A h \in Handlers : Found(h)' /\ Served(h)'
    BY <2>1, Elsewhere DEF handlerVars
  <2> QED BY <2>2, <2>3, <2>4, <2>5
<1>3. CASE CacheHotProject(p)
  <2>1. PICK k \in Links : carry[p] = {k}
    BY <1>3 DEF CacheHotProject, Pages
  <2>2. /\ hot' = Put(hot, {k}) /\ Insert(route_key_for_link(k), k)
        /\ carry' = [carry EXCEPT ![p] = None]
        /\ storing' = IF storing = p THEN None ELSE storing
        /\ UNCHANGED <<rows, late, moved, handlerVars>>
    BY <1>3, <2>1 DEF CacheHotProject, Finish
  <2>3. hot' = Under(route_key_for_link(k), k)
    <3>1. {route_key_for_link(l) : l \in {k}} = {route_key_for_link(k)}
      OBVIOUS
    <3>2. ASSUME NEW r, \E l \in {k} : route_key_for_link(l) = r
          PROVE  (CHOOSE l \in {k} : route_key_for_link(l) = r) = k
      BY <3>2
    <3> QED BY <2>2, <3>1, <3>2 DEF Put, Under
  <2>4. storing # None /\ carry[storing] # {k} =>
          storing' = storing /\ carry'[storing] = carry[storing]
    BY <2>1, <2>2 DEF Pages
  <2>5. HotLinks' /\ HotLinkIsCurrent'
    BY <2>2, <2>3, <2>4, Inserted
  <2>6. Pages'
    BY <2>2 DEF Pages
  <2>7. Handled'
    BY <2>2 DEF Handled, handlerVars
  <2>8. \A h \in Handlers : Found(h)' /\ Served(h)'
    BY <2>2, Elsewhere DEF handlerVars
  <2> QED BY <2>5, <2>6, <2>7, <2>8
<1>4. CASE LeavePage(p)
  <2>1. /\ overtaken' = overtaken \cup IF storing = p THEN Behind(rows) ELSE {}
        /\ carry' = [carry EXCEPT ![p] = None]
        /\ storing' = IF storing = p THEN None ELSE storing
        /\ UNCHANGED <<rows, hot, late, moved, handlerVars>>
    BY <1>4 DEF LeavePage, Finish
  <2>2. Pages'
    BY <2>1 DEF Pages
  <2>3. HotLinkIsCurrent'
    <3>1. ASSUME NEW l \in rows, route_key_for_link(l) \in DOMAIN hot,
                 hot[route_key_for_link(l)] # l
          PROVE  route_key_for_link(l) \in overtaken' \/ (storing' # None /\ carry'[storing'] = {l})
      <4>1. CASE storing = p
        BY <2>1, <3>1, <4>1 DEF Behind
      <4>2. CASE storing # p
        BY <2>1, <3>1, <4>2 DEF HotLinkIsCurrent, Pages
      <4> QED BY <4>1, <4>2
    <3> QED BY <2>1, <3>1 DEF HotLinkIsCurrent
  <2>4. HotLinks' /\ Handled'
    BY <2>1 DEF HotLinks, Stored, Handled, handlerVars
  <2>5. \A h \in Handlers : Found(h)' /\ Served(h)'
    BY <2>1, Elsewhere DEF handlerVars
  <2> QED BY <2>2, <2>3, <2>4, <2>5
<1> QED BY <1>1, <1>2, <1>3, <1>4 DEF Page

(* What SQLite stores for a pager who was dropped.                         *)
LEMMA LateStep ==
  ASSUME IInv, NEW l \in late, LateWrite(l)
  PROVE  IInv'
<1> USE DEF IInv
<1>1. /\ rows' = {l} /\ late' = late \ {l} /\ overtaken' = Behind({l})
      /\ UNCHANGED <<hot, carry, storing, handlerVars>>
  BY DEF LateWrite, WriteRows
<1>2. l \in Links
  BY DEF Pages
<1>3. Pages'
  BY <1>1, <1>2 DEF Pages
<1>4. HotLinkIsCurrent'
  BY <1>1 DEF HotLinkIsCurrent, Behind
<1>5. HotLinks' /\ Handled'
  BY <1>1 DEF HotLinks, Stored, Handled, handlerVars
<1>6. \A h \in Handlers : Found(h)' /\ Served(h)'
  BY <1>1, <1>2, Written DEF LateWrite
<1> QED BY <1>3, <1>4, <1>5, <1>6

LEMMA DropStep ==
  ASSUME IInv, NEW r \in DOMAIN hot, Drop(r)
  PROVE  IInv'
<1> USE DEF IInv
<1>1. /\ DOMAIN hot' = DOMAIN hot \ {r}
      /\ \A s \in DOMAIN hot' : hot'[s] = hot[s]
      /\ overtaken' = overtaken \ {r}
      /\ UNCHANGED <<rows, carry, storing, late, moved, handlerVars>>
  BY DEF Drop
<1>2. Pages' /\ Handled'
  BY <1>1 DEF Pages, Handled, handlerVars
<1>3. HotLinks' /\ HotLinkIsCurrent'
  BY <1>1 DEF HotLinks, Stored, HotLinkIsCurrent
<1>4. \A h \in Handlers : Found(h)' /\ Served(h)'
  BY <1>1, Elsewhere DEF handlerVars
<1> QED BY <1>2, <1>3, <1>4

(* A metadata file has no metadata.                                        *)
LEMMA MetadataOffers ==
  ASSUME ConstantsOK, NEW l \in Links, NEW n
  PROVE  Offered(MetadataLink(l, n)) = None
<1>1. l = Fields(l)
  BY DEF ConstantsOK
<1> QED BY <1>1 DEF MetadataLink, Fields, Offered

(* A step of handler h that leaves memory alone, but for what it puts there *)
(* for others: it is enough to look at h.                                  *)
LEMMA One ==
  ASSUME IInv, NEW h \in Handlers, Pages' /\ HotLinks' /\ HotLinkIsCurrent' /\ Handled',
         Found(h)' /\ Served(h)', rows' = rows,
         \A g \in Handlers \ {h} :
           /\ pc'[g] = pc[g] /\ shown'[g] = shown[g] /\ metadata'[g] = metadata[g]
           /\ link'[g] = link[g] /\ answer'[g] = answer[g]
           /\ g \notin moved' => g \notin moved
  PROVE  IInv'
<1>1. ASSUME NEW g \in Handlers PROVE Found(g)' /\ Served(g)'
  <2>1. CASE g = h
    BY <2>1
  <2>2. CASE g # h
    BY <2>2, Elsewhere DEF IInv
  <2> QED BY <2>1, <2>2
<1> QED BY <1>1 DEF IInv

(* An answer of link l, of the blob that was asked for.                    *)
LEMMA ServedRight ==
  ASSUME Ranges \subseteq Header, Sizes \subseteq Nat, Handled, NEW h \in Handlers,
         NEW header \in Ranges \cup {None}, NEW size \in Sizes,
         NEW l, NEW a \in Answers(l, header, size),
         Reply(h, [a EXCEPT !.header = header, !.size = size]),
         UNCHANGED <<shown, metadata, link, moved>>,
         BlobOf(l) = BlobOf(Asked(h)),
         Understood(h) => l.filename = Asked(h).filename
  PROVE  Served(h)'
<1>u. Asked(h)' = Asked(h) /\ Understood(h)' = Understood(h)
  BY DEF Asked, Understood, Base, Route
<1>1. answer'[h] = Sent(a, header, size)
  BY DEF Reply, Handled, Sent
<1>2. Fits(Asked(h), answer'[h])
  BY <1>1, AnswersFit, FitsBlob
<1>3. ASSUME HasPath(Asked(h)), Understood(h)
      PROVE  /\ answer'[h].is \in {"whole", "part", "unsatisfiable"}
             /\ answer'[h].header = None => answer'[h].is = "whole"
  <2>1. HasPath(l)
    BY <1>3 DEF HasPath
  <2> QED BY <1>1, <2>1, AnswersRight DEF Right
<1>4. /\ HasPath(Asked(h))' = HasPath(Asked(h))
      /\ Fits(Asked(h), answer[h])' = Fits(Asked(h), answer'[h])
  BY <1>u DEF HasPath, Fits, BlobOf
<1> QED BY <1>u, <1>2, <1>3, <1>4 DEF Served

LEMMA HandleStep ==
  ASSUME ConstantsOK, Ranges \subseteq Header, Sizes \subseteq Nat,
         IInv, NEW h \in Handlers, Handle(h)
  PROVE  IInv'
<1> USE DEF IInv
<1>0. Found(h) /\ Served(h)
  OBVIOUS
<1>b. UNCHANGED <<shown, metadata>> => Route(h)' = Route(h) /\ Base(h)' = Base(h)
  BY DEF Route, Base
<1>1. CASE Request(h)
  <2>1. PICK l \in rows, m \in BOOLEAN :
          /\ m => Offered(l) # None
          /\ shown' = [shown EXCEPT ![h] = l] /\ metadata' = [metadata EXCEPT ![h] = m]
    BY <1>1 DEF Request
  <2>2. /\ pc[h] = "idle" /\ pc' = [pc EXCEPT ![h] = "lookup"] /\ moved' = moved \ {h}
        /\ UNCHANGED <<rows, hot, carry, storing, late, link, answer, overtaken>>
    BY <1>1 DEF Request
  <2>3. l \in Links
    BY DEF Pages
  <2>4. Handled'
    BY <2>1, <2>2, <2>3 DEF Handled
  <2>5. Found(h)' /\ Served(h)'
    BY <1>0, <2>1, <2>2, <2>3 DEF Handled, Found, Served
  <2>6. Pages' /\ HotLinks' /\ HotLinkIsCurrent'
    BY <2>2, Memory
  <2> QED BY <2>1, <2>2, <2>4, <2>5, <2>6, One DEF Handled
<1>2. CASE LookupHot(h)
  <2> DEFINE l == hot[Base(h)]
  <2>1. /\ pc[h] = "lookup" /\ Base(h) \in DOMAIN hot
        /\ link' = [link EXCEPT ![h] = l] /\ pc' = [pc EXCEPT ![h] = "serve"]
        /\ UNCHANGED <<rows, hot, carry, storing, late, overtaken, moved, shown, metadata, answer>>
    BY <1>2 DEF LookupHot, Take
  <2>2. Stored(l, Base(h)) /\ Base(h)' = Base(h)
    BY <1>b, <2>1 DEF HotLinks
  <2> HIDE DEF l
  <2>3. Handled'
    BY <2>1 DEF Handled
  <2>4. pc'[h] = "serve" /\ link'[h] = l
    BY <2>1 DEF Handled
  <2>5. Found(h)' /\ Served(h)'
    BY <1>0, <2>1, <2>2, <2>4 DEF Found, Served, Stored
  <2>6. Pages' /\ HotLinks' /\ HotLinkIsCurrent'
    BY <2>1, Memory
  <2> QED BY <2>1, <2>3, <2>5, <2>6, One DEF Handled
<1>3. CASE LookupIndex(h)
  <2> DEFINE found == find_link_by_blob(rows, Base(h))
  <2>1. /\ pc[h] = "lookup"
        /\ \/ \E l \in found : Take(h, l, "found")
           \/ found = {} /\ Reply(h, Refused("notFound")) /\ UNCHANGED <<shown, metadata, link>>
        /\ UNCHANGED <<rows, hot, carry, storing, late, overtaken, moved>>
    BY <1>3 DEF LookupIndex
  <2>2. shown[h] \in Links
    BY <1>0, <2>1 DEF Found
  <2>3. Pages' /\ HotLinks' /\ HotLinkIsCurrent'
    BY <2>1, Memory
  <2>4. CASE \E l \in found : Take(h, l, "found")
    <3>1. PICK l \in found : Take(h, l, "found")
      BY <2>4
    <3>2. l \in Links /\ route_key_for_link(l) = Base(h)
      <4> DEFINE n == Base(h).file
      <4>1. Base(h) = [route_key_for_link(shown[h]) EXCEPT !.file = n]
        BY Requested
      <4> HIDE DEF n
      <4> QED BY <2>2, <3>1, <4>1, FindSound DEF Pages
    <3>3. /\ link' = [link EXCEPT ![h] = l] /\ pc' = [pc EXCEPT ![h] = "found"]
          /\ UNCHANGED <<shown, metadata, answer>> /\ Base(h)' = Base(h)
      BY <1>b, <3>1 DEF Take
    <3>4. Handled'
      BY <3>2, <3>3 DEF Handled
    <3>5. pc'[h] = "found" /\ link'[h] = l
      BY <3>3 DEF Handled
    <3>6. Found(h)' /\ Served(h)'
      BY <1>0, <2>1, <2>2, <3>2, <3>3, <3>5 DEF Found, Served
    <3> QED BY <2>1, <2>3, <3>3, <3>4, <3>6, One DEF Handled
  <2>5. CASE found = {} /\ Reply(h, Refused("notFound")) /\ UNCHANGED <<shown, metadata, link>>
    <3>1. /\ pc' = [pc EXCEPT ![h] = "answered"]
          /\ answer' = [answer EXCEPT ![h] = Refused("notFound")]
          /\ UNCHANGED <<shown, metadata, link>>
      BY <2>5 DEF Reply
    <3>2. Handled'
      BY <3>1 DEF Handled
    <3>3. pc'[h] = "answered" /\ answer'[h] = Refused("notFound")
      BY <3>1 DEF Handled
    <3>4. Found(h)'
      BY <1>0, <2>1, <2>2, <3>1, <3>3 DEF Found
    <3>5. ASSUME h \notin moved, HasPath(shown[h]), Understood(h) PROVE FALSE
      <4>1. shown[h] \in rows /\ Base(h) = route_key_for_link(shown[h])
        BY <1>0, <2>1, <3>5, Requested DEF Found
      <4>2. shown[h] \in found
        BY <3>5, <4>1, FindComplete DEF Pages
      <4> QED BY <2>5, <4>2
    <3>6. Understood(h)' = Understood(h) /\ HasPath(shown[h])' = HasPath(shown[h])
      BY <3>1 DEF Understood, Base, Route, HasPath, BlobOf
    <3>7. Fits(Asked(h), answer[h])'
      BY <3>3 DEF Fits, Refused, NoAnswer
    <3>8. Served(h)'
      BY <2>1, <3>5, <3>6, <3>7 DEF Served
    <3> QED BY <2>1, <2>3, <3>1, <3>2, <3>4, <3>8, One DEF Handled
  <2> QED BY <2>1, <2>4, <2>5
<1>4. CASE InsertLink(h)
  <2>1. /\ pc[h] = "found" /\ hot' = Under(Base(h), link[h]) /\ Insert(Base(h), link[h])
        /\ pc' = [pc EXCEPT ![h] = "serve"]
        /\ UNCHANGED <<rows, carry, storing, late, shown, metadata, link, answer, moved>>
    BY <1>4 DEF InsertLink, Under
  <2>2. link[h] \in Links /\ Base(h) = route_key_for_link(link[h])
    BY <1>0, <2>1 DEF Found
  <2>3. HotLinks' /\ HotLinkIsCurrent'
    BY <2>1, <2>2, Inserted
  <2>4. Pages' /\ Handled'
    BY <2>1 DEF Pages, Handled
  <2>5. pc'[h] = "serve" /\ Base(h)' = Base(h)
    BY <1>b, <2>1 DEF Handled
  <2>6. Found(h)' /\ Served(h)'
    BY <1>0, <2>1, <2>2, <2>5 DEF Found, Served, Stored
  <2> QED BY <2>1, <2>3, <2>4, <2>6, One DEF Handled
<1>5. CASE Done(h)
  <2>1. /\ pc' = [pc EXCEPT ![h] = "idle"] /\ shown' = [shown EXCEPT ![h] = None]
        /\ link' = [link EXCEPT ![h] = None] /\ metadata' = [metadata EXCEPT ![h] = FALSE]
        /\ answer' = [answer EXCEPT ![h] = NoAnswer] /\ moved' = moved \ {h}
        /\ UNCHANGED <<rows, hot, carry, storing, late, overtaken>>
    BY <1>5 DEF Done
  <2>2. Handled'
    BY <2>1 DEF Handled
  <2>3. pc'[h] = "idle" /\ link'[h] = None
    BY <2>1 DEF Handled
  <2>4. Found(h)' /\ Served(h)'
    BY <2>3 DEF Found, Served
  <2>5. Pages' /\ HotLinks' /\ HotLinkIsCurrent'
    BY <2>1, Memory
  <2> QED BY <2>1, <2>2, <2>4, <2>5, One DEF Handled
<1>6. ASSUME NEW header \in Ranges \cup {None}, NEW size \in Sizes, ServeFile(h, header, size)
      PROVE  IInv'
  <2>1. PICK a \in Answers(link[h], header, size) :
          Reply(h, [a EXCEPT !.header = header, !.size = size])
    BY <1>6 DEF ServeFile
  <2>2. /\ pc[h] = "serve" /\ ~Suffixed(Route(h).file) /\ pc' = [pc EXCEPT ![h] = "answered"]
        /\ answer' = [answer EXCEPT ![h] = [a EXCEPT !.header = header, !.size = size]]
        /\ UNCHANGED <<rows, hot, carry, storing, late, shown, metadata, link, moved, overtaken>>
    BY <1>6, <2>1 DEF ServeFile, Reply
  <2>3. Handled' /\ pc'[h] = "answered"
    BY <2>2 DEF Handled
  <2>4. shown[h] \in Links /\ link[h] \in Links /\ route_key_for_link(link[h]) = Route(h)
    BY <1>0, <2>2, Requested DEF Found, Stored
  <2>5. Served(h)'
    <3>1. CASE metadata[h]
      <4>1. ~Understood(h)' /\ metadata'[h]
        BY <1>b, <2>2, <3>1 DEF Understood
      <4> QED BY <4>1 DEF Served
    <3>2. CASE ~metadata[h]
      <4>1. Asked(h) = shown[h] /\ Route(h) = AddressOf(shown[h])
        BY <3>2, Requested DEF Asked
      <4>2. BlobOf(link[h]) = BlobOf(shown[h])
        BY <2>4, <4>1 DEF ConstantsOK, LinksRouted
      <4>3. Understood(h) => link[h].filename = shown[h].filename
        <5>1. Base(h) = Route(h) /\ route_key_for_link(link[h]).file = link[h].filename
          BY <2>2, Requested, Renamed
        <5>2. Understood(h) => Base(h).file = shown[h].filename
          BY DEF Understood
        <5> QED BY <2>4, <5>1, <5>2
      <4> QED BY <2>1, <2>2, <4>1, <4>2, <4>3, ServedRight
    <3> QED BY <3>1, <3>2
  <2>6. Found(h)'
    BY <1>0, <2>2, <2>3 DEF Found
  <2>7. Pages' /\ HotLinks' /\ HotLinkIsCurrent'
    BY <2>2, Memory
  <2> QED BY <2>2, <2>3, <2>5, <2>6, <2>7, One DEF Handled
<1>7. ASSUME NEW header \in Ranges \cup {None}, NEW size \in Sizes,
             ServeMetadata(h, header, size)
      PROVE  IInv'
  <2> DEFINE l == MetadataLink(link[h], Route(h).file)
             r == Route(h)
  <2>1. /\ pc[h] = "serve" /\ Suffixed(Route(h).file)
        /\ UNCHANGED <<rows, carry, storing, late, shown, metadata, link, moved, overtaken>>
    BY <1>7 DEF ServeMetadata
  <2>2. /\ shown[h] \in Links /\ Stored(link[h], Base(h))
        /\ metadata[h] => Offered(shown[h]) # None
    BY <1>0, <2>1 DEF Found
  <2>u. Understood(h)' = Understood(h)
    BY <1>b, <2>1 DEF Understood
  <2>3. CASE Offered(link[h]) = None
    <3>1. /\ pc' = [pc EXCEPT ![h] = "answered"]
          /\ answer' = [answer EXCEPT ![h] = Refused("notFound")] /\ hot' = hot
      BY <1>7, <2>3 DEF ServeMetadata, Reply
    <3>2. Handled' /\ Pages' /\ HotLinks' /\ HotLinkIsCurrent'
      BY <2>1, <3>1, Memory DEF Handled
    <3>3. pc'[h] = "answered" /\ answer'[h] = Refused("notFound")
      BY <3>1 DEF Handled
    <3>4. Fits(Asked(h), answer[h])'
      BY <3>3 DEF Fits, Refused, NoAnswer
    <3>5. ASSUME Understood(h), metadata[h] => link[h] \in {shown[h], None} PROVE FALSE
      <4>1. metadata[h] /\ Base(h) = route_key_for_link(shown[h])
        BY <2>1, <3>5, Requested DEF Understood
      <4>2. link[h] \in Links
        BY <2>2, <4>1 DEF Stored
      <4>3. link[h] = shown[h]
        BY <3>5, <4>1, <4>2 DEF ConstantsOK
      <4> QED BY <2>2, <2>3, <4>1, <4>3
    <3>6. Served(h)'
      BY <2>1, <2>u, <3>4, <3>5 DEF Served
    <3>7. Found(h)'
      BY <1>0, <2>1, <3>3 DEF Found
    <3> QED BY <2>1, <3>1, <3>2, <3>6, <3>7, One DEF Handled
  <2>4. CASE Offered(link[h]) # None
    <3>1. PICK a \in Answers(l, header, size) :
            Reply(h, [a EXCEPT !.header = header, !.size = size])
      BY <1>7, <2>4 DEF ServeMetadata
    <3>2. /\ pc' = [pc EXCEPT ![h] = "answered"]
          /\ answer' = [answer EXCEPT ![h] = [a EXCEPT !.header = header, !.size = size]]
          /\ hot' = Under(r, l)
      BY <1>7, <2>4, <3>1 DEF ServeMetadata, Reply, Under
    <3>3. link[h] \in Links /\ route_key_for_link(link[h]) = Base(h)
      BY <2>2, <2>4 DEF Stored
    <3>4. r = RouteOfMetadata(link[h]) /\ r.file = Base(h).file \o ".metadata"
      <4>1. link[h].filename = Base(h).file
        BY <3>3, Renamed
      <4> QED BY <2>1, <3>3, <4>1, Requested DEF RouteOfMetadata
    <3>5. Stored(l, r)
      BY <2>1, <3>3, <3>4, MetadataOffers DEF Stored, ConstantsOK, LinksRouted
    <3>6. Served(h)'
      <4>1. CASE metadata[h] /\ Understood(h) /\ link[h] \in {shown[h], None}
        <5>1. link[h] = shown[h] /\ Base(h).file = shown[h].filename
          BY <3>3, <4>1 DEF ConstantsOK, Understood
        <5>2. l = Asked(h)
          BY <3>4, <4>1, <5>1 DEF Asked
        <5> HIDE DEF l
        <5> QED BY <2>1, <3>1, <5>2, ServedRight
      <4>2. CASE metadata[h] /\ ~(Understood(h) /\ link[h] \in {shown[h], None})
        <5>1. metadata'[h] /\ ~(Understood(h)' /\ link'[h] \in {shown'[h], None})
          BY <2>1, <2>u, <4>2
        <5> QED BY <5>1 DEF Served
      <4>3. CASE ~metadata[h]
        <5>1. r = AddressOf(shown[h])
          BY <4>3, Requested
        <5> QED BY <2>2, <3>3, <3>4, <5>1 DEF ConstantsOK, LinksRouted
      <4> QED BY <4>1, <4>2, <4>3
    <3> HIDE DEF r, l
    <3>7. HotLinks'
      BY <3>2, <3>5 DEF HotLinks, Under, Stored
    <3>8. HotLinkIsCurrent'
      <4>1. \A k \in Links : route_key_for_link(k) # r
        BY <3>3, <3>4 DEF ConstantsOK, LinksRouted
      <4>2. \A k \in Links : LET s == route_key_for_link(k)
                             IN /\ s \in DOMAIN hot' <=> s \in DOMAIN hot
                                /\ s \in DOMAIN hot => hot'[s] = hot[s]
        BY <3>2, <4>1 DEF Under
      <4> QED BY <2>1, <4>2 DEF HotLinkIsCurrent, Pages
    <3>9. Handled' /\ Pages' /\ pc'[h] = "answered"
      BY <2>1, <3>2 DEF Handled, Pages
    <3>10. Found(h)'
      BY <1>0, <2>1, <3>9 DEF Found
    <3> QED BY <2>1, <3>2, <3>6, <3>7, <3>8, <3>9, <3>10, One DEF Handled
  <2> QED BY <2>3, <2>4
<1> QED BY <1>1, <1>2, <1>3, <1>4, <1>5, <1>6, <1>7 DEF Handle

LEMMA Initially == ConstantsOK /\ Init => IInv
<1> SUFFICES ASSUME ConstantsOK, Init PROVE IInv
  OBVIOUS
<1>1. Pages /\ HotLinkIsCurrent /\ Handled
  BY DEF Init, Pages, HotLinkIsCurrent, Handled
<1>2. HotLinks
  BY DEF Init, HotLinks
<1>3. \A h \in Handlers : Found(h) /\ Served(h)
  BY DEF Init, Found, Served
<1> QED BY <1>1, <1>2, <1>3 DEF IInv

LEMMA Inductive ==
  ASSUME ConstantsOK, Ranges \subseteq Header, Sizes \subseteq Nat, IInv, [Next]_vars
  PROVE  IInv'
<1>1. CASE \E p \in Pagers : Page(p)
  BY <1>1, PagesStep
<1>2. CASE \E h \in Handlers : Handle(h)
  BY <1>2, HandleStep
<1>3. CASE \E r \in DOMAIN hot : Drop(r)
  BY <1>3, DropStep
<1>4. CASE \E l \in late : LateWrite(l)
  BY <1>4, LateStep
<1>5. CASE UNCHANGED vars
  <2>1. UNCHANGED <<rows, hot, carry, storing, late, overtaken, moved, handlerVars>>
    BY <1>5 DEF vars
  <2>2. Pages' /\ HotLinks' /\ HotLinkIsCurrent' /\ Handled'
    BY <2>1, Memory DEF IInv, Handled, handlerVars
  <2>3. \A h \in Handlers : Found(h)' /\ Served(h)'
    BY <2>1, Elsewhere DEF IInv, handlerVars
  <2> QED BY <2>2, <2>3 DEF IInv
<1> QED BY <1>1, <1>2, <1>3, <1>4, <1>5 DEF Next

LEMMA Invariant ==
  ASSUME ConstantsOK, Ranges \subseteq Header, Sizes \subseteq Nat
  PROVE  Spec => []IInv
BY Initially, Inductive, PTL DEF Spec

LEMMA ShownByInvariant == IInv => ShownIsServed
BY DEF IInv, Served, ShownIsServed

(* A file that a page shows, that stays on it, that can be stored and whose *)
(* name the routes do not change is found and answered with the bytes that  *)
(* were asked for: local_file_url_with_base (simple.rs), the decoding and   *)
(* the suffix of package_file_from_parts, the key, the search of           *)
(* find_link_by_blob (cache.rs) and parse_byte_range agree, for every page, *)
(* every Range header of the parser's shape and every size.  A file with   *)
(* another name is not answered with the bytes of a different one.         *)
THEOREM Serving ==
  ASSUME ConstantsOK, Ranges \subseteq Header, Sizes \subseteq Nat
  PROVE  Spec => []ShownIsServed
BY ShownByInvariant, Invariant, PTL

(* A link in memory is the one of the index, but while a refresh is        *)
(* between its two writes (refresh_project_cache), after somebody put there *)
(* what he had read before (ensure_blob, materialize_project), after a      *)
(* dropped pager's late write, and after a pager was dropped between the    *)
(* two writes.                                                             *)
THEOREM Current ==
  ASSUME ConstantsOK, Ranges \subseteq Header, Sizes \subseteq Nat
  PROVE  Spec => []HotLinkIsCurrent
<1>1. IInv => HotLinkIsCurrent
  BY DEF IInv
<1> QED BY <1>1, Invariant, PTL
-----------------------------------------------------------------------------
(* What a reader of pages makes of an anchor or a file is a link of this   *)
(* shape: a hash is two words, other attributes are texts of words of W.   *)
IsText(t, W) == t = None \/ t \in Seq(W)

IsLink(l, W) ==
  /\ l = Fields(l)
  /\ IsText(l.yanked, W) /\ IsText(l.dist_info_metadata, W) /\ IsText(l.core_metadata, W)
  /\ l.gpg_sig \in {None, <<TRUE>>, <<FALSE>>}
  /\ l.hash = None \/ \E a, b \in W : l.hash = <<a, b>>

(* No attribute stands for its absence.                                    *)
TextsOK(W) ==
  /\ {"", "true", "false"} \subseteq W
  /\ None \notin Seq(W) /\ None \notin Seq(BOOLEAN)
  /\ None \notin Seq(W \X [is : {"string"}, text : Seq(W), fields : {<<>>}])

(* What the two formats have in common depends on the fields alone.       *)
Truth(t) == IF t # None /\ IsTrue(t) THEN TRUE_TEXT ELSE t

LEMMA CommonFields ==
  ASSUME NEW p, p = Fields(p), NEW s, s = Fields(s),
         p.filename = s.filename, p.upstream_url = s.upstream_url,
         p.requires_python = s.requires_python, p.yanked = s.yanked, p.gpg_sig = s.gpg_sig,
         Truth(p.dist_info_metadata) = Truth(s.dist_info_metadata),
         Truth(p.core_metadata) = Truth(s.core_metadata),
         split_hash_fragment(p.hash) = split_hash_fragment(s.hash)
  PROVE  Common(p) = Common(s)
<1> DEFINE C(x) ==
      [filename |-> x.filename, upstream_url |-> x.upstream_url,
       requires_python |-> x.requires_python, yanked |-> x.yanked, gpg_sig |-> x.gpg_sig,
       dist_info_metadata |-> Truth(x.dist_info_metadata),
       core_metadata |-> Truth(x.core_metadata), hash |-> split_hash_fragment(x.hash)]
<1>1. ASSUME NEW x, x = Fields(x) PROVE Common(x) = C(x)
  <2>1. Common(x) = [x EXCEPT !.dist_info_metadata = Truth(@), !.core_metadata = Truth(@),
                              !.hash = split_hash_fragment(@)]
    BY DEF Common, Truth
  <2> QED BY <1>1, <2>1 DEF Fields
<1>2. C(p) = C(s)
  OBVIOUS
<1> QED BY <1>1, <1>2

(* An attribute of metadata written as JSON and read back is the same text *)
(* but for the case of "true"; so is the mark of a yanked file.            *)
LEMMA OneField ==
  ASSUME NEW a, NEW b
  PROVE  FirstField(<<<<a, String(<<b>>)>>>>) = <<a, b>>
<1> DEFINE fs == <<<<a, String(<<b>>)>>>>
           strings == {i \in DOMAIN fs : fs[i][2].is = "string"}
           sha == {i \in strings : fs[i][1] = "sha256"}
<1>1. DOMAIN fs = {1} /\ fs[1][1] = a /\ fs[1][2] = String(<<b>>)
  OBVIOUS
<1>2. String(<<b>>).is = "string" /\ String(<<b>>).text = <<b>>
  BY DEF String, Null
<1>3. strings = {1}
  BY <1>1, <1>2
<1>4. (IF sha # {} THEN sha ELSE strings) = {1}
  BY <1>3
<1>5. Min({1}) = 1
  BY DEF Min
<1>6. fs[1][1] = a /\ fs[1][2].text[1] = b
  BY <1>1, <1>2
<1> HIDE DEF fs
<1>7. FirstField(fs) = <<fs[1][1], fs[1][2].text[1]>>
  BY <1>3, <1>4, <1>5 DEF FirstField
<1> QED BY <1>6, <1>7 DEF fs

LEMMA MetadataBack ==
  ASSUME NEW W, NEW t \in Seq(W)
  PROVE  metadata_from_json(metadata_json(t)) = IF IsTrue(t) THEN TRUE_TEXT ELSE t
<1>1. CASE IsTrue(t)
  <2>1. metadata_json(t) = Bool(TRUE)
    BY <1>1 DEF metadata_json
  <2>2. Bool(TRUE).is = "true"
    BY DEF Bool, Null
  <2> QED BY <1>1, <2>1, <2>2 DEF metadata_from_json
<1>2. CASE ~IsTrue(t) /\ Pair(t)
  <2> DEFINE fs == <<<<t[1], String(<<t[2]>>)>>>>
  <2>1. metadata_json(t) = Object(fs)
    BY <1>2 DEF metadata_json
  <2>2. t = <<t[1], t[2]>>
    <3>1. Len(t) = 2
      BY <1>2 DEF Pair
    <3> QED BY <3>1
  <2>3. FirstField(fs) = t
    BY <2>2, OneField
  <2>4. Object(fs).is = "object" /\ Object(fs).fields = fs
    BY DEF Object, Null
  <2> QED BY <1>2, <2>1, <2>3, <2>4 DEF metadata_from_json
<1>3. CASE ~IsTrue(t) /\ ~Pair(t)
  <2>1. metadata_json(t) = String(t)
    BY <1>3 DEF metadata_json
  <2>2. String(t).is = "string" /\ String(t).text = t
    BY DEF String, Null
  <2> QED BY <1>3, <2>1, <2>2 DEF metadata_from_json
<1> QED BY <1>1, <1>2, <1>3

LEMMA YankedBack ==
  ASSUME NEW W, NEW t \in Seq(W)
  PROVE  yanked_from_json(yanked_json(t)) = t
<1>1. Bool(TRUE).is = "true" /\ String(t).is = "string" /\ String(t).text = t
  BY DEF Bool, String, Null
<1> QED BY <1>1 DEF yanked_from_json, yanked_json

LEMMA TruthTwice ==
  ASSUME NEW t, t # None PROVE Truth(IF IsTrue(t) THEN TRUE_TEXT ELSE t) = Truth(t)
<1>1. Truth(TRUE_TEXT) = TRUE_TEXT
  BY DEF Truth
<1> QED BY <1>1 DEF Truth

LEMMA NullBack == metadata_from_json(Null) = None /\ yanked_from_json(Null) = None
  BY DEF metadata_from_json, yanked_from_json, Null

LEMMA HashBack ==
  ASSUME NEW W, TextsOK(W), NEW a \in W, NEW b \in W
  PROVE  LET fs == <<<<a, String(<<b>>)>>>>
         IN fs # None /\ first_hash(fs) # None /\ first_hash(fs) = <<a, b>>
<1> DEFINE fs == <<<<a, String(<<b>>)>>>>
<1>1. <<b>> \in Seq(W)
  OBVIOUS
<1>2. fs \in Seq(W \X [is : {"string"}, text : Seq(W), fields : {<<>>}])
  <2>1. String(<<b>>) \in [is : {"string"}, text : Seq(W), fields : {<<>>}]
    BY <1>1 DEF String, Null
  <2> HIDE DEF fs
  <2>2. <<a, String(<<b>>)>> \in W \X [is : {"string"}, text : Seq(W), fields : {<<>>}]
    BY <2>1
  <2>3. \A S, x : x \in S => <<x>> \in Seq(S)
    OBVIOUS
  <2> QED BY <2>2, <2>3 DEF fs
<1>3. first_hash(fs) = <<a, b>>
  BY OneField DEF first_hash
<1>4. <<a, b>> \in Seq(W)
  OBVIOUS
<1> HIDE DEF fs
<1>5. fs # None /\ first_hash(fs) # None /\ first_hash(fs) = <<a, b>>
  BY <1>2, <1>3, <1>4 DEF TextsOK
<1> QED BY <1>5 DEF fs

LEMMA NoHashBack ==
  ASSUME NEW W, TextsOK(W)
  PROVE  <<>> # None /\ first_hash(<<>>) = None /\ split_hash_fragment(None) = None
<1>1. <<>> # None
  <2>1. None \notin Seq(W)
    BY DEF TextsOK
  <2>2. <<>> \in Seq(W)
    OBVIOUS
  <2> QED BY <2>1, <2>2
<1>2. FirstField(<<>>) = None
  <2>1. DOMAIN <<>> = {}
    OBVIOUS
  <2> QED BY <2>1 DEF FirstField
<1>3. split_hash_fragment(None) = None
  BY DEF split_hash_fragment
<1> QED BY <1>1, <1>2, <1>3 DEF first_hash

(* Reading back as HTML what was written as HTML.                          *)
LEMMA AnchorBack ==
  ASSUME NEW W, TextsOK(W), NEW l, IsLink(l, W)
  PROVE  Common(parse_anchor(AnchorOf(l)))
           = Common([l EXCEPT !.upstream_url = local_file_url(l)])
<1> DEFINE a == AnchorOf(l)
           p == parse_anchor(a)
           s == [l EXCEPT !.upstream_url = local_file_url(l)]
<1>1. /\ p.filename = l.filename /\ p.upstream_url = local_file_url(l)
      /\ p.requires_python = l.requires_python /\ p.yanked = l.yanked
      /\ p.dist_info_metadata = l.dist_info_metadata /\ p.core_metadata = l.core_metadata
      /\ p.hash = split_hash_fragment(l.hash)
  BY DEF parse_anchor, AnchorOf
<1>2. p.gpg_sig = l.gpg_sig
  <2>1. p.gpg_sig = IF a.gpg_sig = None THEN None ELSE <<IsTrue(a.gpg_sig)>>
    BY DEF parse_anchor
  <2>2. a.gpg_sig = CASE l.gpg_sig = None -> None
                      [] l.gpg_sig = <<TRUE>> -> <<"true">>
                      [] OTHER -> <<"false">>
    BY DEF AnchorOf
  <2>3. <<"true">> # None /\ <<"false">> # None /\ <<TRUE>> # None /\ <<FALSE>> # None
    <3>1. "true" \in W /\ "false" \in W
      BY DEF TextsOK
    <3>2. \A S, x : x \in S => <<x>> \in Seq(S)
      OBVIOUS
    <3>3. <<"true">> \in Seq(W) /\ <<"false">> \in Seq(W)
      BY <3>1, <3>2
    <3>4. <<TRUE>> \in Seq(BOOLEAN) /\ <<FALSE>> \in Seq(BOOLEAN)
      BY <3>2
    <3> QED BY <3>3, <3>4 DEF TextsOK
  <2>4. IsTrue(<<"true">>) = TRUE /\ IsTrue(<<"false">>) = FALSE
    BY DEF IsTrue
  <2>5. <<TRUE>> # <<FALSE>>
    OBVIOUS
  <2>6. CASE l.gpg_sig = None
    BY <2>1, <2>2, <2>3, <2>6
  <2>7. CASE l.gpg_sig = <<TRUE>>
    BY <2>1, <2>2, <2>3, <2>4, <2>7
  <2>8. CASE l.gpg_sig = <<FALSE>>
    BY <2>1, <2>2, <2>3, <2>4, <2>5, <2>8
  <2> QED BY <2>6, <2>7, <2>8 DEF IsLink
<1>3. split_hash_fragment(split_hash_fragment(l.hash)) = split_hash_fragment(l.hash)
  BY DEF split_hash_fragment, Pair
<1>4. /\ s = Fields(s) /\ s.filename = l.filename /\ s.upstream_url = local_file_url(l)
      /\ s.requires_python = l.requires_python /\ s.yanked = l.yanked
      /\ s.gpg_sig = l.gpg_sig /\ s.dist_info_metadata = l.dist_info_metadata
      /\ s.core_metadata = l.core_metadata /\ s.hash = l.hash
  BY DEF IsLink, Fields
<1>5. p = Fields(p)
  BY DEF parse_anchor, Fields
<1> QED BY <1>1, <1>2, <1>3, <1>4, <1>5, CommonFields

(* Reading back as JSON what was written as JSON.                          *)
LEMMA FileBack ==
  ASSUME NEW W, TextsOK(W), NEW l, IsLink(l, W)
  PROVE  Common(parse_file(FileOf(l)))
           = Common([l EXCEPT !.upstream_url = local_file_url(l)])
<1> DEFINE f == FileOf(l)
           p == parse_file(f)
           s == [l EXCEPT !.upstream_url = local_file_url(l)]
<1>1. /\ p.filename = l.filename /\ p.upstream_url = local_file_url(l)
      /\ p.requires_python = l.requires_python /\ p.gpg_sig = l.gpg_sig
      /\ p.yanked = yanked_from_json(f.yanked)
      /\ p.dist_info_metadata = metadata_from_json(f.dist_info_metadata)
      /\ p.core_metadata = metadata_from_json(f.core_metadata)
      /\ p.hash = IF f.hashes # None /\ first_hash(f.hashes) # None THEN first_hash(f.hashes)
                  ELSE split_hash_fragment(f.fragment)
  BY DEF parse_file, FileOf
<1>2. p.yanked = l.yanked
  <2>1. f.yanked = IF l.yanked = None THEN Null ELSE yanked_json(l.yanked)
    BY DEF FileOf
  <2> QED BY <1>1, <2>1, NullBack, YankedBack DEF IsLink, IsText
<1>3. Truth(p.dist_info_metadata) = Truth(l.dist_info_metadata)
  <2>1. f.dist_info_metadata = IF l.dist_info_metadata = None THEN Null
                               ELSE metadata_json(l.dist_info_metadata)
    BY DEF FileOf
  <2> QED BY <1>1, <2>1, NullBack, MetadataBack, TruthTwice DEF IsLink, IsText
<1>4. Truth(p.core_metadata) = Truth(l.core_metadata)
  <2>1. f.core_metadata = IF l.core_metadata = None THEN Null ELSE metadata_json(l.core_metadata)
    BY DEF FileOf
  <2> QED BY <1>1, <2>1, NullBack, MetadataBack, TruthTwice DEF IsLink, IsText
<1>5. p.hash = l.hash
  <2>1. f.fragment = None
        /\ f.hashes = IF l.hash = None THEN <<>>
                      ELSE <<<<l.hash[1], String(<<l.hash[2]>>)>>>>
    BY DEF FileOf
  <2>2. CASE l.hash = None
    BY <1>1, <2>1, <2>2, NoHashBack
  <2>3. ASSUME NEW a \in W, NEW b \in W, l.hash = <<a, b>>
        PROVE  p.hash = l.hash
    <3> DEFINE fs == <<<<a, String(<<b>>)>>>>
    <3>1. <<a, b>> # None
      <4>1. <<a, b>> \in Seq(W)
        OBVIOUS
      <4> QED BY <4>1 DEF TextsOK
    <3>2. f.hashes = fs
      BY <2>1, <2>3, <3>1
    <3>3. fs # None /\ first_hash(fs) # None /\ first_hash(fs) = <<a, b>>
      BY HashBack
    <3> HIDE DEF fs
    <3> QED BY <1>1, <2>3, <3>2, <3>3
  <2> QED BY <2>2, <2>3 DEF IsLink
<1>6. /\ s = Fields(s) /\ s.filename = l.filename /\ s.upstream_url = local_file_url(l)
      /\ s.requires_python = l.requires_python /\ s.yanked = l.yanked
      /\ s.gpg_sig = l.gpg_sig /\ s.dist_info_metadata = l.dist_info_metadata
      /\ s.core_metadata = l.core_metadata /\ s.hash = l.hash
  BY DEF IsLink, Fields
<1>7. p = Fields(p)
  BY DEF parse_file, Fields
<1> HIDE DEF f, p, s
<1>8. Common(p) = Common(s)
  BY <1>1, <1>2, <1>3, <1>4, <1>5, <1>6, <1>7, CommonFields
<1> QED BY <1>8 DEF p, s, f

(* A page of this server, in either format, read as it reads its           *)
(* upstream's, has the links it was made of (Readable): for every link, not*)
(* only those of the samples.                                              *)
THEOREM PagesReadBack == ASSUME NEW W, TextsOK(W), NEW l, IsLink(l, W) PROVE Readable(l)
  BY AnchorBack, FileBack DEF Readable

(* What is read from the upstream is such a link, whatever its attributes. *)
IsFields(fs, W) ==
  /\ DOMAIN fs \subseteq Nat
  /\ \A i \in DOMAIN fs :
       fs[i][2].is = "string" => fs[i][1] \in W /\ fs[i][2].text[1] \in W

IsValue(v, W) ==
  /\ v.is = "string" => v.text \in Seq(W)
  /\ v.is = "object" => IsFields(v.fields, W)

IsAnchor(a, W) ==
  IsText(a.yanked, W) /\ IsText(a.dist_info_metadata, W) /\ IsText(a.core_metadata, W)
  /\ IsText(a.fragment, W)

IsFile(f, W) ==
  /\ IsValue(f.yanked, W) /\ IsValue(f.dist_info_metadata, W) /\ IsValue(f.core_metadata, W)
  /\ f.gpg_sig \in {None, <<TRUE>>, <<FALSE>>}
  /\ f.hashes = None \/ IsFields(f.hashes, W)
  /\ IsText(f.fragment, W)

LEMMA SplitIs ==
  ASSUME NEW W, NEW t, IsText(t, W)
  PROVE  LET h == split_hash_fragment(t) IN h = None \/ \E a, b \in W : h = <<a, b>>
<1>1. CASE Pair(t)
  <2>1. t \in Seq(W) /\ Len(t) = 2
    BY <1>1 DEF Pair, IsText
  <2>2. t[1] \in W /\ t[2] \in W /\ t = <<t[1], t[2]>>
    BY <2>1
  <2> QED BY <1>1, <2>2 DEF split_hash_fragment
<1>2. CASE ~Pair(t)
  BY <1>2 DEF split_hash_fragment
<1> QED BY <1>1, <1>2

LEMMA FirstIs ==
  ASSUME NEW W, NEW fs, IsFields(fs, W)
  PROVE  LET h == FirstField(fs) IN h = None \/ \E a, b \in W : h = <<a, b>>
<1> DEFINE strings == {i \in DOMAIN fs : fs[i][2].is = "string"}
           sha == {i \in strings : fs[i][1] = "sha256"}
           best == IF sha # {} THEN sha ELSE strings
<1>1. CASE strings = {}
  BY <1>1 DEF FirstField
<1>2. CASE strings # {}
  <2>1. best \in SUBSET Nat /\ best # {} /\ best \subseteq strings
    BY <1>2 DEF IsFields
  <2>2. Min(best) \in best
    <3> HIDE DEF best
    <3>1. \E k \in best : \A x \in best : k <= x
      BY <2>1, Least
    <3> QED BY <3>1 DEF Min
  <2>3. fs[Min(best)][1] \in W /\ fs[Min(best)][2].text[1] \in W
    BY <2>1, <2>2 DEF IsFields
  <2>4. FirstField(fs) = <<fs[Min(best)][1], fs[Min(best)][2].text[1]>>
    BY <1>2 DEF FirstField
  <2> QED BY <2>3, <2>4
<1> QED BY <1>1, <1>2

LEMMA ValueIs ==
  ASSUME NEW W, TextsOK(W), NEW v, IsValue(v, W)
  PROVE  IsText(metadata_from_json(v), W) /\ IsText(yanked_from_json(v), W)
<1>1. TRUE_TEXT \in Seq(W) /\ <<"">> \in Seq(W)
  <2>1. "true" \in W /\ "" \in W
    BY DEF TextsOK
  <2>2. \A S, x : x \in S => <<x>> \in Seq(S)
    OBVIOUS
  <2> QED BY <2>1, <2>2 DEF TRUE_TEXT
<1>2. CASE v.is = "true"
  BY <1>1, <1>2 DEF metadata_from_json, yanked_from_json, IsText
<1>3. CASE v.is = "string"
  BY <1>3 DEF metadata_from_json, yanked_from_json, IsText, IsValue
<1>4. CASE v.is = "object"
  <2>1. FirstField(v.fields) = None \/ FirstField(v.fields) \in Seq(W)
    <3>1. \A a, b \in W : <<a, b>> \in Seq(W)
      OBVIOUS
    <3>2. IsFields(v.fields, W)
      BY <1>4 DEF IsValue
    <3>3. \/ FirstField(v.fields) = None
          \/ \E a, b \in W : FirstField(v.fields) = <<a, b>>
      BY <3>2, FirstIs
    <3> QED BY <3>1, <3>3
  <2>2. metadata_from_json(v) = FirstField(v.fields)
    BY <1>4 DEF metadata_from_json
  <2>3. yanked_from_json(v) = None
    BY <1>4 DEF yanked_from_json
  <2> QED BY <2>1, <2>2, <2>3 DEF IsText
<1>5. CASE v.is \notin {"true", "string", "object"}
  BY <1>5 DEF metadata_from_json, yanked_from_json, IsText
<1> QED BY <1>2, <1>3, <1>4, <1>5

LEMMA AnchorIsLink == ASSUME NEW W, NEW a, IsAnchor(a, W) PROVE IsLink(parse_anchor(a), W)
<1> DEFINE p == parse_anchor(a)
<1>1. /\ p.yanked = a.yanked /\ p.dist_info_metadata = a.dist_info_metadata
      /\ p.core_metadata = a.core_metadata /\ p.hash = split_hash_fragment(a.fragment)
      /\ p.gpg_sig = IF a.gpg_sig = None THEN None ELSE <<IsTrue(a.gpg_sig)>>
      /\ p = Fields(p)
  BY DEF parse_anchor, Fields
<1>2. IsTrue(a.gpg_sig) \in BOOLEAN
  BY DEF IsTrue
<1>3. p.gpg_sig \in {None, <<TRUE>>, <<FALSE>>}
  BY <1>1, <1>2
<1>4. p.hash = None \/ \E x, y \in W : p.hash = <<x, y>>
  BY <1>1, SplitIs DEF IsAnchor
<1> HIDE DEF p
<1>5. IsLink(p, W)
  BY <1>1, <1>3, <1>4 DEF IsLink, IsAnchor
<1> QED BY <1>5 DEF p

LEMMA FileIsLink == ASSUME NEW W, TextsOK(W), NEW f, IsFile(f, W) PROVE IsLink(parse_file(f), W)
<1> DEFINE p == parse_file(f)
<1>1. /\ p.yanked = yanked_from_json(f.yanked) /\ p.gpg_sig = f.gpg_sig
      /\ p.dist_info_metadata = metadata_from_json(f.dist_info_metadata)
      /\ p.core_metadata = metadata_from_json(f.core_metadata)
      /\ p.hash = IF f.hashes # None /\ first_hash(f.hashes) # None THEN first_hash(f.hashes)
                  ELSE split_hash_fragment(f.fragment)
      /\ p = Fields(p)
  BY DEF parse_file, Fields
<1>2. p.hash = None \/ \E x, y \in W : p.hash = <<x, y>>
  BY <1>1, SplitIs, FirstIs DEF IsFile, first_hash
<1> HIDE DEF p
<1>3. IsLink(p, W)
  BY <1>1, <1>2, ValueIs DEF IsLink, IsFile
<1> QED BY <1>3 DEF p
=============================================================================
