------------------------------ MODULE ByteRange ------------------------------
(***************************************************************************)
(* The Range header of a file request: parse_byte_range, and what a range  *)
(* means (RFC 9110, section 14), as operators.                             *)
(*                                                                         *)
(* A header is its unit, whether it lists several ranges, whether it has a *)
(* "-", and the words before and after it: a number, Empty, or Bad for any *)
(* other word (a number of more than 64 bits too).                         *)
(***************************************************************************)
EXTENDS Integers, FiniteSets, FiniteSetsExt

Empty == -1
Bad == -2

NoRange == [start |-> 0, end |-> 0, is |-> "none"]
RangeParseError == [start |-> 0, end |-> 0, is |-> "error"]
Some(s, e) == [start |-> s, end |-> e, is |-> "range"]

SuffixStart(n, size) == IF n >= size THEN 0 ELSE size - n   \* saturating_sub

parse_byte_range(h, size) ==
  CASE ~h.bytes -> NoRange
    [] h.bytes /\ (h.list \/ ~h.dash) -> RangeParseError
    [] h.bytes /\ ~h.list /\ h.dash /\ h.first = Empty ->
         IF h.last \in {Bad, Empty, 0} \/ size = 0 THEN RangeParseError
         ELSE Some(SuffixStart(h.last, size), size - 1)
    [] h.bytes /\ ~h.list /\ h.dash /\ h.first # Empty ->
         IF h.first = Bad \/ h.first >= size \/ h.last = Bad THEN RangeParseError
         ELSE IF h.last = Empty THEN Some(h.first, size - 1)
         ELSE IF h.first > h.last THEN RangeParseError
         ELSE Some(h.first, Min({h.last, size - 1}))

-----------------------------------------------------------------------------
(* The meaning of one well-formed range of bytes. *)

WellFormed(h) ==
  /\ h.bytes /\ ~h.list /\ h.dash /\ Bad \notin {h.first, h.last}
  /\ {h.first, h.last} # {Empty}
  /\ Empty \notin {h.first, h.last} => h.first <= h.last

Wanted(h, size) ==
  {i \in 0 .. size - 1 :
     IF h.first = Empty THEN i + h.last >= size
     ELSE h.first <= i /\ (h.last # Empty => i <= h.last)}

\* The parser finds the bytes a well-formed header means, or refuses it if there are
\* none (a suffix longer than the file, an empty file, an end past the last byte).
Exact(h, size) ==
  WellFormed(h) =>
    LET r == parse_byte_range(h, size)
    IN IF Wanted(h, size) = {} THEN r = RangeParseError
       ELSE r.is = "range" /\ r.start .. r.end = Wanted(h, size)
=============================================================================
