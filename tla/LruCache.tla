------------------------------ MODULE LruCache ------------------------------
(***************************************************************************)
(* What a bounded cache promises: at most Capacity entries, of which it    *)
(* knows the order of last use.  A lookup that finds its key makes it the  *)
(* last used, an insertion into a full cache drops the first.              *)
(***************************************************************************)
EXTENDS Naturals, FiniteSets

CONSTANTS Keys, Values, Capacity, None

VARIABLES
  value,    \* value[k]: of the entry of k, or None
  before    \* <<k, l>>: both have entries, and l was used after k

vars == <<value, before>>

Cached == {k \in Keys : value[k] # None}
Oldest == {k \in Cached : \A l \in Cached \ {k} : <<k, l>> \in before}

Init == value = [k \in Keys |-> None] /\ before = {}

\* k is used; of the others the entries of ks are kept, in their order.
Use(k, ks) == before' = {e \in before : e[1] \in ks /\ e[2] \in ks} \cup (ks \X {k})

Get(k) ==
  /\ k \in Cached
  /\ Use(k, Cached \ {k})
  /\ UNCHANGED value

Insert(k, v) ==
  /\ Capacity > 0
  /\ \E dropped \in IF k \in Cached \/ Cardinality(Cached) < Capacity THEN {{}}
                    ELSE {{o} : o \in Oldest} :
       /\ value' = [l \in Keys |-> IF l = k THEN v ELSE IF l \in dropped THEN None ELSE value[l]]
       /\ Use(k, Cached \ (dropped \cup {k}))

Next == \E k \in Keys : Get(k) \/ \E v \in Values : Insert(k, v)

Spec == Init /\ [][Next]_vars
=============================================================================
