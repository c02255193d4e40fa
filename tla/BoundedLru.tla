----------------------------- MODULE BoundedLru -----------------------------
(***************************************************************************)
(* struct BoundedLruCache of hot_cache.rs (the server's own caches are     *)
(* moka's; this one is the crate's).  A use of an entry gives it the next  *)
(* sequence number and queues <<key, number>> at the end; what the entry   *)
(* had queued before stays in the queue.  An eviction pops the queue until *)
(* it finds an entry whose number is still the queued one, so that most of *)
(* the queue may be of no use: hits alone never shorten it.                *)
(***************************************************************************)
EXTENDS Naturals, Sequences, FiniteSets

CONSTANTS
  Keys, Values,
  Capacity,     \* capacity
  MaxSequence,  \* bound: sequence numbers handed out
  None

VARIABLES
  entries,       \* entries[k]: value and sequence, or None
  order,         \* <<key, sequence>> pairs, oldest first
  next_sequence

vars == <<entries, order, next_sequence>>

Init ==
  /\ entries = [k \in Keys |-> None]
  /\ order = <<>>
  /\ next_sequence = 0

Cached == {k \in Keys : entries[k] # None}
Current(e) == entries[e[1]] # None /\ entries[e[1]].sequence = e[2]

-----------------------------------------------------------------------------
advance_sequence ==
  /\ next_sequence < MaxSequence
  /\ next_sequence' = next_sequence + 1

\* An entry is stored, found or replaced, with the next sequence number.
Entry(v) == [value |-> v, sequence |-> next_sequence]

touch(k, es, queue) ==
  /\ entries' = [es EXCEPT ![k].sequence = next_sequence]
  /\ order' = Append(queue, <<k, next_sequence>>)

get_cloned(k) ==
  /\ entries[k] # None
  /\ advance_sequence
  /\ touch(k, entries, order)

Replace(k, v) ==
  /\ Capacity > 0 /\ entries[k] # None
  /\ advance_sequence
  /\ touch(k, [entries EXCEPT ![k].value = v], order)

FirstQueued == 1   \* for a mutant: the front of the queue, whatever it is

\* evict_lru: the pairs before the first current one are dropped, and with it its entry.
Victim == CHOOSE i \in DOMAIN order :
            Current(order[i]) /\ \A j \in 1 .. i - 1 : ~Current(order[j])

InsertNew(k, v) ==
  /\ Capacity > 0 /\ entries[k] = None
  /\ advance_sequence
  /\ IF Cardinality(Cached) < Capacity THEN touch(k, [entries EXCEPT ![k] = Entry(v)], order)
     ELSE LET kept == [entries EXCEPT ![order[Victim][1]] = None]
          IN touch(k, [kept EXCEPT ![k] = Entry(v)], SubSeq(order, Victim + 1, Len(order)))

Next == \E k \in Keys : \/ get_cloned(k)
                        \/ \E v \in Values : Replace(k, v) \/ InsertNew(k, v)

Spec == Init /\ [][Next]_vars

-----------------------------------------------------------------------------
\* The order of last use is that of the sequence numbers.
Value == [k \in Keys |-> IF entries[k] = None THEN None ELSE entries[k].value]
Before == {e \in Cached \X Cached : entries[e[1]].sequence < entries[e[2]].sequence}

\* The map with its lazily cleaned queue behaves as a cache that knows the exact order
\* of use: it is never over its capacity and drops the least recently used entry only
\* (evict_lru).
Lru == INSTANCE LruCache WITH value <- Value, before <- Before
ImplementsLru == Lru!Spec
=============================================================================
