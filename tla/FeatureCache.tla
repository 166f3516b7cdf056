---------------------------- MODULE FeatureCache ----------------------------
(***************************************************************************)
(* FeatureCache of src/cache/feature_cache_ops.cpp: for each symbol a ring *)
(* of entries, written by puts, thinned out by evictions.  Each section    *)
(* under a symbol's mutex is one step; an eviction walks the symbols one   *)
(* mutex at a time, so puts fall in between.                               *)
(*                                                                         *)
(* An entry is the number of the put that stored it; time stamps are the   *)
(* caller's, so any set of entries may be the expired one.  Reads change   *)
(* nothing but the counters of hits and misses.  clearAll, which frees the *)
(* rings that other calls may hold pointers to, is called between the      *)
(* other calls only: that is left to the callers of the class.             *)
(***************************************************************************)
EXTENDS Integers, Sequences, FiniteSets, SequencesExt

CONSTANTS
  Symbols,
  MaxEntries,   \* config_.max_entries
  MaxPuts       \* bound: calls of putFeature

VARIABLES
  entries,      \* entries of each symbol's ring; 0 where none was stored yet
  size, head,   \* size and head of each ring
  sweep,        \* the eviction under way: its kind, target_size and the
                \*   symbols left
  puts,         \* calls of putFeature so far
  stored,       \* history: the puts of each symbol since it was cleared
  gone,         \* history: those of them that were evicted or overwritten
  evictions     \* evictions_

rings == <<entries, size, head>>
vars == <<rings, sweep, puts, stored, gone, evictions>>

NoSweep == [kind |-> "none", target |-> 0, left |-> {}]

Init ==
  /\ entries = [s \in Symbols |-> [i \in 1 .. MaxEntries |-> 0]]
  /\ size = [s \in Symbols |-> 0]
  /\ head = [s \in Symbols |-> 0]
  /\ sweep = NoSweep /\ puts = 0
  /\ stored = [s \in Symbols |-> <<>>]
  /\ gone = [s \in Symbols |-> {}]
  /\ evictions = 0

Visible(s) == {entries[s][i] : i \in 1 .. size[s]}

(* Mutant of AppendEntry: adds behind the entries the ring was created     *)
(* with.                                                                   *)
AppendAtEnd(s, e) ==
  /\ entries' = [entries EXCEPT ![s] = Append(@, e)]
  /\ size' = [size EXCEPT ![s] = @ + 1]
  /\ UNCHANGED <<head, gone>>

(* There is room: the entry goes behind the visible ones.                  *)
AppendEntry(s, e) ==
  /\ entries' = [entries EXCEPT ![s] =
       IF Len(@) <= size[s] THEN Append(@, e) ELSE [@ EXCEPT ![size[s] + 1] = e]]
  /\ size' = [size EXCEPT ![s] = @ + 1]
  /\ UNCHANGED <<head, gone>>

(* The ring is full: the entry at the head goes.                           *)
Overwrite(s, e) ==
  /\ entries' = [entries EXCEPT ![s][head[s] + 1] = e]
  /\ head' = [head EXCEPT ![s] = (@ + 1) % MaxEntries]
  /\ gone' = [gone EXCEPT ![s] = @ \cup {entries[s][head[s] + 1]}]
  /\ UNCHANGED size

PutFeature(s) ==
  /\ puts < MaxPuts
  /\ puts' = puts + 1
  /\ \/ size[s] < MaxEntries /\ AppendEntry(s, puts + 1)
     \/ size[s] >= MaxEntries /\ Overwrite(s, puts + 1)
  /\ stored' = [stored EXCEPT ![s] = Append(@, puts + 1)]
  /\ UNCHANGED <<sweep, evictions>>

(* evictExpired and evictLru begin; they hold the global lock shared, so   *)
(* only clearAll waits for them.                                           *)
StartSweep(kind, target) ==
  /\ sweep = NoSweep
  /\ sweep' = [kind |-> kind, target |-> target, left |-> Symbols]
  /\ UNCHANGED <<rings, puts, stored, gone, evictions>>

(* The entries that stay move to the front in their order; what is behind  *)
(* them stays in memory, and so does the head.                             *)
Keep(s, kept) ==
  /\ entries' = [entries EXCEPT ![s] =
       [i \in 1 .. Len(@) |-> IF i <= Len(kept) THEN kept[i] ELSE @[i]]]
  /\ size' = [size EXCEPT ![s] = Len(kept)]
  /\ evictions' = evictions + size[s] - Len(kept)
  /\ gone' = [gone EXCEPT ![s] = @ \cup (Visible(s) \ ToSet(kept))]
  /\ sweep' = LET left == sweep.left \ {s}
              IN  IF left = {} THEN NoSweep ELSE [sweep EXCEPT !.left = left]
  /\ UNCHANGED <<head, puts, stored>>

(* The positions of entries that stay, of the first n, in their order.     *)
Selections(n) ==
  {at \in UNION {[1 .. k -> 1 .. n] : k \in 0 .. n} :
     \A i, j \in DOMAIN at : i < j => at[i] < at[j]}

EvictExpired(s) ==
  /\ sweep.kind = "expired" /\ s \in sweep.left
  /\ \E at \in Selections(size[s]) : Keep(s, [i \in DOMAIN at |-> entries[s][at[i]]])

EvictLru(s) ==
  /\ sweep.kind = "lru" /\ s \in sweep.left
  /\ Keep(s, SubSeq(entries[s], 1, IF size[s] > sweep.target THEN sweep.target ELSE size[s]))

ClearSymbol(s) ==
  /\ size' = [size EXCEPT ![s] = 0]
  /\ head' = [head EXCEPT ![s] = 0]
  /\ stored' = [stored EXCEPT ![s] = <<>>]
  /\ gone' = [gone EXCEPT ![s] = {}]
  /\ UNCHANGED <<entries, sweep, puts, evictions>>

ClearAll ==
  /\ sweep = NoSweep
  /\ entries' = [s \in Symbols |-> [i \in 1 .. MaxEntries |-> 0]]
  /\ size' = [s \in Symbols |-> 0]
  /\ head' = [s \in Symbols |-> 0]
  /\ stored' = [s \in Symbols |-> <<>>]
  /\ gone' = [s \in Symbols |-> {}]
  /\ evictions' = 0
  /\ UNCHANGED <<sweep, puts>>

Next ==
  \/ \E s \in Symbols : PutFeature(s) \/ EvictExpired(s) \/ EvictLru(s) \/ ClearSymbol(s)
  \/ StartSweep("expired", 0)
  \/ \E target \in 0 .. MaxEntries : StartSweep("lru", target)
  \/ ClearAll

Spec == Init /\ [][Next]_vars

(* An entry that was evicted, overwritten or cleared never comes back: the *)
(* entries left behind in memory stay out of sight, none shows twice, and  *)
(* the latest put is lost by an eviction only.                             *)
EvictedStaysAway ==
  \A s \in Symbols :
    /\ Visible(s) \subseteq ToSet(stored[s]) \ gone[s]
    /\ Cardinality(Visible(s)) = size[s]
    /\ stored[s] # <<>> => Last(stored[s]) \in Visible(s) \cup gone[s]

=============================================================================
