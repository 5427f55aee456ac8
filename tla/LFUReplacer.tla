----------------------------- MODULE LFUReplacer -----------------------------
(***************************************************************************)
(* LFUReplacer: one bucket (FreqNode) of frames for each number of uses,   *)
(* with min_freq naming the bucket to evict from, 0 after an eviction has  *)
(* emptied it and before the next one looks for its successor.  Every      *)
(* method holds latch_; the page table is never asked.                     *)
(***************************************************************************)
EXTENDS Integers, Sequences, SequencesExt, FiniteSetsExt

CONSTANTS
  Frames,
  FreqBound    \* the model stops counting the uses of a frame here

\* What the constants have to be; the modules that instantiate this one assume it.
Parameters == FreqBound \in Nat /\ FreqBound > 1

Freqs == 1 .. FreqBound

VARIABLES
  map_,      \* frame in map_ -> its node's freq
  buckets,   \* frequency -> its FreqNode's list, first to last
  freq_map_, \* the frequencies that have a FreqNode
  nulls,     \* those that operator[] gave a null pointer to
  min_freq, max_freq,
  fault      \* a null FreqNode was dereferenced

vars == <<map_, buckets, freq_map_, nulls, min_freq, max_freq, fault>>

Mapped == DOMAIN map_

Init ==
  /\ map_ = <<>>
  /\ buckets = [q \in Freqs |-> <<>>]
  /\ freq_map_ = {1} /\ nulls = {}
  /\ min_freq = 1 /\ max_freq = 1
  /\ fault = FALSE

\* update_min_freq: the next bucket above that is not empty, if there is one.
update_min_freq(min, b, max) ==
  LET above == {q \in min + 1 .. max : b[q] # <<>>}
  IN IF above = {} THEN min ELSE Min(above)

remove_obj(s, f) == SelectSeq(s, LAMBDA g : g # f)

\* Variant: min_freq is not set back.
InsertKeepsMin(f) ==
  /\ f \notin Mapped
  /\ map_' = [g \in Mapped \cup {f} |-> IF g = f THEN 1 ELSE map_[g]]
  /\ buckets' = [buckets EXCEPT ![1] = Append(@, f)]
  /\ UNCHANGED <<freq_map_, nulls, min_freq, max_freq, fault>>

Insert(f) ==
  /\ f \notin Mapped
  /\ map_' = [g \in Mapped \cup {f} |-> IF g = f THEN 1 ELSE map_[g]]
  /\ min_freq' = 1
  /\ buckets' = [buckets EXCEPT ![1] = Append(@, f)]
  /\ UNCHANGED <<freq_map_, nulls, max_freq, fault>>

\* Variant: the frame stays in its old bucket as well.
PromoteCopies(f) ==
  /\ f \in Mapped /\ map_[f] < FreqBound
  /\ map_' = [map_ EXCEPT ![f] = @ + 1]
  /\ max_freq' = Max({max_freq, map_[f] + 1})
  /\ buckets' = [buckets EXCEPT ![map_[f] + 1] = Append(@, f)]
  /\ freq_map_' = freq_map_ \cup {map_[f] + 1}
  /\ UNCHANGED <<nulls, min_freq, fault>>

Promote(f) ==
  /\ f \in Mapped /\ map_[f] < FreqBound
  /\ LET old == map_[f]
         new == old + 1
         b == [buckets EXCEPT ![old] = remove_obj(@, f), ![new] = Append(@, f)]
         emptied == b[old] = <<>>
     IN IF old \notin freq_map_ \/ new \in nulls
        THEN fault' = TRUE /\ UNCHANGED <<map_, buckets, freq_map_, nulls, min_freq, max_freq>>
        ELSE /\ map_' = [map_ EXCEPT ![f] = new]
             /\ max_freq' = Max({max_freq, new})
             /\ buckets' = b
             /\ min_freq' = IF emptied /\ min_freq = old
                            THEN update_min_freq(min_freq, b, max_freq') ELSE min_freq
             /\ freq_map_' = (freq_map_ \cup {new})
                               \ (IF emptied /\ old # 1 THEN {old} ELSE {})
             /\ UNCHANGED <<nulls, fault>>

\* get_min_freq_node: the bucket, found anew after an eviction emptied it.
get_min_freq == IF min_freq = 0 THEN update_min_freq(0, buckets, max_freq) ELSE min_freq

Victim ==
  LET q == get_min_freq IN
  IF q \notin freq_map_ \/ buckets[q] = <<>>
  THEN /\ min_freq' = q
       /\ nulls' = nulls \cup ({q} \ freq_map_)
       /\ UNCHANGED <<map_, buckets, freq_map_, max_freq, fault>>
  ELSE LET f == Head(buckets[q]) IN
       /\ map_' = [g \in Mapped \ {f} |-> map_[g]]
       /\ buckets' = [buckets EXCEPT ![q] = Tail(@)]
       /\ min_freq' = IF Len(buckets[q]) = 1 THEN 0 ELSE q
       /\ UNCHANGED <<freq_map_, nulls, max_freq, fault>>

Erase(f) ==
  /\ f \in Mapped
  /\ LET q == map_[f]
         b == [buckets EXCEPT ![q] = remove_obj(@, f)]
     IN /\ map_' = [g \in Mapped \ {f} |-> map_[g]]
        /\ buckets' = b
        /\ min_freq' = IF q = min_freq /\ b[q] = <<>>
                       THEN update_min_freq(min_freq, b, max_freq) ELSE min_freq
        /\ UNCHANGED <<freq_map_, nulls, max_freq, fault>>

Next == \/ \E f \in Frames : Insert(f) \/ Promote(f) \/ Erase(f)
        \/ Victim

Spec == Init /\ [][Next]_vars

-----------------------------------------------------------------------------
(* Properties. *)

TypeOK ==
  /\ Mapped \subseteq Frames /\ \A f \in Mapped : map_[f] \in Freqs
  /\ buckets \in [Freqs -> Seq(Frames)]
  /\ freq_map_ \subseteq Freqs
  /\ nulls \subseteq 0 .. FreqBound
  /\ min_freq \in 0 .. FreqBound /\ max_freq \in Freqs

\* Each frame is in the bucket of its number of uses, once, and in no other,
\* and that bucket has a FreqNode; no null FreqNode is ever reached, though
\* emptied buckets are erased and operator[] makes null entries.
BucketsRight ==
  /\ ~fault
  /\ nulls \cap Freqs = {}
  /\ \A q \in Freqs : /\ IsInjective(buckets[q])
                      /\ ToSet(buckets[q]) = {f \in Mapped : map_[f] = q}
                      /\ buckets[q] # <<>> => q \in freq_map_

\* Victim takes a frame with the fewest uses, and fails only on an empty
\* replacer: min_freq, kept by four methods and left 0 by an eviction, never
\* hides a bucket below it.
TakesLeastUsed ==
  Victim => IF Mapped = {} THEN DOMAIN map_' = {}
            ELSE \E f \in Mapped : /\ DOMAIN map_' = Mapped \ {f}
                                   /\ \A g \in Mapped : map_[f] <= map_[g]
VictimLeastUsed == [][TakesLeastUsed]_vars
=============================================================================
