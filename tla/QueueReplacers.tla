--------------------------- MODULE QueueReplacers ---------------------------
(***************************************************************************)
(* The replacers that keep the frames in a queue: LRUReplacer and          *)
(* FIFOReplacer (nodes linked by pointers, an unordered_map from frame to  *)
(* node), LRUReplacer_v2 and FIFOReplacer_v2 (a ListArray), and            *)
(* TwoQLRUReplacer (two std::list).  A method holds latch_ from its first  *)
(* line to its last, so it is one step; Victim of several frames is one    *)
(* step per frame, the latch being held between them.                      *)
(*                                                                         *)
(* The page table is the environment: refused is the set of frames that    *)
(* fail the test of a scan when it meets them (pinned, dirty, or their     *)
(* page locked by another thread).                                         *)
(***************************************************************************)
EXTENDS Integers, FiniteSets, Sequences, SequencesExt

CONSTANTS
  Frames,      \* mpage_id_type: what the replacer orders
  Kinds,       \* the replacers looked at
  BatchKinds,  \* those whose Victim of several frames is called
  PageNum,     \* page_num of that call
  SizeMod      \* 2^width of size_t

\* What the constants have to be; the modules that instantiate this one assume it.
Parameters == Kinds \subseteq {"LRU", "FIFO", "LRU_v2", "FIFO_v2", "TwoQ"}

VARIABLES
  kind,    \* the class of the object
  list,    \* its list from the front to the back (TwoQ: inactiveList)
  active,  \* TwoQ: activeList
  map,     \* LRU, FIFO: the keys of map_
  size,    \* LRU_v2, FIFO_v2: size_ of the ListArray
  left,    \* Victim of several: page_num, 0 while nobody is in it
  known,   \* history: frames inserted and not evicted or erased since
  older    \* history: pairs of known frames, the first used longer ago

vars == <<kind, list, active, map, size, left, known, older>>

Pop(s, f) == SelectSeq(s, LAMBDA g : g # f)
PushFront(s, f) == <<f>> \o s

\* Where a scan from the back stops: 0 if every frame is refused.
Scan(s, refused) == SelectLastInSeq(s, LAMBDA f : f \notin refused)

\* The history after a use of f, and after f has gone.
Used(f) == {p \in older : p[1] # f /\ p[2] # f} \cup {<<g, f>> : g \in known \ {f}}
Touch(f) == known' = known \cup {f} /\ older' = Used(f)
Forget(f) == /\ known' = known \ {f}
             /\ older' = {p \in older : p[1] # f /\ p[2] # f}

Init ==
  /\ kind \in Kinds
  /\ list = <<>> /\ active = <<>>
  /\ map = {}
  /\ size = 0
  /\ left = 0
  /\ known = {} /\ older = {}

-----------------------------------------------------------------------------
(* LRUReplacer and FIFOReplacer. *)

Link(f)   == list' = PushFront(list, f) /\ map' = map \cup {f} /\ Touch(f)
Unlink(f) == list' = Pop(list, f) /\ map' = map \ {f} /\ Forget(f)

\* Victim of several: page_num is counted down, and an empty scan ends it.
Counted == left' = left - 1
GiveUp  == left' = 0 /\ UNCHANGED <<list, active, map, size, known, older>>

LRUInsert(f) == IF f \in map THEN UNCHANGED vars
                ELSE Link(f) /\ UNCHANGED <<kind, active, size, left>>

LRUPromote(f) ==
  IF f \notin map THEN UNCHANGED vars
  ELSE /\ list' = PushFront(Pop(list, f), f)
       /\ Touch(f)
       /\ UNCHANGED <<kind, active, map, size, left>>

LRUVictim(refused) ==
  LET i == Scan(list, refused) IN
  IF i = 0 THEN UNCHANGED vars
  ELSE Unlink(list[i]) /\ UNCHANGED <<kind, active, size, left>>

\* tail_.prev = victim->prev: the list ends before the victim, and the nodes
\* behind it, which the scan passed over, are cut off with it.
LRUVictimNext(refused) ==
  LET i == Scan(list, refused) IN
  /\ UNCHANGED kind
  /\ IF i = 0 THEN GiveUp
     ELSE /\ list' = SubSeq(list, 1, i - 1)
          /\ map' = map \ {list[i]}
          /\ Forget(list[i])
          /\ Counted
          /\ UNCHANGED <<active, size>>

LRUErase(f) == IF f \notin map THEN UNCHANGED vars
               ELSE Unlink(f) /\ UNCHANGED <<kind, active, size, left>>

FIFOInsert(f) == IF f \in map THEN UNCHANGED vars
                 ELSE Link(f) /\ UNCHANGED <<kind, active, size, left>>

FIFOPromote(f) == UNCHANGED vars

\* Variant: the scan starts at the front.
FIFOVictimFront(refused) ==
  LET i == SelectInSeq(list, LAMBDA f : f \notin refused) IN
  IF i = 0 THEN UNCHANGED vars
  ELSE Unlink(list[i]) /\ UNCHANGED <<kind, active, size, left>>

FIFOVictim(refused) ==
  LET i == Scan(list, refused) IN
  IF i = 0 THEN UNCHANGED vars
  ELSE Unlink(list[i]) /\ UNCHANGED <<kind, active, size, left>>

\* Variant: the list is cut before the victim, as LRUReplacer does.
FIFOVictimNextCuts(refused) == LRUVictimNext(refused)

FIFOVictimNext(refused) ==
  LET i == Scan(list, refused) IN
  /\ UNCHANGED kind
  /\ IF i = 0 THEN GiveUp
     ELSE Unlink(list[i]) /\ Counted /\ UNCHANGED <<active, size>>

FIFOErase(f) == IF f \notin map THEN UNCHANGED vars
                ELSE Unlink(f) /\ UNCHANGED <<kind, active, size, left>>

-----------------------------------------------------------------------------
(* LRUReplacer_v2 and FIFOReplacer_v2, on a ListArray. *)

moveToFront(f) == list' = PushFront(Pop(list, f), f) /\ Touch(f) /\ UNCHANGED size

\* size_ is decremented here, and incremented nowhere.
removeFromIndex(f) == /\ list' = Pop(list, f)
                      /\ size' = (size - 1) % SizeMod
                      /\ Forget(f)

\* The caller inserts only frames that are not in the list.
LRU2Insert(f) == f \notin known /\ moveToFront(f) /\ UNCHANGED <<kind, active, map, left>>

\* A frame that is not in the list enters it.
LRU2Promote(f) == moveToFront(f) /\ UNCHANGED <<kind, active, map, left>>

LRU2Victim(refused) ==
  LET i == Scan(list, refused) IN
  IF i = 0 THEN UNCHANGED vars
  ELSE removeFromIndex(list[i]) /\ UNCHANGED <<kind, active, map, left>>

LRU2Erase(f) == removeFromIndex(f) /\ UNCHANGED <<kind, active, map, left>>

FIFO2Insert(f) == IF f \in ToSet(list) THEN UNCHANGED vars
                  ELSE moveToFront(f) /\ UNCHANGED <<kind, active, map, left>>

FIFO2Promote(f) == UNCHANGED vars

FIFO2Victim(refused) ==
  LET i == Scan(list, refused) IN
  IF i = 0 THEN UNCHANGED vars
  ELSE removeFromIndex(list[i]) /\ UNCHANGED <<kind, active, map, left>>

FIFO2VictimNext(refused) ==
  LET i == Scan(list, refused) IN
  /\ UNCHANGED kind
  /\ IF i = 0 THEN GiveUp
     ELSE removeFromIndex(list[i]) /\ Counted /\ UNCHANGED <<active, map>>

FIFO2Erase(f) == removeFromIndex(f) /\ UNCHANGED <<kind, active, map, left>>

\* Clean builds an empty list, without the latch, and leaves size_ alone.
FIFO2Clean ==
  /\ list' = <<>>
  /\ known' = {} /\ older' = {}
  /\ UNCHANGED <<kind, active, map, size, left>>

-----------------------------------------------------------------------------
(* TwoQLRUReplacer: frames enter inactiveList, a promotion moves them to    *)
(* activeList, and activeList is scanned when inactiveList has no victim.   *)

Leave(f) == list' = Pop(list, f) /\ active' = Pop(active, f) /\ Forget(f)
Present == ToSet(list \o active)

TwoQInsert(f) ==
  IF f \in Present THEN UNCHANGED vars
  ELSE /\ list' = PushFront(list, f)
       /\ Touch(f)
       /\ UNCHANGED <<kind, active, map, size, left>>

TwoQPromote(f) ==
  IF f \notin Present THEN UNCHANGED vars
  ELSE /\ active' = PushFront(Pop(active, f), f)
       /\ list' = Pop(list, f)
       /\ Touch(f)
       /\ UNCHANGED <<kind, map, size, left>>

TwoQVictim(refused) ==
  LET i == Scan(list, refused)
      j == Scan(active, refused)
  IN IF i = 0 /\ j = 0 THEN UNCHANGED vars
     ELSE /\ Leave(IF i # 0 THEN list[i] ELSE active[j])
          /\ UNCHANGED <<kind, map, size, left>>

\* The last frame goes whether it is pinned or not: the page table is not
\* asked, and its mapping stays.
TwoQVictimNext(refused) ==
  /\ UNCHANGED kind
  /\ IF Present = {} THEN GiveUp
     ELSE /\ Leave(Last(IF list # <<>> THEN list ELSE active))
          /\ Counted
          /\ UNCHANGED <<map, size>>

\* Erase takes no latch, and runs inside a Victim of several frames as well.
TwoQErase(f) == IF f \notin Present THEN UNCHANGED vars
                ELSE Leave(f) /\ UNCHANGED <<kind, map, size, left>>

-----------------------------------------------------------------------------
Insert(f) ==
  \/ kind = "LRU" /\ LRUInsert(f)
  \/ kind = "FIFO" /\ FIFOInsert(f)
  \/ kind = "LRU_v2" /\ LRU2Insert(f)
  \/ kind = "FIFO_v2" /\ FIFO2Insert(f)
  \/ kind = "TwoQ" /\ TwoQInsert(f)

Promote(f) ==
  \/ kind = "LRU" /\ LRUPromote(f)
  \/ kind = "FIFO" /\ FIFOPromote(f)
  \/ kind = "LRU_v2" /\ LRU2Promote(f)
  \/ kind = "FIFO_v2" /\ FIFO2Promote(f)
  \/ kind = "TwoQ" /\ TwoQPromote(f)

Victim(refused) ==
  \/ kind = "LRU" /\ LRUVictim(refused)
  \/ kind = "FIFO" /\ FIFOVictim(refused)
  \/ kind = "LRU_v2" /\ LRU2Victim(refused)
  \/ kind = "FIFO_v2" /\ FIFO2Victim(refused)
  \/ kind = "TwoQ" /\ TwoQVictim(refused)

VictimNext(refused) ==
  \/ kind = "LRU" /\ LRUVictimNext(refused)
  \/ kind = "FIFO" /\ FIFOVictimNext(refused)
  \/ kind = "FIFO_v2" /\ FIFO2VictimNext(refused)
  \/ kind = "TwoQ" /\ TwoQVictimNext(refused)

Erase(f) ==
  \/ kind = "LRU" /\ LRUErase(f)
  \/ kind = "FIFO" /\ FIFOErase(f)
  \/ kind = "LRU_v2" /\ LRU2Erase(f)
  \/ kind = "FIFO_v2" /\ FIFO2Erase(f)

VictimBegin ==
  /\ kind \in BatchKinds
  /\ left' = PageNum
  /\ UNCHANGED <<kind, list, active, map, size, known, older>>

\* A node that map_ names and no list links lies behind a deleted one: what
\* the next use of it writes is undefined, and the model stops.
Dangling == kind \in {"LRU", "FIFO"} /\ map # ToSet(list)

Next ==
  \/ /\ ~Dangling
     /\ \/ left = 0 /\ \E f \in Frames : Insert(f) \/ Promote(f) \/ Erase(f)
        \/ left = 0 /\ \E refused \in SUBSET Frames : Victim(refused)
        \/ left = 0 /\ VictimBegin
        \/ left > 0 /\ \E refused \in SUBSET Frames : VictimNext(refused)
        \/ kind = "TwoQ" /\ \E f \in Frames : TwoQErase(f)
        \/ kind = "FIFO_v2" /\ left = 0 /\ FIFO2Clean
  \/ Dangling /\ UNCHANGED vars

Spec == Init /\ [][Next]_vars

-----------------------------------------------------------------------------
(* Properties. *)

TypeOK ==
  /\ kind \in Kinds
  /\ list \in Seq(Frames) /\ active \in Seq(Frames)
  /\ IsInjective(list \o active)
  /\ map \subseteq Frames
  /\ size \in 0 .. SizeMod - 1
  /\ left \in 0 .. PageNum
  /\ known \subseteq Frames
  /\ older \subseteq known \X known

\* No frame is lost: each one inserted and not evicted or erased since is in
\* a list a scan goes through (and map_ names the same frames), whatever mix
\* of single and multiple evictions came before.
NothingLost ==
  /\ known = ToSet(list \o active)
  /\ kind \in {"LRU", "FIFO"} => map = known

\* Victim takes the acceptable frame that was used (FIFO: inserted) longest
\* ago, TwoQ preferring those promoted never, and reports failure only if no
\* known frame is acceptable.
TakesOldest ==
  \A refused \in SUBSET Frames :
    left = 0 /\ ~Dangling /\ Victim(refused) =>
      LET cand == known \ refused
          pref == IF cand \cap ToSet(list) # {} THEN ToSet(list) ELSE known
      IN IF cand = {} THEN known' = known
         ELSE \E f \in cand \cap pref :
                /\ known' = known \ {f}
                /\ \A g \in (cand \cap pref) \ {f} : <<f, g>> \in older
VictimTakesOldest == [][TakesOldest]_vars

\* A frame that Victim gives away is not in use: assert(tar->GetRefCount() == 0)
\* in GetVictimPage, and the eviction server puts the frame on the free list.
VictimUnused ==
  [][\A refused \in SUBSET Frames :
       left > 0 /\ VictimNext(refused) => (known \ known') \cap refused = {}]_vars

\* size() of the ListArray is the number of frames in the list, as
\* GetVictimPage takes it when it gives up on Size() == 0.
SizeCounts == kind \in {"LRU_v2", "FIFO_v2"} => size = Len(list)
=============================================================================
