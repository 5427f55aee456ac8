--------------------------- MODULE ClockReplacers ---------------------------
(***************************************************************************)
(* ClockReplacer, a list whose back is examined and whose used frames go   *)
(* round to the front, and ClockReplacer_v2, an array of frames with a     *)
(* hand.  The threads that fetch take frames from the free list or from    *)
(* Victim and insert them; frames are pinned and released at any time.     *)
(* Victim holds latch_; Insert and Promote of ClockReplacer_v2 do not take *)
(* it, so they run inside its scan.                                        *)
(***************************************************************************)
EXTENDS Integers, FiniteSets, Sequences, SequencesExt

CONSTANTS
  Capacity,   \* capacity_: the number of frames
  Kinds,      \* a subset of {"Clock", "Clock_v2"}
  MaxFreq,    \* MAX_FREQ
  Reserve     \* frames that are never pinned once inserted

Frames == 0 .. Capacity - 1

\* What the constants have to be; the modules that instantiate this one assume it.
Parameters == Capacity \in Nat \ {0} /\ Reserve \subseteq Frames

VARIABLES
  kind,
  list,     \* Clock: the nodes from the front to the back
  freq,     \* Clock: freq; Clock_v2: visited, 0 or 1
  member,   \* Clock: the keys of map_; Clock_v2: the evictable frames
  hand,     \* Clock_v2: hand_
  cur,      \* Victim's to_evict; head_ is Capacity, the null pointer -1
  scanning, \* latch_ is held by Victim
  out,      \* frames free, or carried by a thread that loads them
  inUse     \* frames Victim refuses now: pinned, or their page is locked

vars == <<kind, list, freq, member, hand, cur, scanning, out, inUse>>

Head_ == Capacity
Null == -1
NodesFreq == IF kind = "Clock" THEN 0 .. MaxFreq ELSE {0, 1}

Init ==
  /\ kind \in Kinds
  /\ list = <<>>
  /\ freq = [f \in Frames |-> 0]
  /\ member = {}
  /\ hand = 0
  /\ cur = 0
  /\ scanning = FALSE
  /\ out = Frames
  /\ inUse = {}

moved(s, f) == <<f>> \o SelectSeq(s, LAMBDA g : g # f)

\* The node before f, head_ before the first.
before(f) == LET i == SelectInSeq(list, LAMBDA g : g = f)
             IN IF i = 1 THEN Head_ ELSE list[i - 1]

back(s) == IF s = <<>> THEN Head_ ELSE Last(s)

\* The loader's reference keeps the frame in use after Insert.
Loaded(f) == out' = out \ {f} /\ inUse' = inUse \cup ({f} \ Reserve)

-----------------------------------------------------------------------------
(* ClockReplacer. *)

\* The constructor of a node leaves freq as the memory held it.
ClockInsert(f) ==
  /\ ~scanning /\ f \in out \ member
  /\ list' = <<f>> \o list
  /\ member' = member \cup {f}
  /\ freq' \in {[freq EXCEPT ![f] = q] : q \in NodesFreq}
  /\ Loaded(f)
  /\ UNCHANGED <<kind, hand, cur, scanning>>

ClockPromote(f) ==
  /\ ~scanning /\ f \in member /\ freq[f] < MaxFreq
  /\ freq' = [freq EXCEPT ![f] = @ + 1]
  /\ UNCHANGED <<kind, list, member, hand, cur, scanning, out, inUse>>

ClockBegin ==
  /\ ~scanning /\ list # <<>>
  /\ scanning' = TRUE
  /\ cur' = Last(list)
  /\ UNCHANGED <<kind, list, freq, member, hand, out, inUse>>

\* A used frame goes to the front, and the scan back to the last.
ClockAge ==
  /\ scanning /\ cur \in Frames /\ freq[cur] >= 1
  /\ freq' = [freq EXCEPT ![cur] = @ - 1]
  /\ list' = moved(list, cur)
  /\ cur' = Last(list')
  /\ UNCHANGED <<kind, member, hand, scanning, out, inUse>>

ClockRefuse ==
  /\ scanning /\ cur \in inUse /\ freq[cur] = 0
  /\ cur' = before(cur)
  /\ UNCHANGED <<kind, list, freq, member, hand, scanning, out, inUse>>

\* head_ has freq 0 and val 0: it is tested as frame 0 is; taking it writes
\* through its null prev, refusing it goes on to that.
ClockRunsOff ==
  /\ scanning /\ cur = Head_
  /\ cur' = Null
  /\ UNCHANGED <<kind, list, freq, member, hand, scanning, out, inUse>>

ClockTake ==
  /\ scanning /\ cur \in Frames \ inUse /\ freq[cur] = 0
  /\ list' = Tail(moved(list, cur))
  /\ member' = member \ {cur}
  /\ out' = out \cup {cur}
  /\ scanning' = FALSE
  /\ UNCHANGED <<kind, freq, hand, cur, inUse>>

ClockErase(f) ==
  /\ ~scanning /\ f \in member
  /\ list' = Tail(moved(list, f))
  /\ member' = member \ {f}
  /\ out' = out \cup {f}
  /\ UNCHANGED <<kind, freq, hand, cur, scanning, inUse>>

-----------------------------------------------------------------------------
(* ClockReplacer_v2. *)

Insert2(f) ==
  /\ f \in out
  /\ member' = member \cup {f}
  /\ freq' = [freq EXCEPT ![f] = 0]
  /\ Loaded(f)
  /\ UNCHANGED <<kind, list, hand, cur, scanning>>

Promote2(f) ==
  /\ f \in inUse /\ freq[f] = 0
  /\ freq' = [freq EXCEPT ![f] = 1]
  /\ UNCHANGED <<kind, list, member, hand, cur, scanning, out, inUse>>

Begin2 ==
  /\ ~scanning
  /\ scanning' = TRUE
  /\ cur' = hand % Capacity
  /\ UNCHANGED <<kind, list, freq, member, hand, out, inUse>>

Following == (cur + 1) % Capacity

\* Not evictable, or used since the hand last passed.
Age2 ==
  /\ scanning /\ (cur \notin member \/ freq[cur] = 1)
  /\ freq' = [freq EXCEPT ![cur] = 0]
  /\ cur' = Following
  /\ UNCHANGED <<kind, list, member, hand, scanning, out, inUse>>

Refuse2 ==
  /\ scanning /\ cur \in member \cap inUse /\ freq[cur] = 0
  /\ cur' = Following
  /\ UNCHANGED <<kind, list, freq, member, hand, scanning, out, inUse>>

\* Variant: the frame taken stays evictable.
Take2KeepsEvictable ==
  /\ scanning /\ cur \in member \ inUse /\ freq[cur] = 0
  /\ hand' = Following
  /\ out' = out \cup {cur}
  /\ scanning' = FALSE
  /\ UNCHANGED <<kind, list, freq, member, cur, inUse>>

Take2 ==
  /\ scanning /\ cur \in member \ inUse /\ freq[cur] = 0
  /\ hand' = Following
  /\ member' = member \ {cur}
  /\ out' = out \cup {cur}
  /\ scanning' = FALSE
  /\ UNCHANGED <<kind, list, freq, cur, inUse>>

\* BufferPoolManager::Clean while nobody fetches.
Clean2 ==
  /\ ~scanning /\ inUse = {}
  /\ member' = {}
  /\ freq' = [f \in Frames |-> 0]
  /\ out' = Frames
  /\ UNCHANGED <<kind, list, hand, cur, scanning, inUse>>

-----------------------------------------------------------------------------
Use(f) ==
  /\ f \notin out \cup inUse \cup Reserve
  /\ inUse' = inUse \cup {f}
  /\ UNCHANGED <<kind, list, freq, member, hand, cur, scanning, out>>

Release(f) ==
  /\ f \in inUse
  /\ inUse' = inUse \ {f}
  /\ UNCHANGED <<kind, list, freq, member, hand, cur, scanning, out>>

Insert(f) ==
  \/ kind = "Clock" /\ ClockInsert(f)
  \/ kind = "Clock_v2" /\ Insert2(f)

Scan ==
  \/ kind = "Clock" /\ (ClockAge \/ ClockRefuse \/ ClockRunsOff \/ ClockTake)
  \/ kind = "Clock_v2" /\ (Age2 \/ Refuse2 \/ Take2)

Next ==
  \/ \E f \in Frames : Insert(f) \/ Use(f) \/ Release(f)
  \/ kind = "Clock" /\ (ClockBegin \/ \E f \in Frames : ClockPromote(f) \/ ClockErase(f))
  \/ kind = "Clock_v2" /\ (Begin2 \/ Clean2 \/ \E f \in Frames : Promote2(f))
  \/ Scan
  \/ cur = Null /\ UNCHANGED vars

Spec == Init /\ [][Next]_vars

\* A thread inside Victim keeps running.
FairSpec == Spec /\ WF_vars(Scan)

-----------------------------------------------------------------------------
(* Properties. *)

TypeOK ==
  /\ list \in Seq(Frames) /\ IsInjective(list)
  /\ freq \in [Frames -> 0 .. MaxFreq]
  /\ hand \in Frames
  /\ cur \in Frames \cup {Head_, Null}
  /\ member \subseteq Frames /\ out \subseteq Frames /\ inUse \subseteq Frames

\* A frame is given to one thread only: those the replacer may give away and
\* those outside it are disjoint and together all, the scan stands on a frame
\* of the list, and Clock's list and map agree.
FramesPartitioned ==
  /\ member \cap out = {} /\ member \cup out = Frames
  /\ kind = "Clock" => ToSet(list) = member
  /\ kind = "Clock" /\ scanning /\ cur \in Frames => cur \in member

\* Victim does not follow the null pointer before head_: a scan that finds no
\* victim ends with false, as GetVictimPage expects.
NoNullNode == cur # Null

\* A scan ends with a victim while some frame of the replacer stays free of
\* pins, provided that frames are not promoted or inserted for ever.
VictimEnds ==
  (/\ <>[](member \cap Reserve # {})
   /\ <>[][\A f \in Frames : freq'[f] <= freq[f]]_vars)
    => []<>~scanning
=============================================================================
