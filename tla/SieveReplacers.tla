--------------------------- MODULE SieveReplacers ---------------------------
(***************************************************************************)
(* The older sieves and the sieves' eviction of several frames:            *)
(* SieveReplacer (nodes linked by pointers), SieveReplacer_v2 and _v3 (a   *)
(* ListArray); the one-frame Victim of _v3 is in module SieveReplacer.     *)
(* Victim holds latch_; Promote takes it in the first two and not in _v3.  *)
(* A test of the scan may fail for reasons of the page table, at any time. *)
(***************************************************************************)
EXTENDS Integers, FiniteSets, Sequences, SequencesExt

CONSTANTS
  Frames,
  Kinds,      \* a subset of {"Sieve", "Sieve_v2", "Sieve_v3"}
  None,       \* no frame: the null pointer, or head_
  PageNum,    \* page_num of an eviction of several
  WithErase   \* the replacers whose Erase is called

\* What the constants have to be; the modules that instantiate this one assume it.
Parameters == None \notin Frames /\ Kinds \subseteq {"Sieve", "Sieve_v2", "Sieve_v3"}

VARIABLES
  kind,
  list,     \* the frames from the front (head_) to the back (tail_)
  freq,     \* frame -> how often the hand is to pass over it
  pointer_, \* the hand
  pc,       \* "idle", "scan", "fault" (getValue threw), "assert"
  cur,      \* to_evict
  count,    \* failures left
  left,     \* page_num of an eviction of several, 0 for one of one
  known,    \* history: frames inserted and not evicted or erased since
  untried   \* history: frames of the list not found in use since the scan began

vars == <<kind, list, freq, pointer_, pc, cur, count, left, known, untried>>

Listed == ToSet(list)
Capacity == Cardinality(Frames)
Pop(f) == SelectSeq(list, LAMBDA g : g # f)
Index(f) == SelectInSeq(list, LAMBDA g : g = f)

\* The neighbour towards the front.
prev(f) == IF Index(f) <= 1 THEN None ELSE list[Index(f) - 1]

\* tail_, or the node before tail_.
tail(s) == IF s = <<>> THEN None ELSE Last(s)

\* Where the scan goes from f: around at the front; nowhere from a frame that
\* is not linked (getPrevNodeIndex is INVALID_INDEX).
onward(f) == IF f \notin Listed THEN None
             ELSE IF prev(f) = None THEN tail(list) ELSE prev(f)

Init ==
  /\ kind \in Kinds
  /\ list = <<>>
  /\ freq = [f \in Frames |-> 0]
  /\ pointer_ = None
  /\ pc = "idle"
  /\ cur = None /\ count = 0 /\ left = 0
  /\ known = {} /\ untried = {}

Quiet == UNCHANGED <<kind, pointer_, pc, cur, count, left, untried>>

\* SieveReplacer; _v2 does the same on its ListArray.
Insert(f) ==
  /\ pc = "idle" /\ f \notin Listed
  /\ list' = <<f>> \o list
  /\ freq' = [freq EXCEPT ![f] = 0]
  /\ known' = known \cup {f}
  /\ Quiet

\* Pin has taken its reference when it promotes: the frame is in use then.
Promote(f) ==
  /\ pc = "idle" \/ (kind = "Sieve_v3" /\ pc = "scan")
  /\ f \in Listed
  /\ freq' = [freq EXCEPT ![f] = 1]
  /\ untried' = untried \ {f}
  /\ UNCHANGED <<kind, list, pointer_, pc, cur, count, left, known>>

\* Variant: the hand stays on the node that goes.
EraseLeavesHand(f) ==
  /\ kind = "Sieve" /\ pc = "idle" /\ f \in Listed
  /\ list' = Pop(f)
  /\ known' = known \ {f}
  /\ UNCHANGED freq /\ Quiet

Erase(f) ==
  /\ kind = "Sieve" /\ pc = "idle" /\ f \in Listed
  /\ pointer_' = IF pointer_ = f THEN prev(f) ELSE pointer_
  /\ list' = Pop(f)
  /\ known' = known \ {f}
  /\ UNCHANGED <<kind, freq, pc, cur, count, left, untried>>

\* The hand is not looked at.
Erase2(f) ==
  /\ kind = "Sieve_v2" /\ pc = "idle"
  /\ list' = Pop(f)
  /\ known' = known \ {f}
  /\ UNCHANGED freq /\ Quiet

-----------------------------------------------------------------------------
(* Victim. *)

\* Variant: one failure for each frame, less one.
FailuresTooFew == Len(list) - 1

\* map_.size() * 3, or capacity_ * 2.
Failures == IF kind = "Sieve" THEN 3 * Len(list) ELSE 2 * Capacity

Start(n) ==
  /\ pc' = "scan"
  /\ cur' = IF pointer_ = None THEN tail(list) ELSE pointer_
  /\ count' = Failures
  /\ left' = n
  /\ untried' = Listed
  /\ UNCHANGED <<kind, list, freq, pointer_, known>>

\* Victim of one frame: SieveReplacer fails on an empty list, _v2 asserts.
VictimBegin ==
  /\ pc = "idle" /\ kind # "Sieve_v3"
  /\ IF pointer_ # None \/ list # <<>> THEN Start(0)
     ELSE /\ pc' = IF kind = "Sieve" THEN "idle" ELSE "assert"
          /\ UNCHANGED <<kind, list, freq, pointer_, cur, count, left, known, untried>>

\* Victim of several: SieveReplacer asserts on an empty list; the others
\* compare a to_evict that has no value yet, and go on with head_ (or return,
\* which changes nothing).
VictimManyBegin ==
  /\ pc = "idle"
  /\ IF pointer_ # None \/ list # <<>> \/ kind # "Sieve" THEN Start(PageNum)
     ELSE pc' = "assert" /\ UNCHANGED <<kind, list, freq, pointer_, cur, count, left, known, untried>>

Scanning == pc = "scan" /\ count > 0

\* getValue(head_) and getValue(INVALID_INDEX) throw.
BadIndex ==
  /\ Scanning /\ cur = None
  /\ pc' = "fault"
  /\ UNCHANGED <<kind, list, freq, pointer_, cur, count, left, known, untried>>

Age ==
  /\ Scanning /\ cur # None /\ freq[cur] > 0
  /\ freq' = [freq EXCEPT ![cur] = @ - 1]
  /\ cur' = onward(cur)
  /\ UNCHANGED <<kind, list, pointer_, pc, count, left, known, untried>>

\* Variant: a refusal is not counted.
RefuseUncounted ==
  /\ Scanning /\ cur # None /\ freq[cur] = 0
  /\ cur' = onward(cur)
  /\ untried' = untried \ {cur}
  /\ UNCHANGED <<kind, list, freq, pointer_, pc, count, left, known>>

\* Pinned, dirty (Victim of several) or locked by another thread; or not in the
\* list, its page being mapped nowhere then.
Refuse ==
  /\ Scanning /\ cur # None /\ freq[cur] = 0
  /\ count' = count - 1
  /\ cur' = onward(cur)
  /\ untried' = untried \ {cur}
  /\ UNCHANGED <<kind, list, freq, pointer_, pc, left, known>>

\* Variant: the hand stays where it found the victim.
TakeHandStays ==
  /\ Scanning /\ cur \in Listed /\ freq[cur] = 0
  /\ pointer_' = cur
  /\ list' = Pop(cur)
  /\ known' = known \ {cur}
  /\ pc' = "idle" /\ cur' = None /\ count' = 0 /\ left' = 0 /\ untried' = {}
  /\ UNCHANGED <<kind, freq>>

\* Victim of one frame, or the last of several.
Take ==
  /\ Scanning /\ cur \in Listed /\ freq[cur] = 0
  /\ left <= 1
  /\ pointer_' = prev(cur)
  /\ list' = Pop(cur)
  /\ known' = known \ {cur}
  /\ pc' = "idle" /\ cur' = None /\ count' = 0 /\ left' = 0 /\ untried' = {}
  /\ UNCHANGED <<kind, freq>>

\* One of several: the scan goes on from the hand with a new count.
TakeNext ==
  /\ Scanning /\ cur \in Listed /\ freq[cur] = 0
  /\ left > 1
  /\ pointer_' = prev(cur)
  /\ list' = Pop(cur)
  /\ known' = known \ {cur}
  /\ left' = left - 1
  /\ cur' = IF pointer_' = None THEN tail(list') ELSE pointer_'
  /\ count' = IF kind = "Sieve" THEN 3 * Len(list') ELSE 2 * Capacity
  /\ untried' = ToSet(list')
  /\ UNCHANGED <<kind, freq, pc>>

\* The count is used up: false (or, of several, what there is); the one-frame
\* Victim of _v2 asserts.
GiveUp ==
  /\ pc = "scan" /\ count = 0
  /\ pc' = IF kind = "Sieve_v2" /\ left = 0 THEN "assert" ELSE "idle"
  /\ UNCHANGED <<kind, list, freq, pointer_, cur, count, left, known, untried>>

Scan == BadIndex \/ Age \/ Refuse \/ Take \/ TakeNext \/ GiveUp

Next ==
  \/ \E f \in Frames : Insert(f) \/ Promote(f)
  \/ \E f \in Frames : kind \in WithErase /\ (Erase(f) \/ Erase2(f))
  \/ VictimBegin \/ VictimManyBegin
  \/ Scan
  \/ pc \in {"fault", "assert"} /\ UNCHANGED vars

Spec == Init /\ [][Next]_vars

\* The thread that holds latch_ keeps running.
FairSpec == Spec /\ WF_vars(Scan)

-----------------------------------------------------------------------------
(* Properties. *)

TypeOK ==
  /\ list \in Seq(Frames) /\ IsInjective(list)
  /\ freq \in [Frames -> 0 .. 1]
  /\ pointer_ \in Frames \cup {None} /\ cur \in Frames \cup {None}
  /\ pc \in {"idle", "scan", "fault", "assert"}
  /\ left \in 0 .. PageNum
  /\ count \in 0 .. 3 * Capacity

\* No inserted frame drops out of the list, and no frame that was erased or evicted
\* comes back into it.
NoneLost == Listed = known

\* The hand is on a listed frame or before the first, so a scan, which starts
\* there, never leaves the list; no inserted frame drops out of it.
HandInList ==
  /\ pointer_ \in Listed \cup {None}
  /\ pc = "scan" /\ cur # None => cur \in Listed
  /\ NoneLost

\* Only an empty list has an index out of range for getValue.
FaultOnlyIfEmpty == pc = "fault" => list = <<>>

\* getValue never throws: the check `if (to_evict == list_.head_) return false`
\* at the top of the eviction of several lets an empty list end it.
NoThrow == pc # "fault"

\* A scan that gives up has found every frame of the list in use, although the
\* frames with a mark are first aged, and one pass is not enough for that.
GiveUpTriedAll == pc = "scan" /\ count = 0 => untried = {}

\* A scan ends, however its tests go: with promotions shut out by the latch,
\* always; in _v3 once they stop.
ScanEnds ==
  (kind # "Sieve_v3" \/ <>[][\A f \in Frames : freq'[f] <= freq[f]]_vars)
    => []<>(pc # "scan")
=============================================================================
