---------------------------- MODULE SieveReplacer ----------------------------
(***************************************************************************)
(* The replacer in use, SieveReplacer_v3, on the linked list it keeps in   *)
(* arrays of indices (ListArray), called as FetchPageSync calls it: a      *)
(* client polls the free list, asks Victim for a frame when the list is    *)
(* empty, and inserts the frame once it is loaded.  Victim holds latch_    *)
(* over its whole scan, Promote takes no latch, and frames are pinned and  *)
(* released at any time.                                                   *)
(*                                                                         *)
(* A frame is in use while its ref_count is not 0 or its page is locked by *)
(* another client: Victim refuses it then (module BufferPool has the steps *)
(* of that test, which takes effect at one of them).                       *)
(***************************************************************************)
EXTENDS Integers, FiniteSets

CONSTANTS
  Capacity,   \* capacity_ of the list: the number of frames
  Clients,    \* threads that fetch pages
  None,       \* nobody
  WithClean   \* whether BufferPoolManager::Clean is called

ASSUME CapacityType == Capacity \in Nat \ {0}
ASSUME NoneDistinct == None \notin Clients /\ None \notin Nat
ASSUME WithCleanType == WithClean \in BOOLEAN

Frames == 0 .. Capacity - 1
head_ == Capacity
tail_ == Capacity + 1
Invalid == Capacity + 2     \* INVALID_INDEX: no node has this index
Nodes == 0 .. tail_

VARIABLES
  next, prev,  \* nodes_: the links of each node
  val,         \* nodes_: frame -> its visited count
  pointer,     \* pointer_, the hand
  latch,       \* who holds latch_
  cur,         \* Victim's to_evict
  count,       \* Victim's count: failures left
  free,        \* free_list_
  inUse,       \* the frames Victim refuses now
  idle,        \* history: frames in the list not in use since the scan began
  pc,          \* client -> the step it takes next
  frm          \* client -> the frame it carries to Insert

links == <<next, prev>>
scan  == <<latch, cur, count, idle>>
vars  == <<next, prev, val, pointer, latch, cur, count, free, inUse, idle,
           pc, frm>>

-----------------------------------------------------------------------------
(* ListArray. *)

inList(f) == next[f] # Invalid /\ prev[f] # Invalid

Linked == {f \in Frames : inList(f)}

getPrevNodeIndex(n) == IF n \in Frames THEN prev[n] ELSE Invalid

\* Variants: the node stays linked; only the forward links are repaired.
removeNodeKept(f) == UNCHANGED links
removeNodeForward(f) ==
  IF ~inList(f) THEN UNCHANGED links
  ELSE /\ next' = [next EXCEPT ![prev[f]] = next[f], ![f] = Invalid]
       /\ prev' = [prev EXCEPT ![f] = Invalid]

removeNode(f) ==
  IF ~inList(f) THEN UNCHANGED links
  ELSE /\ next' = [next EXCEPT ![prev[f]] = next[f], ![f] = Invalid]
       /\ prev' = [prev EXCEPT ![next[f]] = prev[f], ![f] = Invalid]

\* moveToFront: removeNode, then addNodeToFront.
moveToFront(f) ==
  LET in == inList(f)
      n1 == IF in THEN [next EXCEPT ![prev[f]] = next[f]] ELSE next
      p1 == IF in THEN [prev EXCEPT ![next[f]] = prev[f]] ELSE prev
  IN /\ next' = [n1 EXCEPT ![f] = n1[head_], ![head_] = f]
     /\ prev' = [p1 EXCEPT ![f] = head_, ![n1[head_]] = f]

EmptyNext == [n \in Nodes |-> IF n = head_ THEN tail_ ELSE Invalid]
EmptyPrev == [n \in Nodes |-> IF n = tail_ THEN head_ ELSE Invalid]

-----------------------------------------------------------------------------
(* The clients. *)

\* "exhausted": assert(false) in Victim; "fault": getValue threw.
Stopped == \E t \in Clients : pc[t] \in {"exhausted", "fault"}

Goto(t, l) == pc' = [pc EXCEPT ![t] = l]

Carried == {frm[t] : t \in {u \in Clients : pc[u] = "load"}}

Init ==
  /\ next = EmptyNext
  /\ prev = EmptyPrev
  /\ val = [f \in Frames |-> 0]
  /\ pointer = head_
  /\ latch = None
  /\ cur = Invalid
  /\ count = 0
  /\ free = Frames
  /\ inUse = {}
  /\ idle = {}
  /\ pc = [t \in Clients |-> "idle"]
  /\ frm = [t \in Clients |-> None]

Poll(t) ==
  /\ pc[t] = "idle"
  /\ \E f \in free : free' = free \ {f} /\ frm' = [frm EXCEPT ![t] = f]
  /\ Goto(t, "load")
  /\ UNCHANGED <<links, val, pointer, scan, inUse>>

PollFails(t) ==
  /\ pc[t] = "idle"
  /\ free = {}
  /\ Goto(t, "latch")
  /\ UNCHANGED <<links, val, pointer, scan, free, inUse, frm>>

\* The loader's reference keeps the frame in use after Insert.
Insert(t) ==
  /\ pc[t] = "load"
  /\ latch = None
  /\ val' = [val EXCEPT ![frm[t]] = 0]
  /\ moveToFront(frm[t])
  /\ inUse' = inUse \cup {frm[t]}
  /\ frm' = [frm EXCEPT ![t] = None]
  /\ Goto(t, "idle")
  /\ UNCHANGED <<pointer, scan, free>>

\* Pin has counted its reference and promotes, without the latch.
Promote(f) ==
  /\ f \in inUse
  /\ val[f] = 0
  /\ val' = [val EXCEPT ![f] = 1]
  /\ UNCHANGED <<links, pointer, scan, free, inUse, pc, frm>>

\* A mapped frame is pinned or its page locked ...
Use(f) ==
  /\ f \notin free \cup Carried \cup inUse
  /\ inUse' = inUse \cup {f}
  /\ idle' = idle \ {f}
  /\ UNCHANGED <<links, val, pointer, latch, cur, count, free, pc, frm>>

\* ... and let go by the last that uses it.
Release(f) ==
  /\ f \in inUse
  /\ inUse' = inUse \ {f}
  /\ UNCHANGED <<links, val, pointer, scan, free, pc, frm>>

-----------------------------------------------------------------------------
(* Victim. *)

\* Where the scan goes from node n: towards the front, and around.
Previous(n) == IF getPrevNodeIndex(n) = head_ THEN prev[tail_]
                                             ELSE getPrevNodeIndex(n)

\* Variant: as many failures as there are frames, less one.
FailuresTooFew == Capacity - 1

Failures == 2 * Capacity

VictimBegin(t) ==
  /\ pc[t] = "latch"
  /\ latch = None
  /\ latch' = t
  /\ cur' = IF pointer = head_ THEN prev[tail_] ELSE pointer
  /\ count' = Failures
  /\ idle' = Linked \ inUse
  /\ Goto(t, IF cur' = head_ THEN "exhausted" ELSE "loop")
  /\ UNCHANGED <<links, val, pointer, free, inUse, frm>>

VictimExhausted(t) ==
  /\ pc[t] = "loop"
  /\ count = 0
  /\ Goto(t, "exhausted")
  /\ UNCHANGED <<links, val, pointer, scan, free, inUse, frm>>

VictimLoop(t) ==
  /\ pc[t] = "loop"
  /\ count > 0
  /\ Goto(t, "visit")
  /\ UNCHANGED <<links, val, pointer, scan, free, inUse, frm>>

\* A visited frame is aged and passed over; getValue throws on a bad index.
VictimVisit(t) ==
  /\ pc[t] = "visit"
  /\ \/ /\ cur \notin Frames
        /\ Goto(t, "fault")
        /\ UNCHANGED <<val, cur>>
     \/ /\ cur \in Frames
        /\ val[cur] > 0
        /\ val' = [val EXCEPT ![cur] = @ - 1]
        /\ cur' = Previous(cur)
        /\ UNCHANGED pc
     \/ /\ cur \in Frames
        /\ val[cur] = 0
        /\ Goto(t, "test")
        /\ UNCHANGED <<val, cur>>
  /\ UNCHANGED <<links, pointer, latch, count, idle, free, inUse, frm>>

\* Variant: a refusal is not counted.
VictimRefuseUncounted(t) ==
  /\ pc[t] = "test"
  /\ cur \in inUse \/ ~inList(cur)
  /\ cur' = Previous(cur)
  /\ Goto(t, "loop")
  /\ UNCHANGED <<links, val, pointer, latch, count, idle, free, inUse, frm>>

\* A frame outside the list may name a page that is mapped nowhere by now.
VictimRefuse(t) ==
  /\ pc[t] = "test"
  /\ cur \in inUse \/ ~inList(cur)
  /\ count' = count - 1
  /\ cur' = Previous(cur)
  /\ Goto(t, "loop")
  /\ UNCHANGED <<links, val, pointer, latch, idle, free, inUse, frm>>

\* Variants: the hand is moved after the frame was unlinked; it stays on the
\* frame that leaves the list.
VictimTakeUnlinksFirst(t) ==
  /\ pc[t] = "test"
  /\ cur \notin inUse
  /\ removeNode(cur)
  /\ pointer' = prev'[cur]
  /\ frm' = [frm EXCEPT ![t] = cur]
  /\ latch' = None
  /\ cur' = Invalid
  /\ count' = 0
  /\ idle' = {}
  /\ Goto(t, "load")
  /\ UNCHANGED <<val, free, inUse>>

VictimTakeHandStays(t) ==
  /\ pc[t] = "test"
  /\ cur \notin inUse
  /\ pointer' = cur
  /\ removeNode(cur)
  /\ frm' = [frm EXCEPT ![t] = cur]
  /\ latch' = None
  /\ cur' = Invalid
  /\ count' = 0
  /\ idle' = {}
  /\ Goto(t, "load")
  /\ UNCHANGED <<val, free, inUse>>

VictimTake(t) ==
  /\ pc[t] = "test"
  /\ cur \notin inUse
  /\ pointer' = prev[cur]
  /\ removeNode(cur)
  /\ frm' = [frm EXCEPT ![t] = cur]
  /\ latch' = None
  /\ cur' = Invalid
  /\ count' = 0
  /\ idle' = {}
  /\ Goto(t, "load")
  /\ UNCHANGED <<val, free, inUse>>

-----------------------------------------------------------------------------
\* BufferPoolManager::Clean while nothing is in use: every page is flushed
\* out of memory, then the list is built anew.  The hand is left where it was,
\* and the new nodes' counts are not initialized.
Clean ==
  /\ WithClean
  /\ \A t \in Clients : pc[t] = "idle"
  /\ inUse = {}
  /\ free' = free \cup Linked
  /\ next' = EmptyNext
  /\ prev' = EmptyPrev
  /\ val' \in [Frames -> {0, 1}]
  /\ UNCHANGED <<pointer, scan, inUse, pc, frm>>

Step(t) ==
  \/ Insert(t) \/ VictimBegin(t) \/ VictimExhausted(t) \/ VictimLoop(t)
  \/ VictimVisit(t) \/ VictimRefuse(t) \/ VictimTake(t)

Next ==
  \/ /\ ~Stopped
     /\ \/ \E t \in Clients : Poll(t) \/ PollFails(t) \/ Step(t)
        \/ \E f \in Frames : Promote(f) \/ Use(f) \/ Release(f)
        \/ Clean
  \/ Stopped /\ UNCHANGED vars

Spec == Init /\ [][Next]_vars

\* A thread inside the replacer keeps running.
FairSpec == Spec /\ \A t \in Clients : WF_vars(~Stopped /\ Step(t))

-----------------------------------------------------------------------------
(* Properties. *)

TypeOK ==
  /\ next \in [Nodes -> Nodes \cup {Invalid}]
  /\ prev \in [Nodes -> Nodes \cup {Invalid}]
  /\ val \in [Frames -> 0 .. 1]
  /\ pointer \in Frames \cup {head_}
  /\ latch \in Clients \cup {None}
  /\ cur \in Frames \cup {head_, Invalid}
  /\ count \in 0 .. 2 * Capacity
  /\ free \subseteq Frames
  /\ inUse \subseteq Frames
  /\ idle \subseteq Frames
  /\ pc \in [Clients -> {"idle", "load", "latch", "loop", "visit", "test",
                         "exhausted", "fault"}]
  /\ frm \in [Clients -> Frames \cup {None}]

\* The links of head, tail and the linked frames are each other's inverse.
LinksInverse ==
  /\ \A n \in Linked \cup {head_} : next[n] \in Nodes /\ prev[next[n]] = n
  /\ \A n \in Linked \cup {tail_} : prev[n] \in Nodes /\ next[prev[n]] = n

\* The hand is never left on a frame that has been evicted, so the next scan
\* starts inside the list; nor does a scan under way stand outside it.
HandInList ==
  /\ pointer \in Linked \cup {head_}
  /\ \A t \in Clients : pc[t] \in {"loop", "visit", "test"} => cur \in Linked

\* getValue is never called with an index out of range, which throws.
NoInvalidIndex == \A t \in Clients : pc[t] # "fault"

\* Victim gives up only if every frame of the list was in use at some moment
\* of the scan: while one stays unused, its visited count or not, a victim is
\* found, so the assert(false) after 2 * capacity_ failures means that the
\* pool is too small for what is pinned.
ExhaustedMeansUsed ==
  \A t \in Clients : pc[t] = "exhausted" => idle = {}

\* Every frame is free, linked, or carried by one client that loads it.
FramesPartitioned ==
  /\ free \cup Linked \cup Carried = Frames
  /\ free \cap Linked = {} /\ free \cap Carried = {} /\ Linked \cap Carried = {}
  /\ \A t, u \in Clients : frm[t] = frm[u] /\ frm[t] # None => t = u

\* The list read from head along next.
nth[i \in 0 .. Capacity] ==
  IF i = 0 THEN head_
  ELSE LET n == nth[i - 1] IN IF n \in Nodes THEN next[n] ELSE Invalid
queue == [i \in 1 .. Cardinality(Linked) |-> nth[i]]

hand == IF pointer = head_ THEN None ELSE pointer

Queue == INSTANCE SieveQueue

\* The array of indices behaves as a queue: frames enter at the front, leave
\* from any place, the order of the others is kept, and the hand goes to the
\* neighbour of the frame that leaves.
ImplementsQueue == Queue!Spec

\* A scan ends, with a victim or the assertion, if the frames are not promoted
\* for ever: a Promote that takes no latch can keep Victim turning.
VictimEnds ==
  \A t \in Clients :
    <>[][\A f \in Frames : val'[f] <= val[f]]_vars
      => (latch = t ~> latch # t \/ Stopped)
=============================================================================
