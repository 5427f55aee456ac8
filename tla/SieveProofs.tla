---------------------------- MODULE SieveProofs ----------------------------
(***************************************************************************)
(* The list of SieveReplacer stays a doubly linked list with the hand in   *)
(* it, for any capacity and any clients, as long as Clean is not called.   *)
(***************************************************************************)
EXTENDS SieveReplacer, FiniteSetTheorems, SequenceTheorems, WellFoundedInduction, TLAPS

\* Head and tail end the list, and a frame has both links or none.
EndsInv ==
  /\ prev[head_] = Invalid /\ next[tail_] = Invalid
  /\ \A f \in Frames : next[f] = Invalid <=> prev[f] = Invalid

\* Who is in Victim, and who carries a frame.
ClientInv ==
  \A t \in Clients :
    /\ pc[t] \in {"loop", "visit", "test"} => latch = t
    /\ pc[t] \in {"visit", "test"} => count > 0
    /\ pc[t] = "load" <=> frm[t] # None

\* The list has no cycle: some ranks grow along next.  Without it the links
\* could be each other's inverse around a ring apart from head and tail, and
\* the frame before the victim could be the victim.
RanksGrow(r) == \A n \in Linked \cup {head_} : r[n] < r[next[n]]
Acyclic == \E r \in [Nodes -> Int] : RanksGrow(r)

\* The inductive invariant.
SInv ==
  /\ TypeOK
  /\ LinksInverse
  /\ EndsInv
  /\ Acyclic
  /\ ClientInv
  /\ HandInList
  /\ NoInvalidIndex
  /\ FramesPartitioned

USE DEF Frames, head_, tail_, Invalid, Nodes, links, scan, Goto

-----------------------------------------------------------------------------
(* The operations of ListArray. *)

\* removeNode takes exactly its node out and keeps the list linked.
LEMMA RemoveLinks ==
  ASSUME TypeOK, LinksInverse, EndsInv, NEW f \in Linked, removeNode(f)
  PROVE  /\ next' \in [Nodes -> Nodes \cup {Invalid}]
         /\ prev' \in [Nodes -> Nodes \cup {Invalid}]
         /\ LinksInverse'
         /\ EndsInv'
         /\ Linked' = Linked \ {f}
<1> USE CapacityType
<1>0. f \in Frames /\ inList(f)
  BY DEF Linked
<1>1. PICK a \in Nodes, b \in Nodes : a = prev[f] /\ b = next[f]
  BY DEF LinksInverse
<1>2. next[a] = f /\ prev[b] = f
  BY <1>1 DEF LinksInverse
<1>3. a # tail_ /\ b # head_ /\ (a = f <=> b = f)
  <2>1. a # tail_ /\ b # head_
    BY <1>0, <1>2 DEF EndsInv
  <2>2. a = f <=> b = f
    BY <1>1, <1>2
  <2> QED BY <2>1, <2>2
<1>4. /\ next' = [next EXCEPT ![a] = b, ![f] = Invalid]
      /\ prev' = [prev EXCEPT ![b] = a, ![f] = Invalid]
  BY <1>0, <1>1 DEF removeNode
<1>5. /\ next' \in [Nodes -> Nodes \cup {Invalid}]
      /\ prev' \in [Nodes -> Nodes \cup {Invalid}]
  BY <1>0, <1>4 DEF TypeOK
<1>6. \A n \in Nodes :
        /\ next'[n] = IF n = f THEN Invalid ELSE IF n = a THEN b ELSE next[n]
        /\ prev'[n] = IF n = f THEN Invalid ELSE IF n = b THEN a ELSE prev[n]
  BY <1>0, <1>4 DEF TypeOK
<1>7. Linked' = Linked \ {f}
  BY <1>0, <1>1, <1>2, <1>3, <1>6 DEF Linked, inList
<1>8. EndsInv'
  BY <1>0, <1>1, <1>2, <1>3, <1>6 DEF EndsInv
<1>9. LinksInverse'
  <2>1. \A n \in (Linked \ {f}) \cup {head_} :
          next'[n] \in Nodes /\ prev'[next'[n]] = n
    BY <1>0, <1>1, <1>2, <1>3, <1>6 DEF LinksInverse, Linked
  <2>2. \A n \in (Linked \ {f}) \cup {tail_} :
          prev'[n] \in Nodes /\ next'[prev'[n]] = n
    BY <1>0, <1>1, <1>2, <1>3, <1>6 DEF LinksInverse, Linked
  <2> QED BY <1>7, <2>1, <2>2 DEF LinksInverse
<1> QED BY <1>5, <1>7, <1>8, <1>9

\* addNodeToFront puts a frame that is outside the list between head and the
\* first node.
LEMMA InsertLinks ==
  ASSUME TypeOK, LinksInverse, EndsInv, NEW f \in Frames \ Linked,
         moveToFront(f)
  PROVE  /\ next' \in [Nodes -> Nodes \cup {Invalid}]
         /\ prev' \in [Nodes -> Nodes \cup {Invalid}]
         /\ LinksInverse'
         /\ EndsInv'
         /\ Linked' = Linked \cup {f}
<1> USE CapacityType
<1>0. ~inList(f) /\ next[f] = Invalid /\ prev[f] = Invalid
  BY DEF Linked, inList, EndsInv
<1>1. PICK b \in Nodes : b = next[head_]
  BY DEF LinksInverse
<1>2. prev[b] = head_ /\ b # f /\ b # head_
  BY <1>0, <1>1 DEF LinksInverse, EndsInv
<1>3. /\ next' = [next EXCEPT ![f] = b, ![head_] = f]
      /\ prev' = [prev EXCEPT ![f] = head_, ![b] = f]
  BY <1>0, <1>1 DEF moveToFront
<1>4. /\ next' \in [Nodes -> Nodes \cup {Invalid}]
      /\ prev' \in [Nodes -> Nodes \cup {Invalid}]
  <2>1. f \in Nodes /\ head_ \in Nodes
    OBVIOUS
  <2> QED BY <1>3, <2>1 DEF TypeOK
<1>5. \A n \in Nodes :
        /\ next'[n] = IF n = head_ THEN f ELSE IF n = f THEN b ELSE next[n]
        /\ prev'[n] = IF n = b THEN f ELSE IF n = f THEN head_ ELSE prev[n]
  BY <1>2, <1>3 DEF TypeOK
<1>6. Linked' = Linked \cup {f}
  BY <1>0, <1>1, <1>2, <1>5 DEF Linked, inList
<1>7. EndsInv'
  BY <1>0, <1>1, <1>2, <1>5 DEF EndsInv
<1>8. LinksInverse'
  <2>1. \A n \in (Linked \cup {f}) \cup {head_} :
          next'[n] \in Nodes /\ prev'[next'[n]] = n
    BY <1>0, <1>1, <1>2, <1>5 DEF LinksInverse, Linked
  <2>2. \A n \in (Linked \cup {f}) \cup {tail_} :
          prev'[n] \in Nodes /\ next'[prev'[n]] = n
    BY <1>0, <1>1, <1>2, <1>5 DEF LinksInverse, Linked
  <2> QED BY <1>6, <2>1, <2>2 DEF LinksInverse
<1> QED BY <1>4, <1>6, <1>7, <1>8

\* From a frame of the list the scan goes to a frame of the list, and the node
\* before it is a frame of the list or head.
LEMMA PreviousLinked ==
  ASSUME TypeOK, LinksInverse, EndsInv, NEW f \in Linked
  PROVE  Previous(f) \in Linked /\ prev[f] \in Linked \cup {head_}
<1> USE CapacityType
<1>0. f \in Frames /\ inList(f)
  BY DEF Linked
<1>1. PICK a \in Nodes : a = prev[f]
  BY DEF LinksInverse
<1>2. next[a] = f /\ a # tail_
  BY <1>0, <1>1 DEF LinksInverse, EndsInv
<1>3. a \in Linked \cup {head_}
  BY <1>0, <1>2 DEF Linked, inList, EndsInv
<1>4. CASE a = head_
  <2>1. PICK z \in Nodes : z = prev[tail_] /\ next[z] = tail_
    BY DEF LinksInverse
  <2>2. z # head_ /\ z # tail_
    BY <1>0, <1>2, <1>4, <2>1 DEF EndsInv
  <2>3. z \in Linked
    BY <2>1, <2>2 DEF Linked, inList, EndsInv
  <2> QED BY <1>0, <1>1, <1>3, <1>4, <2>1, <2>3 DEF Previous, getPrevNodeIndex
<1>5. CASE a # head_
  BY <1>0, <1>1, <1>3, <1>5 DEF Previous, getPrevNodeIndex
<1> QED BY <1>4, <1>5

\* A list with a frame has a last frame: Victim's start is in the list.
LEMMA LastLinked ==
  ASSUME TypeOK, LinksInverse, EndsInv
  PROVE  prev[tail_] \in Linked \cup {head_}
<1> USE CapacityType
<1>1. PICK z \in Nodes : z = prev[tail_] /\ next[z] = tail_
  BY DEF LinksInverse
<1>2. z # tail_
  BY <1>1 DEF EndsInv
<1> QED BY <1>1, <1>2 DEF Linked, inList, EndsInv

\* A list without a cycle has none after removeNode: the same ranks grow.
LEMMA RemoveAcyclic ==
  ASSUME TypeOK, LinksInverse, EndsInv, Acyclic, NEW f \in Linked,
         removeNode(f)
  PROVE  Acyclic' /\ prev[f] # f
<1> USE CapacityType
<1>0. f \in Frames /\ inList(f)
  BY DEF Linked
<1>1. PICK r \in [Nodes -> Int] : RanksGrow(r)
  BY DEF Acyclic
<1>2. PICK a \in Nodes, b \in Nodes : a = prev[f] /\ b = next[f]
  BY DEF LinksInverse
<1>3. next[a] = f /\ a \in Linked \cup {head_}
  <2>1. next[a] = f
    BY <1>0, <1>2 DEF LinksInverse
  <2>2. prev[f] \in Linked \cup {head_}
    BY PreviousLinked
  <2> QED BY <1>2, <2>1, <2>2
<1>4. r[a] < r[f] /\ r[f] < r[b]
  BY <1>1, <1>2, <1>3 DEF RanksGrow
<1>5. a # f
  BY <1>0, <1>4
<1>6. \A n \in Nodes \ {f} : next'[n] = IF n = a THEN b ELSE next[n]
  BY <1>0, <1>2 DEF removeNode, TypeOK
<1>7. Linked' = Linked \ {f}
  BY RemoveLinks
<1>8. \A n \in (Linked \ {f}) \cup {head_} : r[n] < r[next'[n]]
  <2> TAKE n \in (Linked \ {f}) \cup {head_}
  <2>1. n \in Nodes \ {f}
    BY <1>0 DEF Linked
  <2>2. CASE n = a
    <3>1. next'[n] = b
      BY <1>6, <2>1, <2>2
    <3>2. r[a] \in Int /\ r[f] \in Int /\ r[b] \in Int
      BY <1>0, <1>2
    <3> QED BY <1>4, <2>2, <3>1, <3>2
  <2>3. CASE n # a
    BY <1>1, <1>6, <2>1, <2>3 DEF RanksGrow
  <2> QED BY <2>2, <2>3
<1>9. RanksGrow(r)'
  BY <1>7, <1>8 DEF RanksGrow
<1> QED BY <1>2, <1>5, <1>9 DEF Acyclic

\* Nor has it a cycle after addNodeToFront: head gets a smaller rank, the new
\* frame the one that head had.
LEMMA InsertAcyclic ==
  ASSUME TypeOK, LinksInverse, EndsInv, Acyclic, NEW f \in Frames \ Linked,
         moveToFront(f)
  PROVE  Acyclic'
<1> USE CapacityType
<1>0. ~inList(f) /\ next[f] = Invalid /\ prev[f] = Invalid
  BY DEF Linked, inList, EndsInv
<1>1. PICK r \in [Nodes -> Int] : RanksGrow(r)
  BY DEF Acyclic
<1>2. PICK b \in Nodes : b = next[head_]
  BY DEF LinksInverse
<1>3. prev[b] = head_ /\ b # f /\ b # head_
  BY <1>0, <1>2 DEF LinksInverse, EndsInv
<1>4. /\ next'[head_] = f /\ next'[f] = b
      /\ \A n \in Nodes \ {f, head_} : next'[n] = next[n]
  BY <1>0, <1>2 DEF moveToFront, TypeOK
<1>5. Linked' = Linked \cup {f}
  BY InsertLinks
<1> DEFINE q == [n \in Nodes |-> IF n = head_ THEN r[head_] - 1
                                 ELSE IF n = f THEN r[head_] ELSE r[n]]
<1>6. q \in [Nodes -> Int]
  OBVIOUS
<1>7. \A n \in (Linked \cup {f}) \cup {head_} : q[n] < q[next'[n]]
  <2> TAKE n \in (Linked \cup {f}) \cup {head_}
  <2>1. CASE n = head_
    BY <1>4, <2>1
  <2>2. CASE n = f
    <3>1. r[head_] < r[b]
      BY <1>1, <1>2 DEF RanksGrow
    <3> QED BY <1>3, <1>4, <2>2, <3>1
  <2>3. CASE n \in Linked /\ n # f /\ n # head_
    <3>1. n \in Nodes /\ next[n] \in Nodes /\ prev[next[n]] = n
      BY <2>3 DEF LinksInverse, Linked
    <3>2. next[n] # f /\ next[n] # head_
      BY <1>0, <3>1 DEF EndsInv
    <3>3. r[n] < r[next[n]]
      BY <1>1, <2>3 DEF RanksGrow
    <3> QED BY <1>4, <2>3, <3>1, <3>2, <3>3
  <2> QED BY <2>1, <2>2, <2>3
<1> HIDE DEF q
<1>8. RanksGrow(q)'
  BY <1>5, <1>7 DEF RanksGrow, q
<1> QED BY <1>6, <1>8 DEF Acyclic

-----------------------------------------------------------------------------
(* The specification. *)

\* The list of a new replacer.
LEMMA InitSInv == Init => SInv
<1> SUFFICES ASSUME Init PROVE SInv
  OBVIOUS
<1> USE CapacityType DEF Init
<1>0. Linked = {} /\ Carried = {}
  BY DEF Linked, inList, EmptyNext, Carried
<1>1. TypeOK
  BY DEF TypeOK, EmptyNext, EmptyPrev
<1>2. LinksInverse /\ EndsInv
  BY <1>0 DEF LinksInverse, EndsInv, EmptyNext, EmptyPrev
<1>3. ClientInv /\ HandInList /\ NoInvalidIndex
  BY DEF ClientInv, HandInList, NoInvalidIndex
<1>4. FramesPartitioned
  BY <1>0 DEF FramesPartitioned
<1>5. Acyclic
  <2> DEFINE r == [n \in Nodes |-> n]
  <2>1. r \in [Nodes -> Int] /\ RanksGrow(r)
    BY <1>0 DEF RanksGrow, EmptyNext
  <2> QED BY <2>1 DEF Acyclic
<1> QED BY <1>1, <1>2, <1>3, <1>4, <1>5 DEF SInv

\* The steps that touch neither the links nor the hand: a poll, the uses of
\* frames, and a scan that goes on inside the list.
LEMMA QuietSteps ==
  ASSUME SInv, UNCHANGED <<links, pointer>>,
         TypeOK', ClientInv', NoInvalidIndex', FramesPartitioned',
         \A t \in Clients : pc'[t] \in {"loop", "visit", "test"} => cur' \in Linked
  PROVE  SInv'
<1>1. Linked' = Linked
  BY DEF Linked, inList
<1>2. LinksInverse' /\ EndsInv' /\ HandInList' /\ Acyclic'
  BY <1>1 DEF SInv, LinksInverse, EndsInv, HandInList, Acyclic, RanksGrow
<1> QED BY <1>2 DEF SInv

\* Polling the free list moves a frame from the list to the client, or nothing.
LEMMA PollSInv ==
  ASSUME SInv, NEW t \in Clients, Poll(t) \/ PollFails(t)
  PROVE  SInv'
<1> USE CapacityType, NoneDistinct
<1>0. Linked' = Linked
  BY DEF Linked, inList, Poll, PollFails
<1>1. TypeOK'
  BY DEF SInv, TypeOK, Poll, PollFails
<1>2. ClientInv' /\ NoInvalidIndex'
  BY DEF SInv, TypeOK, ClientInv, NoInvalidIndex, Poll, PollFails
<1>3. \A u \in Clients : pc'[u] \in {"loop", "visit", "test"} => cur' \in Linked
  BY DEF SInv, TypeOK, HandInList, Poll, PollFails
<1>4. FramesPartitioned'
  <2>1. CASE Poll(t)
    <3>1. PICK f \in free : free' = free \ {f} /\ frm' = [frm EXCEPT ![t] = f]
      BY <2>1 DEF Poll
    <3>2. Carried' = Carried \cup {f}
      BY <2>1, <3>1 DEF Poll, Carried, SInv, TypeOK
    <3> QED BY <1>0, <3>1, <3>2, <2>1
         DEF SInv, TypeOK, FramesPartitioned, Poll, Carried, ClientInv
  <2>2. CASE PollFails(t)
    <3>1. Carried' = Carried
      BY <2>2 DEF PollFails, Carried, SInv, TypeOK
    <3> QED BY <1>0, <3>1, <2>2 DEF SInv, FramesPartitioned, PollFails
  <2> QED BY <2>1, <2>2
<1> QED BY <1>1, <1>2, <1>3, <1>4, QuietSteps DEF Poll, PollFails

\* Uses of frames, and Promote without the latch, leave the list alone.
LEMMA UseSInv ==
  ASSUME SInv, NEW f \in Frames, Promote(f) \/ Use(f) \/ Release(f)
  PROVE  SInv'
<1> USE CapacityType
<1>0. Linked' = Linked /\ Carried' = Carried
  BY DEF Linked, inList, Carried, Promote, Use, Release
<1>1. TypeOK'
  <2>1. CASE Promote(f)
    <3>1. val' \in [Frames -> 0 .. 1]
      BY <2>1 DEF SInv, TypeOK, Promote
    <3> QED BY <2>1, <3>1 DEF SInv, TypeOK, Promote
  <2>2. CASE Use(f)
    BY <2>2 DEF SInv, TypeOK, Use
  <2>3. CASE Release(f)
    BY <2>3 DEF SInv, TypeOK, Release
  <2> QED BY <2>1, <2>2, <2>3
<1>2. ClientInv' /\ NoInvalidIndex'
  BY DEF SInv, ClientInv, NoInvalidIndex, Promote, Use, Release
<1>3. \A u \in Clients : pc'[u] \in {"loop", "visit", "test"} => cur' \in Linked
  BY DEF SInv, HandInList, Promote, Use, Release
<1>4. FramesPartitioned'
  BY <1>0 DEF SInv, FramesPartitioned, Promote, Use, Release
<1> QED BY <1>1, <1>2, <1>3, <1>4, QuietSteps DEF Promote, Use, Release

\* A scan stays inside the list and counts its failures down to 0.
LEMMA ScanSInv ==
  ASSUME SInv, NEW t \in Clients,
         \/ VictimBegin(t) \/ VictimExhausted(t) \/ VictimLoop(t)
         \/ VictimVisit(t) \/ VictimRefuse(t)
  PROVE  SInv'
<1> USE CapacityType, NoneDistinct
<1>0. Linked' = Linked /\ Linked \subseteq Frames
  BY DEF Linked, inList, VictimBegin, VictimExhausted, VictimLoop,
     VictimVisit, VictimRefuse
<1>1. pc[t] \in {"visit", "test"} => cur \in Linked /\ Previous(cur) \in Linked
  BY PreviousLinked DEF SInv, HandInList
<1>2. prev[tail_] \in Linked \cup {head_} /\ pointer \in Linked \cup {head_}
  BY LastLinked DEF SInv, HandInList
<1>a. cur' \in Linked \cup {head_, Invalid}
  BY <1>0, <1>1, <1>2 DEF SInv, TypeOK, VictimBegin, VictimExhausted,
     VictimLoop, VictimVisit, VictimRefuse, HandInList
<1>3. TypeOK'
  <2> USE <1>0, <1>a DEF SInv, TypeOK
  <2>1. CASE VictimBegin(t)
    <3>1. count' \in 0 .. 2 * Capacity /\ idle' \subseteq Frames
      BY <2>1 DEF VictimBegin, Failures
    <3> QED BY <2>1, <3>1 DEF VictimBegin
  <2>2. CASE VictimExhausted(t)
    BY <2>2 DEF VictimExhausted
  <2>3. CASE VictimLoop(t)
    BY <2>3 DEF VictimLoop
  <2>4. CASE VictimVisit(t)
    <3>1. val' \in [Frames -> 0 .. 1]
      BY <2>4 DEF VictimVisit
    <3> QED BY <2>4, <3>1 DEF VictimVisit
  <2>5. CASE VictimRefuse(t)
    <3>1. count' \in 0 .. 2 * Capacity
      BY <2>5 DEF VictimRefuse, ClientInv
    <3> QED BY <2>5, <3>1 DEF VictimRefuse
  <2> QED BY <2>1, <2>2, <2>3, <2>4, <2>5
<1>4. ClientInv' /\ NoInvalidIndex'
  BY <1>0, <1>1 DEF SInv, TypeOK, ClientInv, NoInvalidIndex, VictimBegin,
     VictimExhausted, VictimLoop, VictimVisit, VictimRefuse
<1>5. \A u \in Clients : pc'[u] \in {"loop", "visit", "test"} => cur' \in Linked
  BY <1>0, <1>1, <1>2 DEF SInv, TypeOK, ClientInv, HandInList, VictimBegin,
     VictimExhausted, VictimLoop, VictimVisit, VictimRefuse
<1>6. FramesPartitioned'
  <2>1. Carried' = Carried
    BY DEF Carried, SInv, TypeOK, VictimBegin, VictimExhausted, VictimLoop,
       VictimVisit, VictimRefuse
  <2> QED BY <1>0, <2>1 DEF SInv, FramesPartitioned, VictimBegin,
          VictimExhausted, VictimLoop, VictimVisit, VictimRefuse
<1> QED BY <1>3, <1>4, <1>5, <1>6, QuietSteps
    DEF VictimBegin, VictimExhausted, VictimLoop, VictimVisit, VictimRefuse

\* The victim leaves the list, and the hand is left on its neighbour.
LEMMA TakeSInv ==
  ASSUME SInv, NEW t \in Clients, VictimTake(t)
  PROVE  SInv'
<1> USE CapacityType, NoneDistinct
<1>0. PICK f \in Linked : f = cur
  BY DEF SInv, HandInList, VictimTake
<1>1. /\ next' \in [Nodes -> Nodes \cup {Invalid}]
      /\ prev' \in [Nodes -> Nodes \cup {Invalid}]
      /\ LinksInverse'
      /\ EndsInv'
      /\ Linked' = Linked \ {f}
      /\ Acyclic' /\ prev[f] # f
  BY <1>0, RemoveLinks, RemoveAcyclic DEF SInv, VictimTake
<1>2. /\ f \in Frames
      /\ pc[t] = "test" /\ latch = t /\ frm[t] = None
      /\ frm' = [frm EXCEPT ![t] = f]
      /\ pc' = [pc EXCEPT ![t] = "load"]
      /\ pointer' = prev[f] /\ latch' = None /\ cur' = Invalid /\ count' = 0
      /\ idle' = {}
      /\ UNCHANGED <<val, free, inUse>>
  BY <1>0 DEF SInv, ClientInv, VictimTake, Linked
<1>3. pointer' \in (Linked \ {f}) \cup {head_}
  <2>1. prev[f] \in Linked \cup {head_}
    BY PreviousLinked DEF SInv
  <2> QED BY <1>1, <1>2, <2>1
<1>4. TypeOK'
  BY <1>1, <1>2, <1>3 DEF SInv, TypeOK, Linked
<1>5. ClientInv' /\ NoInvalidIndex'
  BY <1>2 DEF SInv, TypeOK, ClientInv, NoInvalidIndex
<1>6. HandInList'
  BY <1>1, <1>2, <1>3 DEF SInv, TypeOK, ClientInv, HandInList
<1>7. FramesPartitioned'
  <2>1. Carried' = Carried \cup {f}
    BY <1>2 DEF Carried, SInv, TypeOK
  <2>2. \A u, v \in Clients : frm'[u] = frm'[v] /\ frm'[u] # None => u = v
    BY <1>2 DEF SInv, TypeOK, FramesPartitioned, Carried, ClientInv
  <2> QED BY <1>1, <1>2, <2>1, <2>2 DEF SInv, FramesPartitioned
<1> QED BY <1>1, <1>4, <1>5, <1>6, <1>7 DEF SInv

\* The loaded frame enters the list at the front.
LEMMA InsertSInv ==
  ASSUME SInv, NEW t \in Clients, Insert(t)
  PROVE  SInv'
<1> USE CapacityType, NoneDistinct
<1>0. PICK f \in Frames \ Linked : f = frm[t] /\ f \in Carried
  <2>1. frm[t] \in Frames /\ frm[t] \in Carried
    BY DEF SInv, TypeOK, ClientInv, Carried, Insert
  <2>2. frm[t] \notin Linked
    BY <2>1 DEF SInv, FramesPartitioned
  <2> QED BY <2>1, <2>2
<1>1. /\ next' \in [Nodes -> Nodes \cup {Invalid}]
      /\ prev' \in [Nodes -> Nodes \cup {Invalid}]
      /\ LinksInverse'
      /\ EndsInv'
      /\ Linked' = Linked \cup {f}
      /\ Acyclic'
  BY <1>0, InsertLinks, InsertAcyclic DEF SInv, Insert
<1>2. /\ pc[t] = "load" /\ latch = None
      /\ frm' = [frm EXCEPT ![t] = None]
      /\ pc' = [pc EXCEPT ![t] = "idle"]
      /\ inUse' = inUse \cup {f}
      /\ val' = [val EXCEPT ![f] = 0]
      /\ UNCHANGED <<pointer, latch, cur, count, idle, free>>
  BY <1>0 DEF Insert
<1>3. TypeOK'
  BY <1>1, <1>2 DEF SInv, TypeOK
<1>4. ClientInv' /\ NoInvalidIndex'
  BY <1>2 DEF SInv, TypeOK, ClientInv, NoInvalidIndex
<1>5. HandInList'
  BY <1>1, <1>2 DEF SInv, TypeOK, ClientInv, HandInList
<1>6. FramesPartitioned'
  <2>1. Carried' = Carried \ {f}
    <3>1. \A u \in Clients : frm[u] = f => u = t
      BY <1>0 DEF SInv, FramesPartitioned
    <3> QED BY <1>0, <1>2, <3>1 DEF Carried, SInv, TypeOK
  <2>2. \A u, v \in Clients : frm'[u] = frm'[v] /\ frm'[u] # None => u = v
    BY <1>2 DEF SInv, TypeOK, FramesPartitioned
  <2> QED BY <1>0, <1>1, <1>2, <2>1, <2>2 DEF SInv, FramesPartitioned
<1> QED BY <1>1, <1>3, <1>4, <1>5, <1>6 DEF SInv

\* Every step of a replacer that is never cleaned preserves SInv.
LEMMA NextSInv ==
  ASSUME ~WithClean, SInv, [Next]_vars
  PROVE  SInv'
<1>1. ASSUME NEW t \in Clients, Poll(t) \/ PollFails(t) \/ Step(t) PROVE SInv'
  BY <1>1, PollSInv, ScanSInv, TakeSInv, InsertSInv DEF Step
<1>2. ASSUME NEW f \in Frames, Promote(f) \/ Use(f) \/ Release(f) PROVE SInv'
  BY <1>2, UseSInv
<1>3. ASSUME UNCHANGED vars PROVE SInv'
  <2>1. Linked' = Linked /\ Carried' = Carried
    BY <1>3 DEF vars, Linked, inList, Carried
  <2> QED BY <1>3, <2>1 DEF vars, SInv, TypeOK, LinksInverse, EndsInv,
          Acyclic, RanksGrow, ClientInv, HandInList, NoInvalidIndex, FramesPartitioned
<1> QED BY <1>1, <1>2, <1>3 DEF Next, Clean

-----------------------------------------------------------------------------
(* The theorems. *)

\* The invariant holds for any capacity and any clients if Clean is not called.
THEOREM SieveInvariance == ~WithClean /\ Spec => []SInv
<1>1. ASSUME ~WithClean PROVE Spec => []SInv
  <2>1. ~WithClean
    BY <1>1
  <2>2. SInv /\ [Next]_vars => SInv'
    BY <2>1, NextSInv
  <2> QED BY <2>2, InitSInv, PTL DEF Spec
<1> QED BY <1>1

\* moveToFront and removeNode keep next and prev each other's inverse.
THEOREM ListStaysLinked == ~WithClean /\ Spec => []LinksInverse
<1>1. SInv => LinksInverse
  BY DEF SInv
<1> QED BY <1>1, SieveInvariance, PTL

\* Neither the hand nor a scan under way ever stands outside the list.
THEOREM HandStaysInList == ~WithClean /\ Spec => []HandInList
<1>1. SInv => HandInList
  BY DEF SInv
<1> QED BY <1>1, SieveInvariance, PTL

\* getValue never throws.
THEOREM IndicesAreValid == ~WithClean /\ Spec => []NoInvalidIndex
<1>1. SInv => NoInvalidIndex
  BY DEF SInv
<1> QED BY <1>1, SieveInvariance, PTL

\* A frame is in exactly one place: free, linked, or with the client that
\* loads it.
THEOREM FramesInOnePlace == ~WithClean /\ Spec => []FramesPartitioned
<1>1. SInv => FramesPartitioned
  BY DEF SInv
<1> QED BY <1>1, SieveInvariance, PTL

-----------------------------------------------------------------------------
(* Why a scan that gives up has found every frame in use. *)

\* The place of each node in the list, counted from head.
Places(r) ==
  /\ r \in [Nodes -> Int] /\ r[head_] = 0
  /\ r[tail_] = Cardinality(Linked) + 1
  /\ \A n \in Linked \cup {head_} : r[next[n]] = r[n] + 1
  /\ \A f \in Linked : 0 < r[f] /\ r[f] < r[tail_]
  /\ \A f, g \in Linked : r[f] = r[g] => f = g

\* How many frames the scan passes between f and g.
Distance(r, f, g) ==
  IF r[g] <= r[f] THEN r[f] - r[g] ELSE r[f] - r[g] + Cardinality(Linked)

\* The failures that a scan can still meet before it takes the unused frame f:
\* those on its way to f, and a whole round more if f has been visited.
Ahead(r, f) ==
  Distance(r, cur, f) + (IF val[f] = 0 THEN 0 ELSE Cardinality(Linked))

Scanning == \E t \in Clients : pc[t] \in {"loop", "visit", "test"}

\* A scan has more failures left than it can meet before it reaches a frame that
\* stays unused, and the frames it may find unused are those of the list.
ScanInv ==
  /\ idle \subseteq Linked \ inUse
  /\ latch = None => idle = {}
  /\ ExhaustedMeansUsed
  /\ \E r : Places(r) /\ (Scanning => \A f \in idle : Ahead(r, f) < count)

\* The list holds no more frames than there are.
LEMMA ListBounded ==
  /\ IsFiniteSet(Linked) /\ Cardinality(Linked) \in Nat
  /\ Cardinality(Linked) <= Capacity
<1>1. Cardinality(Frames) = Capacity /\ IsFiniteSet(Frames)
  BY FS_Interval, CapacityType
<1>2. Linked \subseteq Frames
  BY DEF Linked
<1> QED BY <1>1, <1>2, FS_Subset, FS_CardinalityType

\* One step of the scan is one place nearer to every frame but the one it leaves,
\* which is then a whole round away.
LEMMA PreviousNearer ==
  ASSUME SInv, NEW r, Places(r), NEW f \in Linked
  PROVE  /\ r[Previous(f)] = IF r[f] = 1 THEN Cardinality(Linked) ELSE r[f] - 1
         /\ Previous(f) \in Linked
         /\ \A g \in Linked \ {f} :
              Distance(r, Previous(f), g) = Distance(r, f, g) - 1
         /\ Distance(r, Previous(f), f) = Cardinality(Linked) - 1
         /\ Distance(r, f, f) = 0
<1> USE CapacityType
<1>0. f \in Frames /\ Previous(f) \in Linked /\ prev[f] \in Linked \cup {head_}
  BY PreviousLinked DEF SInv, Linked
<1>1. Cardinality(Linked) \in Nat
  BY ListBounded
<1>2. PICK a \in Nodes : a = prev[f] /\ next[a] = f /\ a \in Linked \cup {head_}
  BY <1>0 DEF SInv, LinksInverse
<1>3. r[f] = r[a] + 1 /\ r[f] \in Int /\ r[a] \in Int
  <2>1. r \in [Nodes -> Int] /\ \A n \in Linked \cup {head_} : r[next[n]] = r[n] + 1
    BY DEF Places
  <2>2. f \in Nodes
    BY <1>0
  <2> QED BY <1>2, <2>1, <2>2
<1>4. r[Previous(f)] = IF r[f] = 1 THEN Cardinality(Linked) ELSE r[f] - 1
  <2>1. CASE a = head_
    <3>1. PICK z \in Nodes : z = prev[tail_] /\ next[z] = tail_
      BY DEF SInv, LinksInverse
    <3>2. Previous(f) = z
      BY <1>0, <1>2, <2>1, <3>1 DEF Previous, getPrevNodeIndex
    <3>3. r[tail_] = r[z] + 1
      BY <1>0, <3>1, <3>2 DEF Places
    <3> QED BY <1>1, <1>3, <2>1, <3>2, <3>3 DEF Places
  <2>2. CASE a # head_
    <3>1. Previous(f) = a
      BY <1>0, <1>2, <2>2 DEF Previous, getPrevNodeIndex
    <3>2. r[a] # 0
      BY <1>2, <2>2 DEF Places
    <3> QED BY <1>3, <3>1, <3>2
  <2> QED BY <2>1, <2>2
<1>5. \A g \in Linked : r[g] \in Int /\ 0 < r[g] /\ r[g] <= Cardinality(Linked)
  BY <1>1 DEF Places, Linked
<1>6. \A g \in Linked \ {f} : r[g] # r[f]
  BY DEF Places
<1>7. PICK p : p = Previous(f)
  OBVIOUS
<1> QED BY <1>0, <1>1, <1>4, <1>5, <1>6, <1>7 DEF Distance

\* Nothing is further away than once around.
LEMMA DistanceBounded ==
  ASSUME SInv, NEW r, Places(r), NEW f \in Linked, NEW g \in Linked
  PROVE  Distance(r, f, g) \in 0 .. Cardinality(Linked) - 1
<1>1. Cardinality(Linked) \in Nat
  BY ListBounded
<1>2. \A h \in Linked : r[h] \in Int /\ 0 < r[h] /\ r[h] <= Cardinality(Linked)
  <2>1. r \in [Nodes -> Int] /\ Linked \subseteq Nodes
    BY CapacityType DEF Places, Linked
  <2>2. \A h \in Linked : 0 < r[h] /\ r[h] < Cardinality(Linked) + 1
    BY DEF Places
  <2> QED BY <1>1, <2>1, <2>2
<1> QED BY <1>1, <1>2 DEF Distance

\* removeNode: the frames behind the one that leaves move up.
LEMMA RemovePlaces ==
  ASSUME SInv, NEW r, Places(r), NEW f \in Linked, removeNode(f)
  PROVE  \E q : /\ Places(q)'
                /\ \A g \in Linked \ {f} : q[g] = IF r[g] > r[f] THEN r[g] - 1 ELSE r[g]
<1> USE CapacityType
<1>0. f \in Frames /\ inList(f) /\ Linked \subseteq Frames
  BY DEF Linked
<1>1. PICK a \in Nodes, b \in Nodes : a = prev[f] /\ b = next[f]
  BY DEF SInv, LinksInverse
<1>2. next[a] = f /\ prev[b] = f /\ a \in Linked \cup {head_}
  BY <1>1, PreviousLinked DEF SInv, LinksInverse
<1>3. Linked' = Linked \ {f}
  BY RemoveLinks DEF SInv
<1>4. \A n \in Nodes \ {f} : next'[n] = IF n = a THEN b ELSE next[n]
  BY <1>0, <1>1 DEF removeNode, SInv, TypeOK
<1>5. Cardinality(Linked') = Cardinality(Linked) - 1 /\ Cardinality(Linked) \in Nat
  BY <1>3, ListBounded, FS_RemoveElement
<1> DEFINE q == [n \in Nodes |-> IF r[n] > r[f] THEN r[n] - 1 ELSE r[n]]
<1>6. /\ r \in [Nodes -> Int] /\ r[head_] = 0 /\ r[tail_] = Cardinality(Linked) + 1
      /\ \A n \in Linked \cup {head_} : r[next[n]] = r[n] + 1
      /\ \A g \in Linked : 0 < r[g] /\ r[g] < r[tail_]
      /\ \A g, h \in Linked : r[g] = r[h] => g = h
  BY DEF Places
<1>7. q \in [Nodes -> Int]
  BY <1>6
<1>a. \A n \in Nodes : /\ r[n] \in Int /\ q[n] \in Int
                       /\ r[n] > r[f] => q[n] = r[n] - 1
                       /\ r[n] <= r[f] => q[n] = r[n]
  <2>1. f \in Nodes
    BY <1>0
  <2> QED BY <1>6, <2>1
<1>b. head_ \in Nodes /\ tail_ \in Nodes /\ f \in Nodes /\ Linked \subseteq Nodes
  BY <1>0
<1> HIDE DEF q
<1>8. q[head_] = 0 /\ q[tail_] = Cardinality(Linked') + 1
  <2>1. 0 < r[f] /\ r[f] < r[tail_]
    BY <1>6
  <2>2. q[head_] = r[head_] /\ q[tail_] = r[tail_] - 1
    <3>1. r[head_] <= r[f] /\ r[tail_] > r[f]
      BY <1>6, <1>a, <1>b, <2>1
    <3> QED BY <1>a, <1>b, <3>1
  <2> QED BY <1>5, <1>6, <2>2
<1>9. r[f] = r[a] + 1 /\ r[b] = r[f] + 1
  BY <1>1, <1>2, <1>6
<1>10. ASSUME NEW n \in (Linked \ {f}) \cup {head_} PROVE q[next'[n]] = q[n] + 1
  <2>0. n \in Nodes \ {f}
    BY <1>0
  <2>1. CASE n = a
    <3>1. next'[n] = b
      BY <1>4, <2>0, <2>1
    <3> QED BY <1>9, <1>a, <1>b, <2>0, <2>1, <3>1
  <2>2. CASE n # a
    <3>1. PICK m \in Nodes : m = next[n] /\ prev[m] = n
      BY <1>10 DEF SInv, LinksInverse
    <3>2. next'[n] = m /\ r[m] = r[n] + 1 /\ m # f
      BY <1>1, <1>4, <1>6, <1>10, <2>0, <2>2, <3>1
    <3>3. r[n] # r[f]
      <4>1. CASE n = head_
        BY <1>6, <4>1
      <4>2. CASE n \in Linked \ {f}
        BY <1>6, <4>2
      <4> QED BY <1>10, <4>1, <4>2
    <3> QED BY <1>a, <1>b, <2>0, <3>2, <3>3
  <2> QED BY <2>1, <2>2
<1>11. \A g \in Linked \ {f} : 0 < q[g] /\ q[g] < q[tail_]
  <2> TAKE g \in Linked \ {f}
  <2>1. g \in Nodes /\ f \in Nodes /\ tail_ \in Nodes
    BY <1>0
  <2>2. r[g] # r[f] /\ 0 < r[g] /\ r[g] < r[tail_] /\ 0 < r[f] /\ r[f] < r[tail_]
    BY <1>6
  <2> QED BY <1>a, <1>b, <2>1, <2>2
<1>12. \A g, h \in Linked \ {f} : q[g] = q[h] => g = h
  <2> TAKE g, h \in Linked \ {f}
  <2>1. g \in Nodes /\ h \in Nodes /\ f \in Nodes
    BY <1>0
  <2>2. r[g] # r[f] /\ r[h] # r[f] /\ (r[g] = r[h] => g = h)
    BY <1>6
  <2> QED BY <1>a, <1>b, <2>1, <2>2
<1>13. Places(q)'
  BY <1>3, <1>7, <1>8, <1>10, <1>11, <1>12 DEF Places
<1>14. \A g \in Linked \ {f} : q[g] = IF r[g] > r[f] THEN r[g] - 1 ELSE r[g]
  BY <1>a, <1>b
<1> QED BY <1>13, <1>14

\* moveToFront of a frame outside the list: the others move down.
LEMMA InsertPlaces ==
  ASSUME SInv, NEW r, Places(r), NEW f \in Frames \ Linked, moveToFront(f)
  PROVE  \E q : /\ Places(q)' /\ q[f] = 1
                /\ \A g \in Linked : q[g] = r[g] + 1
<1> USE CapacityType
<1>0. /\ ~inList(f) /\ next[f] = Invalid /\ prev[f] = Invalid
      /\ Linked \subseteq Frames
  BY DEF Linked, inList, SInv, EndsInv
<1>1. PICK b \in Nodes : b = next[head_]
  BY DEF SInv, LinksInverse
<1>2. prev[b] = head_ /\ b # f /\ b # head_
  BY <1>0, <1>1 DEF SInv, LinksInverse, EndsInv
<1>3. /\ next'[head_] = f /\ next'[f] = b
      /\ \A n \in Nodes \ {f, head_} : next'[n] = next[n]
  BY <1>0, <1>1 DEF moveToFront, SInv, TypeOK
<1>4. Linked' = Linked \cup {f}
  BY InsertLinks DEF SInv
<1>5. Cardinality(Linked') = Cardinality(Linked) + 1 /\ Cardinality(Linked) \in Nat
  BY <1>4, ListBounded, FS_AddElement
<1> DEFINE q == [n \in Nodes |-> IF n = head_ THEN 0 ELSE IF n = f THEN 1 ELSE r[n] + 1]
<1>6. /\ r \in [Nodes -> Int] /\ r[head_] = 0 /\ r[tail_] = Cardinality(Linked) + 1
      /\ \A n \in Linked \cup {head_} : r[next[n]] = r[n] + 1
      /\ \A g \in Linked : 0 < r[g] /\ r[g] < r[tail_]
      /\ \A g, h \in Linked : r[g] = r[h] => g = h
  BY DEF Places
<1>7. q \in [Nodes -> Int]
  BY <1>6
<1>a. /\ q[head_] = 0 /\ q[f] = 1
      /\ \A n \in Nodes : /\ r[n] \in Int /\ q[n] \in Int
                          /\ n # head_ /\ n # f => q[n] = r[n] + 1
  BY <1>6
<1>b. head_ \in Nodes /\ tail_ \in Nodes /\ f \in Nodes /\ Linked \subseteq Nodes
  BY <1>0
<1> HIDE DEF q
<1>8. q[head_] = 0 /\ q[tail_] = Cardinality(Linked') + 1
  BY <1>5, <1>6, <1>a, <1>b
<1>10. ASSUME NEW n \in (Linked \cup {f}) \cup {head_} PROVE q[next'[n]] = q[n] + 1
  <2>1. CASE n = head_
    BY <1>3, <1>a, <2>1
  <2>2. CASE n = f
    <3>1. r[b] = 1
      BY <1>1, <1>6
    <3> QED BY <1>2, <1>3, <1>a, <2>2, <3>1
  <2>3. CASE n \in Linked /\ n # f /\ n # head_
    <3>1. PICK m \in Nodes : m = next[n] /\ prev[m] = n
      BY <2>3 DEF SInv, LinksInverse
    <3>2. m # f /\ m # head_ /\ n \in Nodes
      BY <1>0, <2>3, <3>1 DEF SInv, EndsInv
    <3>3. r[m] = r[n] + 1 /\ next'[n] = m
      BY <1>3, <1>6, <2>3, <3>1, <3>2
    <3> QED BY <1>a, <2>3, <3>2, <3>3
  <2> QED BY <1>10, <2>1, <2>2, <2>3
<1>11. \A g \in Linked \cup {f} : 0 < q[g] /\ q[g] < q[tail_]
  <2> TAKE g \in Linked \cup {f}
  <2>1. g \in Nodes /\ tail_ \in Nodes /\ g # head_
    BY <1>0
  <2>2. CASE g = f
    BY <1>5, <1>8, <1>a, <2>1, <2>2
  <2>3. CASE g # f
    <3>1. 0 < r[g] /\ r[g] < r[tail_]
      BY <1>6, <2>3
    <3> QED BY <1>a, <1>b, <2>1, <2>3, <3>1
  <2> QED BY <2>2, <2>3
<1>12. \A g, h \in Linked \cup {f} : q[g] = q[h] => g = h
  <2> TAKE g, h \in Linked \cup {f}
  <2>1. g \in Nodes /\ h \in Nodes /\ g # head_ /\ h # head_
    BY <1>0
  <2>2. /\ g # f => 0 < r[g]
        /\ h # f => 0 < r[h]
        /\ g # f /\ h # f => (r[g] = r[h] => g = h)
    BY <1>6
  <2> QED BY <1>a, <2>1, <2>2
<1>13. Places(q)'
  BY <1>4, <1>7, <1>8, <1>10, <1>11, <1>12 DEF Places
<1>14. \A g \in Linked : q[g] = r[g] + 1
  <2>1. \A g \in Linked : g \in Nodes /\ g # head_ /\ g # f
    BY <1>0
  <2> QED BY <1>a, <2>1
<1> QED BY <1>13, <1>14, <1>a

\* An empty list.
LEMMA InitScanInv == Init => ScanInv
<1> SUFFICES ASSUME Init PROVE ScanInv
  OBVIOUS
<1> USE CapacityType DEF Init
<1>1. Linked = {}
  BY DEF Linked, inList, EmptyNext
<1>2. Cardinality(Linked) = 0
  BY <1>1, FS_EmptySet
<1> DEFINE q == [n \in Nodes |-> IF n = head_ THEN 0 ELSE 1]
<1>3. Places(q)
  BY <1>1, <1>2 DEF Places, EmptyNext
<1> HIDE DEF q
<1> QED BY <1>3 DEF ScanInv, ExhaustedMeansUsed

\* While the links stay, so do the places and the distances.
LEMMA PlacesStay ==
  ASSUME UNCHANGED links, NEW r, Places(r)
  PROVE  /\ Places(r)' /\ Linked' = Linked
         /\ \A f, g : Distance(r, f, g)' = Distance(r, f, g)
<1>1. Linked' = Linked
  BY DEF Linked, inList
<1> QED BY <1>1 DEF Places, Distance

\* The steps of the clients that poll, and of those that use frames.
LEMMA UsesScanInv ==
  ASSUME SInv, ScanInv,
         \/ \E t \in Clients : Poll(t) \/ PollFails(t)
         \/ \E f \in Frames : Promote(f) \/ Use(f) \/ Release(f)
  PROVE  ScanInv'
<1>1. PICK r : Places(r) /\ (Scanning => \A f \in idle : Ahead(r, f) < count)
  BY DEF ScanInv
<1>2. UNCHANGED links /\ UNCHANGED <<cur, count, latch>>
  BY DEF Poll, PollFails, Promote, Use, Release
<1>3. /\ Places(r)' /\ Linked' = Linked
      /\ \A f, g : Distance(r, f, g)' = Distance(r, f, g)
  BY <1>1, <1>2, PlacesStay
<1>4. Scanning' <=> Scanning
  BY DEF Scanning, Poll, PollFails, Promote, Use, Release, SInv, TypeOK
<1>5. idle' \subseteq idle /\ idle' \subseteq Linked \ inUse'
  BY DEF ScanInv, Poll, PollFails, Promote, Use, Release
<1>6. \A f \in idle' : val'[f] = val[f]
  BY DEF ScanInv, Poll, PollFails, Promote, Use, Release, SInv, TypeOK
<1>7. \A f \in idle' : Ahead(r, f)' = Ahead(r, f)
  BY <1>2, <1>3, <1>6 DEF Ahead, Distance
<1>8. ExhaustedMeansUsed'
  BY <1>5 DEF ScanInv, ExhaustedMeansUsed, Poll, PollFails, Promote, Use, Release,
              SInv, TypeOK
<1>9. latch' = None => idle' = {}
  BY <1>2, <1>5 DEF ScanInv
<1>10. Scanning' => \A f \in idle' : Ahead(r, f)' < count'
  BY <1>1, <1>2, <1>4, <1>5, <1>7
<1> QED BY <1>3, <1>5, <1>8, <1>9, <1>10 DEF ScanInv

\* A frame enters, or the victim leaves: nobody scans afterwards, and the frames
\* have their new places.
LEMMA ListScanInv ==
  ASSUME SInv, SInv', ScanInv, NEW t \in Clients, Insert(t) \/ VictimTake(t)
  PROVE  ScanInv'
<1>1. PICK r : Places(r)
  BY DEF ScanInv
<1>2. \E q : Places(q)'
  <2>1. CASE Insert(t)
    <3>1. PICK f \in Frames \ Linked : f = frm[t]
      <4>1. frm[t] \in Frames /\ frm[t] \in Carried
        BY <2>1, NoneDistinct DEF SInv, TypeOK, ClientInv, Carried, Insert
      <4> QED BY <4>1 DEF SInv, FramesPartitioned
    <3> QED BY <1>1, <2>1, <3>1, InsertPlaces DEF Insert
  <2>2. CASE VictimTake(t)
    <3>1. PICK f \in Linked : f = cur
      BY <2>2 DEF SInv, HandInList, VictimTake
    <3> QED BY <1>1, <2>2, <3>1, RemovePlaces DEF VictimTake
  <2> QED BY <2>1, <2>2
<1>3. idle' = {}
  BY DEF Insert, VictimTake, ScanInv
<1>4. ~Scanning'
  <2>1. latch' = None
    BY DEF Insert, VictimTake
  <2> QED BY <2>1, NoneDistinct DEF SInv, ClientInv, Scanning
<1> QED BY <1>2, <1>3, <1>4 DEF ScanInv, ExhaustedMeansUsed

\* A scan begins with failures for two rounds.
LEMMA BeginScanInv ==
  ASSUME SInv, SInv', ScanInv, NEW t \in Clients, ~Stopped, VictimBegin(t)
  PROVE  ScanInv'
<1> USE CapacityType, NoneDistinct
<1>1. PICK r : Places(r)
  BY DEF ScanInv
<1>2. /\ UNCHANGED <<links, val, inUse>> /\ latch' = t /\ count' = 2 * Capacity
      /\ idle' = Linked \ inUse
  BY DEF VictimBegin, Failures
<1>3. /\ Places(r)' /\ Linked' = Linked
      /\ \A f, g : Distance(r, f, g)' = Distance(r, f, g)
  BY <1>1, <1>2, PlacesStay
<1>4. Cardinality(Linked) \in Nat /\ Cardinality(Linked) <= Capacity
  BY ListBounded
<1>5. ASSUME NEW f \in idle', Scanning' PROVE Ahead(r, f)' < count'
  <2>1. PICK c : c = cur'
    OBVIOUS
  <2>2. c \in Linked
    BY <1>3, <1>5, <2>1 DEF SInv, HandInList, Scanning
  <2>3. Distance(r, c, f) \in 0 .. Cardinality(Linked) - 1
    BY <1>1, <1>2, <1>5, <2>2, DistanceBounded
  <2>4. Ahead(r, f)' = Distance(r, c, f) + (IF val[f] = 0 THEN 0 ELSE Cardinality(Linked))
    BY <1>2, <1>3, <2>1 DEF Ahead, Distance
  <2> QED BY <1>2, <1>4, <2>3, <2>4
<1>6. ASSUME NEW u \in Clients, pc'[u] = "exhausted" PROVE idle' = {}
  <2>1. CASE u = t
    <3>1. prev[tail_] = head_
      <4>1. pc'[t] = IF cur' = head_ THEN "exhausted" ELSE "loop"
        BY DEF VictimBegin, SInv, TypeOK
      <4>2. cur' = head_
        BY <1>6, <2>1, <4>1
      <4> QED BY <4>2 DEF VictimBegin
    <3>2. next[head_] = tail_
      BY <3>1 DEF SInv, LinksInverse
    <3>3. r[tail_] = 1
      BY <1>1, <3>2 DEF Places
    <3>4. \A f \in Linked : r[f] \in Int /\ 0 < r[f] /\ r[f] < 1
      BY <1>1, <3>3 DEF Places, Linked
    <3>5. Linked = {}
      BY <3>4
    <3> QED BY <1>2, <3>5
  <2>2. CASE u # t
    <3>1. pc[u] = "exhausted"
      BY <1>6, <2>2 DEF VictimBegin, SInv, TypeOK
    <3> QED BY <3>1 DEF Stopped
  <2> QED BY <2>1, <2>2
<1>7. ExhaustedMeansUsed'
  BY <1>6 DEF ExhaustedMeansUsed
<1> QED BY <1>2, <1>3, <1>5, <1>7 DEF ScanInv

\* Every step of a scan comes nearer to each frame that stays unused.
LEMMA StepScanInv ==
  ASSUME SInv, ScanInv, NEW t \in Clients, ~Stopped,
         VictimExhausted(t) \/ VictimLoop(t) \/ VictimVisit(t) \/ VictimRefuse(t)
  PROVE  ScanInv'
<1> USE CapacityType, NoneDistinct
<1>1. PICK r : Places(r) /\ (Scanning => \A f \in idle : Ahead(r, f) < count)
  BY DEF ScanInv
<1>2. UNCHANGED <<links, latch, idle, inUse>> /\ pc[t] \in {"loop", "visit", "test"}
  BY DEF VictimExhausted, VictimLoop, VictimVisit, VictimRefuse
<1>3. /\ Places(r)' /\ Linked' = Linked
      /\ \A f, g : Distance(r, f, g)' = Distance(r, f, g)
  BY <1>1, <1>2, PlacesStay
<1>4. /\ \A f \in idle : Ahead(r, f) < count
      /\ idle \subseteq Linked \ inUse
      /\ count \in Nat
  BY <1>1, <1>2 DEF Scanning, ScanInv, SInv, TypeOK
<1>5. Cardinality(Linked) \in Nat
  BY ListBounded
<1>6. PICK c \in Linked : c = cur
  BY <1>2 DEF SInv, HandInList
<1>7. \A f \in idle : Distance(r, c, f) \in Nat
  BY <1>1, <1>4, <1>6, DistanceBounded, <1>5
<1>8. PICK p : p = Previous(c)
  OBVIOUS
<1>9. /\ \A g \in Linked \ {c} : Distance(r, p, g) = Distance(r, c, g) - 1
      /\ Distance(r, p, c) = Cardinality(Linked) - 1
      /\ Distance(r, c, c) = 0
  BY <1>1, <1>6, <1>8, PreviousNearer
<1>10. ASSUME NEW f \in idle PROVE Ahead(r, f)' < count'
  <2>0. f \in Linked \ inUse /\ Ahead(r, f) < count /\ f \in Frames
    BY <1>4, <1>10 DEF Linked
  <2>1. CASE UNCHANGED <<val, cur, count>>
    BY <1>3, <2>0, <2>1 DEF Ahead, Distance
  <2>2. CASE VictimVisit(t) /\ val[c] > 0
    <3>1. /\ val' = [val EXCEPT ![c] = @ - 1] /\ cur' = p /\ UNCHANGED count
          /\ val[c] = 1
      BY <1>6, <1>8, <2>2 DEF VictimVisit, SInv, TypeOK, Linked
    <3>2. Ahead(r, f)' = Distance(r, p, f) + (IF val'[f] = 0 THEN 0 ELSE Cardinality(Linked))
      BY <1>3, <3>1 DEF Ahead, Distance
    <3>3. Ahead(r, f) = Distance(r, c, f) + (IF val[f] = 0 THEN 0 ELSE Cardinality(Linked))
      BY <1>6 DEF Ahead
    <3>4. CASE f = c
      <4>1. val'[f] = 0 /\ val[f] = 1
        BY <2>0, <3>1, <3>4 DEF SInv, TypeOK
      <4> QED BY <1>4, <1>5, <1>9, <2>0, <3>1, <3>2, <3>3, <3>4, <4>1
    <3>5. CASE f # c
      <4>1. val'[f] = val[f]
        BY <3>1, <3>5 DEF SInv, TypeOK
      <4>2. Distance(r, p, f) = Distance(r, c, f) - 1 /\ Distance(r, c, f) \in Nat
        BY <1>7, <1>9, <2>0, <3>5
      <4> QED BY <1>4, <1>5, <2>0, <3>1, <3>2, <3>3, <4>1, <4>2
    <3> QED BY <3>4, <3>5
  <2>3. CASE VictimRefuse(t)
    <3>1. count' = count - 1 /\ cur' = p /\ UNCHANGED val
      BY <1>6, <1>8, <2>3 DEF VictimRefuse
    <3>2. f # c
      BY <1>6, <2>0, <2>3 DEF VictimRefuse, Linked
    <3>3. Distance(r, p, f) = Distance(r, c, f) - 1 /\ Distance(r, c, f) \in Nat
      BY <1>7, <1>9, <2>0, <3>2
    <3>4. Ahead(r, f)' = Distance(r, p, f) + (IF val[f] = 0 THEN 0 ELSE Cardinality(Linked))
      BY <1>3, <3>1 DEF Ahead, Distance
    <3>5. Ahead(r, f) = Distance(r, c, f) + (IF val[f] = 0 THEN 0 ELSE Cardinality(Linked))
      BY <1>6 DEF Ahead
    <3> QED BY <1>4, <1>5, <2>0, <3>1, <3>3, <3>4, <3>5
  <2> QED BY <1>6, <2>1, <2>2, <2>3
      DEF VictimExhausted, VictimLoop, VictimVisit, VictimRefuse, Linked
<1>11. ASSUME NEW u \in Clients, pc'[u] = "exhausted" PROVE idle' = {}
  <2>1. pc[u] # "exhausted"
    BY DEF Stopped
  <2>2. u = t /\ VictimExhausted(t)
    BY <1>11, <2>1 DEF VictimExhausted, VictimLoop, VictimVisit, VictimRefuse, SInv, TypeOK
  <2>3. count = 0
    BY <2>2 DEF VictimExhausted
  <2>4. ASSUME NEW f \in idle PROVE FALSE
    <3>1. Ahead(r, f) < 0 /\ Distance(r, c, f) \in Nat
      BY <1>4, <1>7, <2>3, <2>4
    <3> QED BY <1>5, <1>6, <3>1 DEF Ahead
  <2> QED BY <1>2, <2>4
<1>12. ExhaustedMeansUsed'
  BY <1>11 DEF ExhaustedMeansUsed
<1>13. idle' \subseteq Linked' \ inUse' /\ (latch' = None => idle' = {})
  BY <1>2, <1>3 DEF ScanInv
<1> QED BY <1>2, <1>3, <1>10, <1>12, <1>13 DEF ScanInv

\* Every step keeps ScanInv.
LEMMA NextScanInv ==
  ASSUME ~WithClean, SInv, SInv', ScanInv, [Next]_vars
  PROVE  ScanInv'
<1>1. ASSUME ~Stopped, NEW t \in Clients, Step(t) PROVE ScanInv'
  BY <1>1, ListScanInv, BeginScanInv, StepScanInv DEF Step
<1>2. ASSUME UNCHANGED vars PROVE ScanInv'
  <2>1. PICK r : Places(r) /\ (Scanning => \A f \in idle : Ahead(r, f) < count)
    BY DEF ScanInv
  <2>2. Places(r)' /\ Linked' = Linked
    BY <1>2, <2>1, PlacesStay DEF vars
  <2>3. Scanning' => \A f \in idle' : Ahead(r, f)' < count'
    BY <1>2, <2>1, <2>2 DEF vars, Scanning, Ahead, Distance
  <2> QED BY <1>2, <2>2, <2>3 DEF vars, ScanInv, ExhaustedMeansUsed
<1> QED BY <1>1, <1>2, UsesScanInv DEF Next, Clean

\* Victim's assert(false) is reached only if every frame of the list was in use
\* at some moment of the scan, however many frames there are: 2 * capacity_
\* failures are enough to meet a frame that stays unused a second time.
THEOREM GivingUpMeansAllUsed == ~WithClean /\ Spec => []ExhaustedMeansUsed
<1>1. ASSUME ~WithClean PROVE Spec => []ExhaustedMeansUsed
  <2>1. Spec => []SInv
    BY <1>1, SieveInvariance
  <2>2. SInv /\ SInv' /\ ScanInv /\ [Next]_vars => ScanInv'
    BY <1>1, NextScanInv
  <2>3. ScanInv => ExhaustedMeansUsed
    BY DEF ScanInv
  <2> QED BY <2>1, <2>2, <2>3, InitScanInv, PTL DEF Spec
<1> QED BY <1>1

-----------------------------------------------------------------------------
(* The list is the queue of SieveQueue. *)

\* Every set of numbers that is not empty has a smallest one: the form of
\* induction that the lemma on nth needs.
LEMMA LeastNumber ==
  ASSUME NEW T, T \subseteq Nat, T # {}
  PROVE  \E x \in T : \A y \in T : x <= y
<1>1. PICK R : R = OpToRel(<, Nat)
  OBVIOUS
<1>2. IsWellFoundedOn(R, Nat)
  BY <1>1, NatLessThanWellFounded
<1>3. PICK x \in T : \A y \in T : ~(<<y, x>> \in R)
  BY <1>2, WFMin
<1>4. \A y \in T : y < x => <<y, x>> \in R
  BY <1>1 DEF OpToRel
<1>5. \A y \in T : ~(y < x) /\ y \in Nat
  BY <1>3, <1>4
<1>6. \A y \in T : x <= y
  BY <1>5
<1> QED BY <1>6

\* There is a frame at every place of the list.
LEMMA PlacesTaken ==
  ASSUME NEW r, Places(r), NEW i \in 1 .. Cardinality(Linked)
  PROVE  \E f \in Linked : r[f] = i
<1> USE CapacityType
<1>1. IsFiniteSet(Linked) /\ Cardinality(Linked) \in Nat
  BY ListBounded
<1> DEFINE p == [f \in Linked |-> r[f]]
<1>2. \A f \in Linked : r[f] \in 1 .. Cardinality(Linked)
  <2>1. r \in [Nodes -> Int] /\ Linked \subseteq Nodes
    BY DEF Places, Linked
  <2>2. \A f \in Linked : 0 < r[f] /\ r[f] < Cardinality(Linked) + 1
    BY DEF Places
  <2> QED BY <1>1, <2>1, <2>2
<1>3. p \in [Linked -> 1 .. Cardinality(Linked)]
  BY <1>2
<1>4. \A f, g \in Linked : p[f] = p[g] => f = g
  BY DEF Places
<1>5. p \in Injection(Linked, 1 .. Cardinality(Linked))
  BY <1>3, <1>4 DEF Injection, IsInjective
<1>6. /\ IsFiniteSet(1 .. Cardinality(Linked))
      /\ Cardinality(1 .. Cardinality(Linked)) = Cardinality(Linked)
  BY <1>1, FS_Interval
<1> HIDE DEF p
<1>7. p \in Surjection(Linked, 1 .. Cardinality(Linked))
  BY <1>1, <1>5, <1>6, FS_Injection
<1>8. \E f \in Linked : p[f] = i
  BY <1>7 DEF Surjection
<1> QED BY <1>8 DEF p

\* Along next the places grow by one and end at tail.
LEMMA NextPlace ==
  ASSUME SInv, NEW r, Places(r), NEW n \in Linked \cup {head_}
  PROVE  /\ next[n] \in Nodes /\ r[next[n]] = r[n] + 1
         /\ r[n] < Cardinality(Linked) => next[n] \in Linked
         /\ r[n] = Cardinality(Linked) => next[n] = tail_
<1> USE CapacityType
<1>1. PICK m \in Nodes : m = next[n] /\ prev[m] = n
  BY DEF SInv, LinksInverse
<1>2. r[m] = r[n] + 1
  BY <1>1 DEF Places
<1>3. m \in Linked \cup {tail_}
  <2>1. m # head_
    BY <1>1 DEF SInv, EndsInv, Linked
  <2>2. m \in Frames => m \in Linked
    BY <1>1 DEF SInv, EndsInv, Linked, inList
  <2> QED BY <2>1, <2>2
<1>4. Cardinality(Linked) \in Nat /\ n \in Nodes /\ r \in [Nodes -> Int]
  BY ListBounded DEF Places, Linked
<1>5. r[tail_] = Cardinality(Linked) + 1 /\ \A f \in Linked : r[f] < r[tail_]
  BY DEF Places
<1> QED BY <1>1, <1>2, <1>3, <1>4, <1>5

\* nth as the equation that defines it says.
LEMMA NthDefined ==
  ASSUME SInv, NEW r, Places(r)
  PROVE  nth = [i \in 0 .. Capacity |->
                  IF i = 0 THEN head_
                  ELSE IF nth[i - 1] \in Nodes THEN next[nth[i - 1]] ELSE Invalid]
<1> USE CapacityType
<1>0. PICK k \in Nat : k = Cardinality(Linked) /\ k <= Capacity
  BY ListBounded
<1> DEFINE at(i) == CHOOSE n \in Linked \cup {head_} : r[n] = i
           g == [i \in 0 .. Capacity |->
                   IF i <= k THEN at(i) ELSE IF i = k + 1 THEN tail_ ELSE Invalid]
<1>1. \A i \in 0 .. k : at(i) \in Linked \cup {head_} /\ r[at(i)] = i
  <2> TAKE i \in 0 .. k
  <2>1. \E n \in Linked \cup {head_} : r[n] = i
    <3>1. CASE i = 0
      BY <3>1 DEF Places
    <3>2. CASE i \in 1 .. k
      BY <1>0, <3>2, PlacesTaken
    <3> QED BY <3>1, <3>2
  <2> QED BY <2>1
<1>2. \A m, n \in Linked \cup {head_} : r[m] = r[n] => m = n
  BY DEF Places
<1> HIDE DEF at
<1>3. g[0] = head_
  BY <1>0, <1>1, <1>2 DEF Places
<1>4. ASSUME NEW i \in 1 .. Capacity
      PROVE  g[i] = IF g[i - 1] \in Nodes THEN next[g[i - 1]] ELSE Invalid
  <2>1. CASE i <= k
    <3>1. PICK n \in Linked \cup {head_} : n = at(i - 1) /\ r[n] = i - 1
      BY <1>1, <2>1
    <3>2. next[n] \in Linked /\ r[next[n]] = i
      BY <1>0, <2>1, <3>1, NextPlace
    <3>3. next[n] = at(i)
      BY <1>1, <1>2, <2>1, <3>2
    <3>4. n \in Nodes
      BY DEF Linked
    <3> QED BY <2>1, <3>1, <3>3, <3>4
  <2>2. CASE i = k + 1
    <3>1. PICK n \in Linked \cup {head_} : n = at(k) /\ r[n] = k
      BY <1>1
    <3>2. next[n] = tail_ /\ n \in Nodes
      BY <1>0, <3>1, NextPlace DEF Linked
    <3> QED BY <2>2, <3>1, <3>2
  <2>3. CASE i = k + 2
    <3>1. g[i - 1] = tail_ /\ next[tail_] = Invalid
      BY <2>3 DEF SInv, EndsInv
    <3> QED BY <2>3, <3>1
  <2>4. CASE i > k + 2
    <3>1. g[i - 1] = Invalid
      BY <2>4
    <3> QED BY <2>4, <3>1
  <2> QED BY <1>0, <2>1, <2>2, <2>3, <2>4
<1>5. g = [i \in 0 .. Capacity |-> g[i]]
  OBVIOUS
<1> HIDE DEF g
<1>6. g = [i \in 0 .. Capacity |->
             IF i = 0 THEN head_
             ELSE IF g[i - 1] \in Nodes THEN next[g[i - 1]] ELSE Invalid]
  <2>1. \A i \in 0 .. Capacity :
          g[i] = IF i = 0 THEN head_
                 ELSE IF g[i - 1] \in Nodes THEN next[g[i - 1]] ELSE Invalid
    <3> TAKE i \in 0 .. Capacity
    <3>1. CASE i = 0
      BY <1>3, <3>1
    <3>2. CASE i # 0
      BY <1>4, <3>2
    <3> QED BY <3>1, <3>2
  <2> QED BY <1>5, <2>1, Zenon
<1> QED BY <1>6 DEF nth

\* nth finds the node at its place.
LEMMA NthPlace ==
  ASSUME SInv, NEW r, Places(r)
  PROVE  \A i \in 0 .. Cardinality(Linked) :
           nth[i] \in Linked \cup {head_} /\ r[nth[i]] = i
<1> USE CapacityType
<1>0. PICK k \in Nat : k = Cardinality(Linked) /\ k <= Capacity
  BY ListBounded
<1>1. PICK s : s = nth
  OBVIOUS
<1>2. /\ s[0] = head_
      /\ \A i \in 1 .. Capacity :
           s[i] = IF s[i - 1] \in Nodes THEN next[s[i - 1]] ELSE Invalid
  BY <1>1, NthDefined
<1> DEFINE Wrong == {i \in 0 .. k : ~(s[i] \in Linked \cup {head_} /\ r[s[i]] = i)}
<1>3. ASSUME Wrong # {} PROVE FALSE
  <2>1. PICK x \in Wrong : \A y \in Wrong : x <= y
    <3>1. Wrong \subseteq Nat
      OBVIOUS
    <3> QED BY <1>3, <3>1, LeastNumber
  <2>2. x # 0
    BY <1>2, <2>1 DEF Places
  <2>3. PICK n \in Linked \cup {head_} : n = s[x - 1] /\ r[n] = x - 1
    <3>1. x - 1 \in 0 .. k /\ x - 1 \notin Wrong
      BY <2>1, <2>2
    <3> QED BY <3>1
  <2>4. s[x] = next[n]
    <3>1. x \in 1 .. Capacity /\ n \in Nodes
      BY <1>0, <2>1, <2>2 DEF Linked
    <3> QED BY <1>2, <2>3, <3>1
  <2>5. s[x] \in Linked /\ r[s[x]] = x
    BY <1>0, <2>1, <2>3, <2>4, NextPlace
  <2> QED BY <2>1, <2>5
<1> QED BY <1>0, <1>1, <1>3

\* The queue has every frame of the list at its place.
QueueAt(r) ==
  /\ queue \in Seq(Frames) /\ Len(queue) = Cardinality(Linked)
  /\ Cardinality(Linked) \in Nat
  /\ \A i \in 1 .. Cardinality(Linked) : queue[i] \in Linked /\ r[queue[i]] = i
  /\ \A f \in Linked : r[f] \in 1 .. Cardinality(Linked) /\ queue[r[f]] = f
QueueRight == \A r : SInv /\ Places(r) => QueueAt(r)

\* So it is in every state.
LEMMA QueueIsRight == QueueRight
<1> USE CapacityType
<1> SUFFICES ASSUME NEW r, SInv, Places(r) PROVE QueueAt(r)
  BY DEF QueueRight
<1>0. PICK k \in Nat : k = Cardinality(Linked)
  BY ListBounded
<1>1. \A i \in 1 .. k : nth[i] \in Linked /\ r[nth[i]] = i
  <2> TAKE i \in 1 .. k
  <2>1. nth[i] \in Linked \cup {head_} /\ r[nth[i]] = i
    BY <1>0, NthPlace
  <2>2. r[head_] = 0
    BY DEF Places
  <2> QED BY <2>1, <2>2
<1>2. queue = [i \in 1 .. k |-> nth[i]]
  BY <1>0 DEF queue
<1>3. \A i \in 1 .. k : queue[i] \in Linked /\ r[queue[i]] = i
  BY <1>1, <1>2
<1>4. queue \in [1 .. k -> Frames]
  BY <1>1, <1>2 DEF Linked
<1>5. queue \in Seq(Frames) /\ Len(queue) = k
  BY <1>4
<1>6. \A f \in Linked : r[f] \in 1 .. k
  <2>1. r \in [Nodes -> Int] /\ Linked \subseteq Nodes
    BY DEF Places, Linked
  <2>2. \A f \in Linked : 0 < r[f] /\ r[f] < Cardinality(Linked) + 1
    BY DEF Places
  <2> QED BY <1>0, <2>1, <2>2
<1>7. \A f \in Linked : queue[r[f]] = f
  <2>1. \A f, g \in Linked : r[f] = r[g] => f = g
    BY DEF Places
  <2> QED BY <1>3, <1>6, <2>1
<1> QED BY <1>0, <1>3, <1>5, <1>6, <1>7 DEF QueueAt

\* And in the state after a step.
LEMMA QueueIsRightNext == QueueRight'
BY QueueIsRight, PTL

\* moveToFront of a frame that is loaded puts it in front of the queue.
LEMMA InsertRefines ==
  ASSUME SInv, SInv', ScanInv, NEW t \in Clients, Insert(t)
  PROVE  Queue!Next
<1> USE CapacityType
<1>1. PICK f \in Frames \ Linked : f = frm[t]
  <2>1. frm[t] \in Frames /\ frm[t] \in Carried
    BY NoneDistinct DEF SInv, TypeOK, ClientInv, Carried, Insert
  <2> QED BY <2>1 DEF SInv, FramesPartitioned
<1>2. moveToFront(f) /\ UNCHANGED pointer
  BY <1>1 DEF Insert
<1>3. PICK r : Places(r)
  BY DEF ScanInv
<1>4. PICK q : /\ Places(q)' /\ q[f] = 1
               /\ \A g \in Linked : q[g] = r[g] + 1
  BY <1>2, <1>3, InsertPlaces
<1>5. Linked' = Linked \cup {f}
  BY <1>2, InsertLinks DEF SInv
<1>6. PICK s, u, k : s = queue /\ u = queue' /\ k = Cardinality(Linked)
  OBVIOUS
<1>7. /\ s \in Seq(Frames) /\ Len(s) = k /\ k \in Nat
      /\ \A i \in 1 .. k : s[i] \in Linked /\ r[s[i]] = i
  BY <1>3, <1>6, QueueIsRight DEF QueueRight, QueueAt
<1>8. Cardinality(Linked') = k + 1
  BY <1>5, <1>6, ListBounded, FS_AddElement
<1>9. /\ u \in Seq(Frames) /\ Len(u) = k + 1
      /\ \A g \in Linked \cup {f} : u[q[g]] = g
  BY <1>4, <1>5, <1>6, <1>8, QueueIsRightNext DEF QueueRight, QueueAt
<1>10. u[1] = f /\ \A i \in 1 .. k : u[i + 1] = s[i]
  <2>1. u[1] = f
    BY <1>4, <1>9
  <2>2. ASSUME NEW i \in 1 .. k PROVE u[i + 1] = s[i]
    <3>1. s[i] \in Linked /\ r[s[i]] = i
      BY <1>7
    <3>2. q[s[i]] = i + 1 /\ u[q[s[i]]] = s[i]
      BY <1>4, <1>9, <3>1
    <3> QED BY <3>2
  <2> QED BY <2>1, <2>2
<1>11. u = <<f>> \o s
  <2>a. <<f>> \in Seq(Frames) /\ Len(<<f>>) = 1 /\ <<f>>[1] = f
    OBVIOUS
  <2>0. PICK v : v = <<f>> /\ v \in Seq(Frames) /\ Len(v) = 1 /\ v[1] = f
    BY <2>a
  <2>1. PICK x : x = v \o s
    OBVIOUS
  <2>2. /\ x \in Seq(Frames) /\ Len(x) = k + 1
        /\ \A i \in 1 .. k + 1 : x[i] = IF i <= 1 THEN f ELSE s[i - 1]
    <3>1. /\ x \in Seq(Frames) /\ Len(x) = Len(v) + Len(s)
          /\ \A i \in 1 .. Len(v) + Len(s) : x[i] = IF i <= Len(v) THEN v[i] ELSE s[i - Len(v)]
      BY <1>7, <2>0, <2>1, ConcatProperties
    <3>2. \A i \in 1 .. k + 1 : i <= 1 => i = 1
      BY <1>7
    <3> QED BY <1>7, <2>0, <3>1, <3>2
  <2>3. \A i \in 1 .. k + 1 : u[i] = IF i <= 1 THEN f ELSE s[i - 1]
    <3> TAKE i \in 1 .. k + 1
    <3>1. CASE i = 1
      BY <1>10, <3>1
    <3>2. CASE i # 1
      <4>1. i - 1 \in 1 .. k /\ u[(i - 1) + 1] = s[i - 1]
        BY <1>7, <1>10, <3>2
      <4> QED BY <3>2, <4>1
    <3> QED BY <3>1, <3>2
  <2>4. u = x
    BY <1>7, <1>9, <2>2, <2>3, SeqEqual
  <2> QED BY <2>0, <2>1, <2>4
<1>12. ~ \E i \in 1 .. Len(s) : s[i] = f
  BY <1>7
<1>13. UNCHANGED hand
  BY <1>2 DEF hand
<1>14. Queue!Insert(f)
  BY <1>6, <1>11, <1>12, <1>13 DEF Queue!Insert, Queue!Cons, Queue!Contains
<1> QED BY <1>14 DEF Queue!Next

\* removeNode takes the victim out of the queue, and the hand goes to the frame
\* before it.
LEMMA TakeRefines ==
  ASSUME SInv, SInv', ScanInv, NEW t \in Clients, VictimTake(t)
  PROVE  Queue!Next
<1> USE CapacityType
<1>1. PICK f \in Linked : f = cur
  BY DEF SInv, HandInList, VictimTake
<1>2. removeNode(f) /\ pointer' = prev[f]
  BY <1>1 DEF VictimTake
<1>3. PICK r : Places(r)
  BY DEF ScanInv
<1>4. PICK q : /\ Places(q)'
               /\ \A g \in Linked \ {f} : q[g] = IF r[g] > r[f] THEN r[g] - 1 ELSE r[g]
  BY <1>2, <1>3, RemovePlaces
<1>5. Linked' = Linked \ {f}
  BY <1>2, RemoveLinks DEF SInv
<1>6. PICK s, u, k : s = queue /\ u = queue' /\ k = Cardinality(Linked)
  OBVIOUS
<1>7. /\ s \in Seq(Frames) /\ Len(s) = k /\ k \in Nat
      /\ \A i \in 1 .. k : s[i] \in Linked /\ r[s[i]] = i
      /\ \A g \in Linked : r[g] \in 1 .. k /\ s[r[g]] = g
  BY <1>3, <1>6, QueueIsRight DEF QueueRight, QueueAt
<1>8. Cardinality(Linked') = k - 1
  BY <1>5, <1>6, ListBounded, FS_RemoveElement
<1>9. /\ u \in Seq(Frames) /\ Len(u) = k - 1
      /\ \A g \in Linked \ {f} : u[q[g]] = g
  BY <1>4, <1>5, <1>6, <1>8, QueueIsRightNext DEF QueueRight, QueueAt
<1>10. PICK i \in 1 .. k : i = r[f] /\ s[i] = f
  BY <1>7
<1>11. \A j \in 1 .. k - 1 : u[j] = IF j < i THEN s[j] ELSE s[j + 1]
  <2> TAKE j \in 1 .. k - 1
  <2>1. CASE j < i
    <3>1. s[j] \in Linked \ {f} /\ r[s[j]] = j
      BY <1>7, <1>10, <2>1
    <3>2. q[s[j]] = j
      BY <1>4, <1>10, <2>1, <3>1
    <3> QED BY <1>9, <2>1, <3>1, <3>2
  <2>2. CASE j >= i
    <3>1. s[j + 1] \in Linked \ {f} /\ r[s[j + 1]] = j + 1
      <4>1. j + 1 \in 1 .. k /\ j + 1 # i
        BY <1>7, <2>2
      <4> QED BY <1>7, <1>10, <4>1
    <3>2. q[s[j + 1]] = j
      BY <1>4, <1>10, <2>2, <3>1
    <3> QED BY <1>9, <2>2, <3>1, <3>2
  <2> QED BY <2>1, <2>2
<1>12. u = SubSeq(s, 1, i - 1) \o SubSeq(s, i + 1, Len(s))
  <2>0. \A j \in 1 .. k : s[j] \in Frames
    BY <1>7 DEF Linked
  <2>1. PICK v, w : v = SubSeq(s, 1, i - 1) /\ w = SubSeq(s, i + 1, Len(s))
    OBVIOUS
  <2>2. /\ v \in Seq(Frames) /\ Len(v) = i - 1
        /\ \A j \in 1 .. i - 1 : v[j] = s[j]
    BY <1>7, <2>0, <2>1, SubSeqProperties
  <2>3. /\ w \in Seq(Frames) /\ Len(w) = k - i
        /\ \A j \in 1 .. k - i : w[j] = s[i + j]
    BY <1>7, <2>0, <2>1, SubSeqProperties
  <2>4. PICK x : x = v \o w
    OBVIOUS
  <2>5. /\ x \in Seq(Frames) /\ Len(x) = k - 1
        /\ \A j \in 1 .. k - 1 : x[j] = IF j <= i - 1 THEN v[j] ELSE w[j - (i - 1)]
    <3>1. /\ x \in Seq(Frames) /\ Len(x) = Len(v) + Len(w)
          /\ \A j \in 1 .. Len(v) + Len(w) : x[j] = IF j <= Len(v) THEN v[j] ELSE w[j - Len(v)]
      BY <2>2, <2>3, <2>4, ConcatProperties
    <3>2. Len(v) + Len(w) = k - 1
      BY <1>7, <2>2, <2>3
    <3> QED BY <2>2, <3>1, <3>2
  <2>6. ASSUME NEW j \in 1 .. k - 1 PROVE x[j] = IF j < i THEN s[j] ELSE s[j + 1]
    <3>1. CASE j < i
      BY <1>7, <2>2, <2>5, <3>1
    <3>2. CASE j >= i
      <4>1. j - (i - 1) \in 1 .. k - i /\ i + (j - (i - 1)) = j + 1
        BY <1>7, <3>2
      <4>2. w[j - (i - 1)] = s[j + 1]
        BY <2>3, <4>1
      <4>3. ~(j <= i - 1) /\ ~(j < i)
        BY <1>7, <3>2
      <4> QED BY <2>5, <4>2, <4>3
    <3> QED BY <1>7, <3>1, <3>2
  <2>7. u = x
    <3>1. \A j \in 1 .. Len(u) : u[j] = x[j]
      BY <1>9, <1>11, <2>6
    <3>2. u \in Seq(Frames) /\ x \in Seq(Frames) /\ Len(u) = Len(x)
      BY <1>9, <2>5
    <3> QED BY <3>1, <3>2, SeqEqual
  <2> QED BY <2>1, <2>4, <2>7
<1>13. hand' = IF i = 1 THEN None ELSE s[i - 1]
  <2>1. PICK a \in Linked \cup {head_} : a = prev[f] /\ next[a] = f
    BY PreviousLinked DEF SInv, LinksInverse
  <2>2. r[a] = i - 1
    <3>1. r[f] = r[a] + 1
      BY <1>3, <2>1 DEF Places
    <3>2. r \in [Nodes -> Int] /\ a \in Nodes
      BY <1>3 DEF Places, Linked
    <3>3. r[a] \in Int
      BY <3>2
    <3> QED BY <1>10, <3>1, <3>3
  <2>3. a = head_ <=> i = 1
    BY <1>3, <2>2 DEF Places
  <2>4. a # head_ => s[i - 1] = a
    BY <1>7, <2>2
  <2> QED BY <1>2, <2>1, <2>3, <2>4 DEF hand
<1>14. i \in DOMAIN queue /\ Queue!Evict(i)
  <2>1. DOMAIN s = 1 .. k
    BY <1>7
  <2> QED BY <1>6, <1>12, <1>13, <2>1 DEF Queue!Evict, Queue!RemoveAt
<1> QED BY <1>14 DEF Queue!Next

\* Every other step leaves the queue and the hand.
LEMMA OthersRefine ==
  ASSUME UNCHANGED <<links, pointer>>
  PROVE  UNCHANGED <<queue, hand>>
<1>1. Linked' = Linked
  BY DEF Linked, inList
<1>2. nth' = nth
  BY DEF nth
<1> QED BY <1>1, <1>2 DEF queue, hand

\* The list that SieveReplacer_v3 keeps in two arrays of indices is a queue:
\* frames enter in front and leave from any place, the others keep their order,
\* and the hand goes to the frame inserted next after the one that leaves.
THEOREM ListIsAQueue == ~WithClean /\ Spec => ImplementsQueue
<1>1. ASSUME ~WithClean PROVE Spec => ImplementsQueue
  <2>1. Spec => []SInv
    BY <1>1, SieveInvariance
  <2>2. SInv /\ SInv' /\ ScanInv /\ [Next]_vars => ScanInv'
    BY <1>1, NextScanInv
  <2>3. Init => Queue!Init
    <3> SUFFICES ASSUME Init PROVE Queue!Init
      OBVIOUS
    <3>1. Linked = {}
      BY CapacityType DEF Init, Linked, inList, EmptyNext
    <3>2. Cardinality(Linked) = 0
      BY <3>1, FS_EmptySet
    <3>3. queue = << >>
      BY <3>2 DEF queue
    <3> QED BY <3>3 DEF Init, Queue!Init, hand
  <2>4. SInv /\ SInv' /\ ScanInv /\ [Next]_vars => [Queue!Next]_<<queue, hand>>
    <3> SUFFICES ASSUME SInv, SInv', ScanInv, [Next]_vars
                 PROVE  [Queue!Next]_<<queue, hand>>
      OBVIOUS
    <3>1. ASSUME NEW t \in Clients, Insert(t) \/ VictimTake(t) PROVE Queue!Next
      BY <3>1, InsertRefines, TakeRefines
    <3>2. ASSUME NEW t \in Clients,
                 \/ Poll(t) \/ PollFails(t) \/ VictimBegin(t) \/ VictimExhausted(t)
                 \/ VictimLoop(t) \/ VictimVisit(t) \/ VictimRefuse(t)
          PROVE  UNCHANGED <<queue, hand>>
      BY <3>2, OthersRefine DEF Poll, PollFails, VictimBegin, VictimExhausted,
                                VictimLoop, VictimVisit, VictimRefuse
    <3>3. ASSUME NEW f \in Frames, Promote(f) \/ Use(f) \/ Release(f)
          PROVE  UNCHANGED <<queue, hand>>
      BY <3>3, OthersRefine DEF Promote, Use, Release
    <3>4. ASSUME UNCHANGED vars PROVE UNCHANGED <<queue, hand>>
      BY <3>4, OthersRefine DEF vars
    <3> QED BY <1>1, <3>1, <3>2, <3>3, <3>4 DEF Next, Step, Clean
  <2> QED BY <2>1, <2>2, <2>3, <2>4, InitScanInv, PTL DEF Spec, ImplementsQueue, Queue!Spec
<1> QED BY <1>1
=============================================================================
