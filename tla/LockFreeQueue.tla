--------------------------- MODULE LockFreeQueue ---------------------------
(***************************************************************************)
(* LockFreeQueue: a ring of capacity_ places between head_ and tail_ that  *)
(* one thread pushes to and another pops from, without a lock.  A step is  *)
(* one access to head_, tail_ or the buffer.                               *)
(***************************************************************************)
EXTENDS Naturals, Sequences

CONSTANTS
  Capacity,   \* capacity_
  Items,      \* what is pushed
  None,       \* a place that was never written
  MaxPops     \* bound on the number of pops

\* The constructor throws if capacity_ < 1; a queue of capacity 1 takes nothing.
\* What the constants have to be; the modules that instantiate this one assume it.
Parameters == Capacity \in Nat \ {0} /\ MaxPops \in Nat /\ None \notin Items

VARIABLES
  buffer,       \* buffer_
  head, tail,   \* head_, tail_
  ppc, item,    \* the thread that pushes: its place in the code and its item
  cpc, taken,   \* the thread that pops, and what it has read
  given         \* history: what pop has returned

vars == <<buffer, head, tail, ppc, item, cpc, taken, given>>

Places == 0 .. Capacity - 1
increment(i) == (i + 1) % Capacity

Init ==
  /\ buffer = [i \in Places |-> None] /\ head = 0 /\ tail = 0
  /\ ppc = "idle" /\ item = None /\ cpc = "idle" /\ taken = None /\ given = <<>>

-----------------------------------------------------------------------------
(* push: tail_ is changed by this thread only, so its load is not a step. *)

PushBegin(v) ==
  /\ ppc = "idle" /\ ppc' = "test" /\ item' = v
  /\ UNCHANGED <<buffer, head, tail, cpc, taken, given>>

\* Variant: a full queue is not noticed.
PushTestAll ==
  /\ ppc = "test" /\ ppc' = "write"
  /\ UNCHANGED <<buffer, head, tail, item, cpc, taken, given>>

\* next_tail == head_.load(acquire): the queue is full.
PushTest ==
  /\ ppc = "test" /\ ppc' = IF increment(tail) = head THEN "idle" ELSE "write"
  /\ UNCHANGED <<buffer, head, tail, item, cpc, taken, given>>

PushWrite ==
  /\ ppc = "write" /\ ppc' = "publish" /\ buffer' = [buffer EXCEPT ![tail] = item]
  /\ UNCHANGED <<head, tail, item, cpc, taken, given>>

PushPublish ==
  /\ ppc = "publish" /\ ppc' = "idle" /\ tail' = increment(tail)
  /\ UNCHANGED <<buffer, head, item, cpc, taken, given>>

-----------------------------------------------------------------------------
(* pop: head_ is changed by this thread only. *)

\* head == tail_.load(acquire): the queue is empty.
PopTest ==
  /\ cpc = "idle" /\ Len(given) < MaxPops /\ head # tail /\ cpc' = "read"
  /\ UNCHANGED <<buffer, head, tail, ppc, item, taken, given>>

PopRead ==
  /\ cpc = "read" /\ cpc' = "publish" /\ taken' = buffer[head]
  /\ UNCHANGED <<buffer, head, tail, ppc, item, given>>

PopPublish ==
  /\ cpc = "publish" /\ cpc' = "idle" /\ head' = increment(head)
  /\ given' = Append(given, taken)
  /\ UNCHANGED <<buffer, tail, ppc, item, taken>>

Next ==
  \/ \E v \in Items : PushBegin(v)
  \/ PushTest \/ PushWrite \/ PushPublish \/ PopTest \/ PopRead \/ PopPublish

Spec == Init /\ [][Next]_vars

-----------------------------------------------------------------------------
\* Indices stay inside the buffer, and a place that was never written is not popped.
TypeOK ==
  /\ buffer \in [Places -> Items \union {None}] /\ head \in Places /\ tail \in Places
  /\ ppc \in {"idle", "test", "write", "publish"} /\ cpc \in {"idle", "read", "publish"}
  /\ item \in Items \union {None} /\ given \in Seq(Items)

Length == (Capacity + tail - head) % Capacity

\* The two threads never touch the same place at the same time: while one reads the
\* place at head_, the other does not write it, although neither has a lock.
PlacesApart == ~(ppc = "write" /\ cpc = "read" /\ head = tail)

\* What the two threads know while they work: the room that push found stays free, the
\* item that pop found stays there, and every place between head_ and tail_ has an item.
RingInv ==
  /\ TypeOK
  /\ \A k \in 0 .. Length - 1 : buffer[(head + k) % Capacity] \in Items
  /\ ppc # "idle" => item \in Items
  /\ ppc \in {"write", "publish"} => increment(tail) # head
  /\ ppc = "publish" => buffer[tail] = item
  /\ cpc # "idle" => head # tail
  /\ cpc = "publish" => taken = buffer[head]

Ring == INSTANCE BoundedQueue
          WITH Room <- Capacity - 1,
               queue <- [i \in 1 .. Length |-> buffer[(head + i - 1) % Capacity]]

\* What is popped is what was pushed, in order, once: an item is in the queue from
\* the store of tail_ to the store of head_, and the queue is bounded by one less
\* than the capacity.
ActsAsQueue == Ring!Spec
=============================================================================
