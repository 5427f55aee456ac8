------------------------- MODULE LockFreeQueueProofs -------------------------
(***************************************************************************)
(* LockFreeQueue implements BoundedQueue for every capacity and every set  *)
(* of items: RingInv is inductive, the store of tail_ appends the item and *)
(* the store of head_ removes the first.                                   *)
(***************************************************************************)
EXTENDS LockFreeQueue, Integers, SequenceTheorems, TLAPS

-----------------------------------------------------------------------------
(* The arithmetic of the ring. *)

\* An index that is past the end by less than the capacity wraps around once.
LEMMA WrapsOnce ==
  ASSUME NEW n \in Nat \ {0}, NEW a \in 0 .. 2 * n - 1
  PROVE  a % n = (IF a < n THEN a ELSE a - n)
OBVIOUS

\* increment is the next place, and the first one after the last.
LEMMA NextPlace ==
  ASSUME Parameters, NEW i \in Places
  PROVE  /\ increment(i) = IF i = Capacity - 1 THEN 0 ELSE i + 1
         /\ increment(i) \in Places
<1>0. Capacity \in Nat \ {0}
  BY DEF Parameters
<1>1. PICK a \in 0 .. 2 * Capacity - 1 : a = i + 1
  BY DEF Parameters, Places
<1>2. a % Capacity = IF a < Capacity THEN a ELSE a - Capacity
  BY <1>0, WrapsOnce
<1> QED BY <1>1, <1>2 DEF Parameters, Places, increment

\* The place k after h.
Place(h, k) == (h + k) % Capacity

\* Where the places of the queue are.
LEMMA PlaceAt ==
  ASSUME Parameters, NEW h \in Places, NEW k \in Places
  PROVE  /\ Place(h, k) = IF h + k < Capacity THEN h + k ELSE h + k - Capacity
         /\ Place(h, k) \in Places
<1>0. Capacity \in Nat \ {0}
  BY DEF Parameters
<1>1. PICK a \in 0 .. 2 * Capacity - 1 : a = h + k
  BY DEF Parameters, Places
<1>2. a % Capacity = IF a < Capacity THEN a ELSE a - Capacity
  BY <1>0, WrapsOnce
<1> QED BY <1>1, <1>2 DEF Parameters, Places, Place

\* The number of items between h and t.
Span(h, t) == (Capacity + t - h) % Capacity

\* It is less than the capacity.
LEMMA SpanIs ==
  ASSUME Parameters, NEW h \in Places, NEW t \in Places
  PROVE  /\ Span(h, t) = IF h <= t THEN t - h ELSE Capacity + t - h
         /\ Span(h, t) \in Places
<1>0. Capacity \in Nat \ {0}
  BY DEF Parameters
<1>1. PICK a \in 0 .. 2 * Capacity - 1 : a = Capacity + t - h
  BY DEF Parameters, Places
<1>2. a % Capacity = IF a < Capacity THEN a ELSE a - Capacity
  BY <1>0, WrapsOnce
<1> QED BY <1>1, <1>2 DEF Parameters, Places, Span

\* The store of tail_ makes the queue longer by the place at tail_.
LEMMA SpanGrows ==
  ASSUME Parameters, NEW h \in Places, NEW t \in Places, increment(t) # h
  PROVE  /\ Span(h, increment(t)) = Span(h, t) + 1
         /\ Place(h, Span(h, t)) = t
<1>1. /\ increment(t) = IF t = Capacity - 1 THEN 0 ELSE t + 1
      /\ increment(t) \in Places
  BY NextPlace
<1>2. Span(h, t) = IF h <= t THEN t - h ELSE Capacity + t - h
  BY SpanIs
<1>3. Span(h, increment(t)) = IF h <= increment(t) THEN increment(t) - h
                                              ELSE Capacity + increment(t) - h
  BY <1>1, SpanIs
<1>4. Span(h, t) \in Places
  BY SpanIs
<1>5. Place(h, Span(h, t)) = IF h + Span(h, t) < Capacity
                               THEN h + Span(h, t)
                               ELSE h + Span(h, t) - Capacity
  BY <1>4, PlaceAt
<1>6. Span(h, increment(t)) = Span(h, t) + 1
  BY <1>1, <1>2, <1>3 DEF Parameters, Places
<1>7. Place(h, Span(h, t)) = t
  BY <1>2, <1>5 DEF Parameters, Places
<1> QED BY <1>6, <1>7

\* The store of head_ makes it shorter by the place at head_.
LEMMA SpanShrinks ==
  ASSUME Parameters, NEW h \in Places, NEW t \in Places, h # t
  PROVE  /\ Span(h, t) >= 1
         /\ Span(increment(h), t) = Span(h, t) - 1
         /\ \A k \in 0 .. Span(h, t) - 2 :
              Place(increment(h), k) = Place(h, k + 1)
<1>1. /\ increment(h) = IF h = Capacity - 1 THEN 0 ELSE h + 1
      /\ increment(h) \in Places
  BY NextPlace
<1>2. /\ Span(h, t) = IF h <= t THEN t - h ELSE Capacity + t - h
      /\ Span(h, t) \in Places
  BY SpanIs
<1>3. Span(increment(h), t) = IF increment(h) <= t THEN t - increment(h)
                                        ELSE Capacity + t - increment(h)
  BY <1>1, SpanIs
<1>4. Span(h, t) >= 1 /\ Span(increment(h), t) = Span(h, t) - 1
  BY <1>1, <1>2, <1>3 DEF Parameters, Places
<1>5. ASSUME NEW k \in 0 .. Span(h, t) - 2
      PROVE  Place(increment(h), k) = Place(h, k + 1)
  <2>1. k \in Places /\ k + 1 \in Places
    BY <1>2 DEF Parameters, Places
  <2>2. Place(increment(h), k) = IF increment(h) + k < Capacity
                                   THEN increment(h) + k
                                   ELSE increment(h) + k - Capacity
    BY <1>1, <2>1, PlaceAt
  <2>3. Place(h, k + 1) = IF h + (k + 1) < Capacity THEN h + (k + 1)
                                                ELSE h + (k + 1) - Capacity
    BY <2>1, PlaceAt
  <2> QED BY <1>1, <2>1, <2>2, <2>3 DEF Parameters, Places
<1> QED BY <1>4, <1>5

\* The place at tail_ is not one of the queue's.
LEMMA TailIsFree ==
  ASSUME Parameters, NEW h \in Places, NEW t \in Places,
         NEW k \in 0 .. Span(h, t) - 1
  PROVE  k \in Places /\ Place(h, k) \in Places /\ Place(h, k) # t
<1>1. /\ Span(h, t) = IF h <= t THEN t - h ELSE Capacity + t - h
      /\ Span(h, t) \in Places
  BY SpanIs
<1>2. k \in Places
  BY <1>1 DEF Parameters, Places
<1>3. /\ Place(h, k) = IF h + k < Capacity THEN h + k ELSE h + k - Capacity
      /\ Place(h, k) \in Places
  BY <1>2, PlaceAt
<1> QED BY <1>1, <1>2, <1>3 DEF Parameters, Places

-----------------------------------------------------------------------------
(* The inductive invariant. *)

\* Length is the span between head_ and tail_.
LEMMA LengthIsSpan == Length = Span(head, tail)
BY DEF Length, Span

\* RingInv says of every place of the queue that it has an item.
LEMMA RingHasItems ==
  RingInv <=>
    /\ TypeOK
    /\ \A k \in 0 .. Span(head, tail) - 1 : buffer[Place(head, k)] \in Items
    /\ ppc # "idle" => item \in Items
    /\ ppc \in {"write", "publish"} => increment(tail) # head
    /\ ppc = "publish" => buffer[tail] = item
    /\ cpc # "idle" => head # tail
    /\ cpc = "publish" => taken = buffer[head]
BY LengthIsSpan DEF RingInv, Place

\* A new ring is empty.
LEMMA InitRing == Parameters /\ Init => RingInv
<1> SUFFICES ASSUME Parameters, Init PROVE RingInv
  OBVIOUS
<1>1. 0 \in Places
  BY DEF Parameters, Places
<1>2. Span(0, 0) = 0
  BY <1>1, SpanIs
<1>3. TypeOK
  BY <1>1 DEF Init, TypeOK
<1> QED BY <1>2, <1>3, RingHasItems DEF Init

\* The steps of push and pop keep RingInv: the other thread can only make
\* the room larger for push, and the queue longer for pop.
LEMMA NextRing ==
  ASSUME Parameters, RingInv, [Next]_vars
  PROVE  RingInv'
<1> USE DEF TypeOK
<1>h. /\ TypeOK
      /\ \A k \in 0 .. Span(head, tail) - 1 : buffer[Place(head, k)] \in Items
      /\ ppc # "idle" => item \in Items
      /\ ppc \in {"write", "publish"} => increment(tail) # head
      /\ ppc = "publish" => buffer[tail] = item
      /\ cpc # "idle" => head # tail
      /\ cpc = "publish" => taken = buffer[head]
  BY RingHasItems
<1>g. SUFFICES
        /\ TypeOK'
        /\ \A k \in 0 .. Span(head', tail') - 1 :
             buffer'[Place(head', k)] \in Items
        /\ ppc' # "idle" => item' \in Items
        /\ ppc' \in {"write", "publish"} => increment(tail') # head'
        /\ ppc' = "publish" => buffer'[tail'] = item'
        /\ cpc' # "idle" => head' # tail'
        /\ cpc' = "publish" => taken' = buffer'[head']
  BY DEF RingInv, Length, Span, Place, increment
<1>i. increment(tail) \in Places /\ increment(head) \in Places
  BY <1>h, NextPlace
<1>s. Span(head, tail) \in Places
  BY <1>h, SpanIs
<1>1. CASE \E v \in Items : PushBegin(v)
  BY <1>h, <1>1 DEF PushBegin
<1>2. CASE PushTest
  BY <1>h, <1>2 DEF PushTest
<1>3. CASE PushWrite
  <2>1. /\ buffer' = [buffer EXCEPT ![tail] = item] /\ item \in Items
        /\ ppc = "write" /\ ppc' = "publish"
        /\ UNCHANGED <<head, tail, item, cpc, taken, given>>
    BY <1>h, <1>3 DEF PushWrite
  <2>2. TypeOK'
    BY <1>h, <2>1
  <2>3. ASSUME NEW k \in 0 .. Span(head, tail) - 1
        PROVE  buffer'[Place(head, k)] \in Items
    <3>1. Place(head, k) \in Places /\ Place(head, k) # tail
      BY <1>h, TailIsFree
    <3> QED BY <1>h, <2>1, <3>1
  <2>4. buffer'[tail] = item
    BY <1>h, <2>1
  <2>5. cpc = "publish" => buffer'[head] = buffer[head]
    BY <1>h, <2>1
  <2> QED BY <1>h, <2>1, <2>2, <2>3, <2>4, <2>5
<1>4. CASE PushPublish
  <2>1. /\ tail' = increment(tail) /\ ppc = "publish" /\ ppc' = "idle"
        /\ UNCHANGED <<buffer, head, item, cpc, taken, given>>
    BY <1>4 DEF PushPublish
  <2>2. TypeOK'
    BY <1>h, <1>i, <2>1
  <2>3. /\ Span(head, tail') = Span(head, tail) + 1
        /\ Place(head, Span(head, tail)) = tail
    BY <1>h, <2>1, SpanGrows
  <2>4. ASSUME NEW k \in 0 .. Span(head, tail') - 1
        PROVE  buffer[Place(head, k)] \in Items
    <3>1. CASE k = Span(head, tail)
      BY <1>h, <2>1, <2>3, <3>1
    <3>2. CASE k # Span(head, tail)
      <4>1. k \in 0 .. Span(head, tail) - 1
        BY <1>s, <2>3, <3>2 DEF Parameters, Places
      <4> QED BY <1>h, <4>1
    <3> QED BY <3>1, <3>2
  <2>5. head # tail'
    BY <1>h, <2>1
  <2> QED BY <1>h, <2>1, <2>2, <2>4, <2>5
<1>5. CASE PopTest
  BY <1>h, <1>5 DEF PopTest
<1>6. CASE PopRead
  BY <1>h, <1>6 DEF PopRead
<1>7. CASE PopPublish
  <2>1. /\ head' = increment(head) /\ cpc = "publish" /\ cpc' = "idle"
        /\ given' = Append(given, taken)
        /\ UNCHANGED <<buffer, tail, ppc, item, taken>>
    BY <1>7 DEF PopPublish
  <2>2. /\ Span(head, tail) >= 1
        /\ Span(head', tail) = Span(head, tail) - 1
        /\ \A k \in 0 .. Span(head, tail) - 2 :
             Place(head', k) = Place(head, k + 1)
    BY <1>h, <2>1, SpanShrinks
  <2>3. taken \in Items
    <3>1. 0 \in Places /\ Place(head, 0) = head
      BY <1>h, PlaceAt DEF Parameters, Places
    <3>2. 0 \in 0 .. Span(head, tail) - 1
      BY <1>s, <2>2 DEF Parameters, Places
    <3> QED BY <1>h, <2>1, <3>1, <3>2
  <2>4. TypeOK'
    BY <1>h, <1>i, <2>1, <2>3
  <2>5. ASSUME NEW k \in 0 .. Span(head', tail) - 1
        PROVE  buffer[Place(head', k)] \in Items
    <3>1. k \in 0 .. Span(head, tail) - 2 /\ k + 1 \in 0 .. Span(head, tail) - 1
      BY <1>s, <2>2 DEF Parameters, Places
    <3> QED BY <1>h, <2>2, <3>1
  <2>6. ppc \in {"write", "publish"} => increment(tail) # head'
    <3>1. \A i, j \in Places : increment(i) = increment(j) => i = j
      BY NextPlace DEF Parameters, Places
    <3> QED BY <1>h, <2>1, <3>1
  <2> QED BY <1>h, <2>1, <2>4, <2>5, <2>6
<1>8. CASE UNCHANGED vars
  BY <1>h, <1>8 DEF vars
<1> QED BY <1>1, <1>2, <1>3, <1>4, <1>5, <1>6, <1>7, <1>8 DEF Next

-----------------------------------------------------------------------------
(* The queue. *)

\* Append as a function.
LEMMA AppendIs ==
  ASSUME NEW S, NEW q \in Seq(S), NEW v \in S
  PROVE  Append(q, v) = [i \in 1 .. Len(q) + 1 |->
                           IF i = Len(q) + 1 THEN v ELSE q[i]]
<1>1. /\ Append(q, v) \in Seq(S) /\ Len(Append(q, v)) = Len(q) + 1
      /\ \A i \in 1 .. Len(q) : Append(q, v)[i] = q[i]
      /\ Append(q, v)[Len(q) + 1] = v
  BY AppendProperties
<1>2. Append(q, v) \in [1 .. Len(q) + 1 -> S] /\ Len(q) \in Nat
  BY <1>1, LenProperties
<1>3. \A i \in 1 .. Len(q) + 1 :
        Append(q, v)[i] = IF i = Len(q) + 1 THEN v ELSE q[i]
  <2> TAKE i \in 1 .. Len(q) + 1
  <2>1. i = Len(q) + 1 \/ i \in 1 .. Len(q)
    BY <1>2
  <2> QED BY <1>1, <1>2, <2>1
<1> DEFINE a == Append(q, v)
<1> HIDE DEF a
<1>4. a = [i \in 1 .. Len(q) + 1 |-> a[i]]
  BY <1>2 DEF a
<1> QED BY <1>3, <1>4 DEF a

\* Head and Tail as functions.
LEMMA HeadTailAre ==
  ASSUME NEW S, NEW q \in Seq(S), Len(q) >= 1
  PROVE  /\ q # <<>> /\ Head(q) = q[1]
         /\ Tail(q) = [i \in 1 .. Len(q) - 1 |-> q[i + 1]]
<1>1. q # <<>>
  BY EmptySeq
<1>2. /\ Tail(q) \in Seq(S) /\ Len(Tail(q)) = Len(q) - 1
      /\ \A i \in 1 .. Len(Tail(q)) : Tail(q)[i] = q[i + 1]
  BY <1>1, HeadTailProperties
<1>3. Tail(q) \in [1 .. Len(q) - 1 -> S] /\ Len(q) \in Nat
  BY <1>2, LenProperties
<1> DEFINE r == Tail(q)
<1>4. \A i \in 1 .. Len(q) - 1 : r[i] = q[i + 1]
  BY <1>2
<1> HIDE DEF r
<1>5. r = [i \in 1 .. Len(q) - 1 |-> r[i]]
  BY <1>3 DEF r
<1>6. r = [i \in 1 .. Len(q) - 1 |-> q[i + 1]]
  BY <1>4, <1>5
<1>7. Head(q) = q[1]
  BY <1>1
<1> QED BY <1>1, <1>6, <1>7 DEF r

\* What is in buffer b between h and t.
Queue(b, h, t) == [i \in 1 .. Span(h, t) |-> b[Place(h, i - 1)]]

\* The refinement mapping, in the words of this module.
Mapped == [i \in 1 .. Length |-> buffer[(head + i - 1) % Capacity]]

MappedIsQueue == Mapped = Queue(buffer, head, tail)

\* The mapping reads the places from head_ to tail_.
LEMMA MappedQueue == Parameters /\ TypeOK => MappedIsQueue
<1> SUFFICES ASSUME Parameters, TypeOK PROVE MappedIsQueue
  OBVIOUS
<1>1. \A i \in 1 .. Length : (head + i - 1) % Capacity = Place(head, i - 1)
  <2> TAKE i \in 1 .. Length
  <2>1. Length \in Int
    BY LengthIsSpan, SpanIs DEF TypeOK, Parameters, Places
  <2>2. head + i - 1 = head + (i - 1)
    BY <2>1 DEF TypeOK, Parameters, Places
  <2> QED BY <2>2 DEF Place
<1> QED BY <1>1, LengthIsSpan DEF Queue, Mapped, MappedIsQueue

\* It is a sequence of items.
LEMMA QueueIsSeq ==
  ASSUME Parameters, RingInv
  PROVE  /\ Queue(buffer, head, tail) \in Seq(Items)
         /\ Len(Queue(buffer, head, tail)) = Span(head, tail)
         /\ Span(head, tail) \in Nat
<1>0. Span(head, tail) \in Places
  BY SpanIs DEF RingInv, TypeOK
<1>1. Span(head, tail) \in Nat
  BY <1>0 DEF Parameters, Places
<1>2. Queue(buffer, head, tail) \in [1 .. Span(head, tail) -> Items]
  <2>1. \A i \in 1 .. Span(head, tail) : i - 1 \in 0 .. Span(head, tail) - 1
    BY <1>1
  <2> QED BY <2>1, RingHasItems DEF Queue
<1> QED BY <1>1, <1>2

\* A push is over when tail_ is stored: the item is the last of the queue.
LEMMA PushAppends ==
  ASSUME Parameters, RingInv, PushPublish
  PROVE  /\ Queue(buffer', head', tail') = Append(Queue(buffer, head, tail), item)
         /\ Len(Queue(buffer, head, tail)) < Capacity - 1
         /\ item \in Items /\ given' = given
<1> DEFINE n == Span(head, tail)
<1>1. /\ head \in Places /\ tail \in Places /\ increment(tail) # head
      /\ buffer[tail] = item /\ item \in Items
      /\ tail' = increment(tail) /\ UNCHANGED <<buffer, head, given>>
  BY DEF RingInv, TypeOK, PushPublish
<1>2. Span(head, tail') = n + 1 /\ Place(head, n) = tail
  BY <1>1, SpanGrows
<1>3. /\ Queue(buffer, head, tail) \in Seq(Items)
      /\ Len(Queue(buffer, head, tail)) = n
      /\ n \in Nat
  BY QueueIsSeq
<1>4. tail' \in Places
  BY <1>1, NextPlace
<1>5. n + 1 \in Places
  BY <1>1, <1>2, <1>4, SpanIs
<1>6. n < Capacity - 1
  BY <1>3, <1>5 DEF Parameters, Places
<1> HIDE DEF n
<1>7. Queue(buffer, head, tail') = [i \in 1 .. n + 1 |-> buffer[Place(head, i - 1)]]
  BY <1>2 DEF Queue
<1>8. Append(Queue(buffer, head, tail), item)
        = [i \in 1 .. n + 1 |-> IF i = n + 1 THEN item
                                ELSE Queue(buffer, head, tail)[i]]
  BY <1>1, <1>3, AppendIs
<1>9. ASSUME NEW i \in 1 .. n + 1
      PROVE  buffer[Place(head, i - 1)] = IF i = n + 1 THEN item
                                          ELSE Queue(buffer, head, tail)[i]
  <2>1. CASE i = n + 1
    <3>1. i - 1 = n
      BY <1>3, <2>1
    <3> QED BY <1>1, <1>2, <2>1, <3>1
  <2>2. CASE i # n + 1
    <3>1. i \in 1 .. n
      BY <1>3, <2>2
    <3> QED BY <2>2, <3>1 DEF Queue, n
  <2> QED BY <2>1, <2>2
<1>10. Queue(buffer, head, tail') = Append(Queue(buffer, head, tail), item)
  BY <1>7, <1>8, <1>9
<1> QED BY <1>1, <1>3, <1>6, <1>10

\* A pop is over when head_ is stored: it takes the first of the queue.
LEMMA PopTakesHead ==
  ASSUME Parameters, RingInv, PopPublish
  PROVE  /\ Queue(buffer, head, tail) # <<>>
         /\ Queue(buffer', head', tail') = Tail(Queue(buffer, head, tail))
         /\ given' = Append(given, Head(Queue(buffer, head, tail)))
<1> DEFINE n == Span(head, tail)
           q == Queue(buffer, head, tail)
<1>1. /\ head \in Places /\ tail \in Places /\ head # tail
      /\ taken = buffer[head] /\ given' = Append(given, taken)
      /\ head' = increment(head) /\ UNCHANGED <<buffer, tail>>
  BY DEF RingInv, TypeOK, PopPublish
<1>2. /\ n >= 1
      /\ Span(head', tail) = n - 1
      /\ \A k \in 0 .. n - 2 : Place(head', k) = Place(head, k + 1)
  BY <1>1, SpanShrinks
<1>3. q \in Seq(Items) /\ Len(q) = n /\ n \in Nat
  BY QueueIsSeq
<1>4. q = [i \in 1 .. n |-> buffer[Place(head, i - 1)]]
  BY DEF Queue
<1>5. q[1] = buffer[head]
  <2>1. 0 \in Places /\ Place(head, 0) = head
    BY <1>1, PlaceAt DEF Parameters, Places
  <2> QED BY <1>2, <1>3, <1>4, <2>1
<1>6. Queue(buffer, head', tail)
        = [i \in 1 .. n - 1 |-> buffer[Place(head', i - 1)]]
  BY <1>2 DEF Queue
<1> HIDE DEF n, q
<1>7. q # <<>> /\ Tail(q) = [i \in 1 .. n - 1 |-> q[i + 1]] /\ Head(q) = q[1]
  BY <1>2, <1>3, HeadTailAre
<1>8. ASSUME NEW i \in 1 .. n - 1
      PROVE  buffer[Place(head', i - 1)] = q[i + 1]
  <2>1. /\ i - 1 \in 0 .. n - 2 /\ (i - 1) + 1 = i
        /\ i + 1 \in 1 .. n /\ (i + 1) - 1 = i
    BY <1>3
  <2>2. Place(head', i - 1) = Place(head, i)
    BY <1>2, <2>1
  <2> QED BY <1>4, <2>1, <2>2
<1>9. Queue(buffer, head', tail) = Tail(q)
  BY <1>6, <1>7, <1>8
<1> QED BY <1>1, <1>5, <1>7, <1>9 DEF q

\* The store into the buffer changes no place of the queue.
LEMMA WriteKeepsQueue ==
  ASSUME Parameters, RingInv, PushWrite
  PROVE  Queue(buffer', head', tail') = Queue(buffer, head, tail)
<1>1. /\ head \in Places /\ tail \in Places
      /\ buffer' = [buffer EXCEPT ![tail] = item] /\ UNCHANGED <<head, tail>>
  BY DEF RingInv, TypeOK, PushWrite
<1>2. Span(head, tail) \in Nat
  BY QueueIsSeq
<1>3. ASSUME NEW i \in 1 .. Span(head, tail)
      PROVE  buffer'[Place(head, i - 1)] = buffer[Place(head, i - 1)]
  <2>1. i - 1 \in 0 .. Span(head, tail) - 1
    BY <1>2
  <2>2. Place(head, i - 1) \in Places /\ Place(head, i - 1) # tail
    BY <1>1, <2>1, TailIsFree
  <2> QED BY <1>1, <2>2 DEF RingInv, TypeOK
<1> QED BY <1>1, <1>3 DEF Queue

-----------------------------------------------------------------------------
(* The theorems: for every capacity and every set of items. *)

\* RingInv holds in every reachable state of the ring.
LEMMA RingInvariance == Parameters /\ Spec => []RingInv
<1>1. ASSUME Parameters PROVE Spec => []RingInv
  <2>1. Init => RingInv
    BY <1>1, InitRing
  <2>2. RingInv /\ [Next]_vars => RingInv'
    BY <1>1, NextRing
  <2> QED BY <2>1, <2>2, PTL DEF Spec
<1> QED BY <1>1

\* push and pop never touch the same place of the buffer at the same time,
\* although neither takes a lock.
THEOREM PlacesStayApart == Parameters /\ Spec => []PlacesApart
<1>1. RingInv => PlacesApart
  BY DEF RingInv, PlacesApart
<1> QED BY <1>1, RingInvariance, PTL

\* push and pop of LockFreeQueue are those of a bounded first-in first-out
\* queue: nothing is lost, duplicated, reordered or overwritten.
THEOREM RingIsAQueue == Parameters /\ Spec => ActsAsQueue
<1>1. ASSUME Parameters PROVE Spec => ActsAsQueue
  <2>1. RingInv => TypeOK
    BY DEF RingInv
  <2>2. TypeOK => MappedIsQueue
    BY <1>1, MappedQueue
  <2>4. Init => Ring!Init
    <3> SUFFICES ASSUME Init PROVE Ring!Init
      OBVIOUS
    <3>1. TypeOK /\ Span(head, tail) = 0
      BY <1>1, InitRing, SpanIs DEF RingInv, TypeOK, Init, Parameters
    <3>2. Queue(buffer, head, tail) = <<>>
      BY <3>1 DEF Queue
    <3> QED BY <2>2, <3>1, <3>2 DEF Init, Ring!Init, MappedIsQueue, Mapped
  <2>5. RingInv /\ MappedIsQueue /\ MappedIsQueue' /\ [Next]_vars
          => [Ring!Next]_Ring!vars
    <3> SUFFICES ASSUME RingInv, MappedIsQueue, MappedIsQueue', [Next]_vars
                 PROVE  [Ring!Next]_Ring!vars
      OBVIOUS
    <3>0. /\ Mapped = Queue(buffer, head, tail)
          /\ Mapped' = Queue(buffer', head', tail')
      BY DEF MappedIsQueue, Queue, Span, Place
    <3>1. CASE PushPublish
      <4>1. PICK v \in Items : v = item
        BY <1>1, <3>1, PushAppends
      <4>2. Ring!Push(v)
        BY <1>1, <3>0, <3>1, <4>1, PushAppends DEF Ring!Push, Mapped
      <4> QED BY <4>2 DEF Ring!Next
    <3>2. CASE PopPublish
      <4>1. Ring!Pop
        BY <1>1, <3>0, <3>2, PopTakesHead DEF Ring!Pop, Mapped
      <4> QED BY <4>1 DEF Ring!Next
    <3>3. CASE PushWrite
      <4>1. given' = given
        BY <3>3 DEF PushWrite
      <4> QED BY <1>1, <3>0, <3>3, <4>1, WriteKeepsQueue DEF Ring!vars, Mapped
    <3>4. CASE \/ \E v \in Items : PushBegin(v)
               \/ PushTest \/ PopTest \/ PopRead \/ UNCHANGED vars
      <4>1. UNCHANGED <<buffer, head, tail, given>>
        BY <3>4 DEF PushBegin, PushTest, PopTest, PopRead, vars
      <4> QED BY <3>0, <4>1 DEF Ring!vars, Mapped
    <3> QED BY <3>1, <3>2, <3>3, <3>4 DEF Next
  <2> QED BY <1>1, <2>1, <2>2, <2>4, <2>5, RingInvariance, PTL DEF Spec, ActsAsQueue, Ring!Spec
<1> QED BY <1>1
=============================================================================
