-------------------------- MODULE DirectCacheProofs -------------------------
(***************************************************************************)
(* Proofs about the direct caches of module DirectCache: for each of the   *)
(* five implementations, any threads, pages, slots and blocks.             *)
(***************************************************************************)
EXTENDS DirectCache, FiniteSetTheorems, TLAPS

-----------------------------------------------------------------------------
(* The nodes. *)

NodeSet == [pte : Pages \cup {Null}, count : 0 .. Width - 1,
            key : Pages \cup {Null}, global : BOOLEAN]

\* The slots of a thread: each has a page of its own.
SlotsRight(c) ==
  /\ c \in [Slots -> NodeSet]
  /\ \A s \in Slots : c[s].pte # Null => Slot[c[s].pte] = s

\* Counting up stays in the range.
LEMMA CountedUpIs ==
  ASSUME NEW n \in NodeSet, Parameters
  PROVE  /\ CountedUp(n) \in NodeSet
         /\ CountedUp(n).pte = n.pte /\ CountedUp(n).key = n.key
         /\ CountedUp(n).global = n.global /\ CountedUp(n).count = (n.count + 1) % Width
<1>1. (n.count + 1) % Width \in 0 .. Width - 1
  BY DEF Parameters, NodeSet
<1>2. PICK k \in 0 .. Width - 1 : k = (n.count + 1) % Width
  BY <1>1
<1>3. CountedUp(n) = [n EXCEPT !.count = k]
  BY <1>2 DEF CountedUp, NodeSet
<1> QED BY <1>2, <1>3 DEF NodeSet

\* A slot that holds a page has its key.
KeyOf(n) == impl \in {4, 5} /\ n.pte # Null => n.key = n.pte

\* Each Find answers with the page if the slot holds it, and then counts the slot;
\* if not it leaves a slot that holds a page alone.
LEMMA FindIs ==
  ASSUME NEW n \in NodeSet, NEW p \in Pages, Parameters, impl \in Impls, KeyOf(n)
  PROVE  /\ Find(n, p).pte \in {p, Null}
         /\ Find(n, p).node \in NodeSet
         /\ Find(n, p).node.pte = n.pte /\ Find(n, p).node.key = n.key
         /\ Find(n, p).pte = p =>
              /\ n.pte = p /\ Find(n, p).node.count = (n.count + 1) % Width
              /\ impl = 2 => Find(n, p).node.global = TRUE
         /\ Find(n, p).pte = Null => n.pte # p /\ (n.pte # Null => Find(n, p).node = n)
<1>1. impl \in 1 .. 5 /\ p # Null
  BY DEF Parameters
<1>2. PICK m \in NodeSet : /\ m = CountedUp(n) /\ m.pte = n.pte /\ m.key = n.key
                           /\ m.global = n.global /\ m.count = (n.count + 1) % Width
  BY CountedUpIs
<1>3. CASE impl \in {1, 3}
  <2>1. Find(n, p) = Find1(n, p)
    BY <1>3 DEF Find, Of, Find3
  <2>2. CASE n.pte = p
    <3>1. Find(n, p) = [pte |-> p, node |-> m]
      BY <2>1, <2>2, <1>2 DEF Find1, Found
    <3> QED BY <3>1, <2>2, <1>1, <1>2, <1>3
  <2>3. CASE n.pte # p
    <3>1. Find(n, p) = [pte |-> Null, node |-> n]
      BY <2>1, <2>3 DEF Find1, Found, Missed
    <3> QED BY <3>1, <2>3, <1>1
  <2> QED BY <2>2, <2>3
<1>4. CASE impl = 2
  <2>1. Find(n, p) = Find2(n, p)
    BY <1>4 DEF Find, Of
  <2>2. CASE n.pte = p
    <3>1. Find(n, p) = [pte |-> p, node |-> [m EXCEPT !.global = TRUE]]
      BY <2>1, <2>2, <1>2 DEF Find2, Found
    <3>2. PICK w \in NodeSet : /\ w = [m EXCEPT !.global = TRUE] /\ w.pte = m.pte
                               /\ w.key = m.key /\ w.count = m.count /\ w.global = TRUE
      <4>1. [m EXCEPT !.global = TRUE] \in NodeSet
        BY DEF NodeSet
      <4> QED BY <4>1 DEF NodeSet
    <3>3. Find(n, p).pte = p /\ Find(n, p).node = w
      BY <3>1, <3>2
    <3>4. /\ w.pte = n.pte /\ w.key = n.key /\ w.count = (n.count + 1) % Width
          /\ w.global = TRUE
      BY <3>2, <1>2
    <3> QED BY <3>3, <3>4, <2>2, <1>1
  <2>3. CASE n.pte # p
    <3>1. Find(n, p) = [pte |-> Null, node |-> n]
      BY <2>1, <2>3 DEF Find2, Found, Missed
    <3> QED BY <3>1, <2>3, <1>1
  <2> QED BY <2>2, <2>3
<1>5. CASE impl \in {4, 5}
  <2>1. Find(n, p) = Find4(n, p)
    BY <1>5 DEF Find, Of, Find5
  <2>2. CASE n.key = p
    <3>1. Find(n, p) = [pte |-> n.pte, node |-> m]
      BY <2>1, <2>2, <1>2 DEF Find4, Found
    <3>2. n.pte \in {p, Null}
      BY <1>5, <2>2 DEF KeyOf
    <3> QED BY <3>1, <3>2, <1>1, <1>2, <1>5
  <2>3. CASE n.key # p
    <3>1. Find(n, p) = [pte |-> Null, node |-> n]
      BY <2>1, <2>3 DEF Find4, Found, Missed
    <3>2. n.pte # p
      BY <1>1, <1>5, <2>3 DEF KeyOf
    <3> QED BY <3>1, <3>2, <1>1
  <2> QED BY <2>2, <2>3
<1>6. impl \in {1, 3} \/ impl = 2 \/ impl \in {4, 5}
  BY <1>1
<1> QED BY <1>3, <1>4, <1>5, <1>6

\* Insert did not take the page: at most a mark of Impl2 is another one.
Left(c, r) ==
  /\ r.ok = FALSE /\ r.drop = {} /\ r.slots \in [Slots -> NodeSet]
  /\ r.ring \in Slots \cup {Null}
  /\ \A s \in Slots : /\ r.slots[s].pte = c[s].pte /\ r.slots[s].key = c[s].key
                      /\ r.slots[s].count = c[s].count
                      /\ c[s].count # 0 /\ c[s].global = TRUE => r.slots[s].global = TRUE

\* Insert took the page: the page of one slot was given back, that of p or one that
\* is empty now.
Took(c, r, p, s0) ==
  /\ r.ok = TRUE /\ r.slots \in [Slots -> NodeSet] /\ r.ring \in Slots \cup {Null}
  /\ r.slots[Slot[p]].pte = p /\ r.slots[Slot[p]].count = 1
  /\ impl \in {4, 5} => r.slots[Slot[p]].key = p
  /\ impl = 2 => r.slots[Slot[p]].global = TRUE
  /\ r.drop = {c[s0].pte} \ {Null}
  /\ s0 = Slot[p] \/ (c[Slot[p]].pte = Null /\ r.slots[s0].pte = Null)
  /\ \A s \in Slots \ {s0, Slot[p]} : r.slots[s] = c[s]
  /\ c[s0].pte # Null => c[s0].count = 0 \/ (impl = 2 /\ c[s0].global = FALSE)

\* What a slot has when it took a page.
Fresh(m, p) ==
  /\ m.pte = p /\ m.count = 1
  /\ impl \in {4, 5} => m.key = p
  /\ impl = 2 => m.global = TRUE

\* The page's own slot took it.
LEMMA TookOwn ==
  ASSUME NEW c \in [Slots -> NodeSet], NEW p \in Pages, NEW m \in NodeSet,
         NEW g \in Slots \cup {Null}, NEW d, NEW r, Slot[p] \in Slots, Fresh(m, p),
         d = {c[Slot[p]].pte} \ {Null}, ~InUse(c[Slot[p]]),
         r = [ok |-> TRUE, slots |-> [c EXCEPT ![Slot[p]] = m], ring |-> g, drop |-> d]
  PROVE  Took(c, r, p, Slot[p])
<1> DEFINE s == Slot[p]
           e == [c EXCEPT ![s] = m]
<1>1. /\ e \in [Slots -> NodeSet] /\ e[s] = m
      /\ \A z \in Slots \ {s, s} : e[z] = c[z]
  OBVIOUS
<1>2. r.ok = TRUE /\ r.slots = e /\ r.ring = g /\ r.drop = d
  OBVIOUS
<1>3. c[s].pte # Null => c[s].count = 0
  BY DEF InUse
<1> HIDE DEF e, s
<1>4. s = Slot[p]
  BY DEF s
<1> QED BY <1>1, <1>2, <1>3, <1>4 DEF Took, Fresh

\* So it did, and Impl2 emptied the slot of its ring.
LEMMA TookOther ==
  ASSUME NEW c \in [Slots -> NodeSet], NEW p \in Pages, NEW m \in NodeSet, NEW g \in Slots,
         NEW w \in NodeSet, NEW r, Slot[p] \in Slots, Fresh(m, p), impl = 2, w.pte = Null,
         c[g].global = FALSE, c[Slot[p]].pte = Null, p # Null,
         r = [ok |-> TRUE, slots |-> [[c EXCEPT ![g] = w] EXCEPT ![Slot[p]] = m],
              ring |-> Slot[p], drop |-> {c[g].pte} \ {Null}]
  PROVE  Took(c, r, p, g)
<1> DEFINE s == Slot[p]
           e == [[c EXCEPT ![g] = w] EXCEPT ![s] = m]
<1>1. /\ e \in [Slots -> NodeSet] /\ e[s] = m /\ (g = s \/ e[g] = w)
      /\ \A z \in Slots \ {g, s} : e[z] = c[z]
  OBVIOUS
<1>2. r.ok = TRUE /\ r.slots = e /\ r.ring = s /\ r.drop = {c[g].pte} \ {Null}
  OBVIOUS
<1> HIDE DEF e, s
<1>3. s = Slot[p]
  BY DEF s
<1>4. g = s \/ (c[s].pte = Null /\ e[g].pte = Null)
  BY <1>1, <1>3
<1> QED BY <1>1, <1>2, <1>3, <1>4 DEF Took, Fresh

\* Each cache's Insert leaves the slots alone or takes the page into a free one.
LEMMA InsertIs ==
  ASSUME NEW c, NEW g \in Slots \cup {Null}, NEW p \in Pages, Parameters, impl \in Impls,
         SlotsRight(c)
  PROVE  Left(c, Insert(c, g, p)) \/ \E s0 \in Slots : Took(c, Insert(c, g, p), p, s0)
<1>1. /\ impl \in 1 .. 5 /\ p # Null /\ 1 \in 0 .. Width - 1 /\ Null \notin Slots
      /\ c \in [Slots -> NodeSet] /\ Slot[p] \in Slots
  BY DEF Parameters, SlotsRight
<1> DEFINE s == Slot[p]
<1>2. PICK n \in NodeSet : n = c[s]
  BY <1>1
<1>3. Left(c, Refused(c, g))
  <2>1. /\ Refused(c, g).ok = FALSE /\ Refused(c, g).drop = {} /\ Refused(c, g).slots = c
        /\ Refused(c, g).ring = g
    BY DEF Refused
  <2> QED BY <1>1, <2>1 DEF Left
<1>4. CASE impl \in {1, 3}
  <2>1. Insert(c, g, p) = Insert1(c, g, p)
    BY <1>4 DEF Insert, Of, Insert3
  <2>2. CASE InUse(n)
    BY <1>2, <1>3, <2>1, <2>2 DEF Insert1
  <2>3. CASE ~InUse(n)
    <3>1. PICK m \in NodeSet : m = [n EXCEPT !.pte = p, !.count = 1] /\ m.pte = p /\ m.count = 1
      <4>1. [n EXCEPT !.pte = p, !.count = 1] \in NodeSet
        BY <1>1 DEF NodeSet
      <4> QED BY <4>1 DEF NodeSet
    <3>2. Insert(c, g, p) = [ok |-> TRUE, slots |-> [c EXCEPT ![s] = m], ring |-> g,
                             drop |-> {n.pte} \ {Null}]
      BY <1>2, <2>1, <2>3, <3>1 DEF Insert1, Stored
    <3>3. Fresh(m, p)
      BY <1>4, <3>1 DEF Fresh
    <3>4. Took(c, Insert(c, g, p), p, s)
      BY <1>1, <1>2, <2>3, <3>2, <3>3, TookOwn
    <3> QED BY <1>1, <3>4
  <2> QED BY <2>2, <2>3
<1>5. CASE impl \in {4, 5}
  <2>1. Insert(c, g, p) = Insert4(c, g, p)
    BY <1>5 DEF Insert, Of, Insert5
  <2>2. CASE InUse(n)
    BY <1>2, <1>3, <2>1, <2>2 DEF Insert4
  <2>3. CASE ~InUse(n)
    <3>1. PICK m \in NodeSet : /\ m = [n EXCEPT !.pte = p, !.count = 1, !.key = p]
                               /\ m.pte = p /\ m.count = 1 /\ m.key = p
      <4>1. [n EXCEPT !.pte = p, !.count = 1, !.key = p] \in NodeSet
        BY <1>1 DEF NodeSet
      <4> QED BY <4>1 DEF NodeSet
    <3>2. Insert(c, g, p) = [ok |-> TRUE, slots |-> [c EXCEPT ![s] = m], ring |-> g,
                             drop |-> {n.pte} \ {Null}]
      BY <1>2, <2>1, <2>3, <3>1 DEF Insert4, Stored
    <3>3. Fresh(m, p)
      BY <1>5, <3>1 DEF Fresh
    <3>4. Took(c, Insert(c, g, p), p, s)
      BY <1>1, <1>2, <2>3, <3>2, <3>3, TookOwn
    <3> QED BY <1>1, <3>4
  <2> QED BY <2>2, <2>3
<1>6. CASE impl = 2
  <2>1. Insert(c, g, p) = Insert2(c, g, p)
    BY <1>6 DEF Insert, Of
  <2>2. PICK m \in NodeSet : /\ m = [n EXCEPT !.pte = p, !.count = 1, !.global = TRUE]
                             /\ Fresh(m, p)
    <3>1. [n EXCEPT !.pte = p, !.count = 1, !.global = TRUE] \in NodeSet
      BY <1>1 DEF NodeSet
    <3>2. PICK m \in NodeSet : /\ m = [n EXCEPT !.pte = p, !.count = 1, !.global = TRUE]
                               /\ m.pte = p /\ m.count = 1 /\ m.global = TRUE
      BY <3>1 DEF NodeSet
    <3>3. Fresh(m, p)
      BY <1>6, <3>2 DEF Fresh
    <3> QED BY <3>2, <3>3
  <2>3. CASE InUse(n)
    BY <1>2, <1>3, <2>1, <2>3 DEF Insert2
  <2>4. CASE ~InUse(n) /\ n.pte # Null
    <3>1. Insert(c, g, p) = [ok |-> TRUE, slots |-> [c EXCEPT ![s] = m], ring |-> g,
                             drop |-> {n.pte} \ {Null}]
      BY <1>2, <2>1, <2>2, <2>4 DEF Insert2, Stored
    <3>2. Took(c, Insert(c, g, p), p, s)
      BY <1>1, <1>2, <2>2, <2>4, <3>1, TookOwn
    <3> QED BY <1>1, <3>2
  <2>5. CASE ~InUse(n) /\ n.pte = Null /\ g = Null
    <3>1. Insert(c, g, p) = [ok |-> TRUE, slots |-> [c EXCEPT ![s] = m], ring |-> s,
                             drop |-> {} \ {Null}]
      BY <1>2, <2>1, <2>2, <2>5 DEF Insert2, Stored
    <3>2. {} \ {Null} = {n.pte} \ {Null} /\ s \in Slots \cup {Null}
      BY <1>1, <2>5
    <3>3. Took(c, Insert(c, g, p), p, s)
      BY <1>1, <1>2, <2>2, <2>5, <3>1, <3>2, TookOwn
    <3> QED BY <1>1, <3>3
  <2>6. CASE ~InUse(n) /\ n.pte = Null /\ g # Null
    <3>1. PICK v \in NodeSet : v = c[g]
      BY <1>1, <2>6
    <3>2. CASE v.global
      <4>1. PICK w \in NodeSet : /\ w = [v EXCEPT !.global = v.count # 0] /\ w.pte = v.pte
                                 /\ w.key = v.key /\ w.count = v.count
                                 /\ w.global = (v.count # 0)
        <5>1. [v EXCEPT !.global = v.count # 0] \in NodeSet
          BY DEF NodeSet
        <5> QED BY <5>1 DEF NodeSet
      <4>2. Insert(c, g, p) =
              [ok |-> FALSE, slots |-> [c EXCEPT ![g] = w], ring |-> g, drop |-> {}]
        <5>1. Insert(c, g, p) = Refused([c EXCEPT ![g].global = c[g].count # 0], g)
          BY <1>2, <2>1, <2>6, <3>1, <3>2 DEF Insert2
        <5>2. [c EXCEPT ![g].global = c[g].count # 0] = [c EXCEPT ![g] = w]
          BY <1>1, <2>6, <3>1, <4>1
        <5> QED BY <5>1, <5>2 DEF Refused
      <4>3. Left(c, Insert(c, g, p))
        <5> DEFINE e == [c EXCEPT ![g] = w]
        <5>1. /\ Insert(c, g, p).ok = FALSE /\ Insert(c, g, p).slots = e
              /\ Insert(c, g, p).ring = g /\ Insert(c, g, p).drop = {}
          BY <4>2
        <5>2. e \in [Slots -> NodeSet] /\ e[g] = w /\ \A z \in Slots \ {g} : e[z] = c[z]
          BY <1>1, <2>6
        <5>3. w.count # 0 => w.global = TRUE
          BY <4>1
        <5> HIDE DEF e
        <5> QED BY <2>6, <3>1, <4>1, <5>1, <5>2, <5>3 DEF Left
      <4> QED BY <4>3
    <3>3. CASE ~v.global
      <4>1. PICK w \in NodeSet : w = [v EXCEPT !.pte = Null] /\ w.pte = Null
        <5>1. [v EXCEPT !.pte = Null] \in NodeSet
          BY DEF NodeSet
        <5> QED BY <5>1 DEF NodeSet
      <4>2. Insert(c, g, p) = [ok |-> TRUE, slots |-> [[c EXCEPT ![g] = w] EXCEPT ![s] = m],
                               ring |-> s, drop |-> {v.pte} \ {Null}]
        <5>1. [c EXCEPT ![g].pte = Null] = [c EXCEPT ![g] = w]
          BY <1>1, <2>6, <3>1, <4>1
        <5> QED BY <1>2, <2>1, <2>2, <2>6, <3>1, <3>3, <5>1 DEF Insert2, Stored
      <4>3. v.global = FALSE /\ g \in Slots
        BY <2>6, <3>3 DEF NodeSet
      <4>4. Took(c, Insert(c, g, p), p, g)
        BY <1>1, <1>2, <1>6, <2>2, <2>6, <3>1, <4>1, <4>2, <4>3, TookOther
      <4> QED BY <4>3, <4>4
    <3> QED BY <3>2, <3>3
  <2> QED BY <2>3, <2>4, <2>5, <2>6
<1>7. impl \in {1, 3} \/ impl = 2 \/ impl \in {4, 5}
  BY <1>1
<1> QED BY <1>4, <1>5, <1>6, <1>7

-----------------------------------------------------------------------------
(* The pages of blocks, for any blocks and owners. *)

EntrySet == [page : Pages, mark : BOOLEAN]
New(p, m) == [page |-> p, mark |-> m]

\* f with another value at x.
With(f, x, v) == [f EXCEPT ![x] = v]

\* The sets of marks looked for.
Yes == {TRUE}
No == {FALSE}

\* The sets of marks, as marks.
LEMMA YesNo ==
  ASSUME NEW m \in BOOLEAN
  PROVE  (m \in Yes <=> m = TRUE) /\ (m \in No <=> m = FALSE)
BY DEF Yes, No

Matches(e, p, ms) == e.page = p /\ e.mark \in ms

\* Block b got entry e.
Grown(bl, bl2, b, e) ==
  /\ bl \in [Blocks -> Seq(EntrySet)] /\ b \in Blocks /\ e \in EntrySet
  /\ bl2 = With(bl, b, Append(bl[b], e))

PlacesOf(bl) == UNION {{b} \X (1 .. Len(bl[b])) : b \in Blocks}

\* ms: the marks looked for.  ts: the owners.
UsesOf(bl, ow, p, ms, ts) ==
  {x \in PlacesOf(bl) : bl[x[1]][x[2]].page = p /\ bl[x[1]][x[2]].mark \in ms /\ ow[x[1]] \in ts}

\* The places of block b that have page p with such a mark.
EnteredOf(bl, b, p, ms) == {i \in DOMAIN bl[b] : bl[b][i].page = p /\ bl[b][i].mark \in ms}

\* The places are pairs of a block and a position.
LEMMA PlaceIs ==
  ASSUME NEW bl
  PROVE  /\ \A b \in Blocks : \A i \in 1 .. Len(bl[b]) : <<b, i>> \in PlacesOf(bl)
         /\ \A x \in PlacesOf(bl) :
              \E b \in Blocks : \E i \in 1 .. Len(bl[b]) : x = <<b, i>>
<1>1. ASSUME NEW b \in Blocks, NEW i \in 1 .. Len(bl[b]) PROVE <<b, i>> \in PlacesOf(bl)
  BY DEF PlacesOf
<1>2. ASSUME NEW x \in PlacesOf(bl)
      PROVE  \E b \in Blocks : \E i \in 1 .. Len(bl[b]) : x = <<b, i>>
  <2>1. PICK b \in Blocks : x \in {b} \X (1 .. Len(bl[b]))
    BY DEF PlacesOf
  <2> QED BY <2>1
<1> QED BY <1>1, <1>2

\* Place i of block b is such a use.
UseHere(bl, ow, p, ms, ts, b, i) ==
  /\ i \in 1 .. Len(bl[b]) /\ bl[b][i].page = p /\ bl[b][i].mark \in ms
  /\ ow[b] \in ts

\* A use is a place with the page, the mark and the owner.
LEMMA UseIs ==
  ASSUME NEW bl, NEW ow, NEW p, NEW ms, NEW ts
  PROVE  /\ \A b \in Blocks, i \in Nat : UseHere(bl, ow, p, ms, ts, b, i) =>
              <<b, i>> \in UsesOf(bl, ow, p, ms, ts)
         /\ \A x \in UsesOf(bl, ow, p, ms, ts) :
              \E b \in Blocks, i \in Nat : x = <<b, i>> /\ UseHere(bl, ow, p, ms, ts, b, i)
<1>1. ASSUME NEW b \in Blocks, NEW i \in Nat, UseHere(bl, ow, p, ms, ts, b, i)
      PROVE  <<b, i>> \in UsesOf(bl, ow, p, ms, ts)
  <2>1. <<b, i>> \in PlacesOf(bl)
    BY <1>1, PlaceIs DEF UseHere
  <2>2. <<b, i>>[1] = b /\ <<b, i>>[2] = i
    OBVIOUS
  <2> QED BY <1>1, <2>1, <2>2 DEF UsesOf, UseHere
<1>2. ASSUME NEW x \in UsesOf(bl, ow, p, ms, ts)
      PROVE  \E b \in Blocks, i \in Nat : x = <<b, i>> /\ UseHere(bl, ow, p, ms, ts, b, i)
  <2>1. /\ x \in PlacesOf(bl) /\ bl[x[1]][x[2]].page = p /\ bl[x[1]][x[2]].mark \in ms
        /\ ow[x[1]] \in ts
    BY DEF UsesOf
  <2>2. PICK b \in Blocks, i \in Nat : i \in 1 .. Len(bl[b]) /\ x = <<b, i>>
    BY <2>1, PlaceIs
  <2>3. x[1] = b /\ x[2] = i
    BY <2>2
  <2>4. UseHere(bl, ow, p, ms, ts, b, i)
    BY <2>1, <2>2, <2>3 DEF UseHere
  <2> QED BY <2>2, <2>4
<1> QED BY <1>1, <1>2

\* There are finitely many of them.
LEMMA UsesFinite ==
  ASSUME NEW bl \in [Blocks -> Seq(EntrySet)], NEW ow, NEW p, NEW ms, NEW ts, Parameters
  PROVE  /\ IsFiniteSet(UsesOf(bl, ow, p, ms, ts))
         /\ Cardinality(UsesOf(bl, ow, p, ms, ts)) \in Nat
<1> DEFINE F == [b \in Blocks |-> {b} \X (1 .. Len(bl[b]))]
           S == {{b} \X (1 .. Len(bl[b])) : b \in Blocks}
<1>1. IsFiniteSet(Blocks)
  BY DEF Parameters
<1>2. F \in Surjection(Blocks, S)
  BY DEF Surjection
<1>3. IsFiniteSet(S)
  <2> HIDE DEF F, S
  <2> QED BY <1>1, <1>2, FS_Surjection
<1>4. ASSUME NEW T \in S PROVE IsFiniteSet(T)
  <2>1. PICK b \in Blocks : T = {b} \X (1 .. Len(bl[b]))
    OBVIOUS
  <2>2. Len(bl[b]) \in Nat
    <3>1. bl[b] \in Seq(EntrySet)
      OBVIOUS
    <3> QED BY <3>1
  <2>3. IsFiniteSet(1 .. Len(bl[b]))
    BY <2>2, FS_Interval
  <2>4. IsFiniteSet({b})
    BY FS_Singleton
  <2> QED BY <2>1, <2>3, <2>4, FS_Product
<1>5. IsFiniteSet(UNION S)
  <2> HIDE DEF S
  <2> QED BY <1>3, <1>4, FS_UNION
<1>6. UsesOf(bl, ow, p, ms, ts) \in SUBSET (UNION S)
  BY DEF UsesOf, PlacesOf
<1>7. IsFiniteSet(UsesOf(bl, ow, p, ms, ts))
  <2> HIDE DEF S
  <2> QED BY <1>5, <1>6, FS_Subset
<1> QED BY <1>7, FS_CardinalityType

\* A block that gets a page has one use of it more.
LEMMA UsesAppend ==
  ASSUME NEW bl, NEW bl2, NEW b, NEW e, NEW ow, NEW p, NEW ms, NEW ts, Parameters,
         Grown(bl, bl2, b, e)
  PROVE  /\ Matches(e, p, ms) /\ ow[b] \in ts =>
              Cardinality(UsesOf(bl2, ow, p, ms, ts)) = Cardinality(UsesOf(bl, ow, p, ms, ts)) + 1
         /\ ~(Matches(e, p, ms) /\ ow[b] \in ts) =>
              Cardinality(UsesOf(bl2, ow, p, ms, ts)) = Cardinality(UsesOf(bl, ow, p, ms, ts))
<1> DEFINE n == Len(bl[b])
           U == UsesOf(bl, ow, p, ms, ts)
           V == UsesOf(bl2, ow, p, ms, ts)
<1>1. bl \in [Blocks -> Seq(EntrySet)] /\ b \in Blocks /\ e \in EntrySet
  BY DEF Grown
<1>2. /\ n \in Nat /\ bl2[b] = Append(bl[b], e) /\ Len(bl2[b]) = n + 1 /\ bl2[b][n + 1] = e
      /\ \A i \in 1 .. n : bl2[b][i] = bl[b][i]
      /\ \A d \in Blocks \ {b} : bl2[d] = bl[d]
  <2>1. bl[b] \in Seq(EntrySet) /\ bl2[b] = Append(bl[b], e)
    BY <1>1 DEF With, Grown
  <2>2. \A d \in Blocks \ {b} : bl2[d] = bl[d]
    BY <1>1 DEF With, Grown
  <2> QED BY <2>1, <2>2
<1>3. ASSUME NEW d \in Blocks, NEW i \in 1 .. Len(bl[d])
      PROVE  i \in 1 .. Len(bl2[d]) /\ bl2[d][i] = bl[d][i]
  <2>1. CASE d = b
    BY <1>2, <2>1
  <2>2. CASE d # b
    <3>1. bl2[d] = bl[d]
      BY <1>2, <2>2
    <3> QED BY <3>1
  <2> QED BY <2>1, <2>2
<1>4. ASSUME NEW d \in Blocks, NEW i \in 1 .. Len(bl2[d])
      PROVE  i \in 1 .. Len(bl[d]) \/ (d = b /\ i = n + 1)
  BY <1>2
<1>5. ASSUME NEW x \in U PROVE x \in V /\ x # <<b, n + 1>>
  <2>1. PICK d \in Blocks, i \in Nat : x = <<d, i>> /\ UseHere(bl, ow, p, ms, ts, d, i)
    BY UseIs
  <2>2. i \in 1 .. Len(bl[d])
    BY <2>1 DEF UseHere
  <2>3. i \in 1 .. Len(bl2[d]) /\ bl2[d][i] = bl[d][i]
    BY <1>3, <2>2
  <2>4. UseHere(bl2, ow, p, ms, ts, d, i)
    BY <2>1, <2>3 DEF UseHere
  <2>5. x \in V
    BY <2>1, <2>4, UseIs
  <2>6. d # b \/ i # n + 1
    BY <2>2, <1>2
  <2> QED BY <2>1, <2>5, <2>6
<1>6. UseHere(bl2, ow, p, ms, ts, b, n + 1) <=> Matches(e, p, ms) /\ ow[b] \in ts
  <2>1. n + 1 \in 1 .. Len(bl2[b])
    BY <1>2
  <2> QED BY <1>2, <2>1 DEF UseHere, Matches
<1>7. Matches(e, p, ms) /\ ow[b] \in ts => <<b, n + 1>> \in V
  <2>1. n + 1 \in Nat
    BY <1>2
  <2> QED BY <1>1, <1>6, <2>1, UseIs
<1>8. ASSUME NEW x \in V
      PROVE  x \in U \/ (x = <<b, n + 1>> /\ Matches(e, p, ms) /\ ow[b] \in ts)
  <2>1. PICK d \in Blocks, i \in Nat : x = <<d, i>> /\ UseHere(bl2, ow, p, ms, ts, d, i)
    BY UseIs
  <2>2. i \in 1 .. Len(bl2[d])
    BY <2>1 DEF UseHere
  <2>3. CASE i \in 1 .. Len(bl[d])
    <3>1. bl2[d][i] = bl[d][i]
      BY <1>3, <2>3
    <3>2. UseHere(bl, ow, p, ms, ts, d, i)
      BY <2>1, <2>3, <3>1 DEF UseHere
    <3> QED BY <2>1, <3>2, UseIs
  <2>4. CASE d = b /\ i = n + 1
    BY <1>6, <2>1, <2>4
  <2> QED BY <1>4, <2>2, <2>3, <2>4
<1>9. IsFiniteSet(U)
  BY <1>1, UsesFinite
<1> HIDE DEF U, V
<1>10. CASE Matches(e, p, ms) /\ ow[b] \in ts
  <2>1. V = U \cup {<<b, n + 1>>}
    BY <1>5, <1>7, <1>8, <1>10
  <2>2. Cardinality(U \cup {<<b, n + 1>>}) = Cardinality(U) + 1
    BY <1>5, <1>9, FS_AddElement
  <2> QED BY <1>10, <2>1, <2>2 DEF U, V
<1>11. CASE ~(Matches(e, p, ms) /\ ow[b] \in ts)
  <2>1. V = U
    BY <1>5, <1>8, <1>11
  <2>2. Cardinality(U) \in Nat
    BY <1>9, FS_CardinalityType
  <2> QED BY <1>11, <2>1, <2>2 DEF U, V
<1> QED BY <1>10, <1>11

\* Block b is emptied, and nobody's now.
Emptied(bl, bl2, ow, ow2, b) ==
  /\ bl \in [Blocks -> Seq(EntrySet)] /\ ow \in [Blocks -> Threads \cup {Null}] /\ b \in Blocks
  /\ bl2 = With(bl, b, <<>>) /\ ow2 = With(ow, b, Null)

\* Its uses are lost with it.
UsesLost(bl, bl2, ow, ow2, b, p, ms, ts) ==
  /\ Cardinality(EnteredOf(bl, b, p, ms)) \in Nat
  /\ Cardinality(UsesOf(bl, ow, p, ms, ts)) = Cardinality(UsesOf(bl2, ow2, p, ms, ts)) +
       (IF ow[b] \in ts THEN Cardinality(EnteredOf(bl, b, p, ms)) ELSE 0)

\* An emptied block takes all of its uses with it, if they counted.
LEMMA UsesRelease ==
  ASSUME NEW bl, NEW bl2, NEW ow, NEW ow2, NEW b, NEW p, NEW ms, NEW ts, Parameters,
         Emptied(bl, bl2, ow, ow2, b)
  PROVE  UsesLost(bl, bl2, ow, ow2, b, p, ms, ts)
<1> DEFINE E == EnteredOf(bl, b, p, ms)
           U == UsesOf(bl, ow, p, ms, ts)
           V == UsesOf(bl2, ow2, p, ms, ts)
           W == {b} \X E
<1>1. bl \in [Blocks -> Seq(EntrySet)] /\ b \in Blocks
  BY DEF Emptied
<1>2. /\ bl[b] \in Seq(EntrySet) /\ bl2[b] = <<>> /\ DOMAIN bl[b] = 1 .. Len(bl[b])
      /\ \A d \in Blocks \ {b} : bl2[d] = bl[d] /\ ow2[d] = ow[d]
  BY DEF With, Emptied
<1>3. ASSUME NEW i \in 1 .. Len(bl[b])
      PROVE  i \in E <=> bl[b][i].page = p /\ bl[b][i].mark \in ms
  BY <1>2 DEF EnteredOf
<1>4. IsFiniteSet(E) /\ Cardinality(E) \in Nat
  <2>1. Len(bl[b]) \in Nat
    BY <1>2
  <2>2. IsFiniteSet(1 .. Len(bl[b]))
    BY <2>1, FS_Interval
  <2>3. E \in SUBSET (1 .. Len(bl[b]))
    BY <1>2 DEF EnteredOf
  <2>4. IsFiniteSet(E)
    BY <2>2, <2>3, FS_Subset
  <2> QED BY <2>4, FS_CardinalityType
<1>5. IsFiniteSet(W) /\ Cardinality(W) = Cardinality(E)
  <2>1. IsFiniteSet({b}) /\ Cardinality({b}) = 1
    BY FS_Singleton
  <2>2. IsFiniteSet({b} \X E) /\ Cardinality({b} \X E) = Cardinality({b}) * Cardinality(E)
    <3> HIDE DEF E
    <3> QED BY <1>4, <2>1, FS_Product
  <2> QED BY <1>4, <2>1, <2>2
<1>6. ASSUME NEW x \in V PROVE x \in U /\ x \notin W
  <2>1. PICK d \in Blocks, i \in Nat : x = <<d, i>> /\ UseHere(bl2, ow2, p, ms, ts, d, i)
    BY UseIs
  <2>2. d # b
    BY <1>2, <2>1 DEF UseHere
  <2>3. UseHere(bl, ow, p, ms, ts, d, i)
    BY <1>2, <2>1, <2>2 DEF UseHere
  <2>4. x \in U
    BY <2>1, <2>3, UseIs
  <2>5. x \notin W
    BY <2>1, <2>2
  <2> QED BY <2>4, <2>5
<1>7. ASSUME NEW x \in U PROVE x \in V \/ (ow[b] \in ts /\ x \in W)
  <2>1. PICK d \in Blocks, i \in Nat : x = <<d, i>> /\ UseHere(bl, ow, p, ms, ts, d, i)
    BY UseIs
  <2>2. CASE d = b
    <3>1. i \in E /\ ow[b] \in ts
      BY <1>3, <2>1, <2>2 DEF UseHere
    <3> HIDE DEF E
    <3> QED BY <2>1, <2>2, <3>1
  <2>3. CASE d # b
    <3>1. UseHere(bl2, ow2, p, ms, ts, d, i)
      BY <1>2, <2>1, <2>3 DEF UseHere
    <3> QED BY <2>1, <3>1, UseIs
  <2> QED BY <2>2, <2>3
<1>8. ASSUME ow[b] \in ts, NEW x \in W PROVE x \in U
  <2>1. PICK i \in E : x = <<b, i>>
    <3> HIDE DEF E
    <3> QED OBVIOUS
  <2>2. i \in 1 .. Len(bl[b]) /\ i \in Nat
    BY <1>2 DEF EnteredOf
  <2>3. UseHere(bl, ow, p, ms, ts, b, i)
    BY <1>3, <1>8, <2>2 DEF UseHere
  <2> QED BY <1>1, <2>1, <2>2, <2>3, UseIs
<1>9. IsFiniteSet(V)
  <2>1. bl2 \in [Blocks -> Seq(EntrySet)]
    BY DEF With, Emptied
  <2> QED BY <2>1, UsesFinite
<1>10. Cardinality(V) \in Nat
  BY <1>9, FS_CardinalityType
<1> HIDE DEF E, U, V, W
<1>11. CASE ow[b] \in ts
  <2>1. U = V \cup W /\ V \cap W = {}
    BY <1>6, <1>7, <1>8, <1>11
  <2>2. Cardinality(V \cup W) = Cardinality(V) + Cardinality(W) - Cardinality(V \cap W)
    BY <1>5, <1>9, FS_Union
  <2>3. Cardinality(V \cap W) = 0
    BY <2>1, FS_EmptySet
  <2>4. Cardinality(U) = Cardinality(V) + Cardinality(E)
    BY <1>4, <1>5, <1>10, <2>1, <2>2, <2>3
  <2> QED BY <1>4, <1>11, <2>4 DEF E, U, V, UsesLost
<1>12. CASE ow[b] \notin ts
  <2>1. U = V
    BY <1>6, <1>7, <1>12
  <2> QED BY <1>4, <1>10, <1>12, <2>1 DEF E, U, V, UsesLost
<1> QED BY <1>11, <1>12

\* New blocks have no pages, so their owners do not matter.
LEMMA UsesOwners ==
  ASSUME NEW bl, NEW ow, NEW ow2, NEW p, NEW ms, NEW ts,
         \A b \in Blocks : bl[b] = <<>> \/ ow2[b] = ow[b]
  PROVE  UsesOf(bl, ow2, p, ms, ts) = UsesOf(bl, ow, p, ms, ts)
<1>1. \A b \in Blocks : \A i \in 1 .. Len(bl[b]) : ow2[b] = ow[b]
  OBVIOUS
<1>2. ASSUME NEW x \in PlacesOf(bl) PROVE ow2[x[1]] = ow[x[1]]
  <2>1. PICK b \in Blocks, i \in Nat : i \in 1 .. Len(bl[b]) /\ x = <<b, i>>
    BY PlaceIs
  <2> QED BY <1>1, <2>1
<1> QED BY <1>2 DEF UsesOf

-----------------------------------------------------------------------------
(* What a slot tells: whether its page is held, and how often it is used. *)

Held(c, q) == IF c[Slot[q]].pte = q THEN 1 ELSE 0

KeysRight(c) == impl \in {4, 5} => \A s \in Slots : c[s].pte # Null => c[s].key = c[s].pte

\* u: how often each page is used with a mark.
SlotsOf(c, u) ==
  /\ impl = 2 => \A s \in Slots : c[s].pte # Null /\ c[s].count # 0 => c[s].global = TRUE
  /\ \A s \in Slots : c[s].pte # Null => c[s].count = u[c[s].pte]
  /\ \A q \in Pages : u[q] # 0 => c[Slot[q]].pte = q

\* Looking a page up changes no slot that holds one.
SameHeld(c, d) ==
  /\ d \in [Slots -> NodeSet]
  /\ \A s \in Slots : d[s].pte = c[s].pte /\ (c[s].pte # Null => d[s] = c[s])

\* A lookup keeps every fact about the slots.
LEMMA SameHeldKeeps ==
  ASSUME NEW c, NEW d, Parameters, SlotsRight(c), KeysRight(c), SameHeld(c, d)
  PROVE  /\ SlotsRight(d) /\ KeysRight(d)
         /\ \A q \in Pages : Held(d, q) = Held(c, q)
         /\ \A u : SlotsOf(c, u) => SlotsOf(d, u)
<1>1. \A q \in Pages : Slot[q] \in Slots
  BY DEF Parameters
<1>2. SlotsRight(d)
  BY DEF SameHeld, SlotsRight
<1>3. KeysRight(d)
  BY DEF SameHeld, KeysRight
<1>4. \A q \in Pages : Held(d, q) = Held(c, q)
  BY <1>1 DEF SameHeld, Held
<1>5. ASSUME NEW u, SlotsOf(c, u) PROVE SlotsOf(d, u)
  <2>1. ASSUME impl = 2, NEW s \in Slots, d[s].pte # Null, d[s].count # 0
        PROVE  d[s].global = TRUE
    BY <1>5, <2>1 DEF SameHeld, SlotsOf
  <2>2. ASSUME NEW s \in Slots, d[s].pte # Null PROVE d[s].count = u[d[s].pte]
    BY <1>5, <2>2 DEF SameHeld, SlotsOf
  <2>3. ASSUME NEW q \in Pages, u[q] # 0 PROVE d[Slot[q]].pte = q
    BY <1>1, <1>5, <2>3 DEF SameHeld, SlotsOf
  <2> QED BY <2>1, <2>2, <2>3 DEF SlotsOf
<1> QED BY <1>2, <1>3, <1>4, <1>5

\* The page that came is held, the page that went is not, and the others stay.
Exchanged(c, r, p) ==
  /\ SlotsRight(r.slots) /\ KeysRight(r.slots)
  /\ r.ring \in Slots \cup {Null} /\ r.ok \in BOOLEAN
  /\ \A q \in r.drop : q \in Pages /\ Held(c, q) = 1
  /\ \A q \in Pages :
       Held(r.slots, q) = Held(c, q) + (IF q = p /\ r.ok = TRUE THEN 1 ELSE 0)
                                     - (IF q \in r.drop THEN 1 ELSE 0)

\* Insert exchanges one held page for another.
LEMMA InsertPins ==
  ASSUME NEW c, NEW g \in Slots \cup {Null}, NEW p \in Pages, NEW r, Parameters, impl \in Impls,
         SlotsRight(c), KeysRight(c), r = Insert(c, g, p)
  PROVE  Exchanged(c, r, p)
<1>1. /\ p # Null /\ Null \notin Pages /\ \A q \in Pages : Slot[q] \in Slots
      /\ \A s \in Slots : c[s].pte \in Pages \cup {Null}
      /\ \A s \in Slots : c[s].pte # Null => Slot[c[s].pte] = s
  BY DEF Parameters, SlotsRight, NodeSet
<1>2. CASE Left(c, r)
  <2>1. SlotsRight(r.slots)
    BY <1>2 DEF Left, SlotsRight
  <2>2. KeysRight(r.slots)
    BY <1>2 DEF Left, KeysRight
  <2>3. \A q \in Pages : Held(r.slots, q) = Held(c, q)
    BY <1>1, <1>2 DEF Left, Held
  <2>4. \A q \in Pages : Held(c, q) \in {0, 1}
    BY DEF Held
  <2>5. r.ok = FALSE /\ r.drop = {} /\ r.ring \in Slots \cup {Null}
    BY <1>2 DEF Left
  <2>6. ASSUME NEW q \in Pages
        PROVE  Held(r.slots, q) = Held(c, q) + (IF q = p /\ r.ok = TRUE THEN 1 ELSE 0)
                                             - (IF q \in r.drop THEN 1 ELSE 0)
    <3>1. (IF q = p /\ r.ok = TRUE THEN 1 ELSE 0) = 0
      BY <2>5
    <3>2. (IF q \in r.drop THEN 1 ELSE 0) = 0
      BY <2>5
    <3> QED BY <2>3, <2>4, <3>1, <3>2
  <2>7. r.ok \in BOOLEAN /\ \A q \in r.drop : q \in Pages /\ Held(c, q) = 1
    BY <2>5
  <2> QED BY <2>1, <2>2, <2>5, <2>6, <2>7 DEF Exchanged
<1>3. ASSUME NEW s0 \in Slots, Took(c, r, p, s0)
      PROVE  /\ SlotsRight(r.slots) /\ KeysRight(r.slots)
             /\ r.ring \in Slots \cup {Null} /\ r.ok = TRUE
             /\ \A q \in r.drop : q \in Pages /\ Held(c, q) = 1
             /\ \A q \in Pages :
                  Held(r.slots, q) = Held(c, q) + (IF q = p THEN 1 ELSE 0)
                                                - (IF q \in r.drop THEN 1 ELSE 0)
  <2> DEFINE s == Slot[p]
             e == r.slots
             d == c[s0].pte
  <2>1. /\ r.ok = TRUE /\ e \in [Slots -> NodeSet] /\ r.ring \in Slots \cup {Null}
        /\ e[s].pte = p /\ (impl \in {4, 5} => e[s].key = p)
        /\ r.drop = {d} \ {Null}
        /\ s0 = s \/ (c[s].pte = Null /\ e[s0].pte = Null)
        /\ \A z \in Slots \ {s0, s} : e[z] = c[z]
    BY <1>3 DEF Took
  <2>2. s \in Slots /\ s = Slot[p]
    BY <1>1
  <2> HIDE DEF s, e
  <2>3. SlotsRight(e)
    <3>1. ASSUME NEW z \in Slots, e[z].pte # Null PROVE Slot[e[z].pte] = z
      BY <1>1, <2>1, <2>2, <3>1
    <3> QED BY <2>1, <3>1 DEF SlotsRight
  <2>4. KeysRight(e)
    <3>1. ASSUME impl \in {4, 5}, NEW z \in Slots, e[z].pte # Null PROVE e[z].key = e[z].pte
      BY <2>1, <2>2, <3>1 DEF KeysRight
    <3> QED BY <3>1 DEF KeysRight
  <2>5. ASSUME NEW q \in r.drop PROVE q \in Pages /\ Held(c, q) = 1
    <3>1. q = d /\ d # Null
      BY <2>1, <2>5
    <3> QED BY <1>1, <3>1 DEF Held
  <2>6. ASSUME NEW q \in Pages
        PROVE  Held(e, q) = Held(c, q) + (IF q = p THEN 1 ELSE 0) - (IF q \in r.drop THEN 1 ELSE 0)
    <3>1. q \in r.drop <=> q = d
      BY <1>1, <2>1
    <3>2. d # Null => Slot[d] = s0
      BY <1>1
    <3>3. CASE q = p
      <4>1. Held(e, q) = 1
        BY <2>1, <2>2, <3>3 DEF Held
      <4>2. Held(c, q) = IF q = d THEN 1 ELSE 0
        BY <1>1, <2>1, <2>2, <3>2, <3>3 DEF Held
      <4> QED BY <3>1, <3>3, <4>1, <4>2
    <3>4. CASE q # p /\ Slot[q] \notin {s0, s}
      <4>1. Held(e, q) = Held(c, q)
        BY <1>1, <2>1, <3>4 DEF Held
      <4>2. q # d
        BY <1>1, <3>2, <3>4
      <4>3. Held(c, q) \in {0, 1}
        BY DEF Held
      <4> QED BY <3>1, <3>4, <4>1, <4>2, <4>3
    <3>5. CASE q # p /\ Slot[q] \in {s0, s}
      <4>1. Held(e, q) = 0
        BY <1>1, <2>1, <2>2, <3>5 DEF Held
      <4>2. Held(c, q) = IF q = d THEN 1 ELSE 0
        BY <1>1, <2>1, <2>2, <3>2, <3>5 DEF Held
      <4> QED BY <3>1, <3>5, <4>1, <4>2
    <3> QED BY <3>3, <3>4, <3>5
  <2> QED BY <2>1, <2>3, <2>4, <2>5, <2>6 DEF e
<1>4. ASSUME NEW s0 \in Slots, Took(c, r, p, s0)
      PROVE  \A q \in Pages :
               Held(r.slots, q) = Held(c, q) + (IF q = p /\ r.ok = TRUE THEN 1 ELSE 0)
                                             - (IF q \in r.drop THEN 1 ELSE 0)
  BY <1>3, <1>4
<1>5. Left(c, r) \/ \E s0 \in Slots : Took(c, r, p, s0)
  BY InsertIs
<1>6. ASSUME NEW s0 \in Slots, Took(c, r, p, s0) PROVE Exchanged(c, r, p)
  <2>1. r.ok \in BOOLEAN
    BY <1>3, <1>6
  <2> QED BY <1>3, <1>4, <1>6, <2>1 DEF Exchanged
<1> QED BY <1>2, <1>5, <1>6

\* The use counts u2 have entry e more than u if its mark is one of ms.
OneMore(u, u2, e, ms) ==
  \A q \in Pages : u2[q] = u[q] + (IF q = e.page /\ e.mark \in ms THEN 1 ELSE 0)

\* Entry y says what came of offering the page.
Tells(y, p, r) == y.page = p /\ y.mark = r.ok

\* A page is given up only when no block uses it, and comes with one use.
LEMMA InsertSlots ==
  ASSUME NEW c, NEW g \in Slots \cup {Null}, NEW p \in Pages, NEW r, NEW u \in [Pages -> Nat],
         NEW u2 \in [Pages -> Nat], NEW y, Parameters, impl \in Impls, SlotsRight(c),
         r = Insert(c, g, p), SlotsOf(c, u), Tells(y, p, r), OneMore(u, u2, y, Yes)
  PROVE  SlotsOf(r.slots, u2)
<1>1. /\ p # Null /\ Null \notin Pages /\ \A q \in Pages : Slot[q] \in Slots
      /\ c \in [Slots -> NodeSet]
      /\ \A s \in Slots : c[s].pte \in Pages \cup {Null}
      /\ \A s \in Slots : c[s].pte # Null => Slot[c[s].pte] = s
  BY DEF Parameters, SlotsRight, NodeSet
<1>2. CASE Left(c, r)
  <2>1. \A q \in Pages : u2[q] = u[q]
    <3>1. y.mark \notin Yes
      BY <1>2 DEF Left, Yes, Tells
    <3> QED BY <3>1 DEF OneMore
  <2>2. ASSUME impl = 2, NEW s \in Slots, r.slots[s].pte # Null, r.slots[s].count # 0
        PROVE  r.slots[s].global = TRUE
    BY <1>2, <2>2 DEF Left, SlotsOf
  <2>3. ASSUME NEW s \in Slots, r.slots[s].pte # Null
        PROVE  r.slots[s].count = u2[r.slots[s].pte]
    BY <1>1, <1>2, <2>1, <2>3 DEF Left, SlotsOf
  <2>4. ASSUME NEW q \in Pages, u2[q] # 0 PROVE r.slots[Slot[q]].pte = q
    BY <1>1, <1>2, <2>1, <2>4 DEF Left, SlotsOf
  <2> QED BY <2>2, <2>3, <2>4 DEF SlotsOf
<1>3. ASSUME NEW s0 \in Slots, Took(c, r, p, s0) PROVE SlotsOf(r.slots, u2)
  <2> DEFINE s == Slot[p]
             e == r.slots
             d == c[s0].pte
  <2>1. /\ r.ok = TRUE /\ e[s].pte = p /\ e[s].count = 1 /\ (impl = 2 => e[s].global = TRUE)
        /\ s0 = s \/ (c[s].pte = Null /\ e[s0].pte = Null)
        /\ \A z \in Slots \ {s0, s} : e[z] = c[z]
        /\ d # Null => c[s0].count = 0 \/ (impl = 2 /\ c[s0].global = FALSE)
    BY <1>3 DEF Took
  <2>2. s \in Slots /\ s = Slot[p]
    BY <1>1
  <2>3. \A q \in Pages : u2[q] = u[q] + (IF q = p THEN 1 ELSE 0)
    <3>1. y.mark \in Yes /\ y.page = p
      BY <2>1 DEF Yes, Tells
    <3> QED BY <3>1 DEF OneMore
  <2> HIDE DEF s, e
  <2>4. d # Null => u[d] = 0
    <3>1. d # Null => c[s0].count = 0
      BY <2>1 DEF SlotsOf
    <3> QED BY <3>1 DEF SlotsOf
  <2>5. u[p] = 0
    <3>1. ASSUME u[p] # 0 PROVE FALSE
      <4>1. c[s].pte = p
        BY <2>2, <3>1 DEF SlotsOf
      <4>2. s0 = s /\ d = p
        BY <1>1, <2>1, <4>1
      <4> QED BY <1>1, <2>4, <3>1, <4>2
    <3> QED BY <3>1
  <2>6. ASSUME impl = 2, NEW z \in Slots, e[z].pte # Null, e[z].count # 0
        PROVE  e[z].global = TRUE
    <3>1. CASE z = s
      BY <2>1, <2>6, <3>1
    <3>2. CASE z \notin {s0, s}
      BY <2>1, <2>6, <3>2 DEF SlotsOf
    <3> QED BY <2>1, <2>6, <3>1, <3>2
  <2>7. ASSUME NEW z \in Slots, e[z].pte # Null PROVE e[z].count = u2[e[z].pte]
    <3>1. CASE z = s
      <4>1. u2[p] = 1
        BY <2>3, <2>5
      <4> QED BY <2>1, <3>1, <4>1
    <3>2. CASE z \notin {s0, s}
      <4>1. e[z] = c[z] /\ c[z].pte \in Pages /\ c[z].count = u[c[z].pte]
        BY <1>1, <2>1, <2>7, <3>2 DEF SlotsOf
      <4>2. c[z].pte # p
        BY <1>1, <2>2, <2>7, <3>2, <4>1
      <4>3. u2[c[z].pte] = u[c[z].pte]
        BY <2>3, <4>1, <4>2
      <4> QED BY <4>1, <4>3
    <3> QED BY <2>1, <2>7, <3>1, <3>2
  <2>8. ASSUME NEW q \in Pages, u2[q] # 0 PROVE e[Slot[q]].pte = q
    <3>1. CASE q = p
      BY <2>1, <2>2, <3>1
    <3>2. CASE q # p
      <4>1. u[q] # 0
        BY <2>3, <2>8, <3>2
      <4>2. c[Slot[q]].pte = q /\ Slot[q] \in Slots
        BY <1>1, <4>1 DEF SlotsOf
      <4>3. q # d
        BY <1>1, <2>4, <4>1
      <4>4. Slot[q] \notin {s0, s}
        <5>1. Slot[q] # s0
          BY <4>2, <4>3
        <5>2. Slot[q] # s
          BY <1>1, <2>1, <4>2, <5>1
        <5> QED BY <5>1, <5>2
      <4>5. e[Slot[q]] = c[Slot[q]]
        BY <2>1, <4>2, <4>4
      <4> QED BY <4>2, <4>5
    <3> QED BY <3>1, <3>2
  <2> QED BY <2>6, <2>7, <2>8 DEF SlotsOf, e
<1>4. Left(c, r) \/ \E s0 \in Slots : Took(c, r, p, s0)
  BY InsertIs
<1> QED BY <1>2, <1>3, <1>4

-----------------------------------------------------------------------------
(* The invariant of the caches, the pools and the blocks, in any state. *)

HoldOf(ca, p) == {t \in Threads : ca[t][Slot[p]].pte = p}

\* How often each page is used by blocks of ts.  Uses without a mark took a
\* reference of their own, those with one use the slot's.
CountOf(bl, ow, ms, ts) == [p \in Pages |-> Cardinality(UsesOf(bl, ow, p, ms, ts))]
Plain(bl, ow) == CountOf(bl, ow, No, Threads)
Marked(bl, ow, t) == CountOf(bl, ow, Yes, {t})

Core(ca, rg, rf, rs, bl, ow) ==
  /\ ca \in [Threads -> [Slots -> NodeSet]]
  /\ \A t \in Threads : SlotsRight(ca[t]) /\ KeysRight(ca[t])
  /\ rg \in [Threads -> Slots \cup {Null}]
  /\ rf \in [Pages -> Nat] /\ rs \in SUBSET Pages
  /\ IsFiniteSet(rs) /\ Cardinality(rs) <= Frames
  /\ bl \in [Blocks -> Seq(EntrySet)] /\ ow \in [Blocks -> Threads \cup {Null}]
  /\ \A b \in Blocks : ow[b] = Null => bl[b] = <<>>
  /\ \A p \in Pages : rf[p] = Cardinality(HoldOf(ca, p)) + Plain(bl, ow)[p]
  /\ \A p \in Pages : rf[p] > 0 => p \in rs

SlotsTrue(ca, bl, ow) == \A t \in Threads : SlotsOf(ca[t], Marked(bl, ow, t))

\* The slots of one thread change: so does what it holds.
LEMMA HoldChange ==
  ASSUME NEW ca \in [Threads -> [Slots -> NodeSet]], NEW t \in Threads,
         NEW c \in [Slots -> NodeSet], NEW ca2, NEW p \in Pages, Parameters,
         ca2 = With(ca, t, c)
  PROVE  /\ Cardinality(HoldOf(ca, p)) \in Nat /\ Cardinality(HoldOf(ca2, p)) \in Nat
         /\ Cardinality(HoldOf(ca, p)) >= Held(ca[t], p)
         /\ Cardinality(HoldOf(ca2, p)) = Cardinality(HoldOf(ca, p)) - Held(ca[t], p) + Held(c, p)
<1> DEFINE H == HoldOf(ca, p)
           K == HoldOf(ca2, p)
           R == H \ {t}
<1>1. ca2[t] = c /\ \A z \in Threads \ {t} : ca2[z] = ca[z]
  BY DEF With
<1>2. t \in H <=> Held(ca[t], p) = 1
  BY DEF HoldOf, Held
<1>3. t \in K <=> Held(c, p) = 1
  BY <1>1 DEF HoldOf, Held
<1>4. K \ {t} = R
  BY <1>1 DEF HoldOf
<1>5. IsFiniteSet(H) /\ IsFiniteSet(K)
  <2>1. IsFiniteSet(Threads)
    BY DEF Parameters
  <2>2. H \in SUBSET Threads /\ K \in SUBSET Threads
    BY DEF HoldOf
  <2> HIDE DEF H, K
  <2> QED BY <2>1, <2>2, FS_Subset
<1>6. Held(ca[t], p) \in {0, 1} /\ Held(c, p) \in {0, 1}
  BY DEF Held
<1> HIDE DEF H, K, R
<1>7. Cardinality(H) \in Nat /\ Cardinality(K) \in Nat
  BY <1>5, FS_CardinalityType
<1>8. Cardinality(R) = Cardinality(H) - Held(ca[t], p)
  <2>1. Cardinality(H \ {t}) = IF t \in H THEN Cardinality(H) - 1 ELSE Cardinality(H)
    BY <1>5, FS_RemoveElement
  <2> QED BY <1>2, <1>6, <1>7, <2>1 DEF R
<1>9. Cardinality(R) = Cardinality(K) - Held(c, p)
  <2>1. Cardinality(K \ {t}) = IF t \in K THEN Cardinality(K) - 1 ELSE Cardinality(K)
    BY <1>5, FS_RemoveElement
  <2>2. Cardinality(K \ {t}) = Cardinality(R)
    BY <1>4, Zenon
  <2> QED BY <1>3, <1>6, <1>7, <2>1, <2>2
<1>10. Cardinality(R) \in Nat
  <2>1. IsFiniteSet(R)
    BY <1>5, FS_RemoveElement DEF R
  <2> QED BY <2>1, FS_CardinalityType
<1>11. /\ Cardinality(H) >= Held(ca[t], p)
       /\ Cardinality(K) = Cardinality(H) - Held(ca[t], p) + Held(c, p)
  BY <1>6, <1>7, <1>8, <1>9, <1>10
<1> QED BY <1>7, <1>11 DEF H, K

\* The counts are the cardinalities of the uses.
LEMMA CountIs ==
  ASSUME NEW bl \in [Blocks -> Seq(EntrySet)], NEW ow, NEW ms, NEW ts, Parameters
  PROVE  /\ CountOf(bl, ow, ms, ts) \in [Pages -> Nat]
         /\ \A p \in Pages : CountOf(bl, ow, ms, ts)[p] = Cardinality(UsesOf(bl, ow, p, ms, ts))
<1>1. \A p \in Pages : Cardinality(UsesOf(bl, ow, p, ms, ts)) \in Nat
  BY UsesFinite
<1> QED BY <1>1 DEF CountOf

\* A block gets a page: only its owner's uses of the page change.
LEMMA CountAppend ==
  ASSUME NEW bl, NEW bl2, NEW b, NEW e, NEW ow, NEW ms, NEW ts, Parameters, Grown(bl, bl2, b, e)
  PROVE  /\ bl2 \in [Blocks -> Seq(EntrySet)]
         /\ ow[b] \in ts => OneMore(CountOf(bl, ow, ms, ts), CountOf(bl2, ow, ms, ts), e, ms)
<1>1. bl \in [Blocks -> Seq(EntrySet)] /\ b \in Blocks /\ e \in EntrySet
  BY DEF Grown
<1>2. bl2 \in [Blocks -> Seq(EntrySet)]
  <2>1. bl[b] \in Seq(EntrySet)
    BY <1>1
  <2>2. Append(bl[b], e) \in Seq(EntrySet)
    BY <1>1, <2>1
  <2> QED BY <1>1, <2>2 DEF With, Grown
<1>3. ASSUME NEW q \in Pages
      PROVE  /\ Matches(e, q, ms) /\ ow[b] \in ts =>
                  CountOf(bl2, ow, ms, ts)[q] = CountOf(bl, ow, ms, ts)[q] + 1
             /\ ~(Matches(e, q, ms) /\ ow[b] \in ts) =>
                  CountOf(bl2, ow, ms, ts)[q] = CountOf(bl, ow, ms, ts)[q]
  <2>1. /\ Matches(e, q, ms) /\ ow[b] \in ts =>
             Cardinality(UsesOf(bl2, ow, q, ms, ts)) = Cardinality(UsesOf(bl, ow, q, ms, ts)) + 1
        /\ ~(Matches(e, q, ms) /\ ow[b] \in ts) =>
             Cardinality(UsesOf(bl2, ow, q, ms, ts)) = Cardinality(UsesOf(bl, ow, q, ms, ts))
    BY UsesAppend
  <2>2. CountOf(bl2, ow, ms, ts)[q] = Cardinality(UsesOf(bl2, ow, q, ms, ts))
    BY <1>1, <1>2, CountIs
  <2>3. CountOf(bl, ow, ms, ts)[q] = Cardinality(UsesOf(bl, ow, q, ms, ts))
    BY <1>1, CountIs
  <2> QED BY <2>1, <2>2, <2>3
<1>4. CountOf(bl, ow, ms, ts) \in [Pages -> Nat] /\ CountOf(bl2, ow, ms, ts) \in [Pages -> Nat]
  BY <1>1, <1>2, CountIs
<1>5. ASSUME ow[b] \in ts
      PROVE  OneMore(CountOf(bl, ow, ms, ts), CountOf(bl2, ow, ms, ts), e, ms)
  <2>1. ASSUME NEW q \in Pages
        PROVE  CountOf(bl2, ow, ms, ts)[q] =
                 CountOf(bl, ow, ms, ts)[q] + (IF q = e.page /\ e.mark \in ms THEN 1 ELSE 0)
    <3>1. CountOf(bl, ow, ms, ts)[q] \in Nat
      BY <1>4
    <3> QED BY <1>3, <1>5, <3>1 DEF Matches
  <2> QED BY <2>1 DEF OneMore
<1> QED BY <1>2, <1>5

\* The blocks stay blocks when one grows.
LEMMA CountTyped ==
  ASSUME NEW bl, NEW bl2, NEW b, NEW e, Parameters, Grown(bl, bl2, b, e)
  PROVE  bl2 \in [Blocks -> Seq(EntrySet)]
BY CountAppend

\* So another owner's uses stay,
LEMMA CountOther ==
  ASSUME NEW bl, NEW bl2, NEW b, NEW e, NEW ow, NEW ms, NEW ts,
         Parameters, Grown(bl, bl2, b, e), ow[b] \notin ts
  PROVE  CountOf(bl2, ow, ms, ts) = CountOf(bl, ow, ms, ts)
<1>1. bl \in [Blocks -> Seq(EntrySet)] /\ bl2 \in [Blocks -> Seq(EntrySet)]
  BY CountTyped DEF Grown
<1>2. ASSUME NEW q \in Pages
      PROVE  CountOf(bl2, ow, ms, ts)[q] = CountOf(bl, ow, ms, ts)[q]
  <2>1. Cardinality(UsesOf(bl2, ow, q, ms, ts)) = Cardinality(UsesOf(bl, ow, q, ms, ts))
    BY UsesAppend
  <2> QED BY <1>1, <2>1, CountIs
<1>3. CountOf(bl, ow, ms, ts) \in [Pages -> Nat] /\ CountOf(bl2, ow, ms, ts) \in [Pages -> Nat]
  BY <1>1, CountIs
<1> QED BY <1>2, <1>3

\* and those with the other mark.
LEMMA CountUnmatched ==
  ASSUME NEW bl, NEW bl2, NEW b, NEW e, NEW ow, NEW ms, NEW ts,
         Parameters, Grown(bl, bl2, b, e), \A q \in Pages : ~Matches(e, q, ms)
  PROVE  CountOf(bl2, ow, ms, ts) = CountOf(bl, ow, ms, ts)
<1>1. bl \in [Blocks -> Seq(EntrySet)] /\ bl2 \in [Blocks -> Seq(EntrySet)]
  BY CountTyped DEF Grown
<1>2. ASSUME NEW q \in Pages
      PROVE  CountOf(bl2, ow, ms, ts)[q] = CountOf(bl, ow, ms, ts)[q]
  <2>1. Cardinality(UsesOf(bl2, ow, q, ms, ts)) = Cardinality(UsesOf(bl, ow, q, ms, ts))
    BY UsesAppend
  <2> QED BY <1>1, <2>1, CountIs
<1>3. CountOf(bl, ow, ms, ts) \in [Pages -> Nat] /\ CountOf(bl2, ow, ms, ts) \in [Pages -> Nat]
  BY <1>1, CountIs
<1> QED BY <1>2, <1>3

\* An entry that counts is counted once.
LEMMA CountOneMore ==
  ASSUME NEW bl, NEW bl2, NEW b, NEW e, NEW ow, NEW ms, NEW ts,
         Parameters, Grown(bl, bl2, b, e), ow[b] \in ts
  PROVE  OneMore(CountOf(bl, ow, ms, ts), CountOf(bl2, ow, ms, ts), e, ms)
BY CountAppend

\* The fields of a new entry.
LEMMA NewIs ==
  ASSUME NEW p \in Pages, NEW m, m \in BOOLEAN
  PROVE  New(p, m) \in EntrySet /\ New(p, m).page = p /\ New(p, m).mark = m
BY DEF New, EntrySet

\* A fetch takes a frame that is free or that of a page without references.
CanFetch(rf, rs, p, gone) ==
  /\ gone \in SUBSET rs /\ p \notin gone /\ \A v \in gone : rf[v] = 0
  /\ p \in rs \/ Cardinality(rs \ gone) < Frames

\* A page that was fetched or pinned is offered to the slot, and the block gets it.
Offered(ca, rg, bl, t, b, p, c, r, ca2, bl2) ==
  /\ SameHeld(ca[t], c) /\ r = Insert(c, rg[t], p) /\ ca2 = With(ca, t, r.slots)
  /\ bl2 = With(bl, b, Append(bl[b], New(p, r.ok)))

Framed(rg, rf, rs, t, p, r, gone, rg2, rf2, rs2) ==
  /\ CanFetch(rf, rs, p, gone) /\ rg2 = With(rg, t, r.ring) /\ rs2 = (rs \ gone) \cup {p}
  /\ rf2 = [q \in Pages |->
              rf[q] + (IF q = p THEN 1 ELSE 0) - (IF q \in r.drop THEN 1 ELSE 0)]

\* A page offered to the cache keeps the core.
LEMMA OfferCore ==
  ASSUME NEW ca, NEW rg, NEW rf, NEW rs, NEW bl, NEW ow, NEW t \in Threads, NEW b \in Blocks,
         NEW p \in Pages, NEW c, NEW r, NEW gone, NEW ca2, NEW rg2, NEW bl2, NEW rs2, NEW rf2,
         Parameters, impl \in Impls, Core(ca, rg, rf, rs, bl, ow), ow[b] = t,
         Offered(ca, rg, bl, t, b, p, c, r, ca2, bl2),
         Framed(rg, rf, rs, t, p, r, gone, rg2, rf2, rs2)
  PROVE  Core(ca2, rg2, rf2, rs2, bl2, ow)
<1> USE DEF Offered, Framed
<1>1. /\ ca \in [Threads -> [Slots -> NodeSet]]
      /\ \A z \in Threads : SlotsRight(ca[z]) /\ KeysRight(ca[z])
      /\ rg \in [Threads -> Slots \cup {Null}]
      /\ rf \in [Pages -> Nat] /\ rs \in SUBSET Pages
      /\ IsFiniteSet(rs) /\ Cardinality(rs) <= Frames
      /\ bl \in [Blocks -> Seq(EntrySet)] /\ ow \in [Blocks -> Threads \cup {Null}]
      /\ \A d \in Blocks : ow[d] = Null => bl[d] = <<>>
      /\ \A q \in Pages : rf[q] = Cardinality(HoldOf(ca, q)) + Plain(bl, ow)[q]
      /\ \A q \in Pages : rf[q] > 0 => q \in rs
  BY DEF Core
<1>2. SlotsRight(c) /\ KeysRight(c) /\ \A q \in Pages : Held(c, q) = Held(ca[t], q)
  BY <1>1, SameHeldKeeps
<1>3. rg[t] \in Slots \cup {Null}
  BY <1>1
<1>4. /\ SlotsRight(r.slots) /\ KeysRight(r.slots)
      /\ r.ring \in Slots \cup {Null} /\ r.ok \in BOOLEAN
      /\ \A q \in Pages :
           Held(r.slots, q) = Held(c, q) + (IF q = p /\ r.ok = TRUE THEN 1 ELSE 0)
                                         - (IF q \in r.drop THEN 1 ELSE 0)
  <2>1. Exchanged(c, r, p)
    BY <1>2, <1>3, InsertPins
  <2> QED BY <2>1 DEF Exchanged
<1>5. /\ ca2 \in [Threads -> [Slots -> NodeSet]] /\ rg2 \in [Threads -> Slots \cup {Null}]
      /\ \A z \in Threads : SlotsRight(ca2[z]) /\ KeysRight(ca2[z])
  <2>1. r.slots \in [Slots -> NodeSet]
    BY <1>4 DEF SlotsRight
  <2> QED BY <1>1, <1>4, <2>1 DEF With
<1>6. PICK y \in EntrySet : /\ y.page = p /\ y.mark = r.ok
                          /\ Grown(bl, bl2, b, y)
  BY <1>1, <1>4, NewIs DEF Grown
<1>7. bl2 \in [Blocks -> Seq(EntrySet)] /\ OneMore(Plain(bl, ow), Plain(bl2, ow), y, No)
  <2>1. ow[b] \in Threads
    OBVIOUS
  <2> QED BY <1>1, <1>6, <2>1, CountAppend DEF Plain
<1>8. \A d \in Blocks : ow[d] = Null => bl2[d] = <<>>
  <2>1. t # Null
    BY DEF Parameters
  <2> QED BY <1>1, <2>1 DEF With
<1>9. ASSUME NEW q \in Pages
      PROVE  /\ rf2[q] = Cardinality(HoldOf(ca2, q)) + Plain(bl2, ow)[q]
             /\ rf2[q] \in Nat
  <2> DEFINE H == Cardinality(HoldOf(ca, q))
             K == Cardinality(HoldOf(ca2, q))
             new == IF q = p THEN 1 ELSE 0
             drop == IF q \in r.drop THEN 1 ELSE 0
             own == IF q = p /\ r.ok = TRUE THEN 1 ELSE 0
             pin == IF q = p /\ r.ok = FALSE THEN 1 ELSE 0
  <2>1. H \in Nat /\ K \in Nat /\ H >= Held(ca[t], q) /\ K = H - Held(ca[t], q) + Held(r.slots, q)
    <3>1. r.slots \in [Slots -> NodeSet]
      BY <1>4 DEF SlotsRight
    <3>2. /\ Cardinality(HoldOf(ca, q)) \in Nat /\ Cardinality(HoldOf(ca2, q)) \in Nat
          /\ Cardinality(HoldOf(ca, q)) >= Held(ca[t], q)
          /\ Cardinality(HoldOf(ca2, q)) =
               Cardinality(HoldOf(ca, q)) - Held(ca[t], q) + Held(r.slots, q)
      <4>1. ca \in [Threads -> [Slots -> NodeSet]]
        BY <1>1
      <4>2. ca2 = With(ca, t, r.slots)
        OBVIOUS
      <4> QED BY <3>1, <4>1, <4>2, HoldChange
    <3> QED BY <3>2
  <2>2. Held(r.slots, q) = Held(ca[t], q) + own - drop
    BY <1>2, <1>4
  <2>3. new = own + pin /\ new \in Nat /\ own \in Nat /\ pin \in Nat /\ drop \in Nat
    BY <1>4
  <2>4. Held(ca[t], q) \in Nat
    BY DEF Held
  <2>5. Plain(bl, ow)[q] \in Nat
    <3>1. Plain(bl, ow) \in [Pages -> Nat]
      BY <1>1, CountIs DEF Plain
    <3> QED BY <3>1
  <2>6. Plain(bl2, ow)[q] = Plain(bl, ow)[q] + pin
    <3>1. (y.mark \in No <=> r.ok = FALSE) /\ y.page = p
      BY <1>6 DEF No
    <3> QED BY <1>7, <3>1 DEF OneMore
  <2>7. rf[q] = H + Plain(bl, ow)[q]
    BY <1>1
  <2>8. rf2[q] = rf[q] + new - drop
    OBVIOUS
  <2> HIDE DEF H, K, new, drop, own, pin
  <2>9. rf2[q] = K + Plain(bl2, ow)[q] /\ rf2[q] \in Nat
    BY <2>1, <2>2, <2>3, <2>4, <2>5, <2>6, <2>7, <2>8
  <2> QED BY <2>9 DEF K
<1>10. rf2 \in [Pages -> Nat]
  BY <1>9
<1>11. ASSUME NEW q \in Pages, rf2[q] > 0 PROVE q \in rs2
  <2>1. CASE q # p
    <3>1. rf2[q] <= rf[q]
      BY <1>1, <2>1
    <3>2. rf[q] > 0
      BY <1>1, <1>10, <1>11, <3>1
    <3>3. q \in rs /\ q \notin gone
      BY <1>1, <3>2 DEF CanFetch
    <3> QED BY <3>3
  <2> QED BY <2>1
<1>12. rs2 \in SUBSET Pages /\ IsFiniteSet(rs2) /\ Cardinality(rs2) <= Frames
  <2>1. gone \in SUBSET rs /\ p \notin gone /\ (p \in rs \/ Cardinality(rs \ gone) < Frames)
    BY DEF CanFetch
  <2>2. IsFiniteSet(rs \ gone)
    BY <1>1, FS_Difference
  <2>3. /\ IsFiniteSet((rs \ gone) \cup {p})
        /\ Cardinality((rs \ gone) \cup {p}) =
             IF p \in rs \ gone THEN Cardinality(rs \ gone) ELSE Cardinality(rs \ gone) + 1
    BY <2>2, FS_AddElement
  <2>4. Cardinality(rs \ gone) \in Nat
    BY <2>2, FS_CardinalityType
  <2>5. Cardinality(rs \ gone) <= Cardinality(rs)
    <3>1. rs \ gone \in SUBSET rs
      OBVIOUS
    <3> QED BY <1>1, <3>1, FS_Subset
  <2>6. Cardinality(rs) \in Nat /\ Frames \in Nat
    BY <1>1, FS_CardinalityType DEF Parameters
  <2>7. Cardinality(rs2) <= Frames
    BY <1>1, <2>1, <2>3, <2>4, <2>5, <2>6
  <2> QED BY <1>1, <2>3, <2>7
<1> QED BY <1>1, <1>5, <1>7, <1>8, <1>9, <1>10, <1>11, <1>12 DEF Core

\* As it is the thread's own block, its slots keep their counts.
LEMMA OfferSlots ==
  ASSUME NEW ca, NEW rg, NEW rf, NEW rs, NEW bl, NEW ow, NEW t \in Threads, NEW b \in Blocks,
         NEW p \in Pages, NEW c, NEW r, NEW ca2, NEW bl2, Parameters, impl \in Impls,
         Core(ca, rg, rf, rs, bl, ow), SlotsTrue(ca, bl, ow), ow[b] = t,
         Offered(ca, rg, bl, t, b, p, c, r, ca2, bl2)
  PROVE  SlotsTrue(ca2, bl2, ow)
<1> USE DEF Offered
<1>1. /\ ca \in [Threads -> [Slots -> NodeSet]]
      /\ \A z \in Threads : SlotsRight(ca[z]) /\ KeysRight(ca[z])
      /\ rg[t] \in Slots \cup {Null} /\ bl \in [Blocks -> Seq(EntrySet)]
  BY DEF Core
<1>2. SlotsRight(c) /\ KeysRight(c) /\ \A u : SlotsOf(ca[t], u) => SlotsOf(c, u)
  BY <1>1, SameHeldKeeps
<1>3. r.ok \in BOOLEAN
  <2>1. Exchanged(c, r, p)
    BY <1>1, <1>2, InsertPins
  <2> QED BY <2>1 DEF Exchanged
<1>4. PICK y \in EntrySet : /\ y.page = p /\ y.mark = r.ok
                          /\ Grown(bl, bl2, b, y)
  BY <1>1, <1>3, NewIs DEF Grown
<1>5. bl2 \in [Blocks -> Seq(EntrySet)]
  BY <1>1, <1>4, CountAppend
<1>6. \A z : Marked(bl, ow, z) \in [Pages -> Nat] /\ Marked(bl2, ow, z) \in [Pages -> Nat]
  BY <1>1, <1>5, CountIs DEF Marked
<1>7. SlotsOf(ca2[t], Marked(bl2, ow, t))
  <2>1. SlotsOf(c, Marked(bl, ow, t))
    BY <1>2 DEF SlotsTrue
  <2>2. OneMore(Marked(bl, ow, t), Marked(bl2, ow, t), y, Yes)
    <3>1. ow[b] \in {t}
      OBVIOUS
    <3>2. OneMore(CountOf(bl, ow, Yes, {t}), CountOf(bl2, ow, Yes, {t}), y, Yes)
      BY <1>4, <3>1, CountOneMore
    <3> QED BY <3>2 DEF Marked
  <2>3. Tells(y, p, r)
    BY <1>4 DEF Tells
  <2>4. rg[t] \in Slots \cup {Null} /\ SlotsRight(c)
    BY <1>1, <1>2
  <2>5. SlotsOf(r.slots, Marked(bl2, ow, t))
    BY <1>6, <2>1, <2>2, <2>3, <2>4, InsertSlots
  <2> QED BY <1>1, <2>5 DEF With
<1>8. ASSUME NEW z \in Threads \ {t} PROVE SlotsOf(ca2[z], Marked(bl2, ow, z))
  <2>1. ca2[z] = ca[z]
    BY <1>1 DEF With
  <2>2. ow[b] \notin {z}
    OBVIOUS
  <2>3. Marked(bl2, ow, z) = Marked(bl, ow, z)
    <3>1. CountOf(bl2, ow, Yes, {z}) = CountOf(bl, ow, Yes, {z})
      BY <1>4, <2>2, CountOther
    <3> QED BY <3>1 DEF Marked
  <2> QED BY <2>1, <2>3 DEF SlotsTrue
<1> QED BY <1>7, <1>8 DEF SlotsTrue

-----------------------------------------------------------------------------
(* Taking a page from the slot. *)

\* An entry of a block is counted.
LEMMA UseCounts ==
  ASSUME NEW bl \in [Blocks -> Seq(EntrySet)], NEW ow, NEW q, NEW ms, NEW ts, NEW b \in Blocks,
         NEW i \in Nat, Parameters, UseHere(bl, ow, q, ms, ts, b, i)
  PROVE  q \in Pages /\ CountOf(bl, ow, ms, ts)[q] > 0
<1> DEFINE U == UsesOf(bl, ow, q, ms, ts)
<1>1. q \in Pages
  <2>1. bl[b] \in Seq(EntrySet) /\ i \in 1 .. Len(bl[b]) /\ bl[b][i].page = q
    BY DEF UseHere
  <2>2. bl[b][i] \in EntrySet
    BY <2>1
  <2> QED BY <2>1, <2>2 DEF EntrySet
<1>2. <<b, i>> \in U
  BY UseIs
<1>3. IsFiniteSet(U) /\ Cardinality(U) \in Nat
  BY UsesFinite
<1>4. Cardinality(U) # 0
  <2> HIDE DEF U
  <2> QED BY <1>2, <1>3, FS_EmptySet
<1>5. CountOf(bl, ow, ms, ts)[q] = Cardinality(U)
  BY <1>1, CountIs
<1> QED BY <1>1, <1>3, <1>4, <1>5

\* What is counted is an entry.
LEMMA CountUses ==
  ASSUME NEW bl \in [Blocks -> Seq(EntrySet)], NEW ow, NEW ms, NEW ts, NEW q \in Pages,
         Parameters, CountOf(bl, ow, ms, ts)[q] # 0
  PROVE  \E b \in Blocks, i \in Nat : UseHere(bl, ow, q, ms, ts, b, i)
<1> DEFINE U == UsesOf(bl, ow, q, ms, ts)
<1>1. CountOf(bl, ow, ms, ts)[q] = Cardinality(U)
  BY CountIs
<1>2. U # {}
  <2> HIDE DEF U
  <2> QED BY <1>1, FS_EmptySet
<1>3. PICK x : x \in U
  BY <1>2
<1> QED BY <1>3, UseIs

\* Looking a page up changes the node of its slot, but never its page.
Look(c, p, a, d) == a = Find(c[Slot[p]], p) /\ d = With(c, Slot[p], a.node)

Seen(c, p, a, d) ==
  /\ d \in [Slots -> NodeSet]
  /\ \A s \in Slots : d[s].pte = c[s].pte /\ d[s].key = c[s].key
  /\ \A s \in Slots \ {Slot[p]} : d[s] = c[s]
  /\ a.pte = Null => SameHeld(c, d)
  /\ a.pte = p => /\ c[Slot[p]].pte = p /\ d[Slot[p]].pte = p
                  /\ d[Slot[p]].count = (c[Slot[p]].count + 1) % Width
                  /\ impl = 2 => d[Slot[p]].global = TRUE

\* Looking a page up finds it and counts a use, or finds nothing.
LEMMA LookIs ==
  ASSUME NEW c \in [Slots -> NodeSet], NEW p \in Pages, NEW a, NEW d, Parameters,
         impl \in Impls, KeysRight(c), Look(c, p, a, d)
  PROVE  Seen(c, p, a, d)
<1> USE DEF Look
<1>1. Slot[p] \in Slots
  BY DEF Parameters
<1>2. PICK s \in Slots : s = Slot[p]
  BY <1>1
<1>3. PICK n \in NodeSet : n = c[s]
  OBVIOUS
<1>4. KeyOf(n)
  BY <1>3 DEF KeysRight, KeyOf
<1>5. /\ a.node \in NodeSet
      /\ a.node.pte = n.pte /\ a.node.key = n.key
      /\ a.pte = p => /\ n.pte = p /\ a.node.count = (n.count + 1) % Width
                      /\ impl = 2 => a.node.global = TRUE
      /\ a.pte = Null => (n.pte # Null => a.node = n)
  <2>1. a = Find(n, p)
    BY <1>2, <1>3
  <2>2. /\ Find(n, p).node \in NodeSet
        /\ Find(n, p).node.pte = n.pte /\ Find(n, p).node.key = n.key
        /\ Find(n, p).pte = p =>
             /\ n.pte = p /\ Find(n, p).node.count = (n.count + 1) % Width
             /\ impl = 2 => Find(n, p).node.global = TRUE
        /\ Find(n, p).pte = Null => n.pte # p /\ (n.pte # Null => Find(n, p).node = n)
    BY <1>4, FindIs
  <2> QED BY <2>1, <2>2
<1>6. /\ d \in [Slots -> NodeSet] /\ d[s] = a.node
      /\ \A z \in Slots \ {s} : d[z] = c[z]
  BY <1>2, <1>5 DEF With
<1>7. \A z \in Slots : d[z].pte = c[z].pte /\ d[z].key = c[z].key
  BY <1>3, <1>5, <1>6
<1>8. a.pte = Null => SameHeld(c, d)
  BY <1>3, <1>5, <1>6, <1>7 DEF SameHeld
<1>9. a.pte = p => /\ c[s].pte = p /\ d[s].pte = p /\ d[s].count = (c[s].count + 1) % Width
                   /\ impl = 2 => d[s].global = TRUE
  BY <1>3, <1>5, <1>6
<1> QED BY <1>2, <1>6, <1>7, <1>8, <1>9 DEF Seen

\* Slots that keep their pages hold what they held.
LEMMA SamePages ==
  ASSUME NEW c, NEW d \in [Slots -> NodeSet], Parameters, SlotsRight(c), KeysRight(c),
         \A s \in Slots : d[s].pte = c[s].pte /\ d[s].key = c[s].key
  PROVE  /\ SlotsRight(d) /\ KeysRight(d)
         /\ \A q \in Pages : Held(d, q) = Held(c, q)
<1>1. \A q \in Pages : Slot[q] \in Slots
  BY DEF Parameters
<1>2. SlotsRight(d)
  BY DEF SlotsRight
<1>3. KeysRight(d)
  BY DEF KeysRight
<1>4. \A q \in Pages : Held(d, q) = Held(c, q)
  BY <1>1 DEF Held
<1> QED BY <1>2, <1>3, <1>4

\* Slots that hold a page as before leave its holders alike in number.
LEMMA SameHolders ==
  ASSUME NEW ca \in [Threads -> [Slots -> NodeSet]], NEW t \in Threads,
         NEW d \in [Slots -> NodeSet], NEW q \in Pages, Parameters, Held(d, q) = Held(ca[t], q)
  PROVE  Cardinality(HoldOf(With(ca, t, d), q)) = Cardinality(HoldOf(ca, q))
<1> DEFINE ca2 == With(ca, t, d)
<1> HIDE DEF ca2
<1>1. ca2 = With(ca, t, d)
  BY DEF ca2
<1>2. /\ Cardinality(HoldOf(ca, q)) \in Nat
      /\ Cardinality(HoldOf(ca2, q)) = Cardinality(HoldOf(ca, q)) - Held(ca[t], q) + Held(d, q)
  BY <1>1, HoldChange
<1>3. Held(d, q) \in Nat
  BY DEF Held
<1>4. Cardinality(HoldOf(ca2, q)) = Cardinality(HoldOf(ca, q))
  BY <1>2, <1>3
<1> QED BY <1>1, <1>4

\* Thread t found page p in its slot; y is the block's entry for it.
Taken(ca, t, p, a, d, y) ==
  Seen(ca[t], p, a, d) /\ a.pte = p /\ y.page = p /\ y.mark = TRUE

\* A hit adds a marked use, and changes nothing about the references.
LEMMA HitCore ==
  ASSUME NEW ca, NEW rg, NEW rf, NEW rs, NEW bl, NEW ow, NEW t \in Threads, NEW b \in Blocks,
         NEW p \in Pages, NEW a, NEW d, NEW y, NEW bl2, Parameters, impl \in Impls,
         Core(ca, rg, rf, rs, bl, ow), ow[b] = t, Taken(ca, t, p, a, d, y), Grown(bl, bl2, b, y)
  PROVE  Core(With(ca, t, d), rg, rf, rs, bl2, ow)
<1> USE DEF Taken, Seen
<1>1. /\ ca \in [Threads -> [Slots -> NodeSet]]
      /\ \A z \in Threads : SlotsRight(ca[z]) /\ KeysRight(ca[z])
      /\ rg \in [Threads -> Slots \cup {Null}]
      /\ rf \in [Pages -> Nat] /\ rs \in SUBSET Pages
      /\ IsFiniteSet(rs) /\ Cardinality(rs) <= Frames
      /\ bl \in [Blocks -> Seq(EntrySet)] /\ ow \in [Blocks -> Threads \cup {Null}]
      /\ \A x \in Blocks : ow[x] = Null => bl[x] = <<>>
      /\ \A q \in Pages : rf[q] = Cardinality(HoldOf(ca, q)) + Plain(bl, ow)[q]
      /\ \A q \in Pages : rf[q] > 0 => q \in rs
  BY DEF Core
<1>2. SlotsRight(d) /\ KeysRight(d) /\ \A q \in Pages : Held(d, q) = Held(ca[t], q)
  BY <1>1, SamePages
<1> DEFINE ca2 == With(ca, t, d)
<1>3. /\ ca2 \in [Threads -> [Slots -> NodeSet]]
      /\ \A z \in Threads : SlotsRight(ca2[z]) /\ KeysRight(ca2[z])
  BY <1>1, <1>2 DEF With
<1>4. bl2 \in [Blocks -> Seq(EntrySet)] /\ Plain(bl2, ow) = Plain(bl, ow)
  <2>1. \A q \in Pages : ~Matches(y, q, No)
    <3>1. y.mark \in BOOLEAN /\ y.mark = TRUE
      BY DEF Grown, EntrySet
    <3>2. y.mark \notin No
      BY <3>1 DEF No
    <3> QED BY <3>2 DEF Matches
  <2>2. Grown(bl, bl2, b, y) /\ bl \in [Blocks -> Seq(EntrySet)]
    BY <1>1
  <2>3. /\ bl2 \in [Blocks -> Seq(EntrySet)]
        /\ CountOf(bl2, ow, No, Threads) = CountOf(bl, ow, No, Threads)
    BY <2>1, <2>2, CountTyped, CountUnmatched
  <2> QED BY <2>3 DEF Plain
<1>5. \A x \in Blocks : ow[x] = Null => bl2[x] = <<>>
  <2>1. t # Null
    BY DEF Parameters
  <2> QED BY <1>1, <2>1 DEF With, Grown
<1>6. ASSUME NEW q \in Pages PROVE rf[q] = Cardinality(HoldOf(ca2, q)) + Plain(bl2, ow)[q]
  <2>1. Cardinality(HoldOf(ca2, q)) = Cardinality(HoldOf(ca, q))
    BY <1>1, <1>2, SameHolders
  <2>2. Plain(bl2, ow)[q] = Plain(bl, ow)[q]
    BY <1>4
  <2> QED BY <1>1, <2>1, <2>2
<1> QED BY <1>1, <1>3, <1>4, <1>5, <1>6 DEF Core

FitsOf(bl, ow) == \A t \in Threads, p \in Pages : Marked(bl, ow, t)[p] < Width

\* The slot counts the use, which fits in the count.
LEMMA HitSlots ==
  ASSUME NEW ca, NEW rg, NEW rf, NEW rs, NEW bl, NEW ow, NEW t \in Threads, NEW b \in Blocks,
         NEW p \in Pages, NEW a, NEW d, NEW y, NEW bl2, Parameters, impl \in Impls,
         Core(ca, rg, rf, rs, bl, ow), SlotsTrue(ca, bl, ow), ow[b] = t,
         Taken(ca, t, p, a, d, y), Grown(bl, bl2, b, y), FitsOf(bl2, ow)
  PROVE  SlotsTrue(With(ca, t, d), bl2, ow)
<1> USE DEF Taken, Seen, FitsOf
<1> DEFINE ca2 == With(ca, t, d)
           c == ca[t]
           u == Marked(bl, ow, t)
           u2 == Marked(bl2, ow, t)
<1>1. /\ ca \in [Threads -> [Slots -> NodeSet]] /\ bl \in [Blocks -> Seq(EntrySet)]
      /\ SlotsRight(c) /\ SlotsOf(c, u)
  BY DEF Core, SlotsTrue
<1>2. bl2 \in [Blocks -> Seq(EntrySet)]
  BY <1>1, CountAppend
<1>3. u \in [Pages -> Nat] /\ u2 \in [Pages -> Nat]
  BY <1>1, <1>2, CountIs DEF Marked
<1>4. \A q \in Pages : u2[q] = u[q] + (IF q = p THEN 1 ELSE 0)
  <2>1. ow[b] \in {t} /\ y.mark \in Yes /\ y.page = p
    BY DEF Yes
  <2>2. OneMore(u, u2, y, Yes)
    BY <1>1, <2>1, CountOneMore DEF Marked
  <2> QED BY <2>1, <2>2 DEF OneMore
<1>5. ASSUME NEW z \in Threads \ {t} PROVE SlotsOf(ca2[z], Marked(bl2, ow, z))
  <2>1. ca2[z] = ca[z]
    BY <1>1 DEF With
  <2>2. ow[b] \notin {z}
    OBVIOUS
  <2>3. Marked(bl2, ow, z) = Marked(bl, ow, z)
    <3>1. Grown(bl, bl2, b, y) /\ bl \in [Blocks -> Seq(EntrySet)]
      BY <1>1
    <3>2. CountOf(bl2, ow, Yes, {z}) = CountOf(bl, ow, Yes, {z})
      BY <2>2, <3>1, CountOther
    <3> QED BY <3>2 DEF Marked
  <2> QED BY <2>1, <2>3 DEF SlotsTrue
<1>6. ca2[t] = d
  BY <1>1 DEF With
<1>7. /\ p # Null /\ \A q \in Pages : Slot[q] \in Slots
      /\ \A s \in Slots : c[s].pte \in Pages \cup {Null}
      /\ \A s \in Slots : c[s].pte # Null => Slot[c[s].pte] = s
      /\ Width \in Nat /\ Width > 1
  BY <1>1 DEF Parameters, SlotsRight, NodeSet
<1>8. d[Slot[p]].count = u2[p]
  <2>1. c[Slot[p]].count = u[p]
    BY <1>1, <1>7 DEF SlotsOf
  <2>2. u2[p] = u[p] + 1 /\ u[p] \in Nat /\ u2[p] < Width
    BY <1>3, <1>4
  <2>3. d[Slot[p]].count = (u[p] + 1) % Width
    BY <2>1
  <2> HIDE DEF u, u2, c
  <2> QED BY <1>7, <2>2, <2>3
<1> HIDE DEF u, u2, ca2, c
<1>9. SlotsOf(d, u2)
  <2>1. \A s \in Slots \ {Slot[p]} : d[s] = c[s]
    BY DEF c
  <2>2. ASSUME impl = 2, NEW s \in Slots, d[s].pte # Null, d[s].count # 0
        PROVE  d[s].global = TRUE
    <3>1. CASE s = Slot[p]
      BY <2>2, <3>1
    <3>2. CASE s # Slot[p]
      BY <1>1, <2>1, <2>2, <3>2 DEF SlotsOf
    <3> QED BY <3>1, <3>2
  <2>3. ASSUME NEW s \in Slots, d[s].pte # Null PROVE d[s].count = u2[d[s].pte]
    <3>1. CASE s = Slot[p]
      BY <1>8, <3>1
    <3>2. CASE s # Slot[p]
      <4>1. d[s] = c[s] /\ c[s].pte \in Pages /\ c[s].count = u[c[s].pte]
        BY <1>1, <1>7, <2>1, <2>3, <3>2 DEF SlotsOf
      <4>2. c[s].pte # p
        BY <1>7, <2>3, <3>2, <4>1
      <4>3. u2[c[s].pte] = u[c[s].pte]
        BY <1>3, <1>4, <4>1, <4>2
      <4> QED BY <4>1, <4>3
    <3> QED BY <3>1, <3>2
  <2>4. ASSUME NEW q \in Pages, u2[q] # 0 PROVE d[Slot[q]].pte = q
    <3>1. CASE q = p
      BY <3>1
    <3>2. CASE q # p
      <4>1. u[q] # 0
        BY <1>3, <1>4, <2>4, <3>2
      <4>2. c[Slot[q]].pte = q /\ Slot[q] \in Slots
        BY <1>1, <1>7, <4>1 DEF SlotsOf
      <4>3. Slot[q] # Slot[p]
        BY <3>2, <4>2 DEF c
      <4> QED BY <2>1, <4>2, <4>3
    <3> QED BY <3>1, <3>2
  <2> QED BY <2>2, <2>3, <2>4 DEF SlotsOf
<1>10. ASSUME NEW z \in Threads PROVE SlotsOf(ca2[z], Marked(bl2, ow, z))
  BY <1>5, <1>6, <1>9 DEF u2
<1> QED BY <1>10 DEF SlotsTrue, ca2

-----------------------------------------------------------------------------
(* Giving a block back. *)

EntersOf(bl, b, ms) == [q \in Pages |-> Cardinality(EnteredOf(bl, b, q, ms))]

\* The uses of the block are gone, if it was one of the owners'.
CountsLost(bl, bl2, ow, ow2, b, ms, ts) ==
  /\ CountOf(bl, ow, ms, ts) \in [Pages -> Nat]
  /\ CountOf(bl2, ow2, ms, ts) \in [Pages -> Nat]
  /\ EntersOf(bl, b, ms) \in [Pages -> Nat]
  /\ \A q \in Pages : ow[b] \in ts =>
       CountOf(bl, ow, ms, ts)[q] = CountOf(bl2, ow2, ms, ts)[q] + EntersOf(bl, b, ms)[q]
  /\ \A q \in Pages : ow[b] \notin ts =>
       CountOf(bl, ow, ms, ts)[q] = CountOf(bl2, ow2, ms, ts)[q]

\* UsesRelease, for the counts.
LEMMA CountRelease ==
  ASSUME NEW bl, NEW bl2, NEW ow, NEW ow2, NEW b, NEW ms, NEW ts, Parameters,
         Emptied(bl, bl2, ow, ow2, b)
  PROVE  CountsLost(bl, bl2, ow, ow2, b, ms, ts)
<1>1. bl \in [Blocks -> Seq(EntrySet)] /\ bl2 \in [Blocks -> Seq(EntrySet)]
  BY DEF With, Emptied
<1>2. /\ CountOf(bl, ow, ms, ts) \in [Pages -> Nat]
      /\ CountOf(bl2, ow2, ms, ts) \in [Pages -> Nat]
  BY <1>1, CountIs
<1>3. ASSUME NEW q \in Pages
      PROVE  /\ EntersOf(bl, b, ms)[q] \in Nat
             /\ ow[b] \in ts =>
                  CountOf(bl, ow, ms, ts)[q] = CountOf(bl2, ow2, ms, ts)[q] + EntersOf(bl, b, ms)[q]
             /\ ow[b] \notin ts => CountOf(bl, ow, ms, ts)[q] = CountOf(bl2, ow2, ms, ts)[q]
  <2>1. UsesLost(bl, bl2, ow, ow2, b, q, ms, ts)
    BY UsesRelease
  <2>2. EntersOf(bl, b, ms)[q] = Cardinality(EnteredOf(bl, b, q, ms))
    BY DEF EntersOf
  <2>3. CountOf(bl2, ow2, ms, ts)[q] = Cardinality(UsesOf(bl2, ow2, q, ms, ts))
    BY <1>1, CountIs
  <2>4. CountOf(bl, ow, ms, ts)[q] = Cardinality(UsesOf(bl, ow, q, ms, ts))
    BY <1>1, CountIs
  <2>5. CountOf(bl2, ow2, ms, ts)[q] \in Nat
    BY <1>2
  <2> QED BY <2>1, <2>2, <2>3, <2>4, <2>5 DEF UsesLost
<1>4. EntersOf(bl, b, ms) \in [Pages -> Nat]
  BY <1>3 DEF EntersOf
<1> QED BY <1>2, <1>3, <1>4 DEF CountsLost

\* The counts of the other owners stay.
LEMMA CountKept ==
  ASSUME NEW bl, NEW bl2, NEW ow, NEW ow2, NEW b, NEW ms, NEW ts, Parameters,
         Emptied(bl, bl2, ow, ow2, b), ow[b] \notin ts
  PROVE  CountOf(bl, ow, ms, ts) = CountOf(bl2, ow2, ms, ts)
<1>1. /\ CountOf(bl, ow, ms, ts) \in [Pages -> Nat]
      /\ CountOf(bl2, ow2, ms, ts) \in [Pages -> Nat]
      /\ \A q \in Pages : CountOf(bl, ow, ms, ts)[q] = CountOf(bl2, ow2, ms, ts)[q]
  <2>1. CountsLost(bl, bl2, ow, ow2, b, ms, ts)
    BY CountRelease
  <2> QED BY <2>1 DEF CountsLost
<1> QED BY <1>1

\* Erase changes the count alone, and that of an empty slot not at all.
LEMMA EraseIs ==
  ASSUME NEW n \in NodeSet, NEW k \in Nat, Parameters, impl \in Impls
  PROVE  /\ Erase(n, k) \in NodeSet
         /\ Erase(n, k).pte = n.pte /\ Erase(n, k).key = n.key /\ Erase(n, k).global = n.global
         /\ n.pte # Null => Erase(n, k).count = (n.count - k) % Width
<1>1. Erase(n, k) = Erase1(n, k)
  <2>1. impl \in 1 .. 5
    BY DEF Parameters
  <2> QED BY <2>1 DEF Erase, Of, Erase2, Erase3, Erase4, Erase5
<1>2. CASE n.pte = Null
  BY <1>1, <1>2 DEF Erase1
<1>3. CASE n.pte # Null
  <2>1. (n.count - k) % Width \in 0 .. Width - 1
    BY DEF Parameters, NodeSet
  <2>2. PICK j \in 0 .. Width - 1 : j = (n.count - k) % Width
    BY <2>1
  <2>3. Erase(n, k) = [n EXCEPT !.count = j]
    BY <1>1, <1>3, <2>2 DEF Erase1, NodeSet
  <2> QED BY <2>2, <2>3 DEF NodeSet
<1> QED BY <1>2, <1>3

MarkedAt(bl, b, s) == {i \in DOMAIN bl[b] : bl[b][i].mark = TRUE /\ Slot[bl[b][i].page] = s}

\* Thread t erased block b from its slots.
Erased(ca, t, bl, b, d) ==
  /\ d \in [Slots -> NodeSet]
  /\ \A s \in Slots : /\ d[s].pte = ca[t][s].pte /\ d[s].key = ca[t][s].key
                      /\ d[s].global = ca[t][s].global
  /\ \A s \in Slots : ca[t][s].pte # Null =>
       d[s].count = (ca[t][s].count - Cardinality(MarkedAt(bl, b, s))) % Width

Unpinned(rf, rf2, bl, b) == rf2 = [q \in Pages |-> rf[q] - EntersOf(bl, b, No)[q]]

\* The pages without a mark are counted down, whoever releases the block.
LEMMA FreeCore ==
  ASSUME NEW ca, NEW rg, NEW rf, NEW rs, NEW bl, NEW ow, NEW t \in Threads, NEW b \in Blocks,
         NEW d, NEW rf2, NEW bl2, NEW ow2, Parameters, impl \in Impls,
         Core(ca, rg, rf, rs, bl, ow), ow[b] \in Threads, Erased(ca, t, bl, b, d),
         Unpinned(rf, rf2, bl, b), Emptied(bl, bl2, ow, ow2, b)
  PROVE  Core(With(ca, t, d), rg, rf2, rs, bl2, ow2)
<1> USE DEF Erased, Unpinned
<1>1. /\ ca \in [Threads -> [Slots -> NodeSet]]
      /\ \A z \in Threads : SlotsRight(ca[z]) /\ KeysRight(ca[z])
      /\ rg \in [Threads -> Slots \cup {Null}]
      /\ rf \in [Pages -> Nat] /\ rs \in SUBSET Pages
      /\ IsFiniteSet(rs) /\ Cardinality(rs) <= Frames
      /\ bl \in [Blocks -> Seq(EntrySet)] /\ ow \in [Blocks -> Threads \cup {Null}]
      /\ \A x \in Blocks : ow[x] = Null => bl[x] = <<>>
      /\ \A q \in Pages : rf[q] = Cardinality(HoldOf(ca, q)) + Plain(bl, ow)[q]
      /\ \A q \in Pages : rf[q] > 0 => q \in rs
  BY DEF Core
<1>2. SlotsRight(d) /\ KeysRight(d) /\ \A q \in Pages : Held(d, q) = Held(ca[t], q)
  BY <1>1, SamePages
<1> DEFINE ca2 == With(ca, t, d)
<1>3. /\ ca2 \in [Threads -> [Slots -> NodeSet]]
      /\ \A z \in Threads : SlotsRight(ca2[z]) /\ KeysRight(ca2[z])
  BY <1>1, <1>2 DEF With
<1>4. /\ bl2 \in [Blocks -> Seq(EntrySet)] /\ ow2 \in [Blocks -> Threads \cup {Null}]
      /\ Plain(bl2, ow2) \in [Pages -> Nat] /\ EntersOf(bl, b, No) \in [Pages -> Nat]
      /\ \A q \in Pages : Plain(bl, ow)[q] = Plain(bl2, ow2)[q] + EntersOf(bl, b, No)[q]
  <2>1. bl2 \in [Blocks -> Seq(EntrySet)] /\ ow2 \in [Blocks -> Threads \cup {Null}]
    BY DEF With, Emptied
  <2>2. CountsLost(bl, bl2, ow, ow2, b, No, Threads)
    BY CountRelease
  <2> QED BY <2>1, <2>2 DEF Plain, CountsLost
<1>5. \A x \in Blocks : ow2[x] = Null => bl2[x] = <<>>
  BY <1>1 DEF With, Emptied
<1>6. ASSUME NEW q \in Pages
      PROVE  /\ rf2[q] = Cardinality(HoldOf(ca2, q)) + Plain(bl2, ow2)[q]
             /\ rf2[q] \in Nat /\ rf2[q] <= rf[q]
  <2>1. Cardinality(HoldOf(ca2, q)) = Cardinality(HoldOf(ca, q))
    BY <1>1, <1>2, SameHolders
  <2>2. Cardinality(HoldOf(ca, q)) \in Nat
    BY <1>1, HoldChange
  <2>3. rf[q] = Cardinality(HoldOf(ca, q)) + Plain(bl, ow)[q]
    BY <1>1
  <2>4. rf2[q] = rf[q] - EntersOf(bl, b, No)[q]
    OBVIOUS
  <2>5. Plain(bl2, ow2)[q] \in Nat /\ EntersOf(bl, b, No)[q] \in Nat
    BY <1>4
  <2>6. Plain(bl, ow)[q] = Plain(bl2, ow2)[q] + EntersOf(bl, b, No)[q]
    BY <1>4
  <2> HIDE DEF ca2
  <2> QED BY <2>1, <2>2, <2>3, <2>4, <2>5, <2>6
<1>7. rf2 \in [Pages -> Nat]
  BY <1>6
<1>8. \A q \in Pages : rf2[q] > 0 => q \in rs
  BY <1>1, <1>6
<1> HIDE DEF ca2
<1>9. Core(ca2, rg, rf2, rs, bl2, ow2)
  BY <1>1, <1>3, <1>4, <1>5, <1>6, <1>7, <1>8 DEF Core
<1> QED BY <1>9 DEF ca2

\* In its owner's slots the marked pages of a block are all found again.
LEMMA MarkedIs ==
  ASSUME NEW bl \in [Blocks -> Seq(EntrySet)], NEW ow, NEW t, NEW b \in Blocks, NEW c,
         NEW s \in Slots, Parameters, SlotsRight(c), SlotsOf(c, Marked(bl, ow, t)), ow[b] = t,
         c[s].pte # Null
  PROVE  MarkedAt(bl, b, s) = EnteredOf(bl, b, c[s].pte, Yes)
<1>1. bl[b] \in Seq(EntrySet) /\ DOMAIN bl[b] = 1 .. Len(bl[b])
  OBVIOUS
<1>2. ASSUME NEW i \in 1 .. Len(bl[b]) PROVE bl[b][i].mark \in BOOLEAN
  <2>1. bl[b][i] \in EntrySet
    BY <1>1
  <2> QED BY <2>1 DEF EntrySet
<1>3. ASSUME NEW i \in 1 .. Len(bl[b]), bl[b][i].mark = TRUE
      PROVE  Slot[bl[b][i].page] = s <=> bl[b][i].page = c[s].pte
  <2>1. PICK q : q = bl[b][i].page
    OBVIOUS
  <2>2. UseHere(bl, ow, q, Yes, {t}, b, i) /\ i \in Nat
    <3>1. ow[b] \in {t} /\ bl[b][i].mark \in Yes
      BY <1>3 DEF Yes
    <3> QED BY <1>1, <2>1, <3>1 DEF UseHere
  <2>3. q \in Pages /\ CountOf(bl, ow, Yes, {t})[q] > 0
    BY <2>2, UseCounts
  <2>4. Marked(bl, ow, t)[q] # 0
    BY <2>3 DEF Marked
  <2>5. c[Slot[q]].pte = q
    BY <2>3, <2>4 DEF SlotsOf
  <2>6. Slot[c[s].pte] = s
    BY DEF SlotsRight
  <2> QED BY <2>1, <2>5, <2>6
<1>4. ASSUME NEW i \in 1 .. Len(bl[b])
      PROVE  i \in MarkedAt(bl, b, s) <=> i \in EnteredOf(bl, b, c[s].pte, Yes)
  <2>1. bl[b][i].mark \in Yes <=> bl[b][i].mark = TRUE
    BY DEF Yes
  <2> QED BY <1>1, <1>3, <2>1 DEF MarkedAt, EnteredOf
<1>5. /\ MarkedAt(bl, b, s) \subseteq 1 .. Len(bl[b])
      /\ EnteredOf(bl, b, c[s].pte, Yes) \subseteq 1 .. Len(bl[b])
  BY <1>1 DEF MarkedAt, EnteredOf
<1> QED BY <1>4, <1>5

\* A count less those of the block is a count again.
LEMMA Less ==
  ASSUME NEW n \in Nat, NEW v \in Nat, NEW k \in Nat, Parameters, n \in 0 .. Width - 1, n = v + k
  PROVE  (n - k) % Width = v
<1>1. n - k = v /\ v \in 0 .. Width - 1 /\ Width \in Nat /\ Width > 1
  BY DEF Parameters
<1> QED BY <1>1

\* A thread that releases its own block counts its slots down to what is left.
LEMMA FreeSlots ==
  ASSUME NEW ca, NEW rg, NEW rf, NEW rs, NEW bl, NEW ow, NEW t \in Threads, NEW b \in Blocks,
         NEW d, NEW bl2, NEW ow2, Parameters, impl \in Impls, Core(ca, rg, rf, rs, bl, ow),
         SlotsTrue(ca, bl, ow), ow[b] = t, Erased(ca, t, bl, b, d), Emptied(bl, bl2, ow, ow2, b)
  PROVE  SlotsTrue(With(ca, t, d), bl2, ow2)
<1> USE DEF Erased
<1> DEFINE ca2 == With(ca, t, d)
           c == ca[t]
           u == Marked(bl, ow, t)
           u2 == Marked(bl2, ow2, t)
           k == EntersOf(bl, b, Yes)
<1>1. /\ ca \in [Threads -> [Slots -> NodeSet]] /\ bl \in [Blocks -> Seq(EntrySet)]
      /\ ow \in [Blocks -> Threads \cup {Null}] /\ SlotsRight(c) /\ SlotsOf(c, u)
  BY DEF Core, SlotsTrue
<1>2. /\ u \in [Pages -> Nat] /\ u2 \in [Pages -> Nat] /\ k \in [Pages -> Nat]
      /\ \A q \in Pages : u[q] = u2[q] + k[q]
  <2>1. ow[b] \in {t}
    OBVIOUS
  <2>2. CountsLost(bl, bl2, ow, ow2, b, Yes, {t})
    BY CountRelease
  <2> QED BY <2>1, <2>2 DEF Marked, CountsLost
<1>3. ASSUME NEW z \in Threads \ {t} PROVE SlotsOf(ca2[z], Marked(bl2, ow2, z))
  <2>1. ca2[z] = ca[z]
    BY <1>1 DEF With
  <2>2. ow[b] \notin {z}
    OBVIOUS
  <2>3. CountOf(bl, ow, Yes, {z}) = CountOf(bl2, ow2, Yes, {z})
    BY <2>2, CountKept
  <2> QED BY <2>1, <2>3 DEF SlotsTrue, Marked
<1>4. ca2[t] = d
  BY <1>1 DEF With
<1>5. /\ \A q \in Pages : Slot[q] \in Slots
      /\ \A s \in Slots : c[s].pte \in Pages \cup {Null} /\ c[s].count \in 0 .. Width - 1
  BY <1>1 DEF Parameters, SlotsRight, NodeSet
<1>6. ASSUME NEW s \in Slots, c[s].pte # Null PROVE d[s].count = u2[c[s].pte]
  <2>1. MarkedAt(bl, b, s) = EnteredOf(bl, b, c[s].pte, Yes)
    BY <1>1, <1>6, MarkedIs
  <2>2. PICK q \in Pages : q = c[s].pte
    BY <1>5, <1>6
  <2>3. Cardinality(MarkedAt(bl, b, s)) = k[q]
    <3>1. Cardinality(MarkedAt(bl, b, s)) = Cardinality(EnteredOf(bl, b, q, Yes))
      BY <2>1, <2>2, Zenon
    <3> QED BY <3>1 DEF EntersOf
  <2>4. c[s].count = u[q]
    BY <1>1, <1>6, <2>2 DEF SlotsOf
  <2>5. d[s].count = (u[q] - k[q]) % Width
    BY <1>6, <2>3, <2>4
  <2>6. /\ u[q] \in Nat /\ u2[q] \in Nat /\ k[q] \in Nat
        /\ u[q] \in 0 .. Width - 1 /\ u[q] = u2[q] + k[q]
    BY <1>2, <1>5, <2>4
  <2> HIDE DEF u, u2, k, c
  <2>7. (u[q] - k[q]) % Width = u2[q]
    BY <2>6, Less
  <2> QED BY <2>2, <2>5, <2>7
<1>7. \A s \in Slots : d[s].pte = c[s].pte /\ d[s].global = c[s].global
  OBVIOUS
<1> HIDE DEF u, u2, k, c, ca2
<1>8. SlotsOf(d, u2)
  <2>1. ASSUME impl = 2, NEW s \in Slots, d[s].pte # Null, d[s].count # 0
        PROVE  d[s].global = TRUE
    <3>1. PICK q \in Pages : q = c[s].pte /\ d[s].count = u2[q] /\ c[s].count = u[q]
      BY <1>1, <1>5, <1>6, <1>7, <2>1 DEF SlotsOf
    <3>2. c[s].count # 0
      BY <1>2, <2>1, <3>1
    <3> QED BY <1>1, <1>7, <2>1, <3>2 DEF SlotsOf
  <2>2. ASSUME NEW s \in Slots, d[s].pte # Null PROVE d[s].count = u2[d[s].pte]
    BY <1>6, <1>7, <2>2
  <2>3. ASSUME NEW q \in Pages, u2[q] # 0 PROVE d[Slot[q]].pte = q
    <3>1. u[q] # 0
      BY <1>2, <2>3
    <3> QED BY <1>1, <1>5, <1>7, <3>1 DEF SlotsOf
  <2> QED BY <2>1, <2>2, <2>3 DEF SlotsOf
<1>9. ASSUME NEW z \in Threads PROVE SlotsOf(ca2[z], Marked(bl2, ow2, z))
  BY <1>3, <1>4, <1>8 DEF u2
<1> QED BY <1>9 DEF SlotsTrue, ca2

\* Block dst, which is empty, gets the pages of block src and is t's.
Moved(bl, bl2, ow, ow2, src, dst, t) ==
  /\ bl \in [Blocks -> Seq(EntrySet)] /\ ow \in [Blocks -> Threads \cup {Null}]
  /\ src \in Blocks /\ dst \in Blocks /\ src # dst /\ t \in Threads
  /\ bl[dst] = <<>> /\ ow[dst] = Null
  /\ bl2 = With(With(bl, dst, bl[src]), src, <<>>)
  /\ ow2 = With(With(ow, dst, t), src, Null)

\* What a move leaves.
LEMMA MovedIs ==
  ASSUME NEW bl, NEW bl2, NEW ow, NEW ow2, NEW src, NEW dst, NEW t,
         Moved(bl, bl2, ow, ow2, src, dst, t)
  PROVE  /\ bl2 \in [Blocks -> Seq(EntrySet)] /\ ow2 \in [Blocks -> Threads \cup {Null}]
         /\ bl2[dst] = bl[src] /\ ow2[dst] = t /\ bl2[src] = <<>> /\ ow2[src] = Null
         /\ \A b \in Blocks \ {src, dst} : bl2[b] = bl[b] /\ ow2[b] = ow[b]
BY DEF Moved, With

\* Moving a block's pages counts them as before, if nobody looked for gets them.
LEMMA CountMove ==
  ASSUME NEW bl, NEW bl2, NEW ow, NEW ow2, NEW src, NEW dst, NEW t, NEW ms, NEW ts, Parameters,
         Moved(bl, bl2, ow, ow2, src, dst, t), ow[src] \in ts <=> t \in ts
  PROVE  CountOf(bl2, ow2, ms, ts) = CountOf(bl, ow, ms, ts)
<1> DEFINE bl0 == With(bl, src, <<>>)
           ow0 == With(ow, src, Null)
<1>1. /\ bl \in [Blocks -> Seq(EntrySet)] /\ ow \in [Blocks -> Threads \cup {Null}]
      /\ src \in Blocks /\ dst \in Blocks /\ src # dst /\ bl[dst] = <<>> /\ ow[dst] = Null
  BY DEF Moved
<1>2. /\ bl2 \in [Blocks -> Seq(EntrySet)] /\ ow2 \in [Blocks -> Threads \cup {Null}]
      /\ bl2[dst] = bl[src] /\ ow2[dst] = t /\ bl2[src] = <<>> /\ ow2[src] = Null
      /\ \A b \in Blocks \ {src, dst} : bl2[b] = bl[b] /\ ow2[b] = ow[b]
  BY MovedIs
<1>3. Emptied(bl, bl0, ow, ow0, src)
  BY <1>1 DEF Emptied
<1>4. bl0 = With(bl2, dst, <<>>)
  <2>1. bl0 \in [Blocks -> Seq(EntrySet)] /\ With(bl2, dst, <<>>) \in [Blocks -> Seq(EntrySet)]
    BY <1>1, <1>2 DEF With
  <2>2. ASSUME NEW b \in Blocks PROVE bl0[b] = With(bl2, dst, <<>>)[b]
    BY <1>1, <1>2 DEF With
  <2> HIDE DEF bl0
  <2> QED BY <2>1, <2>2
<1>5. ow0 = With(ow2, dst, Null)
  <2>1. /\ ow0 \in [Blocks -> Threads \cup {Null}]
        /\ With(ow2, dst, Null) \in [Blocks -> Threads \cup {Null}]
    BY <1>1, <1>2 DEF With
  <2>2. ASSUME NEW b \in Blocks PROVE ow0[b] = With(ow2, dst, Null)[b]
    BY <1>1, <1>2 DEF With
  <2> HIDE DEF ow0
  <2> QED BY <2>1, <2>2
<1> HIDE DEF bl0, ow0
<1>6. Emptied(bl2, bl0, ow2, ow0, dst)
  BY <1>1, <1>2, <1>4, <1>5 DEF Emptied
<1>7. CountsLost(bl, bl0, ow, ow0, src, ms, ts)
  BY <1>3, CountRelease
<1>8. CountsLost(bl2, bl0, ow2, ow0, dst, ms, ts)
  BY <1>6, CountRelease
<1>9. \A q \in Pages : EntersOf(bl2, dst, ms)[q] = EntersOf(bl, src, ms)[q]
  <2>1. ASSUME NEW q \in Pages PROVE EnteredOf(bl2, dst, q, ms) = EnteredOf(bl, src, q, ms)
    BY <1>2 DEF EnteredOf
  <2> QED BY <2>1 DEF EntersOf
<1>10. ASSUME NEW q \in Pages PROVE CountOf(bl2, ow2, ms, ts)[q] = CountOf(bl, ow, ms, ts)[q]
  <2>1. CASE t \in ts
    <3>1. ow[src] \in ts /\ ow2[dst] \in ts
      BY <1>2, <2>1
    <3>2. CountOf(bl, ow, ms, ts)[q] = CountOf(bl0, ow0, ms, ts)[q] + EntersOf(bl, src, ms)[q]
      BY <1>7, <3>1 DEF CountsLost
    <3>3. CountOf(bl2, ow2, ms, ts)[q] = CountOf(bl0, ow0, ms, ts)[q] + EntersOf(bl2, dst, ms)[q]
      BY <1>8, <3>1 DEF CountsLost
    <3> QED BY <1>9, <3>2, <3>3
  <2>2. CASE t \notin ts
    <3>1. ow[src] \notin ts /\ ow2[dst] \notin ts
      BY <1>2, <2>2
    <3>2. CountOf(bl, ow, ms, ts)[q] = CountOf(bl0, ow0, ms, ts)[q]
      BY <1>7, <3>1 DEF CountsLost
    <3>3. CountOf(bl2, ow2, ms, ts)[q] = CountOf(bl0, ow0, ms, ts)[q]
      BY <1>8, <3>1 DEF CountsLost
    <3> QED BY <3>2, <3>3
  <2> QED BY <2>1, <2>2
<1>11. CountOf(bl, ow, ms, ts) \in [Pages -> Nat] /\ CountOf(bl2, ow2, ms, ts) \in [Pages -> Nat]
  BY <1>7, <1>8 DEF CountsLost
<1> QED BY <1>10, <1>11

\* A move keeps the core, whoever moves the block.
LEMMA MoveCore ==
  ASSUME NEW ca, NEW rg, NEW rf, NEW rs, NEW bl, NEW bl2, NEW ow, NEW ow2, NEW src, NEW dst,
         NEW t, Parameters, Core(ca, rg, rf, rs, bl, ow), ow[src] \in Threads,
         Moved(bl, bl2, ow, ow2, src, dst, t)
  PROVE  Core(ca, rg, rf, rs, bl2, ow2)
<1>1. /\ bl2 \in [Blocks -> Seq(EntrySet)] /\ ow2 \in [Blocks -> Threads \cup {Null}]
      /\ bl2[dst] = bl[src] /\ ow2[dst] = t /\ bl2[src] = <<>> /\ ow2[src] = Null
      /\ \A b \in Blocks \ {src, dst} : bl2[b] = bl[b] /\ ow2[b] = ow[b]
  BY MovedIs
<1>2. t \in Threads /\ t # Null
  BY DEF Moved, Parameters
<1>3. \A b \in Blocks : ow2[b] = Null => bl2[b] = <<>>
  BY <1>1, <1>2 DEF Core
<1>4. Plain(bl2, ow2) = Plain(bl, ow)
  <2>1. CountOf(bl2, ow2, No, Threads) = CountOf(bl, ow, No, Threads)
    BY <1>2, CountMove
  <2> QED BY <2>1 DEF Plain
<1> QED BY <1>1, <1>3, <1>4 DEF Core

\* A move by the owner keeps the counts of the slots.
LEMMA MoveSlots ==
  ASSUME NEW ca, NEW bl, NEW bl2, NEW ow, NEW ow2, NEW src, NEW dst, NEW t, Parameters,
         SlotsTrue(ca, bl, ow), ow[src] = t, Moved(bl, bl2, ow, ow2, src, dst, t)
  PROVE  SlotsTrue(ca, bl2, ow2)
<1>1. ASSUME NEW z \in Threads PROVE SlotsOf(ca[z], Marked(bl2, ow2, z))
  <2>1. ow[src] \in {z} <=> t \in {z}
    OBVIOUS
  <2>2. CountOf(bl2, ow2, Yes, {z}) = CountOf(bl, ow, Yes, {z})
    BY <2>1, CountMove
  <2>3. Marked(bl2, ow2, z) = Marked(bl, ow, z)
    BY <2>2 DEF Marked
  <2> QED BY <2>3 DEF SlotsTrue
<1> QED BY <1>1 DEF SlotsTrue

-----------------------------------------------------------------------------
(* Blocks without pages. *)

NoPages(bl) == \A b \in Blocks : bl[b] = <<>>

\* They are counted nowhere.
LEMMA NoUses ==
  ASSUME NEW bl \in [Blocks -> Seq(EntrySet)], NEW ow, NEW ms, NEW ts, NEW q \in Pages,
         Parameters, NoPages(bl)
  PROVE  CountOf(bl, ow, ms, ts)[q] = 0
<1>1. ASSUME CountOf(bl, ow, ms, ts)[q] # 0 PROVE FALSE
  <2>1. PICK b \in Blocks, i \in Nat : UseHere(bl, ow, q, ms, ts, b, i)
    BY <1>1, CountUses
  <2> QED BY <2>1 DEF UseHere, NoPages
<1> QED BY <1>1

\* So their owners do not matter.
LEMMA CountOwners ==
  ASSUME NEW bl, NEW ow, NEW ow2, NEW ms, NEW ts,
         \A b \in Blocks : bl[b] = <<>> \/ ow2[b] = ow[b]
  PROVE  CountOf(bl, ow2, ms, ts) = CountOf(bl, ow, ms, ts)
<1>1. ASSUME NEW q \in Pages PROVE UsesOf(bl, ow2, q, ms, ts) = UsesOf(bl, ow, q, ms, ts)
  BY UsesOwners
<1> QED BY <1>1 DEF CountOf

\* Blocks are made: empty ones get an owner.
MadeBy(bl, ow, ow2) ==
  /\ ow2 \in [Blocks -> Threads \cup {Null}]
  /\ \A b \in Blocks : ow2[b] = ow[b] \/ (ow[b] = Null /\ bl[b] = <<>>)

\* New blocks are empty, so the core stays.
LEMMA StartCore ==
  ASSUME NEW ca, NEW rg, NEW rf, NEW rs, NEW bl, NEW ow, NEW ow2, Parameters,
         Core(ca, rg, rf, rs, bl, ow), MadeBy(bl, ow, ow2)
  PROVE  Core(ca, rg, rf, rs, bl, ow2)
<1>1. \A b \in Blocks : bl[b] = <<>> \/ ow2[b] = ow[b]
  BY DEF MadeBy
<1>2. Plain(bl, ow2) = Plain(bl, ow)
  <2>1. CountOf(bl, ow2, No, Threads) = CountOf(bl, ow, No, Threads)
    BY <1>1, CountOwners
  <2> QED BY <2>1 DEF Plain
<1>3. \A b \in Blocks : ow2[b] = Null => bl[b] = <<>>
  BY DEF MadeBy, Core
<1>4. ow2 \in [Blocks -> Threads \cup {Null}]
  BY DEF MadeBy
<1> QED BY <1>2, <1>3, <1>4 DEF Core

\* New blocks are empty, so the counts of the slots stay.
LEMMA StartSlots ==
  ASSUME NEW ca, NEW bl, NEW ow, NEW ow2, SlotsTrue(ca, bl, ow), MadeBy(bl, ow, ow2)
  PROVE  SlotsTrue(ca, bl, ow2)
<1>1. \A b \in Blocks : bl[b] = <<>> \/ ow2[b] = ow[b]
  BY DEF MadeBy
<1>2. ASSUME NEW z \in Threads PROVE SlotsOf(ca[z], Marked(bl, ow2, z))
  <2>1. CountOf(bl, ow2, Yes, {z}) = CountOf(bl, ow, Yes, {z})
    BY <1>1, CountOwners
  <2>2. Marked(bl, ow2, z) = Marked(bl, ow, z)
    BY <2>1 DEF Marked
  <2> QED BY <2>2 DEF SlotsTrue
<1> QED BY <1>2 DEF SlotsTrue

\* A lookup that misses leaves what there is.
LEMMA MissCore ==
  ASSUME NEW ca, NEW rg, NEW rf, NEW rs, NEW bl, NEW ow, NEW t \in Threads, NEW d, Parameters,
         Core(ca, rg, rf, rs, bl, ow), SameHeld(ca[t], d)
  PROVE  Core(With(ca, t, d), rg, rf, rs, bl, ow)
<1> DEFINE ca2 == With(ca, t, d)
<1>1. /\ ca \in [Threads -> [Slots -> NodeSet]] /\ d \in [Slots -> NodeSet]
      /\ \A z \in Threads : SlotsRight(ca[z]) /\ KeysRight(ca[z])
  BY DEF Core, SameHeld
<1>2. SlotsRight(d) /\ KeysRight(d) /\ \A q \in Pages : Held(d, q) = Held(ca[t], q)
  BY <1>1, SameHeldKeeps
<1>3. /\ ca2 \in [Threads -> [Slots -> NodeSet]]
      /\ \A z \in Threads : SlotsRight(ca2[z]) /\ KeysRight(ca2[z])
  BY <1>1, <1>2 DEF With
<1>4. \A q \in Pages : Cardinality(HoldOf(ca2, q)) = Cardinality(HoldOf(ca, q))
  BY <1>1, <1>2, SameHolders
<1> HIDE DEF ca2
<1>5. Core(ca2, rg, rf, rs, bl, ow)
  BY <1>3, <1>4 DEF Core
<1> QED BY <1>5 DEF ca2

\* A miss leaves the counts of the slots.
LEMMA MissSlots ==
  ASSUME NEW ca, NEW rg, NEW rf, NEW rs, NEW bl, NEW ow, NEW t \in Threads, NEW d, Parameters,
         Core(ca, rg, rf, rs, bl, ow), SlotsTrue(ca, bl, ow), SameHeld(ca[t], d)
  PROVE  SlotsTrue(With(ca, t, d), bl, ow)
<1>1. /\ ca \in [Threads -> [Slots -> NodeSet]] /\ d \in [Slots -> NodeSet]
      /\ SlotsRight(ca[t]) /\ KeysRight(ca[t]) /\ SlotsOf(ca[t], Marked(bl, ow, t))
  BY DEF Core, SameHeld, SlotsTrue
<1>2. SlotsOf(d, Marked(bl, ow, t))
  BY <1>1, SameHeldKeeps
<1>3. With(ca, t, d)[t] = d /\ \A z \in Threads \ {t} : With(ca, t, d)[z] = ca[z]
  BY <1>1 DEF With
<1> QED BY <1>2, <1>3 DEF SlotsTrue

\* Clean leaves a slot without a page.
LEMMA CleanIs ==
  ASSUME NEW n \in NodeSet, Parameters, impl \in Impls
  PROVE  Clean(n) \in NodeSet /\ Clean(n).pte = Null
<1>1. Clean(n) = Clean1(n)
  <2>1. impl \in 1 .. 5
    BY DEF Parameters
  <2> QED BY <2>1 DEF Clean, Of, Clean2, Clean3, Clean4, Clean5
<1>2. 0 \in 0 .. Width - 1
  BY DEF Parameters
<1> QED BY <1>1, <1>2 DEF Clean1, NodeSet

Cleaned(ca, ca2, rf, rf2) ==
  /\ ca2 \in [Threads -> [Slots -> NodeSet]]
  /\ \A t \in Threads, s \in Slots : ca2[t][s].pte = Null
  /\ rf2 = [p \in Pages |-> rf[p] - Cardinality(HoldOf(ca, p))]

\* Clean gives every page of the caches back; nothing is pinned then.
LEMMA CleanCore ==
  ASSUME NEW ca, NEW rg, NEW rf, NEW rs, NEW bl, NEW ow, NEW rf2, NEW ca2, Parameters,
         Core(ca, rg, rf, rs, bl, ow), NoPages(bl), Cleaned(ca, ca2, rf, rf2)
  PROVE  Core(ca2, rg, rf2, rs, bl, ow) /\ SlotsTrue(ca2, bl, ow)
<1> USE DEF Cleaned
<1>1. /\ ca \in [Threads -> [Slots -> NodeSet]] /\ bl \in [Blocks -> Seq(EntrySet)]
      /\ \A q \in Pages : rf[q] = Cardinality(HoldOf(ca, q)) + Plain(bl, ow)[q]
  BY DEF Core
<1>2. Null \notin Pages /\ \A q \in Pages : Slot[q] \in Slots
  BY DEF Parameters
<1>3. \A q \in Pages : Plain(bl, ow)[q] = 0
  <2>1. \A q \in Pages : CountOf(bl, ow, No, Threads)[q] = 0
    BY <1>1, NoUses
  <2> QED BY <2>1 DEF Plain
<1>4. ASSUME NEW q \in Pages PROVE rf2[q] = 0
  <2>1. Cardinality(HoldOf(ca, q)) \in Nat
    <3>1. IsFiniteSet(Threads) /\ HoldOf(ca, q) \in SUBSET Threads
      BY DEF Parameters, HoldOf
    <3>2. IsFiniteSet(HoldOf(ca, q))
      BY <3>1, FS_Subset
    <3> QED BY <3>2, FS_CardinalityType
  <2>2. rf[q] = Cardinality(HoldOf(ca, q)) + 0
    BY <1>1, <1>3
  <2> QED BY <2>1, <2>2
<1>5. ASSUME NEW q \in Pages PROVE Cardinality(HoldOf(ca2, q)) = 0
  <2>1. HoldOf(ca2, q) = {}
    BY <1>2 DEF HoldOf
  <2> QED BY <2>1, FS_EmptySet
<1>6. \A q \in Pages : rf2[q] = Cardinality(HoldOf(ca2, q)) + Plain(bl, ow)[q]
  BY <1>3, <1>4, <1>5
<1>7. rf2 \in [Pages -> Nat] /\ \A q \in Pages : rf2[q] > 0 => q \in rs
  BY <1>4
<1>8. \A t \in Threads : SlotsRight(ca2[t]) /\ KeysRight(ca2[t])
  BY DEF SlotsRight, KeysRight
<1>9. Core(ca2, rg, rf2, rs, bl, ow)
  BY <1>6, <1>7, <1>8 DEF Core
<1>10. ASSUME NEW t \in Threads PROVE SlotsOf(ca2[t], Marked(bl, ow, t))
  <2>1. \A q \in Pages : Marked(bl, ow, t)[q] = 0
    <3>1. \A q \in Pages : CountOf(bl, ow, Yes, {t})[q] = 0
      BY <1>1, NoUses
    <3> QED BY <3>1 DEF Marked
  <2> QED BY <2>1 DEF SlotsOf
<1> QED BY <1>9, <1>10 DEF SlotsTrue

-----------------------------------------------------------------------------
(* The pages that calls still have to bring. *)

\* s is a list of pages for blocks of thread t.
Mine(s, ow, t) == s \in Seq(Blocks \X Pages) /\ \A i \in 1 .. Len(s) : ow[s[i][1]] = t

WorkOf(td, wt, ow) ==
  /\ td \in [Threads -> Seq(Blocks \X Pages)] /\ wt \in [Threads -> Seq(Blocks \X Pages)]
  /\ \A t \in Threads : Mine(td[t], ow, t) /\ Mine(wt[t], ow, t)

\* One of the pages.
Asked(x, ow, t) == /\ x \in Blocks \X Pages /\ ow[x[1]] = t
                   /\ x[1] \in Blocks /\ x[2] \in Pages

\* An element of a list of the thread's.
LEMMA MineElement ==
  ASSUME NEW s, NEW ow, NEW t, NEW i \in 1 .. Len(s), Mine(s, ow, t)
  PROVE  Asked(s[i], ow, t)
<1>1. s \in Seq(Blocks \X Pages) /\ ow[s[i][1]] = t
  BY DEF Mine
<1>2. s[i] \in Blocks \X Pages
  BY <1>1
<1> QED BY <1>1, <1>2 DEF Asked

\* The rest of the list, and its head.
LEMMA MineTail ==
  ASSUME NEW s, NEW ow, NEW t, Mine(s, ow, t), s # <<>>
  PROVE  Mine(Tail(s), ow, t) /\ Asked(Head(s), ow, t)
<1>1. /\ s \in Seq(Blocks \X Pages) /\ Len(s) \in Nat /\ Len(s) > 0
      /\ \A i \in 1 .. Len(s) : ow[s[i][1]] = t
  BY DEF Mine
<1>2. /\ Tail(s) \in Seq(Blocks \X Pages) /\ Len(Tail(s)) = Len(s) - 1
      /\ \A i \in 1 .. Len(s) - 1 : Tail(s)[i] = s[i + 1]
  BY <1>1
<1>3. Head(s) = s[1] /\ 1 \in 1 .. Len(s)
  BY <1>1
<1>4. Asked(s[1], ow, t)
  BY <1>3, MineElement
<1>5. ASSUME NEW i \in 1 .. Len(Tail(s)) PROVE ow[Tail(s)[i][1]] = t
  <2>1. i + 1 \in 1 .. Len(s) /\ Tail(s)[i] = s[i + 1]
    BY <1>1, <1>2
  <2> QED BY <1>1, <2>1
<1> QED BY <1>2, <1>3, <1>4, <1>5 DEF Mine

\* One more of the thread's pages.
LEMMA MineAppend ==
  ASSUME NEW s, NEW ow, NEW t, NEW x, Mine(s, ow, t), Asked(x, ow, t)
  PROVE  Mine(Append(s, x), ow, t)
<1>1. /\ s \in Seq(Blocks \X Pages) /\ Len(s) \in Nat /\ x \in Blocks \X Pages
      /\ ow[x[1]] = t /\ \A i \in 1 .. Len(s) : ow[s[i][1]] = t
  BY DEF Mine, Asked
<1>2. /\ Append(s, x) \in Seq(Blocks \X Pages) /\ Len(Append(s, x)) = Len(s) + 1
      /\ Append(s, x)[Len(s) + 1] = x /\ \A i \in 1 .. Len(s) : Append(s, x)[i] = s[i]
  BY <1>1
<1>3. ASSUME NEW i \in 1 .. Len(Append(s, x)) PROVE ow[Append(s, x)[i][1]] = t
  <2>1. i = Len(s) + 1 \/ i \in 1 .. Len(s)
    BY <1>1, <1>2
  <2> QED BY <1>1, <1>2, <2>1
<1> QED BY <1>2, <1>3 DEF Mine

\* s without element i.
Without(s, i) == SubSeq(s, 1, i - 1) \o SubSeq(s, i + 1, Len(s))

\* One less.
LEMMA MineWithout ==
  ASSUME NEW s, NEW ow, NEW t, NEW i \in 1 .. Len(s), Mine(s, ow, t)
  PROVE  Mine(Without(s, i), ow, t)
<1> DEFINE a == SubSeq(s, 1, i - 1)
           z == SubSeq(s, i + 1, Len(s))
<1>1. /\ s \in Seq(Blocks \X Pages) /\ Len(s) \in Nat /\ i \in Nat /\ i >= 1 /\ i <= Len(s)
      /\ \A j \in 1 .. Len(s) : ow[s[j][1]] = t
  BY DEF Mine
<1>2. /\ a \in Seq(Blocks \X Pages) /\ Len(a) = i - 1
      /\ \A j \in 1 .. i - 1 : a[j] = s[j]
  <2>1. \A j \in 1 .. i - 1 : s[j] \in Blocks \X Pages
    BY <1>1
  <2> QED BY <1>1, <2>1
<1>3. /\ z \in Seq(Blocks \X Pages) /\ Len(z) = Len(s) - i
      /\ \A j \in 1 .. Len(s) - i : z[j] = s[j + i]
  <2>1. \A j \in i + 1 .. Len(s) : s[j] \in Blocks \X Pages
    BY <1>1
  <2> QED BY <1>1, <2>1
<1> HIDE DEF a, z
<1>4. /\ a \o z \in Seq(Blocks \X Pages) /\ Len(a \o z) = Len(s) - 1
      /\ \A j \in 1 .. Len(s) - 1 :
           (a \o z)[j] = IF j <= i - 1 THEN a[j] ELSE z[j - (i - 1)]
  <2>1. a \o z \in Seq(Blocks \X Pages) /\ Len(a \o z) = Len(a) + Len(z)
    <3>1. a \in Seq(Blocks \X Pages) /\ z \in Seq(Blocks \X Pages)
      BY <1>2, <1>3
    <3>2. PICK S : S = Blocks \X Pages
      OBVIOUS
    <3>3. \A x \in Seq(S), y \in Seq(S) : x \o y \in Seq(S)
      OBVIOUS
    <3>4. a \o z \in Seq(Blocks \X Pages)
      BY <3>1, <3>2, <3>3
    <3>5. Len(a \o z) = Len(a) + Len(z)
      BY <3>1
    <3> QED BY <3>4, <3>5
  <2>2. \A j \in 1 .. Len(a) + Len(z) :
          (a \o z)[j] = IF j <= Len(a) THEN a[j] ELSE z[j - Len(a)]
    BY <1>2, <1>3
  <2>3. Len(a) + Len(z) = Len(s) - 1
    BY <1>1, <1>2, <1>3
  <2> QED BY <1>2, <2>1, <2>2, <2>3
<1>5. ASSUME NEW j \in 1 .. Len(s) - 1 PROVE ow[(a \o z)[j][1]] = t
  <2>1. CASE j <= i - 1
    <3>1. j \in 1 .. i - 1 /\ j \in 1 .. Len(s)
      BY <1>1, <2>1
    <3>2. (a \o z)[j] = s[j]
      BY <1>2, <1>4, <2>1, <3>1
    <3> QED BY <1>1, <3>1, <3>2
  <2>2. CASE ~(j <= i - 1)
    <3>1. j - (i - 1) \in 1 .. Len(s) - i /\ j + 1 \in 1 .. Len(s) /\ (j - (i - 1)) + i = j + 1
      BY <1>1, <2>2
    <3>2. (a \o z)[j] = z[j - (i - 1)]
      BY <1>4, <2>2
    <3>3. z[j - (i - 1)] = s[j + 1]
      BY <1>3, <3>1
    <3> QED BY <1>1, <3>1, <3>2, <3>3
  <2> QED BY <2>1, <2>2
<1>6. Without(s, i) = a \o z
  BY DEF Without, a, z
<1> QED BY <1>4, <1>5, <1>6 DEF Mine

\* A thread takes the first page of its list, and may put it with those that wait.
LEMMA WorkPopped ==
  ASSUME NEW td, NEW wt, NEW ow, NEW t \in Threads, WorkOf(td, wt, ow), td[t] # <<>>
  PROVE  /\ Asked(Head(td[t]), ow, t)
         /\ WorkOf(With(td, t, Tail(td[t])), wt, ow)
         /\ WorkOf(With(td, t, Tail(td[t])), With(wt, t, Append(wt[t], Head(td[t]))), ow)
<1>1. /\ td \in [Threads -> Seq(Blocks \X Pages)] /\ wt \in [Threads -> Seq(Blocks \X Pages)]
      /\ \A z \in Threads : Mine(td[z], ow, z) /\ Mine(wt[z], ow, z)
  BY DEF WorkOf
<1>2. PICK h : h = Head(td[t])
  OBVIOUS
<1>3. PICK r : r = Tail(td[t])
  OBVIOUS
<1>4. PICK w : w = Append(wt[t], h)
  OBVIOUS
<1>5. Mine(r, ow, t) /\ Asked(h, ow, t)
  BY <1>1, <1>2, <1>3, MineTail
<1>6. Mine(w, ow, t)
  BY <1>1, <1>4, <1>5, MineAppend
<1>7. r \in Seq(Blocks \X Pages) /\ w \in Seq(Blocks \X Pages)
  BY <1>5, <1>6 DEF Mine
<1>8. WorkOf(With(td, t, r), wt, ow)
  BY <1>1, <1>5, <1>7 DEF WorkOf, With
<1>9. WorkOf(With(td, t, r), With(wt, t, w), ow)
  BY <1>1, <1>5, <1>6, <1>7 DEF WorkOf, With
<1> QED BY <1>2, <1>3, <1>4, <1>5, <1>8, <1>9

\* A page that was read is no longer waited for.
LEMMA WorkServed ==
  ASSUME NEW td, NEW wt, NEW ow, NEW t \in Threads, NEW i \in 1 .. Len(wt[t]),
         WorkOf(td, wt, ow)
  PROVE  /\ Asked(wt[t][i], ow, t)
         /\ WorkOf(td, With(wt, t, Without(wt[t], i)), ow)
<1>1. /\ td \in [Threads -> Seq(Blocks \X Pages)] /\ wt \in [Threads -> Seq(Blocks \X Pages)]
      /\ \A z \in Threads : Mine(td[z], ow, z) /\ Mine(wt[z], ow, z)
  BY DEF WorkOf
<1>2. PICK s : s = wt[t]
  OBVIOUS
<1>3. PICK r : r = Without(s, i)
  OBVIOUS
<1>4. Asked(s[i], ow, t) /\ Mine(r, ow, t)
  BY <1>1, <1>2, <1>3, MineElement, MineWithout
<1>5. r \in Seq(Blocks \X Pages)
  BY <1>4 DEF Mine
<1>6. WorkOf(td, With(wt, t, r), ow)
  BY <1>1, <1>4, <1>5 DEF WorkOf, With
<1> QED BY <1>2, <1>3, <1>4, <1>6

\* Only blocks of idle threads, or of nobody, get another owner.
IdleOwners(td, wt, ow, ow2) ==
  \A b \in Blocks : \/ ow2[b] = ow[b] \/ ow[b] \notin Threads
                    \/ td[ow[b]] = <<>> /\ wt[ow[b]] = <<>>

\* The owners of idle threads' blocks may change.
LEMMA WorkOwners ==
  ASSUME NEW td, NEW wt, NEW ow, NEW ow2, WorkOf(td, wt, ow), IdleOwners(td, wt, ow, ow2)
  PROVE  WorkOf(td, wt, ow2)
<1>1. /\ td \in [Threads -> Seq(Blocks \X Pages)] /\ wt \in [Threads -> Seq(Blocks \X Pages)]
      /\ \A z \in Threads : Mine(td[z], ow, z) /\ Mine(wt[z], ow, z)
  BY DEF WorkOf
<1>2. ASSUME NEW z \in Threads, NEW s, s = td[z] \/ s = wt[z] PROVE Mine(s, ow2, z)
  <2>1. s \in Seq(Blocks \X Pages) /\ Mine(s, ow, z)
    BY <1>1, <1>2
  <2>2. ASSUME NEW i \in 1 .. Len(s) PROVE ow2[s[i][1]] = z
    <3>1. PICK x : x = s[i]
      OBVIOUS
    <3>2. x[1] \in Blocks /\ ow[x[1]] = z
      <4>1. Asked(x, ow, z)
        BY <2>1, <2>2, <3>1, MineElement
      <4> QED BY <4>1 DEF Asked
    <3>3. s # <<>>
      BY <2>1, <2>2
    <3>4. ow2[x[1]] = ow[x[1]]
      BY <1>2, <3>2, <3>3 DEF IdleOwners
    <3> QED BY <3>1, <3>2, <3>4
  <2> QED BY <2>1, <2>2 DEF Mine
<1> QED BY <1>1, <1>2 DEF WorkOf

\* A thread starts on requests of its own.
LEMMA WorkStarted ==
  ASSUME NEW td, NEW wt, NEW ow2, NEW t \in Threads, NEW s, WorkOf(td, wt, ow2), Mine(s, ow2, t)
  PROVE  WorkOf(With(td, t, s), wt, ow2)
<1>1. s \in Seq(Blocks \X Pages)
  BY DEF Mine
<1> QED BY <1>1 DEF WorkOf, With

-----------------------------------------------------------------------------
(* The actions. *)

\* The parts of CacheInv.
Here == Core(cache, ring, refs, resident, block, owner)
Work == WorkOf(todo, wait, owner)
Rest == /\ impl \in Impls /\ kind \in [Threads -> {"Sync", "Batch"}]
        /\ left \in [Threads -> 0 .. Calls] /\ failed \in {"no", "no victim", "in use"}
Pinned == Here /\ Work /\ Rest

\* What SlotInv adds.
Counted == SlotsTrue(cache, block, owner) /\ CleanSucceeds

\* Here, of the next state.
LEMMA HereNext ==
  ASSUME impl' = impl, Core(cache', ring', refs', resident', block', owner')
  PROVE  Here'
BY DEF Here, Core, KeysRight

\* Counted, of the next state.
LEMMA CountedNext ==
  ASSUME impl' = impl, SlotsTrue(cache', block', owner'), failed' # "in use"
  PROVE  Counted'
BY DEF Counted, CleanSucceeds, SlotsTrue, SlotsOf

\* Pinned, of the next state.
LEMMA PinnedNext ==
  ASSUME impl' = impl, Core(cache', ring', refs', resident', block', owner'),
         WorkOf(todo', wait', owner'), kind' = kind, left' = left, Rest,
         failed' \in {"no", "no victim", "in use"}
  PROVE  Pinned'
<1>1. Here'
  BY HereNext
<1>2. Work'
  BY DEF Work
<1>3. Rest'
  BY DEF Rest
<1> QED BY <1>1, <1>2, <1>3 DEF Pinned

\* What a step leaves of the slots' counts, if they were right.
Keeps == SlotsTrue(cache, block, owner) => SlotsTrue(cache', block', owner')

\* Offering a page that was fetched (Insert and the block's new entry).
LEMMA OfferStep ==
  ASSUME NEW t \in Threads, NEW b \in Blocks, NEW p \in Pages, NEW c, NEW gone, Parameters,
         Pinned, owner[b] = t, SameHeld(cache[t], c), CanFetch(refs, resident, p, gone),
         Offer(t, b, p, c, gone), owner' = owner
  PROVE  Core(cache', ring', refs', resident', block', owner') /\ Keeps
<1>1. PICK r : r = Insert(c, ring[t], p)
  OBVIOUS
<1>2. /\ cache' = With(cache, t, r.slots) /\ ring' = With(ring, t, r.ring)
      /\ resident' = (resident \ gone) \cup {p}
      /\ refs' = [q \in Pages |-> refs[q] + (IF q = p THEN 1 ELSE 0)
                                          - (IF q \in r.drop THEN 1 ELSE 0)]
  BY <1>1 DEF Offer, SetCache, Fetched, With
<1>3. block' = With(block, b, Append(block[b], New(p, r.ok)))
  BY <1>1 DEF Offer, InsertPage, With, New
<1>4. Core(cache, ring, refs, resident, block, owner) /\ impl \in Impls
  BY DEF Pinned, Here, Rest
<1>5. Offered(cache, ring, block, t, b, p, c, r, cache', block')
  BY <1>1, <1>2, <1>3 DEF Offered
<1>6. Framed(ring, refs, resident, t, p, r, gone, ring', refs', resident')
  BY <1>2 DEF Framed
<1>7. Core(cache', ring', refs', resident', block', owner)
  BY <1>4, <1>5, <1>6, OfferCore
<1>8. ASSUME SlotsTrue(cache, block, owner) PROVE SlotsTrue(cache', block', owner)
  BY <1>4, <1>5, <1>8, OfferSlots
<1> QED BY <1>7, <1>8 DEF Keeps

\* Fetching a page into a frame, then offering it.
LEMMA FetchStep ==
  ASSUME NEW t \in Threads, NEW b \in Blocks, NEW p \in Pages, NEW c, Parameters, Pinned,
         owner[b] = t, SameHeld(cache[t], c), Fetch(t, b, p, c), owner' = owner
  PROVE  /\ Core(cache', ring', refs', resident', block', owner') /\ Keeps
         /\ failed' \in {"no", "no victim"}
<1>1. failed' \in {"no", "no victim"}
  BY DEF Fetch
<1>2. /\ Core(cache, ring, refs, resident, block, owner) /\ resident \in SUBSET Pages
      /\ IsFiniteSet(resident) /\ Cardinality(resident) <= Frames
  BY DEF Pinned, Here, Core
<1>3. CASE UNCHANGED <<cache, ring, block, refs, resident>>
  BY <1>1, <1>2, <1>3 DEF Keeps
<1>4. ASSUME NEW gone, CanFetch(refs, resident, p, gone), Offer(t, b, p, c, gone)
      PROVE  Core(cache', ring', refs', resident', block', owner') /\ Keeps
  BY <1>4, OfferStep
<1>5. CASE p \in resident /\ Offer(t, b, p, c, {})
  <2>1. CanFetch(refs, resident, p, {})
    BY <1>5 DEF CanFetch
  <2> QED BY <1>1, <1>4, <1>5, <2>1
<1>6. CASE p \notin resident /\ Room /\ Offer(t, b, p, c, {})
  <2>1. resident \ {} = resident
    OBVIOUS
  <2>2. Cardinality(resident \ {}) = Cardinality(resident)
    BY <2>1, Zenon
  <2>3. CanFetch(refs, resident, p, {})
    BY <1>6, <2>2 DEF CanFetch, Room
  <2> QED BY <1>1, <1>4, <1>6, <2>3
<1>7. CASE p \notin resident /\ ~Room /\ \E v \in Evictable(p) : Offer(t, b, p, c, {v})
  <2>1. PICK v \in resident : v # p /\ refs[v] = 0 /\ Offer(t, b, p, c, {v})
    BY <1>7 DEF Evictable
  <2>2. Cardinality(resident \ {v}) < Frames
    <3>1. Cardinality(resident \ {v}) = Cardinality(resident) - 1
      BY <1>2, FS_RemoveElement
    <3>2. Cardinality(resident) \in Nat /\ Frames \in Nat
      BY <1>2, FS_CardinalityType DEF Parameters
    <3> QED BY <1>2, <3>1, <3>2
  <2>3. CanFetch(refs, resident, p, {v})
    BY <2>1, <2>2 DEF CanFetch
  <2> QED BY <1>1, <1>4, <2>1, <2>3
<1> QED BY <1>3, <1>5, <1>6, <1>7 DEF Fetch

\* The page that a thread is about to look up, and what its slots are then.
LEMMA LookStep ==
  ASSUME NEW t \in Threads, Parameters, Pinned, todo[t] # <<>>
  PROVE  \E b \in Blocks, p \in Pages :
           /\ Head(todo[t])[1] = b /\ Head(todo[t])[2] = p /\ owner[b] = t
           /\ Seen(cache[t], p, Answer(t, p), Looked(t, p))
<1>1. PICK h : h = Head(todo[t])
  OBVIOUS
<1>2. Asked(h, owner, t)
  BY <1>1, WorkPopped DEF Pinned, Work
<1>3. PICK b \in Blocks, p \in Pages : h[1] = b /\ h[2] = p /\ owner[b] = t
  BY <1>2 DEF Asked
<1>4. PICK c : c = cache[t]
  OBVIOUS
<1>5. c \in [Slots -> NodeSet] /\ KeysRight(c) /\ impl \in Impls
  BY <1>4 DEF Pinned, Here, Core, Rest
<1>6. PICK a : a = Find(c[Slot[p]], p)
  OBVIOUS
<1>7. PICK d : d = With(c, Slot[p], a.node)
  OBVIOUS
<1>8. Answer(t, p) = a /\ Looked(t, p) = d
  BY <1>4, <1>6, <1>7 DEF Answer, Looked, With
<1>9. Seen(c, p, a, d)
  <2>1. Look(c, p, a, d)
    BY <1>6, <1>7 DEF Look
  <2> QED BY <1>5, <2>1, LookIs
<1> QED BY <1>1, <1>3, <1>4, <1>8, <1>9

\* Each action keeps the references exact, and the slots' counts if they are right.
LEMMA HitStep ==
  ASSUME NEW t \in Threads, Parameters, Pinned, Hit(t)
  PROVE  /\ Pinned'
         /\ Counted /\ FitsOf(block', owner') => Counted'
<1>1. /\ todo[t] # <<>> /\ impl' = impl /\ owner' = owner /\ failed' = failed
      /\ ring' = ring /\ refs' = refs /\ resident' = resident /\ wait' = wait
      /\ kind' = kind /\ left' = left
  BY DEF Hit
<1>2. PICK b \in Blocks, p \in Pages :
           /\ Head(todo[t])[1] = b /\ Head(todo[t])[2] = p /\ owner[b] = t
           /\ Seen(cache[t], p, Answer(t, p), Looked(t, p))
  BY <1>1, LookStep
<1>3. PICK a : a = Answer(t, p)
  OBVIOUS
<1>4. PICK d : d = Looked(t, p)
  OBVIOUS
<1>5. PICK y \in EntrySet : y = [page |-> p, mark |-> TRUE] /\ y.page = p /\ y.mark = TRUE
  <2>1. [page |-> p, mark |-> TRUE] \in EntrySet
    BY DEF EntrySet
  <2> QED BY <2>1
<1>6. /\ a.pte = p /\ cache' = With(cache, t, d)
      /\ block' = With(block, b, Append(block[b], y))
      /\ todo' = With(todo, t, Tail(todo[t]))
  BY <1>2, <1>3, <1>4, <1>5 DEF Hit, InsertPage, With
<1>7. Taken(cache, t, p, a, d, y)
  BY <1>2, <1>3, <1>4, <1>5, <1>6 DEF Taken
<1>8. /\ Core(cache, ring, refs, resident, block, owner) /\ WorkOf(todo, wait, owner) /\ Rest
      /\ impl \in Impls /\ failed \in {"no", "no victim", "in use"}
  BY DEF Pinned, Here, Work, Rest
<1>9. Grown(block, block', b, y)
  BY <1>6, <1>8 DEF Core, Grown
<1>10. Core(cache', ring', refs', resident', block', owner')
  <2>1. Core(With(cache, t, d), ring, refs, resident, block', owner)
    BY <1>2, <1>7, <1>8, <1>9, HitCore
  <2> QED BY <1>1, <1>6, <2>1
<1>11. WorkOf(todo', wait', owner')
  BY <1>1, <1>6, <1>8, WorkPopped
<1>12. Pinned'
  BY <1>1, <1>8, <1>10, <1>11, PinnedNext
<1>13. ASSUME Counted, FitsOf(block', owner') PROVE Counted'
  <2>1. SlotsTrue(cache, block, owner) /\ failed # "in use"
    BY <1>13 DEF Counted, CleanSucceeds
  <2>2. FitsOf(block', owner)
    BY <1>1, <1>13
  <2>3. SlotsTrue(With(cache, t, d), block', owner)
    BY <1>2, <1>7, <1>8, <1>9, <2>1, <2>2, HitSlots
  <2>4. SlotsTrue(cache', block', owner') /\ failed' # "in use"
    BY <1>1, <1>6, <2>1, <2>3
  <2> QED BY <1>1, <2>4, CountedNext
<1> QED BY <1>12, <1>13

\* What follows from a fetch, and from a page of the list that is done.
LEMMA CountedKept ==
  ASSUME impl' = impl, Keeps, failed' # "in use"
  PROVE  Counted => Counted'
<1>1. ASSUME Counted PROVE Counted'
  <2>1. SlotsTrue(cache', block', owner')
    BY <1>1 DEF Counted, Keeps
  <2> QED BY <2>1, CountedNext
<1> QED BY <1>1

\* GetBlockWithDirectCacheSync reads one page of its block.
LEMMA GetStep ==
  ASSUME NEW t \in Threads, Parameters, Pinned, GetBlockWithDirectCacheSync(t)
  PROVE  Pinned' /\ (Counted => Counted')
<1>1. /\ todo[t] # <<>> /\ impl' = impl /\ owner' = owner /\ wait' = wait
      /\ kind' = kind /\ left' = left /\ todo' = With(todo, t, Tail(todo[t]))
  BY DEF GetBlockWithDirectCacheSync, Missing, With
<1>2. PICK b \in Blocks, p \in Pages :
           /\ Head(todo[t])[1] = b /\ Head(todo[t])[2] = p /\ owner[b] = t
           /\ Seen(cache[t], p, Answer(t, p), Looked(t, p))
  BY <1>1, LookStep
<1>3. Answer(t, p).pte = Null /\ Fetch(t, b, p, Looked(t, p))
  BY <1>2 DEF GetBlockWithDirectCacheSync, Missing
<1>4. SameHeld(cache[t], Looked(t, p))
  BY <1>2, <1>3 DEF Seen
<1>5. /\ Core(cache', ring', refs', resident', block', owner') /\ Keeps
      /\ failed' \in {"no", "no victim"}
  BY <1>1, <1>2, <1>3, <1>4, FetchStep
<1>6. WorkOf(todo, wait, owner) /\ Rest
  BY DEF Pinned, Work
<1>7. WorkOf(todo', wait', owner')
  BY <1>1, <1>6, WorkPopped
<1>8. Pinned'
  BY <1>1, <1>5, <1>6, <1>7, PinnedNext
<1>9. Counted => Counted'
  BY <1>1, <1>5, CountedKept
<1> QED BY <1>8, <1>9

\* The batch path pins a page it finds, or waits for it.
LEMMA BatchPinStep ==
  ASSUME NEW t \in Threads, Parameters, Pinned, failed = "no", BatchPin(t)
  PROVE  Pinned' /\ (Counted => Counted')
<1>1. /\ todo[t] # <<>> /\ impl' = impl /\ owner' = owner /\ failed' = failed
      /\ kind' = kind /\ left' = left /\ todo' = With(todo, t, Tail(todo[t]))
  BY DEF BatchPin, Missing, With
<1>2. PICK b \in Blocks, p \in Pages :
           /\ Head(todo[t])[1] = b /\ Head(todo[t])[2] = p /\ owner[b] = t
           /\ Seen(cache[t], p, Answer(t, p), Looked(t, p))
  BY <1>1, LookStep
<1>3. PICK d : d = Looked(t, p)
  OBVIOUS
<1>4. SameHeld(cache[t], d)
  <2>1. Answer(t, p).pte = Null
    BY <1>2 DEF BatchPin, Missing
  <2> QED BY <1>2, <1>3, <2>1 DEF Seen
<1>5. Core(cache, ring, refs, resident, block, owner) /\ WorkOf(todo, wait, owner) /\ Rest
  BY DEF Pinned, Here, Work
<1>6. \/ p \in resident /\ Offer(t, b, p, d, {}) /\ wait' = wait
      \/ /\ cache' = With(cache, t, d) /\ wait' = With(wait, t, Append(wait[t], Head(todo[t])))
         /\ UNCHANGED <<ring, block, refs, resident>>
  BY <1>2, <1>3 DEF BatchPin, With
<1>7. Core(cache', ring', refs', resident', block', owner') /\ Keeps
  <2>1. CASE p \in resident /\ Offer(t, b, p, d, {}) /\ wait' = wait
    <3>1. CanFetch(refs, resident, p, {})
      BY <2>1 DEF CanFetch
    <3> QED BY <1>1, <1>2, <1>4, <2>1, <3>1, OfferStep
  <2>2. CASE cache' = With(cache, t, d) /\ UNCHANGED <<ring, block, refs, resident>>
    <3>1. Core(With(cache, t, d), ring, refs, resident, block, owner)
      BY <1>4, <1>5, MissCore
    <3>2. Core(cache', ring', refs', resident', block', owner')
      BY <1>1, <2>2, <3>1
    <3>3. ASSUME SlotsTrue(cache, block, owner) PROVE SlotsTrue(cache', block', owner')
      <4>1. SlotsTrue(With(cache, t, d), block, owner)
        BY <1>4, <1>5, <3>3, MissSlots
      <4> QED BY <1>1, <2>2, <4>1
    <3> QED BY <3>2, <3>3 DEF Keeps
  <2> QED BY <1>6, <2>1, <2>2
<1>8. WorkOf(todo', wait', owner')
  <2>1. /\ WorkOf(With(todo, t, Tail(todo[t])), wait, owner)
        /\ WorkOf(With(todo, t, Tail(todo[t])),
                  With(wait, t, Append(wait[t], Head(todo[t]))), owner)
    BY <1>1, <1>5, WorkPopped
  <2> QED BY <1>1, <1>6, <2>1
<1>9. failed' \in {"no", "no victim", "in use"} /\ failed' # "in use"
  BY <1>1
<1>10. Pinned'
  BY <1>1, <1>5, <1>7, <1>8, <1>9, PinnedNext
<1>11. Counted => Counted'
  BY <1>1, <1>7, <1>9, CountedKept
<1> QED BY <1>10, <1>11

\* The batch path completes a page it waited for.
LEMMA BatchWaitStep ==
  ASSUME NEW t \in Threads, Parameters, Pinned, BatchWait(t)
  PROVE  Pinned' /\ (Counted => Counted')
<1>1. /\ Core(cache, ring, refs, resident, block, owner) /\ WorkOf(todo, wait, owner) /\ Rest
      /\ wait[t] \in Seq(Blocks \X Pages) /\ wait \in [Threads -> Seq(Blocks \X Pages)]
      /\ cache[t] \in [Slots -> NodeSet]
  BY DEF Pinned, Here, Work, WorkOf, Core
<1>2. PICK i \in 1 .. Len(wait[t]) :
        /\ Fetch(t, wait[t][i][1], wait[t][i][2], cache[t])
        /\ wait' = With(wait, t, Without(wait[t], i))
  <2>1. PICK i \in DOMAIN wait[t] :
          /\ Fetch(t, wait[t][i][1], wait[t][i][2], cache[t])
          /\ wait' = [wait EXCEPT ![t] = SubSeq(@, 1, i - 1) \o SubSeq(@, i + 1, Len(@))]
    BY DEF BatchWait
  <2>2. i \in 1 .. Len(wait[t])
    BY <1>1
  <2>3. wait' = With(wait, t, Without(wait[t], i))
    BY <1>1, <2>1 DEF With, Without
  <2> QED BY <2>1, <2>2, <2>3
<1>3. PICK x : x = wait[t][i]
  OBVIOUS
<1>4. Asked(x, owner, t) /\ WorkOf(todo, With(wait, t, Without(wait[t], i)), owner)
  BY <1>1, <1>3, WorkServed
<1>5. PICK b \in Blocks, p \in Pages : x[1] = b /\ x[2] = p /\ owner[b] = t
  BY <1>4 DEF Asked
<1>6. Fetch(t, b, p, cache[t])
  BY <1>2, <1>3, <1>5
<1>7. /\ impl' = impl /\ owner' = owner /\ todo' = todo /\ kind' = kind /\ left' = left
  BY DEF BatchWait
<1>8. SameHeld(cache[t], cache[t])
  BY <1>1 DEF SameHeld
<1>9. /\ Core(cache', ring', refs', resident', block', owner') /\ Keeps
      /\ failed' \in {"no", "no victim"}
  BY <1>5, <1>6, <1>7, <1>8, FetchStep
<1>10. WorkOf(todo', wait', owner')
  BY <1>2, <1>4, <1>7
<1>11. Pinned'
  BY <1>1, <1>7, <1>9, <1>10, PinnedNext
<1>12. Counted => Counted'
  BY <1>7, <1>9, CountedKept
<1> QED BY <1>11, <1>12

\* The blocks of a call are new ones, one for each request.
LEMMA StartStep ==
  ASSUME NEW t \in Threads, NEW k \in {"Sync", "Batch"}, NEW asked \in Seq(Nat \X Pages),
         Parameters, Pinned, Idle(t), left[t] > 0, Start(t, k, asked)
  PROVE  Pinned' /\ (Counted => Counted')
<1> DEFINE free == {b \in Blocks : owner[b] = Null}
<1>1. PICK bs \in [{asked[i][1] : i \in DOMAIN asked} -> free] :
        /\ todo' = [todo EXCEPT
                      ![t] = [i \in 1 .. Len(asked) |-> <<bs[asked[i][1]], asked[i][2]>>]]
        /\ owner' = [b \in Blocks |-> IF \E i \in DOMAIN bs : bs[i] = b THEN t ELSE owner[b]]
  BY DEF Start
<1>2. /\ impl' = impl /\ cache' = cache /\ ring' = ring /\ refs' = refs /\ resident' = resident
      /\ block' = block /\ wait' = wait /\ failed' = failed
      /\ kind' = [kind EXCEPT ![t] = k] /\ left' = [left EXCEPT ![t] = @ - 1]
  BY DEF Start
<1>3. /\ Core(cache, ring, refs, resident, block, owner) /\ WorkOf(todo, wait, owner) /\ Rest
      /\ owner \in [Blocks -> Threads \cup {Null}]
      /\ \A b \in Blocks : owner[b] = Null => block[b] = <<>>
  BY DEF Pinned, Here, Work, Core
<1>4. t # Null /\ Null \notin Threads
  BY DEF Parameters
<1>5. ASSUME NEW b \in Blocks PROVE owner'[b] = owner[b] \/ owner[b] = Null
  BY <1>1
<1>6. owner' \in [Blocks -> Threads \cup {Null}]
  BY <1>1, <1>3
<1>7. MadeBy(block, owner, owner')
  BY <1>3, <1>5, <1>6 DEF MadeBy
<1>8. Core(cache, ring, refs, resident, block, owner')
  BY <1>3, <1>7, StartCore
<1>9. WorkOf(todo, wait, owner')
  <2>1. IdleOwners(todo, wait, owner, owner')
    BY <1>4, <1>5 DEF IdleOwners
  <2> QED BY <1>3, <2>1, WorkOwners
<1>10. PICK s : s = [i \in 1 .. Len(asked) |-> <<bs[asked[i][1]], asked[i][2]>>]
  OBVIOUS
<1>11. Mine(s, owner', t)
  <2>1. Len(asked) \in Nat
    OBVIOUS
  <2>2. ASSUME NEW i \in 1 .. Len(asked)
        PROVE  s[i] \in Blocks \X Pages /\ owner'[s[i][1]] = t
    <3>1. asked[i] \in Nat \X Pages /\ i \in DOMAIN asked
      OBVIOUS
    <3>2. PICK b : b = bs[asked[i][1]]
      OBVIOUS
    <3>3. asked[i][1] \in DOMAIN bs /\ b \in free
      BY <3>1, <3>2
    <3>4. s[i] = <<b, asked[i][2]>>
      BY <1>10, <3>2
    <3>5. b \in Blocks /\ \E j \in DOMAIN bs : bs[j] = b
      BY <3>2, <3>3
    <3>6. owner'[b] = t
      BY <1>1, <3>5
    <3> QED BY <3>1, <3>4, <3>5, <3>6
  <2>3. s \in Seq(Blocks \X Pages) /\ Len(s) = Len(asked)
    BY <1>10, <2>1, <2>2
  <2> QED BY <2>2, <2>3 DEF Mine
<1>12. WorkOf(todo', wait', owner')
  <2>1. WorkOf(With(todo, t, s), wait, owner')
    BY <1>9, <1>11, WorkStarted
  <2>2. todo' = With(todo, t, s)
    BY <1>1, <1>10 DEF With
  <2> QED BY <1>2, <2>1, <2>2
<1>13. Pinned'
  <2>1. Core(cache', ring', refs', resident', block', owner')
    BY <1>2, <1>8
  <2>2. Here'
    BY <1>2, <2>1, HereNext
  <2>3. Work'
    BY <1>12 DEF Work
  <2>4. Rest'
    <3>1. left[t] \in 0 .. Calls /\ Calls \in Nat
      BY <1>3 DEF Rest, Parameters
    <3>2. left[t] - 1 \in 0 .. Calls
      BY <3>1
    <3>3. left' \in [Threads -> 0 .. Calls]
      BY <1>2, <1>3, <3>2 DEF Rest
    <3>4. kind' \in [Threads -> {"Sync", "Batch"}]
      BY <1>2, <1>3 DEF Rest
    <3> QED BY <1>2, <1>3, <3>3, <3>4 DEF Rest
  <2> QED BY <2>2, <2>3, <2>4 DEF Pinned
<1>14. ASSUME Counted PROVE Counted'
  <2>1. SlotsTrue(cache, block, owner) /\ failed # "in use"
    BY <1>14 DEF Counted, CleanSucceeds
  <2>2. SlotsTrue(cache, block, owner')
    BY <1>7, <2>1, StartSlots
  <2>3. SlotsTrue(cache', block', owner') /\ failed' # "in use"
    BY <1>2, <2>1, <2>2
  <2> QED BY <1>2, <2>3, CountedNext
<1> QED BY <1>13, <1>14

\* A thread begins a call.
LEMMA BeginStep ==
  ASSUME NEW t \in Threads, Parameters, Pinned, Begin(t)
  PROVE  Pinned' /\ (Counted => Counted')
<1>1. Idle(t) /\ left[t] > 0
  BY DEF Begin
<1>2. ASSUME NEW a \in OneBlock, Start(t, "Sync", [i \in 1 .. Len(a) |-> <<1, a[i]>>])
      PROVE  Pinned' /\ (Counted => Counted')
  <2>1. a \in Seq(Pages)
    BY DEF Parameters
  <2>2. PICK asked : asked = [i \in 1 .. Len(a) |-> <<1, a[i]>>]
    OBVIOUS
  <2>3. asked \in Seq(Nat \X Pages)
    <3>1. Len(a) \in Nat /\ \A i \in 1 .. Len(a) : <<1, a[i]>> \in Nat \X Pages
      BY <2>1
    <3> QED BY <2>2, <3>1
  <2> QED BY <1>1, <1>2, <2>2, <2>3, StartStep
<1>3. ASSUME NEW a \in Batch, Start(t, "Batch", a)
      PROVE  Pinned' /\ (Counted => Counted')
  <2>1. a \in Seq(Nat \X Pages)
    BY DEF Parameters
  <2> QED BY <1>1, <1>3, <2>1, StartStep
<1> QED BY <1>2, <1>3 DEF Begin

\* A record is equal to another when its fields are.
LEMMA PlainEntry ==
  ASSUME NEW e \in EntrySet, NEW p
  PROVE  e = [page |-> p, mark |-> FALSE] <=> e.page = p /\ e.mark = FALSE
<1>1. e = [page |-> e.page, mark |-> e.mark]
  BY DEF EntrySet
<1>2. ASSUME e = [page |-> p, mark |-> FALSE] PROVE e.page = p /\ e.mark = FALSE
  BY <1>2
<1>3. ASSUME e.page = p, e.mark = FALSE PROVE e = [page |-> p, mark |-> FALSE]
  BY <1>1, <1>3
<1> QED BY <1>2, <1>3

\* A block that may be freed is one of a thread that has nothing to bring.
LEMMA FreeStep ==
  ASSUME NEW t \in Threads, NEW b \in Blocks, NEW bl2, NEW ow2, Parameters, Pinned,
         MayFree(t, b), Free(t, b), bl2 = With(block, b, <<>>), ow2 = With(owner, b, Null)
  PROVE  /\ Core(cache', ring, refs', resident, bl2, ow2) /\ WorkOf(todo, wait, ow2)
         /\ SlotsTrue(cache, block, owner) /\ ~Handoff => SlotsTrue(cache', bl2, ow2)
<1>1. /\ Core(cache, ring, refs, resident, block, owner) /\ WorkOf(todo, wait, owner)
      /\ impl \in Impls /\ cache \in [Threads -> [Slots -> NodeSet]]
      /\ block \in [Blocks -> Seq(EntrySet)] /\ owner \in [Blocks -> Threads \cup {Null}]
  BY DEF Pinned, Here, Work, Rest, Core
<1>2. /\ owner[b] \in Threads /\ todo[owner[b]] = <<>> /\ wait[owner[b]] = <<>>
      /\ ~Handoff => owner[b] = t
  BY <1>1 DEF MayFree, Complete, Idle
<1> DEFINE marked(s) == {i \in DOMAIN block[b] : block[b][i].mark /\ Slot[block[b][i].page] = s}
           d == [s \in Slots |-> Erase(cache[t][s], Cardinality(MarkedAt(block, b, s)))]
<1>3. block[b] \in Seq(EntrySet) /\ DOMAIN block[b] = 1 .. Len(block[b])
  BY <1>1
<1>4. ASSUME NEW s \in Slots
      PROVE  marked(s) = MarkedAt(block, b, s) /\ Cardinality(MarkedAt(block, b, s)) \in Nat
  <2>1. ASSUME NEW i \in 1 .. Len(block[b]) PROVE block[b][i].mark \in BOOLEAN
    <3>1. block[b][i] \in EntrySet
      BY <1>3
    <3> QED BY <3>1 DEF EntrySet
  <2>2. marked(s) = MarkedAt(block, b, s)
    BY <1>3, <2>1 DEF MarkedAt
  <2>3. Len(block[b]) \in Nat
    BY <1>3
  <2>4. IsFiniteSet(1 .. Len(block[b]))
    BY <2>3, FS_Interval
  <2>5. MarkedAt(block, b, s) \in SUBSET (1 .. Len(block[b]))
    BY <1>3 DEF MarkedAt
  <2>6. IsFiniteSet(MarkedAt(block, b, s))
    BY <2>4, <2>5, FS_Subset
  <2> QED BY <2>2, <2>6, FS_CardinalityType
<1>5. cache' = With(cache, t, d)
  <2>1. cache' = [cache EXCEPT
                    ![t] = [s \in Slots |-> Erase(cache[t][s], Cardinality(marked(s)))]]
    BY DEF Free
  <2>2. [s \in Slots |-> Erase(cache[t][s], Cardinality(marked(s)))] = d
    BY <1>4
  <2> HIDE DEF marked, d
  <2> QED BY <2>1, <2>2 DEF With
<1>6. Erased(cache, t, block, b, d)
  <2>1. ASSUME NEW s \in Slots
        PROVE  /\ d[s] \in NodeSet /\ d[s].pte = cache[t][s].pte /\ d[s].key = cache[t][s].key
               /\ d[s].global = cache[t][s].global
               /\ cache[t][s].pte # Null =>
                    d[s].count = (cache[t][s].count - Cardinality(MarkedAt(block, b, s))) % Width
    <3>1. PICK n \in NodeSet : n = cache[t][s]
      BY <1>1
    <3>2. PICK k \in Nat : k = Cardinality(MarkedAt(block, b, s))
      BY <1>4
    <3>3. d[s] = Erase(n, k)
      BY <3>1, <3>2
    <3> HIDE DEF d
    <3>4. /\ Erase(n, k) \in NodeSet /\ Erase(n, k).pte = n.pte /\ Erase(n, k).key = n.key
          /\ Erase(n, k).global = n.global
          /\ n.pte # Null => Erase(n, k).count = (n.count - k) % Width
      BY <1>1, EraseIs
    <3>5. PICK m : m = Erase(n, k)
      OBVIOUS
    <3>6. /\ m \in NodeSet /\ m.pte = n.pte /\ m.key = n.key /\ m.global = n.global
          /\ n.pte # Null => m.count = (n.count - k) % Width
      BY <3>4, <3>5
    <3>7. d[s] = m
      BY <3>3, <3>5
    <3> QED BY <3>1, <3>2, <3>6, <3>7
  <2>2. d \in [Slots -> NodeSet]
    <3>1. \A s \in Slots : Erase(cache[t][s], Cardinality(MarkedAt(block, b, s))) \in NodeSet
      BY <2>1
    <3> QED BY <3>1
  <2> HIDE DEF d
  <2> QED BY <2>1, <2>2 DEF Erased
<1> HIDE DEF marked, d
<1>7. Unpinned(refs, refs', block, b)
  <2>1. refs' = [p \in Pages |-> refs[p] - Cardinality(Entered(b, p, FALSE))]
    BY DEF Free
  <2>2. ASSUME NEW p \in Pages PROVE Entered(b, p, FALSE) = EnteredOf(block, b, p, No)
    <3>1. ASSUME NEW i \in 1 .. Len(block[b])
          PROVE  block[b][i] = [page |-> p, mark |-> FALSE]
                   <=> block[b][i].page = p /\ block[b][i].mark = FALSE
      <4>1. PICK e \in EntrySet : e = block[b][i]
        BY <1>3
      <4>2. e = [page |-> p, mark |-> FALSE] <=> e.page = p /\ e.mark = FALSE
        BY PlainEntry
      <4> QED BY <4>1, <4>2
    <3>2. \A m : m \in No <=> m = FALSE
      BY DEF No
    <3> QED BY <1>3, <3>1, <3>2 DEF Entered, EnteredOf
  <2>3. \A p \in Pages : Cardinality(Entered(b, p, FALSE)) = EntersOf(block, b, No)[p]
    BY <2>2 DEF EntersOf
  <2> QED BY <2>1, <2>3 DEF Unpinned
<1>8. Emptied(block, bl2, owner, ow2, b)
  BY <1>1 DEF Emptied
<1>9. Core(cache', ring, refs', resident, bl2, ow2)
  <2>1. Core(With(cache, t, d), ring, refs', resident, bl2, ow2)
    BY <1>1, <1>2, <1>6, <1>7, <1>8, FreeCore
  <2> QED BY <1>5, <2>1
<1>10. WorkOf(todo, wait, ow2)
  <2>1. IdleOwners(todo, wait, owner, ow2)
    BY <1>1, <1>2 DEF IdleOwners, With
  <2> QED BY <1>1, <2>1, WorkOwners
<1>11. ASSUME SlotsTrue(cache, block, owner), ~Handoff PROVE SlotsTrue(cache', bl2, ow2)
  <2>1. owner[b] = t
    BY <1>2, <1>11
  <2>2. SlotsTrue(With(cache, t, d), bl2, ow2)
    BY <1>1, <1>6, <1>8, <1>11, <2>1, FreeSlots
  <2> QED BY <1>5, <2>2
<1> QED BY <1>9, <1>10, <1>11

\* A block is released (BufferBlockImp9::free).
LEMMA ReleaseStep ==
  ASSUME NEW t \in Threads, NEW b \in Blocks, Parameters, Pinned, failed = "no", Release(t, b)
  PROVE  Pinned' /\ (Counted /\ ~Handoff => Counted')
<1>1. /\ impl' = impl /\ ring' = ring /\ resident' = resident /\ todo' = todo /\ wait' = wait
      /\ kind' = kind /\ left' = left /\ failed' = failed
      /\ block' = With(block, b, <<>>) /\ owner' = With(owner, b, Null)
      /\ MayFree(t, b) /\ Free(t, b)
  BY DEF Release, With
<1>2. /\ Core(cache', ring, refs', resident, block', owner') /\ WorkOf(todo, wait, owner')
      /\ SlotsTrue(cache, block, owner) /\ ~Handoff => SlotsTrue(cache', block', owner')
  BY <1>1, FreeStep
<1>3. /\ Core(cache', ring', refs', resident', block', owner') /\ WorkOf(todo', wait', owner')
      /\ failed' \in {"no", "no victim", "in use"} /\ failed' # "in use"
  BY <1>1, <1>2
<1>4. Rest
  BY DEF Pinned
<1>5. Pinned'
  BY <1>1, <1>3, <1>4, PinnedNext
<1>6. ASSUME Counted, ~Handoff PROVE Counted'
  <2>1. SlotsTrue(cache', block', owner')
    BY <1>2, <1>6 DEF Counted
  <2> QED BY <1>1, <1>3, <2>1, CountedNext
<1> QED BY <1>5, <1>6

\* A block is moved into another.
LEMMA MoveStep ==
  ASSUME NEW t \in Threads, NEW src \in Blocks, NEW dst \in Blocks, Parameters, Pinned,
         failed = "no", Move(t, src, dst)
  PROVE  Pinned' /\ (Counted /\ ~Handoff => Counted')
<1>1. /\ impl' = impl /\ ring' = ring /\ resident' = resident /\ todo' = todo /\ wait' = wait
      /\ kind' = kind /\ left' = left /\ failed' = failed
      /\ block' = [block EXCEPT ![dst] = block[src], ![src] = <<>>]
      /\ owner' = [owner EXCEPT ![dst] = t, ![src] = Null]
      /\ src # dst /\ MayFree(t, src) /\ MayFree(t, dst) /\ Free(t, dst)
  BY DEF Move
<1>2. PICK bl1 : bl1 = With(block, dst, <<>>)
  OBVIOUS
<1>3. PICK ow1 : ow1 = With(owner, dst, Null)
  OBVIOUS
<1>4. /\ Core(cache', ring, refs', resident, bl1, ow1) /\ WorkOf(todo, wait, ow1)
      /\ SlotsTrue(cache, block, owner) /\ ~Handoff => SlotsTrue(cache', bl1, ow1)
  BY <1>1, <1>2, <1>3, FreeStep
<1>5. /\ block \in [Blocks -> Seq(EntrySet)] /\ owner \in [Blocks -> Threads \cup {Null}]
      /\ Null \notin Threads /\ Rest
  BY DEF Pinned, Here, Core, Parameters
<1>6. /\ bl1 \in [Blocks -> Seq(EntrySet)] /\ ow1 \in [Blocks -> Threads \cup {Null}]
      /\ bl1[dst] = <<>> /\ ow1[dst] = Null
      /\ \A b \in Blocks \ {dst} : bl1[b] = block[b] /\ ow1[b] = owner[b]
  <2>1. bl1 \in [Blocks -> Seq(EntrySet)]
    BY <1>2, <1>4 DEF Core
  <2>2. ow1 \in [Blocks -> Threads \cup {Null}]
    BY <1>4 DEF Core
  <2> QED BY <1>2, <1>3, <1>5, <2>1, <2>2 DEF With
<1>7. block' = With(With(bl1, dst, bl1[src]), src, <<>>)
  <2>1. bl1[src] = block[src]
    BY <1>1, <1>6
  <2>2. ASSUME NEW b \in Blocks PROVE block'[b] = With(With(bl1, dst, bl1[src]), src, <<>>)[b]
    BY <1>1, <1>5, <1>6, <2>1 DEF With
  <2>3. /\ DOMAIN block' = Blocks /\ DOMAIN With(With(bl1, dst, bl1[src]), src, <<>>) = Blocks
        /\ block' = [b \in Blocks |-> block'[b]]
        /\ With(With(bl1, dst, bl1[src]), src, <<>>) =
             [b \in Blocks |-> With(With(bl1, dst, bl1[src]), src, <<>>)[b]]
    BY <1>1, <1>5, <1>6 DEF With
  <2> QED BY <2>2, <2>3
<1>8. owner' = With(With(ow1, dst, t), src, Null)
  <2>1. ASSUME NEW b \in Blocks PROVE owner'[b] = With(With(ow1, dst, t), src, Null)[b]
    BY <1>1, <1>5, <1>6 DEF With
  <2>2. /\ owner' = [b \in Blocks |-> owner'[b]]
        /\ With(With(ow1, dst, t), src, Null) =
             [b \in Blocks |-> With(With(ow1, dst, t), src, Null)[b]]
    BY <1>1, <1>5, <1>6 DEF With
  <2> QED BY <2>1, <2>2
<1>9. Moved(bl1, block', ow1, owner', src, dst, t)
  BY <1>1, <1>6, <1>7, <1>8 DEF Moved
<1>10. /\ owner[src] \in Threads /\ todo[owner[src]] = <<>> /\ wait[owner[src]] = <<>>
       /\ ow1[src] = owner[src] /\ (~Handoff => owner[src] = t)
  BY <1>1, <1>5, <1>6 DEF MayFree, Complete, Idle
<1>11. Core(cache', ring', refs', resident', block', owner')
  <2>1. Core(cache', ring, refs', resident, block', owner')
    BY <1>4, <1>9, <1>10, MoveCore
  <2> QED BY <1>1, <2>1
<1>12. WorkOf(todo', wait', owner')
  <2>1. \A b \in Blocks \ {src, dst} : owner'[b] = ow1[b]
    BY <1>9, MovedIs
  <2>2. IdleOwners(todo, wait, ow1, owner')
    BY <1>5, <1>6, <1>10, <2>1 DEF IdleOwners
  <2>3. WorkOf(todo, wait, owner')
    BY <1>4, <2>2, WorkOwners
  <2> QED BY <1>1, <2>3
<1>13. failed' \in {"no", "no victim", "in use"} /\ failed' # "in use"
  BY <1>1
<1>14. Pinned'
  BY <1>1, <1>5, <1>11, <1>12, <1>13, PinnedNext
<1>15. ASSUME Counted, ~Handoff PROVE Counted'
  <2>1. SlotsTrue(cache', bl1, ow1) /\ ow1[src] = t
    BY <1>4, <1>10, <1>15 DEF Counted
  <2>2. SlotsTrue(cache', block', owner')
    BY <1>9, <2>1, MoveSlots
  <2> QED BY <1>1, <1>13, <2>2, CountedNext
<1> QED BY <1>14, <1>15

\* CleanAllCache, whose assertion holds when the counts are right.
LEMMA CleanStep ==
  ASSUME Parameters, Pinned, failed = "no", CleanAllCache
  PROVE  Pinned' /\ (Counted => Counted')
<1>1. /\ impl' = impl /\ ring' = ring /\ resident' = resident /\ todo' = todo /\ wait' = wait
      /\ kind' = kind /\ left' = left /\ block' = block /\ owner' = owner
  BY DEF CleanAllCache
<1>2. /\ Core(cache, ring, refs, resident, block, owner) /\ WorkOf(todo, wait, owner) /\ Rest
      /\ cache \in [Threads -> [Slots -> NodeSet]] /\ block \in [Blocks -> Seq(EntrySet)]
      /\ \A z \in Threads : SlotsRight(cache[z]) /\ impl \in Impls
  BY DEF Pinned, Here, Work, Core, Rest
<1>3. NoPages(block)
  BY <1>2 DEF CleanAllCache, Core, NoPages
<1>4. WorkOf(todo', wait', owner')
  BY <1>1, <1>2
<1>5. CASE \E t \in Threads, s \in Slots : InUse(cache[t][s])
  <2>1. failed' = "in use" /\ cache' = cache /\ refs' = refs
    BY <1>5 DEF CleanAllCache
  <2>2. Core(cache', ring', refs', resident', block', owner')
    BY <1>1, <1>2, <2>1
  <2>3. Pinned'
    BY <1>1, <1>2, <1>4, <2>1, <2>2, PinnedNext
  <2>4. ASSUME Counted PROVE FALSE
    <3>1. PICK t \in Threads, s \in Slots : InUse(cache[t][s])
      BY <1>5
    <3>2. PICK q \in Pages : q = cache[t][s].pte /\ cache[t][s].count # 0
      BY <1>2, <3>1 DEF InUse, NodeSet
    <3>3. q # Null
      BY <3>1, <3>2 DEF InUse
    <3>4. SlotsOf(cache[t], Marked(block, owner, t))
      BY <2>4 DEF Counted, SlotsTrue
    <3>5. cache[t][s].count = Marked(block, owner, t)[q]
      BY <3>2, <3>3, <3>4 DEF SlotsOf
    <3>6. CountOf(block, owner, Yes, {t})[q] = 0
      BY <1>2, <1>3, NoUses
    <3>7. Marked(block, owner, t)[q] = 0
      BY <3>6 DEF Marked
    <3> QED BY <3>2, <3>5, <3>7
  <2> QED BY <2>3, <2>4
<1>6. CASE ~ \E t \in Threads, s \in Slots : InUse(cache[t][s])
  <2>1. /\ cache' = [t \in Threads |-> [s \in Slots |-> Clean(cache[t][s])]]
        /\ refs' = [p \in Pages |-> refs[p] -
                      Cardinality({t \in Threads : cache[t][Slot[p]].pte = p})]
        /\ failed' = failed
    BY <1>6 DEF CleanAllCache
  <2>2. ASSUME NEW t \in Threads, NEW s \in Slots
        PROVE  Clean(cache[t][s]) \in NodeSet /\ Clean(cache[t][s]).pte = Null
    <3>1. PICK n \in NodeSet : n = cache[t][s]
      BY <1>2
    <3>2. Clean(n) \in NodeSet /\ Clean(n).pte = Null
      BY <1>2, CleanIs
    <3> QED BY <3>1, <3>2
  <2>3. Cleaned(cache, cache', refs, refs')
    BY <2>1, <2>2 DEF Cleaned, HoldOf
  <2>4. Core(cache', ring, refs', resident, block, owner) /\ SlotsTrue(cache', block, owner)
    BY <1>2, <1>3, <2>3, CleanCore
  <2>5. Core(cache', ring', refs', resident', block', owner')
    BY <1>1, <2>4
  <2>6. Pinned'
    BY <1>1, <1>2, <1>4, <2>1, <2>5, PinnedNext
  <2>7. SlotsTrue(cache', block', owner') /\ failed' # "in use"
    BY <1>1, <2>1, <2>4
  <2>8. Counted'
    BY <1>1, <2>7, CountedNext
  <2> QED BY <2>6, <2>8
<1> QED BY <1>5, <1>6

\* Initially nothing is held.
LEMMA InitPinned ==
  ASSUME Parameters, Init
  PROVE  Pinned /\ Counted
<1>1. /\ cache \in [Threads -> [Slots -> {Node(k) : k \in Pages \cup {Null}}]]
      /\ ring = [t \in Threads |-> Null]
      /\ refs = [p \in Pages |-> 0] /\ resident = {}
      /\ block = [b \in Blocks |-> <<>>] /\ owner = [b \in Blocks |-> Null]
  BY DEF Init
<1>2. /\ Null \notin Pages /\ Frames \in Nat /\ Calls \in Nat /\ 0 \in 0 .. Width - 1
      /\ \A q \in Pages : Slot[q] \in Slots
  BY DEF Parameters
<1>3. ASSUME NEW k \in Pages \cup {Null} PROVE Node(k) \in NodeSet /\ Node(k).pte = Null
  BY <1>2 DEF Node, NodeSet
<1>4. ASSUME NEW t \in Threads, NEW s \in Slots
      PROVE  cache[t][s] \in NodeSet /\ cache[t][s].pte = Null
  <2>1. PICK k \in Pages \cup {Null} : cache[t][s] = Node(k)
    BY <1>1
  <2> QED BY <1>3, <2>1
<1>5. cache \in [Threads -> [Slots -> NodeSet]]
  <2>1. \A k \in Pages \cup {Null} : Node(k) \in NodeSet
    BY <1>3
  <2>2. {Node(k) : k \in Pages \cup {Null}} \subseteq NodeSet
    BY <2>1
  <2> QED BY <1>1, <2>2
<1>6. <<>> \in Seq(EntrySet) /\ Null \in Threads \cup {Null} /\ Null \in Slots \cup {Null}
  OBVIOUS
<1>7. block \in [Blocks -> Seq(EntrySet)]
  BY <1>1, <1>6
<1>8. owner \in [Blocks -> Threads \cup {Null}] /\ ring \in [Threads -> Slots \cup {Null}]
  BY <1>1, <1>6
<1>9. NoPages(block)
  BY <1>1 DEF NoPages
<1>10. ASSUME NEW q \in Pages
       PROVE  refs[q] = Cardinality(HoldOf(cache, q)) + Plain(block, owner)[q]
  <2>1. HoldOf(cache, q) = {}
    BY <1>2, <1>4 DEF HoldOf
  <2>2. Cardinality(HoldOf(cache, q)) = 0
    BY <2>1, FS_EmptySet
  <2>3. CountOf(block, owner, No, Threads)[q] = 0
    BY <1>7, <1>9, NoUses
  <2>4. Plain(block, owner)[q] = 0
    BY <2>3 DEF Plain
  <2>5. refs[q] = 0
    BY <1>1
  <2> QED BY <2>2, <2>4, <2>5
<1>11. \A t \in Threads : SlotsRight(cache[t]) /\ KeysRight(cache[t])
  BY <1>4, <1>5 DEF SlotsRight, KeysRight
<1>12. resident \in SUBSET Pages /\ IsFiniteSet(resident) /\ Cardinality(resident) <= Frames
  <2>1. IsFiniteSet({}) /\ Cardinality({}) = 0
    BY FS_EmptySet
  <2> QED BY <1>1, <1>2, <2>1
<1>13. refs \in [Pages -> Nat] /\ \A q \in Pages : refs[q] > 0 => q \in resident
  BY <1>1
<1>14. Here
  <2>1. \A b \in Blocks : owner[b] = Null => block[b] = <<>>
    BY <1>1
  <2> QED BY <1>5, <1>7, <1>8, <1>10, <1>11, <1>12, <1>13, <2>1 DEF Here, Core
<1>15. Work
  <2>1. todo = [t \in Threads |-> <<>>] /\ wait = [t \in Threads |-> <<>>]
    BY DEF Init
  <2>2. <<>> \in Seq(Blocks \X Pages)
    OBVIOUS
  <2>3. \A t \in Threads : Mine(<<>>, owner, t)
    BY <2>2 DEF Mine
  <2> QED BY <2>1, <2>2, <2>3 DEF Work, WorkOf
<1>16. Rest
  BY <1>2 DEF Rest, Init
<1>17. Counted
  <2>1. ASSUME NEW t \in Threads PROVE SlotsOf(cache[t], Marked(block, owner, t))
    <3>1. ASSUME NEW q \in Pages PROVE Marked(block, owner, t)[q] = 0
      <4>1. CountOf(block, owner, Yes, {t})[q] = 0
        BY <1>7, <1>9, NoUses
      <4> QED BY <4>1 DEF Marked
    <3>2. \A s \in Slots : cache[t][s].pte = Null
      BY <1>4
    <3> QED BY <3>1, <3>2 DEF SlotsOf
  <2>2. failed # "in use"
    BY DEF Init
  <2> QED BY <2>1, <2>2 DEF Counted, SlotsTrue, CleanSucceeds
<1> QED BY <1>14, <1>15, <1>16, <1>17 DEF Pinned

\* Every step keeps Pinned; steps within Handoff's and Fits' limits keep Counted.
LEMMA NextPinned ==
  ASSUME Parameters, Pinned, [Next]_vars
  PROVE  /\ Pinned'
         /\ Counted /\ ~Handoff /\ FitsOf(block', owner') => Counted'
<1>1. CASE UNCHANGED vars
  <2>1. /\ impl' = impl /\ cache' = cache /\ ring' = ring /\ refs' = refs
        /\ resident' = resident /\ block' = block /\ owner' = owner /\ todo' = todo
        /\ wait' = wait /\ kind' = kind /\ left' = left /\ failed' = failed
    BY <1>1 DEF vars
  <2>2. Core(cache, ring, refs, resident, block, owner) /\ WorkOf(todo, wait, owner) /\ Rest
    BY DEF Pinned, Here, Work
  <2>3. /\ Core(cache', ring', refs', resident', block', owner') /\ WorkOf(todo', wait', owner')
        /\ failed' \in {"no", "no victim", "in use"}
    BY <2>1, <2>2 DEF Rest
  <2>4. Pinned'
    BY <2>1, <2>2, <2>3, PinnedNext
  <2>5. ASSUME Counted PROVE Counted'
    <3>1. SlotsTrue(cache', block', owner') /\ failed' # "in use"
      BY <2>1, <2>5 DEF Counted, CleanSucceeds
    <3> QED BY <2>1, <3>1, CountedNext
  <2> QED BY <2>4, <2>5
<1>2. CASE Next
  <2>1. failed = "no"
    BY <1>2 DEF Next
  <2>2. ASSUME NEW t \in Threads, Begin(t)
        PROVE  Pinned' /\ (Counted => Counted')
    BY <2>2, BeginStep
  <2>3. ASSUME NEW t \in Threads, Hit(t)
        PROVE  Pinned' /\ (Counted /\ FitsOf(block', owner') => Counted')
    BY <2>3, HitStep
  <2>4. ASSUME NEW t \in Threads, GetBlockWithDirectCacheSync(t)
        PROVE  Pinned' /\ (Counted => Counted')
    BY <2>4, GetStep
  <2>5. ASSUME NEW t \in Threads, BatchPin(t)
        PROVE  Pinned' /\ (Counted => Counted')
    BY <2>1, <2>5, BatchPinStep
  <2>6. ASSUME NEW t \in Threads, BatchWait(t)
        PROVE  Pinned' /\ (Counted => Counted')
    BY <2>6, BatchWaitStep
  <2>7. ASSUME NEW t \in Threads, NEW b \in Blocks, Release(t, b)
        PROVE  Pinned' /\ (Counted /\ ~Handoff => Counted')
    BY <2>1, <2>7, ReleaseStep
  <2>8. ASSUME NEW t \in Threads, NEW b \in Blocks, NEW c \in Blocks, Move(t, b, c)
        PROVE  Pinned' /\ (Counted /\ ~Handoff => Counted')
    BY <2>1, <2>8, MoveStep
  <2>9. ASSUME CleanAllCache PROVE Pinned' /\ (Counted => Counted')
    BY <2>1, <2>9, CleanStep
  <2> QED BY <1>2, <2>2, <2>3, <2>4, <2>5, <2>6, <2>7, <2>8, <2>9 DEF Next
<1> QED BY <1>1, <1>2

-----------------------------------------------------------------------------
(* What the invariants say of the module's own terms. *)

LEMMA UsesAre ==
  ASSUME NEW p, NEW ts
  PROVE  /\ Uses(p, FALSE, ts) = UsesOf(block, owner, p, No, ts)
         /\ Uses(p, TRUE, ts) = UsesOf(block, owner, p, Yes, ts)
<1>1. Entries = PlacesOf(block)
  BY DEF Entries, PlacesOf
<1>2. \A m : (m \in No <=> m = FALSE) /\ (m \in Yes <=> m = TRUE)
  BY DEF Yes, No
<1>3. Uses(p, FALSE, ts) = UsesOf(block, owner, p, No, ts)
  BY <1>1, <1>2 DEF Uses, Entry, UsesOf
<1>4. Uses(p, TRUE, ts) = UsesOf(block, owner, p, Yes, ts)
  BY <1>1, <1>2 DEF Uses, Entry, UsesOf
<1> QED BY <1>3, <1>4

\* The uses of the specification are the counts of the proof.
LEMMA CountsAre ==
  ASSUME NEW p \in Pages, NEW ts, Parameters, block \in [Blocks -> Seq(EntrySet)]
  PROVE  /\ Cardinality(Uses(p, FALSE, ts)) = CountOf(block, owner, No, ts)[p]
         /\ Cardinality(Uses(p, TRUE, ts)) = CountOf(block, owner, Yes, ts)[p]
<1>1. /\ CountOf(block, owner, No, ts)[p] = Cardinality(UsesOf(block, owner, p, No, ts))
      /\ CountOf(block, owner, Yes, ts)[p] = Cardinality(UsesOf(block, owner, p, Yes, ts))
  BY CountIs
<1>2. /\ Uses(p, FALSE, ts) = UsesOf(block, owner, p, No, ts)
      /\ Uses(p, TRUE, ts) = UsesOf(block, owner, p, Yes, ts)
  BY UsesAre
<1>3. Cardinality(Uses(p, FALSE, ts)) = Cardinality(UsesOf(block, owner, p, No, ts))
  BY <1>2, Zenon
<1>4. Cardinality(Uses(p, TRUE, ts)) = Cardinality(UsesOf(block, owner, p, Yes, ts))
  BY <1>2, Zenon
<1> QED BY <1>1, <1>3, <1>4

\* Pinned is the specification's CacheInv.
LEMMA PinnedIsCacheInv ==
  ASSUME Parameters, Pinned
  PROVE  CacheInv
<1>1. /\ Core(cache, ring, refs, resident, block, owner) /\ WorkOf(todo, wait, owner) /\ Rest
      /\ cache \in [Threads -> [Slots -> NodeSet]] /\ block \in [Blocks -> Seq(EntrySet)]
      /\ \A t \in Threads : SlotsRight(cache[t]) /\ KeysRight(cache[t])
  BY DEF Pinned, Here, Work, Core
<1>2. TypeOK
  <2>1. \A t \in Threads, s \in Slots : cache[t][s].pte # Null => Slot[cache[t][s].pte] = s
    BY <1>1 DEF SlotsRight
  <2>2. cache \in [Threads -> [Slots -> [pte : Pages \cup {Null}, count : 0 .. Width - 1,
                                         key : Pages \cup {Null}, global : BOOLEAN]]]
    BY <1>1 DEF NodeSet
  <2>3. block \in [Blocks -> Seq([page : Pages, mark : BOOLEAN])]
    BY <1>1 DEF EntrySet
  <2>4. /\ ring \in [Threads -> Slots \cup {Null}]
        /\ refs \in [Pages -> Nat] /\ resident \subseteq Pages
        /\ IsFiniteSet(resident) /\ Cardinality(resident) <= Frames
        /\ owner \in [Blocks -> Threads \cup {Null}]
    BY <1>1 DEF Core
  <2>5. /\ todo \in [Threads -> Seq(Blocks \X Pages)]
        /\ wait \in [Threads -> Seq(Blocks \X Pages)]
    BY <1>1 DEF WorkOf
  <2>6. /\ impl \in Impls /\ kind \in [Threads -> {"Sync", "Batch"}]
        /\ left \in [Threads -> 0 .. Calls] /\ failed \in {"no", "no victim", "in use"}
    BY <1>1 DEF Rest
  <2> QED BY <2>1, <2>2, <2>3, <2>4, <2>5, <2>6 DEF TypeOK
<1>3. KeyInv
  BY <1>1 DEF KeyInv, KeysRight
<1>4. WorkInv
  <2>1. ASSUME NEW t \in Threads, NEW i \in DOMAIN todo[t] PROVE owner[todo[t][i][1]] = t
    <3>1. Mine(todo[t], owner, t)
      BY <1>1 DEF WorkOf
    <3>2. todo[t] \in Seq(Blocks \X Pages)
      BY <1>1 DEF WorkOf
    <3>3. i \in 1 .. Len(todo[t])
      BY <3>2
    <3> QED BY <3>1, <3>3 DEF Mine
  <2>2. ASSUME NEW t \in Threads, NEW i \in DOMAIN wait[t] PROVE owner[wait[t][i][1]] = t
    <3>1. Mine(wait[t], owner, t)
      BY <1>1 DEF WorkOf
    <3>2. wait[t] \in Seq(Blocks \X Pages)
      BY <1>1 DEF WorkOf
    <3>3. i \in 1 .. Len(wait[t])
      BY <3>2
    <3> QED BY <3>1, <3>3 DEF Mine
  <2>3. \A b \in Blocks : owner[b] = Null => block[b] = <<>>
    BY <1>1 DEF Core
  <2> QED BY <2>1, <2>2, <2>3 DEF WorkInv
<1>5. PinsExact
  <2>1. ASSUME NEW p \in Pages
        PROVE  refs[p] = Cardinality(Holding(p)) + Cardinality(Uses(p, FALSE, Threads))
    <3>1. refs[p] = Cardinality(HoldOf(cache, p)) + CountOf(block, owner, No, Threads)[p]
      BY <1>1 DEF Core, Plain
    <3>2. Cardinality(Uses(p, FALSE, Threads)) = CountOf(block, owner, No, Threads)[p]
      BY <1>1, CountsAre
    <3>3. Cardinality(Holding(p)) = Cardinality(HoldOf(cache, p))
      BY DEF Holding, HoldOf
    <3> QED BY <3>1, <3>2, <3>3
  <2> QED BY <2>1 DEF PinsExact
<1>6. ResidentInv
  BY <1>1 DEF ResidentInv, Core
<1> QED BY <1>2, <1>3, <1>4, <1>5, <1>6 DEF CacheInv

\* Fits, in the terms of the proof.
LEMMA FitsIs ==
  ASSUME Parameters, Pinned, Fits
  PROVE  FitsOf(block, owner)
<1>1. block \in [Blocks -> Seq(EntrySet)]
  BY DEF Pinned, Here, Core
<1>2. ASSUME NEW t \in Threads, NEW p \in Pages PROVE Marked(block, owner, t)[p] < Width
  <2>1. Cardinality(Uses(p, TRUE, {t})) < Width
    BY DEF Fits
  <2>2. Cardinality(Uses(p, TRUE, {t})) = CountOf(block, owner, Yes, {t})[p]
    BY <1>1, CountsAre
  <2>3. CountOf(block, owner, Yes, {t})[p] < Width
    BY <2>1, <2>2
  <2> QED BY <2>3 DEF Marked
<1> QED BY <1>2 DEF FitsOf

\* A page that a block has is held by its owner's slot, or counted.
LEMMA CountedIsSlotInv ==
  ASSUME Parameters, Pinned, Counted
  PROVE  SlotInv /\ ShownResident
<1>1. /\ block \in [Blocks -> Seq(EntrySet)] /\ owner \in [Blocks -> Threads \cup {Null}]
      /\ cache \in [Threads -> [Slots -> NodeSet]] /\ refs \in [Pages -> Nat]
      /\ \A b \in Blocks : owner[b] = Null => block[b] = <<>>
      /\ \A p \in Pages : refs[p] = Cardinality(HoldOf(cache, p)) + Plain(block, owner)[p]
      /\ \A p \in Pages : refs[p] > 0 => p \in resident
  BY DEF Pinned, Here, Core
<1>2. \A t \in Threads : SlotsOf(cache[t], Marked(block, owner, t))
  BY DEF Counted, SlotsTrue
<1>3. GlobalInv
  BY <1>2 DEF GlobalInv, SlotsOf
<1>4. CountsExact
  <2>1. ASSUME NEW t \in Threads, NEW s \in Slots, cache[t][s].pte # Null
        PROVE  cache[t][s].count = Cardinality(Uses(cache[t][s].pte, TRUE, {t}))
    <3>1. PICK q \in Pages : q = cache[t][s].pte
      BY <1>1, <2>1 DEF NodeSet
    <3>2. cache[t][s].count = Marked(block, owner, t)[q]
      BY <1>2, <2>1, <3>1 DEF SlotsOf
    <3>3. cache[t][s].count = CountOf(block, owner, Yes, {t})[q]
      BY <3>2 DEF Marked
    <3>4. Cardinality(Uses(q, TRUE, {t})) = CountOf(block, owner, Yes, {t})[q]
      BY <1>1, CountsAre
    <3>5. cache[t][s].count = Cardinality(Uses(q, TRUE, {t}))
      BY <3>3, <3>4
    <3> QED BY <3>1, <3>5
  <2> QED BY <2>1 DEF CountsExact
<1>5. ASSUME NEW b \in Blocks, NEW i \in 1 .. Len(block[b])
      PROVE  /\ i \in Nat /\ block[b][i] \in EntrySet /\ owner[b] \in Threads
             /\ block[b][i].mark = TRUE =>
                  cache[owner[b]][Slot[block[b][i].page]].pte = block[b][i].page
  <2>1. i \in Nat /\ block[b] \in Seq(EntrySet) /\ block[b] # <<>>
    BY <1>1
  <2>2. PICK e \in EntrySet : e = block[b][i]
    BY <2>1
  <2>3. owner[b] \in Threads
    BY <1>1, <2>1
  <2>4. PICK t \in Threads : t = owner[b]
    BY <2>3
  <2>5. ASSUME e.mark = TRUE PROVE cache[t][Slot[e.page]].pte = e.page
    <3>1. PICK q : q = e.page
      OBVIOUS
    <3>2. UseHere(block, owner, q, Yes, {t}, b, i)
      <4>1. e.mark \in Yes
        BY <2>5 DEF Yes
      <4>2. owner[b] \in {t}
        BY <2>4
      <4> QED BY <2>2, <3>1, <4>1, <4>2 DEF UseHere
    <3>3. q \in Pages /\ CountOf(block, owner, Yes, {t})[q] > 0
      BY <1>1, <2>1, <3>2, UseCounts
    <3>4. Marked(block, owner, t)[q] # 0
      BY <3>3 DEF Marked
    <3>5. cache[t][Slot[q]].pte = q
      BY <1>2, <3>3, <3>4 DEF SlotsOf
    <3> QED BY <3>1, <3>5
  <2> QED BY <2>1, <2>2, <2>3, <2>4, <2>5
<1>6. MarkedHeld
  <2>1. ASSUME NEW x \in Entries, Entry(x).mark
        PROVE  cache[owner[x[1]]][Slot[Entry(x).page]].pte = Entry(x).page
    <3>1. x \in PlacesOf(block)
      BY DEF Entries, PlacesOf
    <3>2. PICK b \in Blocks : \E i \in 1 .. Len(block[b]) : x = <<b, i>>
      BY <3>1, PlaceIs
    <3>3. PICK i \in 1 .. Len(block[b]) : x = <<b, i>>
      BY <3>2
    <3>4. x[1] = b /\ Entry(x) = block[b][i]
      BY <3>3 DEF Entry
    <3>5. block[b][i] \in EntrySet
      BY <1>5
    <3>6. block[b][i].mark = TRUE
      BY <2>1, <3>4, <3>5 DEF EntrySet
    <3>7. cache[owner[b]][Slot[block[b][i].page]].pte = block[b][i].page
      BY <1>5, <3>6
    <3> QED BY <3>4, <3>7
  <2> QED BY <2>1 DEF MarkedHeld
<1>7. ShownResident
  <2>1. ASSUME NEW b \in Blocks, NEW i \in 1 .. Len(block[b])
        PROVE  block[b][i].page \in resident /\ refs[block[b][i].page] > 0
    <3>1. PICK e \in EntrySet : e = block[b][i]
      BY <1>5
    <3>2. PICK q \in Pages : q = e.page
      BY DEF EntrySet
    <3>3. i \in Nat /\ owner[b] \in Threads
      BY <1>5
    <3>4. IsFiniteSet(HoldOf(cache, q)) /\ Cardinality(HoldOf(cache, q)) \in Nat
      <4>1. IsFiniteSet(Threads) /\ HoldOf(cache, q) \in SUBSET Threads
        BY DEF Parameters, HoldOf
      <4>2. IsFiniteSet(HoldOf(cache, q))
        BY <4>1, FS_Subset
      <4> QED BY <4>2, FS_CardinalityType
    <3>5. Plain(block, owner)[q] \in Nat
      <4>1. CountOf(block, owner, No, Threads) \in [Pages -> Nat]
        BY <1>1, CountIs
      <4> QED BY <4>1 DEF Plain
    <3>6. CASE e.mark = TRUE
      <4>1. cache[owner[b]][Slot[q]].pte = q
        BY <1>5, <3>1, <3>2, <3>6
      <4>2. owner[b] \in HoldOf(cache, q)
        BY <3>3, <4>1 DEF HoldOf
      <4>3. Cardinality(HoldOf(cache, q)) # 0
        BY <3>4, <4>2, FS_EmptySet
      <4>4. refs[q] > 0
        BY <1>1, <3>4, <3>5, <4>3
      <4> QED BY <1>1, <3>1, <3>2, <4>4
    <3>7. CASE e.mark = FALSE
      <4>1. UseHere(block, owner, q, No, Threads, b, i)
        <5>1. e.mark \in No
          BY <3>7 DEF No
        <5> QED BY <3>1, <3>2, <3>3, <5>1 DEF UseHere
      <4>2. CountOf(block, owner, No, Threads)[q] > 0
        BY <1>1, <3>3, <4>1, UseCounts
      <4>3. Plain(block, owner)[q] > 0
        BY <4>2 DEF Plain
      <4>4. refs[q] > 0
        BY <1>1, <3>4, <3>5, <4>3
      <4> QED BY <1>1, <3>1, <3>2, <4>4
    <3> QED BY <3>6, <3>7 DEF EntrySet
  <2>2. \A b \in Blocks : DOMAIN block[b] = 1 .. Len(block[b])
    BY <1>1
  <2> QED BY <2>1, <2>2 DEF ShownResident
<1>8. CacheInv /\ CleanSucceeds
  BY PinnedIsCacheInv DEF Counted
<1> QED BY <1>3, <1>4, <1>6, <1>7, <1>8 DEF SlotInv

-----------------------------------------------------------------------------
(* The theorems. *)

LEMMA AlwaysPinned ==
  Parameters /\ Spec => []Pinned
<1>1. ASSUME Parameters PROVE Spec => []Pinned
  <2>1. Init => Pinned
    BY <1>1, InitPinned
  <2>2. Pinned /\ [Next]_vars => Pinned'
    BY <1>1, NextPinned
  <2> QED BY <2>1, <2>2, PTL DEF Spec
<1> QED BY <1>1

\* The inductive invariant, whoever releases the blocks.
THEOREM CacheInvariance ==
  Parameters /\ Spec => []CacheInv
<1>1. ASSUME Parameters PROVE Spec => []CacheInv
  <2>1. Pinned => CacheInv
    BY <1>1, PinnedIsCacheInv
  <2> QED BY <1>1, <2>1, AlwaysPinned, PTL
<1> QED BY <1>1

\* Each variable keeps its type: a slot has a page of its own, and count_cur stays in
\* its width.
THEOREM CacheTypes ==
  Parameters /\ Spec => []TypeOK
<1>1. CacheInv => TypeOK
  BY DEF CacheInv
<1> QED BY <1>1, CacheInvariance, PTL

\* In each of the five caches no pin leaks and none is given back twice, whoever
\* releases the blocks and in which order (Insert, Erase, BufferBlockImp9::free).
THEOREM ReferencesAreExact ==
  Parameters /\ Spec => []PinsExact
<1>1. CacheInv => PinsExact
  BY DEF CacheInv
<1> QED BY <1>1, CacheInvariance, PTL

\* Counted holds throughout, and gives SlotInv and ShownResident.
LEMMA AlwaysCounted ==
  Parameters /\ ~Handoff /\ Spec /\ []Fits => [](SlotInv /\ ShownResident)
<1>1. ASSUME Parameters, ~Handoff PROVE Spec /\ []Fits => [](SlotInv /\ ShownResident)
  <2> DEFINE Fit == FitsOf(block, owner)
  <2>1. Spec => []Pinned
    BY <1>1, AlwaysPinned
  <2>2. Pinned /\ Fits => Fit
    BY <1>1, FitsIs
  <2>3. Init => Counted
    BY <1>1, InitPinned
  <2>4. Pinned /\ Counted /\ Fit' /\ [Next]_vars => Counted'
    BY <1>1, NextPinned
  <2>5. Pinned /\ Counted => SlotInv /\ ShownResident
    BY <1>1, CountedIsSlotInv
  <2> HIDE DEF Fit
  <2> QED BY <2>1, <2>2, <2>3, <2>4, <2>5, PTL DEF Spec
<1> QED BY <1>1

\* If each thread releases its own blocks, and uses no page more often than
\* count_cur can count: a slot's count is the number of block pages taken from it.
THEOREM CountsAreExact ==
  Parameters /\ ~Handoff /\ Spec /\ []Fits => []CountsExact
<1>1. SlotInv /\ ShownResident => CountsExact
  BY DEF SlotInv
<1> QED BY <1>1, AlwaysCounted, PTL

\* Under the same conditions a page that a block shows is in memory, with a reference,
\* as long as the block lives: Insert replaces no page that a block still shows.
THEOREM ShownIsResident ==
  Parameters /\ ~Handoff /\ Spec /\ []Fits => []ShownResident
BY AlwaysCounted, PTL

\* Under the same conditions the assertion of Clean, count_cur == 0, holds whenever
\* the caches are cleaned without blocks.
THEOREM CleanNeverFails ==
  Parameters /\ ~Handoff /\ Spec /\ []Fits => []CleanSucceeds
<1>1. SlotInv /\ ShownResident => CleanSucceeds
  BY DEF SlotInv
<1> QED BY <1>1, AlwaysCounted, PTL
=============================================================================
