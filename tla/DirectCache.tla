----------------------------- MODULE DirectCache -----------------------------
(***************************************************************************)
(* The direct caches: one per thread, a table of slots indexed by a hash   *)
(* of the page, each of which keeps one page pinned for the thread.  A     *)
(* block that took its page from a slot is "marked": releasing it counts   *)
(* the slot down and leaves the page's own reference count alone.          *)
(*                                                                         *)
(* The five implementations share this module: impl selects one.  The      *)
(* buffer pools below are abstract: a fetch pins its page in one step and  *)
(* evicts a page that nobody refers to when there is no room (modules      *)
(* BufferPool and BatchFetch have the steps).                              *)
(***************************************************************************)
EXTENDS Integers, FiniteSets, Sequences, Functions

CONSTANTS
  Threads, Pages, Slots, Blocks, Null,
  Slot,      \* page -> slot, DirectCache_HASH_FUNC
  Frames,    \* number of frames of the pools
  Width,     \* count_cur is counted modulo Width
  Impls,     \* implementations looked at, of 1 .. 5
  Handoff,   \* may a thread release a block that another one got?
  OneBlock,  \* lists of pages asked for by GetBlockWithDirectCacheSync
  Batch,     \* lists of <<request, page>>, for GetBlockBatchWithDirectCache
  Calls      \* bound: calls of one thread

\* What the constants have to be; the modules that instantiate this one assume it.
Parameters ==
  /\ IsFiniteSet(Threads) /\ IsFiniteSet(Blocks)
  /\ Null \notin Threads /\ Null \notin Pages /\ Null \notin Slots
  /\ Slot \in [Pages -> Slots] /\ Width \in Nat /\ Width > 1
  /\ Frames \in Nat /\ Calls \in Nat /\ Impls \subseteq 1 .. 5
  /\ OneBlock \subseteq Seq(Pages) /\ Batch \subseteq Seq(Nat \X Pages)

VARIABLES
  impl,      \* the implementation
  cache,     \* thread -> slot -> node
  ring,      \* thread -> eviction_structure_[0] of Impl2
  refs,      \* page -> ref_count of its PTE
  resident,  \* the pages in memory
  block,     \* block -> its pages, each with its mark
  owner,     \* block -> the thread that got it; Null: no such block
  todo,      \* thread -> <<block, page>>s not looked up yet
  wait,      \* thread -> <<block, page>>s being fetched (BP_sync_requests)
  kind,      \* thread -> the function it is in
  left,      \* thread -> calls it may still make
  failed     \* the assertion that ended the process, or "no"

vars == <<impl, cache, ring, refs, resident, block, owner, todo, wait, kind,
          left, failed>>

\* key: fd_cur and fpage_id_cur of the nodes of Impl4 and Impl5, which no
\* constructor sets.  global: count_global of Impl2.
Node(key) == [pte |-> Null, count |-> 0, key |-> key, global |-> FALSE]

Init ==
  /\ impl \in Impls
  /\ cache \in [Threads -> [Slots -> {Node(k) : k \in Pages \cup {Null}}]]
  /\ impl \notin {4, 5} => cache = [t \in Threads |-> [s \in Slots |-> Node(Null)]]
  /\ ring = [t \in Threads |-> Null]
  /\ refs = [p \in Pages |-> 0] /\ resident = {}
  /\ block = [b \in Blocks |-> <<>>] /\ owner = [b \in Blocks |-> Null]
  /\ todo = [t \in Threads |-> <<>>] /\ wait = [t \in Threads |-> <<>>]
  /\ kind = [t \in Threads |-> "Sync"]
  /\ left = [t \in Threads |-> Calls]
  /\ failed = "no"

-----------------------------------------------------------------------------
(* The nodes. *)

CountedUp(n) == [n EXCEPT !.count = (@ + 1) % Width]
Found(n, pte, node) == [pte |-> pte, node |-> node]
Missed(n) == Found(n, Null, n)

\* Each Find gives the answer and the node it leaves.

\* Variant: the slot is not counted.
Find1Uncounted(n, p) == IF n.pte = p THEN Found(n, p, n) ELSE Missed(n)

Find1(n, p) == IF n.pte = p THEN Found(n, p, CountedUp(n)) ELSE Missed(n)

Find2(n, p) == IF n.pte = p
               THEN Found(n, p, [CountedUp(n) EXCEPT !.global = TRUE])
               ELSE Missed(n)

\* Impl3 stores false in a latch that nobody ever takes.
Find3(n, p) == Find1(n, p)

\* Only the key is compared: the slot may be empty, and is then counted up.
Find4(n, p) == IF n.key = p THEN Found(n, n.pte, CountedUp(n)) ELSE Missed(n)

Find5(n, p) == Find4(n, p)

\* Each Insert gives its answer, the thread's slots, its ring entry and the page
\* whose PTE it has counted down, if any.
Stored(c, r, s, n, drop) ==
  [ok |-> TRUE, slots |-> [c EXCEPT ![s] = n], ring |-> r, drop |-> drop \ {Null}]
Refused(c, r) == [ok |-> FALSE, slots |-> c, ring |-> r, drop |-> {}]
InUse(n) == n.pte # Null /\ n.count # 0

\* Variant: the slot's page is replaced while blocks use it.
Insert1Always(c, r, p) ==
  LET s == Slot[p] IN
  Stored(c, r, s, [c[s] EXCEPT !.pte = p, !.count = 1], {c[s].pte})

\* Variant: the replaced page keeps its reference.
Insert1Leak(c, r, p) ==
  LET s == Slot[p] IN
  IF InUse(c[s]) THEN Refused(c, r)
  ELSE Stored(c, r, s, [c[s] EXCEPT !.pte = p, !.count = 1], {})

Insert1(c, r, p) ==
  LET s == Slot[p] IN
  IF InUse(c[s]) THEN Refused(c, r)
  ELSE Stored(c, r, s, [c[s] EXCEPT !.pte = p, !.count = 1], {c[s].pte})

\* The ring has 1024 entries and its pointer is masked with 1024: it is 0 after
\* every step, so the walk ends after one entry, which r stands for.
Insert2(c, r, p) ==
  LET s == Slot[p]
      new == [c[s] EXCEPT !.pte = p, !.count = 1, !.global = TRUE]
  IN IF InUse(c[s]) THEN Refused(c, r)
     ELSE IF c[s].pte # Null THEN Stored(c, r, s, new, {c[s].pte})
     ELSE IF r = Null THEN Stored(c, s, s, new, {})
     ELSE IF c[r].global
          THEN Refused([c EXCEPT ![r].global = c[r].count # 0], r)
          ELSE Stored([c EXCEPT ![r].pte = Null], s, s, new, {c[r].pte})

Insert3(c, r, p) == Insert1(c, r, p)

Insert4(c, r, p) ==
  LET s == Slot[p] IN
  IF InUse(c[s]) THEN Refused(c, r)
  ELSE Stored(c, r, s, [c[s] EXCEPT !.pte = p, !.count = 1, !.key = p], {c[s].pte})

Insert5(c, r, p) == Insert4(c, r, p)

\* The slot of a page is counted down, whatever page it holds by now; here, k times.
Erase1(n, k) == IF n.pte = Null THEN n
                ELSE [n EXCEPT !.count = (@ - k) % Width]
Erase2(n, k) == Erase1(n, k)
Erase3(n, k) == Erase1(n, k)
Erase4(n, k) == Erase1(n, k)
Erase5(n, k) == Erase1(n, k)

\* Clean asserts that no block uses the slot and gives the page back.
Clean1(n) == [n EXCEPT !.pte = Null, !.count = 0]
Clean2(n) == Clean1(n)
Clean3(n) == Clean1(n)
Clean4(n) == Clean1(n)
Clean5(n) == Clean1(n)

Of(i, a, b, c, d, e) == CASE i = 1 -> a [] i = 2 -> b [] i = 3 -> c [] i = 4 -> d [] i = 5 -> e
Find(n, p) == Of(impl, Find1(n, p), Find2(n, p), Find3(n, p), Find4(n, p), Find5(n, p))
Erase(n, k) == Of(impl, Erase1(n, k), Erase2(n, k), Erase3(n, k), Erase4(n, k),
                  Erase5(n, k))
Clean(n) == Of(impl, Clean1(n), Clean2(n), Clean3(n), Clean4(n), Clean5(n))
Insert(c, r, p) == Of(impl, Insert1(c, r, p), Insert2(c, r, p), Insert3(c, r, p),
                            Insert4(c, r, p), Insert5(c, r, p))

-----------------------------------------------------------------------------
(* The pools. *)

\* A fetch takes a reference to p, its page evicting another one or none.
Room == Cardinality(resident) < Frames
Evictable(p) == {v \in resident \ {p} : refs[v] = 0}
\* gone: the pages evicted.  drop: the pages counted down afterwards.
Fetched(p, gone, drop) ==
  /\ resident' = (resident \ gone) \cup {p}
  /\ refs' = [q \in Pages |-> refs[q] + (IF q = p THEN 1 ELSE 0)
                                      - (IF q \in drop THEN 1 ELSE 0)]

\* The assert(false) of a fetch that finds no victim.
Exhausted(p) == p \notin resident /\ ~Room /\ Evictable(p) = {}

-----------------------------------------------------------------------------
(* Calls. *)

Idle(t) == todo[t] = <<>> /\ wait[t] = <<>>
InsertPage(b, p, mark) ==
  block' = [block EXCEPT ![b] = Append(@, [page |-> p, mark |-> mark])]
Answer(t, p) == Find(cache[t][Slot[p]], p)
Looked(t, p) == [cache[t] EXCEPT ![Slot[p]] = Answer(t, p).node]
SetCache(t, r) == /\ cache' = [cache EXCEPT ![t] = r.slots]
                  /\ ring' = [ring EXCEPT ![t] = r.ring]

\* The blocks of the answer are made, one for each request, of the size asked for
\* and without pages.  asked: the pages in their order, each with its request.
Start(t, k, asked) ==
  \E bs \in [{asked[i][1] : i \in DOMAIN asked} -> {b \in Blocks : owner[b] = Null}] :
    /\ IsInjective(bs)
    /\ todo' = [todo EXCEPT ![t] = [i \in 1 .. Len(asked) |-> <<bs[asked[i][1]], asked[i][2]>>]]
    /\ owner' = [b \in Blocks |-> IF \E i \in DOMAIN bs : bs[i] = b THEN t ELSE owner[b]]
    /\ kind' = [kind EXCEPT ![t] = k]
    /\ left' = [left EXCEPT ![t] = @ - 1]
    /\ UNCHANGED <<impl, cache, ring, refs, resident, block, wait, failed>>

Begin(t) ==
  /\ Idle(t) /\ left[t] > 0
  /\ \/ \E a \in OneBlock : Start(t, "Sync", [i \in 1 .. Len(a) |-> <<1, a[i]>>])
     \/ \E a \in Batch : Start(t, "Batch", a)

\* The slot has the page: the block takes it from there, without a reference.
Hit(t) ==
  /\ todo[t] # <<>>
  /\ LET b == Head(todo[t])[1]  p == Head(todo[t])[2] IN
     /\ Answer(t, p).pte = p
     /\ cache' = [cache EXCEPT ![t] = Looked(t, p)]
     /\ InsertPage(b, p, TRUE)
  /\ todo' = [todo EXCEPT ![t] = Tail(@)]
  /\ UNCHANGED <<impl, ring, refs, resident, owner, wait, kind, left, failed>>

\* A page that was fetched or pinned is offered to the slot.  If the slot does not
\* take it the block keeps the reference.  c: the thread's slots by then.
Offer(t, b, p, c, gone) ==
  LET r == Insert(c, ring[t], p) IN
  /\ SetCache(t, r)
  /\ InsertPage(b, p, r.ok)
  /\ Fetched(p, gone, r.drop)

Fetch(t, b, p, c) ==
  /\ failed' = IF Exhausted(p) THEN "no victim" ELSE "no"
  /\ \/ Exhausted(p) /\ UNCHANGED <<cache, ring, block, refs, resident>>
     \/ p \in resident /\ Offer(t, b, p, c, {})
     \/ p \notin resident /\ Room /\ Offer(t, b, p, c, {})
     \/ /\ p \notin resident /\ ~Room
        /\ \E v \in Evictable(p) : Offer(t, b, p, c, {v})

Missing(t) == todo[t] # <<>> /\ Answer(t, Head(todo[t])[2]).pte = Null

\* GetBlockWithDirectCacheSync fetches page after page.
GetBlockWithDirectCacheSync(t) ==
  /\ kind[t] = "Sync" /\ Missing(t)
  /\ LET b == Head(todo[t])[1]  p == Head(todo[t])[2] IN Fetch(t, b, p, Looked(t, p))
  /\ todo' = [todo EXCEPT ![t] = Tail(@)]
  /\ UNCHANGED <<impl, owner, wait, kind, left>>

\* GetBlockBatchWithDirectCache pins what is in memory and makes requests for the
\* rest.
BatchPin(t) ==
  /\ kind[t] = "Batch" /\ Missing(t)
  /\ LET b == Head(todo[t])[1]  p == Head(todo[t])[2] IN
     \/ /\ p \in resident
        /\ Offer(t, b, p, Looked(t, p), {})
        /\ UNCHANGED wait
     \/ /\ p \notin resident
        /\ cache' = [cache EXCEPT ![t] = Looked(t, p)]
        /\ wait' = [wait EXCEPT ![t] = Append(@, Head(todo[t]))]
        /\ UNCHANGED <<ring, block, refs, resident>>
  /\ todo' = [todo EXCEPT ![t] = Tail(@)]
  /\ UNCHANGED <<impl, owner, kind, left, failed>>

\* Its last loop goes round the requests until each is done.
BatchWait(t) ==
  /\ kind[t] = "Batch" /\ todo[t] = <<>>
  /\ \E i \in DOMAIN wait[t] :
       /\ Fetch(t, wait[t][i][1], wait[t][i][2], cache[t])
       /\ wait' = [wait EXCEPT ![t] = SubSeq(@, 1, i - 1) \o SubSeq(@, i + 1, Len(@))]
  /\ UNCHANGED <<impl, owner, todo, kind, left>>

-----------------------------------------------------------------------------
(* Blocks. *)

Complete(b) == owner[b] # Null /\ Idle(owner[b])

\* The entries of a block that have a mark, or have not.
Entered(b, p, mark) == {i \in DOMAIN block[b] : block[b][i] = [page |-> p, mark |-> mark]}

\* Variant: marked pages are not erased from the cache.
FreeForgets(t, b) ==
  /\ refs' = [p \in Pages |-> refs[p] - Cardinality(Entered(b, p, FALSE))]
  /\ UNCHANGED cache

\* BufferBlockImp9::free, by thread t: pages without a mark are counted down; for
\* the others it is t's own cache that is asked to Erase.
Free(t, b) ==
  LET marked(s) == {i \in DOMAIN block[b] : block[b][i].mark /\ Slot[block[b][i].page] = s}
  IN /\ refs' = [p \in Pages |-> refs[p] - Cardinality(Entered(b, p, FALSE))]
     /\ cache' = [cache EXCEPT ![t] =
                     [s \in Slots |-> Erase(cache[t][s], Cardinality(marked(s)))]]

MayFree(t, b) == Complete(b) /\ (owner[b] = t \/ Handoff)

Release(t, b) ==
  /\ Idle(t) /\ MayFree(t, b)
  /\ Free(t, b)
  /\ block' = [block EXCEPT ![b] = <<>>]
  /\ owner' = [owner EXCEPT ![b] = Null]
  /\ UNCHANGED <<impl, ring, resident, todo, wait, kind, left, failed>>

\* Assigning a block frees what the target has, then moves: the source is emptied,
\* const or not.
Move(t, src, dst) ==
  /\ Idle(t) /\ src # dst /\ MayFree(t, src) /\ MayFree(t, dst)
  /\ Free(t, dst)
  /\ block' = [block EXCEPT ![dst] = block[src], ![src] = <<>>]
  /\ owner' = [owner EXCEPT ![dst] = t, ![src] = Null]
  /\ UNCHANGED <<impl, ring, resident, todo, wait, kind, left, failed>>

\* CleanAllCache, and the destructors of the caches, once no block is left.
CleanAllCache ==
  /\ \A t \in Threads : Idle(t)
  /\ \A b \in Blocks : owner[b] = Null
  /\ IF \E t \in Threads, s \in Slots : InUse(cache[t][s])
     THEN failed' = "in use" /\ UNCHANGED <<cache, refs>>
     ELSE /\ cache' = [t \in Threads |-> [s \in Slots |-> Clean(cache[t][s])]]
          /\ refs' = [p \in Pages |-> refs[p] -
                        Cardinality({t \in Threads : cache[t][Slot[p]].pte = p})]
          /\ UNCHANGED failed
  /\ UNCHANGED <<impl, ring, resident, block, owner, todo, wait, kind, left>>

Next ==
  /\ failed = "no"
  /\ \/ \E t \in Threads : \/ Begin(t) \/ Hit(t) \/ GetBlockWithDirectCacheSync(t)
                           \/ BatchPin(t) \/ BatchWait(t)
     \/ \E t \in Threads, b \in Blocks : Release(t, b)
     \/ \E t \in Threads, b, c \in Blocks : Move(t, b, c)
     \/ CleanAllCache

Spec == Init /\ [][Next]_vars

-----------------------------------------------------------------------------
(* Properties. *)

\* Values of the variables: the slots hold pages of their own, counts fit.
TypeOK ==
  /\ impl \in Impls
  /\ cache \in [Threads -> [Slots -> [pte : Pages \cup {Null}, count : 0 .. Width - 1,
                                      key : Pages \cup {Null}, global : BOOLEAN]]]
  /\ \A t \in Threads, s \in Slots : cache[t][s].pte # Null => Slot[cache[t][s].pte] = s
  /\ ring \in [Threads -> Slots \cup {Null}]
  /\ refs \in [Pages -> Nat] /\ resident \subseteq Pages
  /\ IsFiniteSet(resident) /\ Cardinality(resident) <= Frames
  /\ block \in [Blocks -> Seq([page : Pages, mark : BOOLEAN])]
  /\ owner \in [Blocks -> Threads \cup {Null}]
  /\ todo \in [Threads -> Seq(Blocks \X Pages)]
  /\ wait \in [Threads -> Seq(Blocks \X Pages)]
  /\ kind \in [Threads -> {"Sync", "Batch"}] /\ left \in [Threads -> 0 .. Calls]
  /\ failed \in {"no", "no victim", "in use"}

\* The pages of blocks, each as the pair of its block and its place there.
Entries == UNION {{b} \X (1 .. Len(block[b])) : b \in Blocks}
Entry(x) == block[x[1]][x[2]]

Holding(p) == {t \in Threads : cache[t][Slot[p]].pte = p}
Uses(p, mark, ts) ==
  {x \in Entries : Entry(x).page = p /\ Entry(x).mark = mark /\ owner[x[1]] \in ts}

\* The reference count of a page is the number of slots that hold it and of block
\* pages that took it without a slot: nothing leaks a pin, whoever releases what
\* (DirectCacheImpl1::Insert, BufferBlockImp9::free).
PinsExact ==
  \A p \in Pages : refs[p] = Cardinality(Holding(p)) + Cardinality(Uses(p, FALSE, Threads))

\* As long as blocks are released by the thread that got them, a slot's count is
\* the number of block pages taken from it (Find, Erase).
CountsExact ==
  \A t \in Threads, s \in Slots :
    LET p == cache[t][s].pte IN
    p # Null => cache[t][s].count = Cardinality(Uses(p, TRUE, {t}))

\* A page that a block shows is in memory: no slot gives it up, and no fetch evicts
\* it, while the block lives.
ShownResident ==
  \A b \in Blocks : \A i \in DOMAIN block[b] :
    block[b][i].page \in resident /\ refs[block[b][i].page] > 0

\* The assertion of Clean: with no block left no slot is in use.
CleanSucceeds == failed # "in use"

\* The assertion of the fetch: a thread that asks for one page while no block
\* exists finds a frame for it.
IdleCachesLeaveRoom ==
  failed = "no victim" =>
    \E b \in Blocks : block[b] # <<>>

-----------------------------------------------------------------------------
(* The inductive invariant. *)

\* Impl4 and Impl5: a slot that holds a page has its key.
KeyInv ==
  impl \in {4, 5} =>
    \A t \in Threads, s \in Slots : cache[t][s].pte # Null => cache[t][s].key = cache[t][s].pte

\* Impl2: a slot with a count has its global mark.
GlobalInv ==
  impl = 2 =>
    \A t \in Threads, s \in Slots :
      cache[t][s].pte # Null /\ cache[t][s].count # 0 => cache[t][s].global

\* A thread works on its own blocks, and a block that nobody has is empty.
WorkInv ==
  /\ \A t \in Threads : \A i \in DOMAIN todo[t] : owner[todo[t][i][1]] = t
  /\ \A t \in Threads : \A i \in DOMAIN wait[t] : owner[wait[t][i][1]] = t
  /\ \A b \in Blocks : owner[b] = Null => block[b] = <<>>

\* A page with a reference is in memory.
ResidentInv == \A p \in Pages : refs[p] > 0 => p \in resident

\* A marked page is in its slot.
MarkedHeld ==
  \A x \in Entries : Entry(x).mark =>
    cache[owner[x[1]]][Slot[Entry(x).page]].pte = Entry(x).page

\* Whoever releases the blocks.
CacheInv == TypeOK /\ KeyInv /\ WorkInv /\ PinsExact /\ ResidentInv

\* If each thread releases its own.
SlotInv == CacheInv /\ GlobalInv /\ MarkedHeld /\ CountsExact /\ CleanSucceeds

\* No slot is used more often than count_cur can count.
Fits == \A t \in Threads, p \in Pages : Cardinality(Uses(p, TRUE, {t})) < Width
=============================================================================
