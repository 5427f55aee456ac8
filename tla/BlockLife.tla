------------------------------ MODULE BlockLife ------------------------------
(***************************************************************************)
(* The life of buffer blocks: who owns the pins of the pages a block shows *)
(* and the memory it has allocated, through construction, InsertPage, the  *)
(* static Copy, Move (which every copy and assignment is) and free, in the *)
(* classes BufferBlockImp5 to BufferBlockImp9.                             *)
(*                                                                         *)
(* A block is a record of its fields.  Fields keep what the code leaves in *)
(* them: a freed or moved-from block may still hold old pointers.          *)
(***************************************************************************)
EXTENDS Integers, Sequences, FiniteSets, FiniteSetsExt, SequencesExt

CONSTANTS
  Impls,      \* the classes to look at, numbers out of 5 .. 9
  Slots,      \* the objects of the program that are blocks
  Pages,      \* pages of the pool
  MaxPages,   \* pages of one block
  MaxAddr     \* places of the heap

\* What the constants have to be; the modules that instantiate this one assume it.
Parameters ==
  /\ Impls \subseteq 5 .. 9 /\ MaxPages \in Nat \ {0} /\ MaxAddr \in Nat
  /\ Pages # {} /\ IsFiniteSet(Slots)

VARIABLES
  impl,     \* the class of the blocks
  live,     \* the slots that hold an object
  blk,      \* [Slots -> block]
  refs,     \* [Pages -> Nat]: pins of blocks, ref_count
  cached,   \* [Pages -> Nat]: pins lent by the thread's direct cache
  heap,     \* the addresses that are allocated
  bad       \* something that was not allocated was freed, or an unset page released

vars == <<impl, live, blk, refs, cached, heap, bad>>

Null == 0
Unset == [page |-> Null, mark |-> FALSE]
Empty == [size |-> 0, num |-> 0, datas |-> Null, ptes |-> Null, marks |-> Null,
          inner |-> Null, pages |-> <<>>]

\* The next addresses the allocator gives out.
Fresh(n) == CHOOSE a \in [1 .. n -> (1 .. MaxAddr) \ heap] :
              \A i, j \in 1 .. n : i < j => a[i] < a[j]
CanAlloc(n) == Cardinality((1 .. MaxAddr) \ heap) >= n

-----------------------------------------------------------------------------
(* free: the pages it releases, the addresses it frees, what is left. *)

Freed(pages, addrs, b) == [pages |-> pages, addrs |-> addrs, blk |-> b]

\* BufferBlockImp7: size_ says whether there is anything; page_num_ is counted
\* down if there are several pages and left alone otherwise.
Free7(b) ==
  LET left == [b EXCEPT !.size = 0, !.num = IF b.size # 0 /\ b.num > 1 THEN 0 ELSE @]
  IN IF b.size = 0 THEN Freed(<<>>, {}, left)
     ELSE IF b.num = 0 THEN Freed(<<>>, {b.datas}, left)
     ELSE Freed(b.pages, IF b.num = 1 THEN {} ELSE {b.ptes, b.datas}, left)

\* BufferBlockImp6 has the same code.
Free6(b) == Free7(b)

\* BufferBlockImp9: page_num_ is reset too; marks_.marks is not freed.
Free9(b) == LET f == Free7(b) IN [f EXCEPT !.blk.num = 0]

\* BufferBlockImp5: data_ says whether there is anything, ptes_ of which kind.
Free5(b) ==
  LET left == [b EXCEPT !.datas = Null, !.ptes = Null,
                        !.num = IF b.datas # Null /\ b.ptes # Null THEN 0 ELSE @]
  IN IF b.datas = Null THEN Freed(<<>>, {}, left)
     ELSE IF b.ptes # Null THEN Freed(b.pages, {b.ptes, b.datas}, left)
     ELSE Freed(<<>>, {b.marks, b.datas}, left)

\* BufferBlockImp8: the BufferBlockImp7 behind inner_ is deleted.
Free8(b) ==
  IF b.inner = Null THEN Freed(<<>>, {}, b)
  ELSE LET f == Free7(b) IN Freed(f.pages, f.addrs \union {b.inner}, Empty)

Free(b) == CASE impl = 5 -> Free5(b) [] impl = 6 -> Free6(b) [] impl = 7 -> Free7(b)
             [] impl = 8 -> Free8(b) [] impl = 9 -> Free9(b)

-----------------------------------------------------------------------------
(* Move: what is left of the source; the target becomes a copy of it. *)

Moved7(b) == [b EXCEPT !.size = 0]
Moved6(b) == Moved7(b)
Moved9(b) == [b EXCEPT !.size = 0, !.num = 0]
Moved5(b) == [b EXCEPT !.datas = Null, !.ptes = Null]
Moved8(b) == Empty

Moved(b) == CASE impl = 5 -> Moved5(b) [] impl = 6 -> Moved6(b) [] impl = 7 -> Moved7(b)
              [] impl = 8 -> Moved8(b) [] impl = 9 -> Moved9(b)

-----------------------------------------------------------------------------
(* Constructors: the fields, and how much they allocate.  The content of a *)
(* heap block of BufferBlockImp5 is a second allocation, kept in marks.    *)

\* Variant: the arrays are allocated for one page too.
PagedAllocAll(n) == 2

\* BufferBlockImp6, 7: arrays only for several pages.
PagedAlloc7(n) == IF n > 1 THEN 2 ELSE 0
PagedAlloc6(n) == PagedAlloc7(n)
PagedAlloc9(n) == IF n > 1 THEN 3 ELSE 0
PagedAlloc5(n) == 2
PagedAlloc8(n) == PagedAlloc7(n) + 1
PagedAlloc(n) == CASE impl = 5 -> PagedAlloc5(n) [] impl = 6 -> PagedAlloc6(n)
                   [] impl = 7 -> PagedAlloc7(n) [] impl = 8 -> PagedAlloc8(n)
                   [] impl = 9 -> PagedAlloc9(n)
\* BufferBlockImpN(size, data) and BufferBlockImpN(size).
HeapAlloc == IF impl \in {5, 8} THEN 2 ELSE 1
\* BufferBlockImpN().
EmptyAlloc == IF impl = 8 THEN 1 ELSE 0

InnerAt(a, i) == IF impl = 8 THEN a[i] ELSE Null
Paged(n, a) ==
  LET arrays == n > 1 \/ impl = 5
  IN [size |-> 1, num |-> n, pages |-> [i \in 1 .. n |-> Unset],
      datas |-> IF arrays THEN a[1] ELSE Null, ptes |-> IF arrays THEN a[2] ELSE Null,
      marks |-> IF arrays /\ impl = 9 THEN a[3] ELSE Null, inner |-> InnerAt(a, PagedAlloc(n))]
OnHeap(a) ==
  [Empty EXCEPT !.size = 1, !.datas = a[1],
                !.marks = IF impl = 5 THEN a[2] ELSE Null, !.inner = InnerAt(a, 2)]

-----------------------------------------------------------------------------
(* The operations. *)

Init ==
  /\ impl \in Impls /\ live = {} /\ heap = {} /\ bad = FALSE
  /\ blk = [s \in Slots |-> Empty]
  /\ refs = [p \in Pages |-> 0] /\ cached = [p \in Pages |-> 0]

Complete(s) == s \in live /\ \A i \in DOMAIN blk[s].pages : blk[s].pages[i] # Unset
Settled == \A s \in live : Complete(s)

Put(s, n, b) ==
  /\ Settled /\ s \notin live /\ CanAlloc(n)
  /\ live' = live \union {s} /\ heap' = heap \union Range(Fresh(n))
  /\ blk' = [blk EXCEPT ![s] = b]
  /\ UNCHANGED <<impl, refs, cached, bad>>

NewEmpty(s) == Put(s, EmptyAlloc, [Empty EXCEPT !.inner = InnerAt(Fresh(EmptyAlloc), 1)])
NewPaged(s, n) == Put(s, PagedAlloc(n), Paged(n, Fresh(PagedAlloc(n))))
NewHeap(s) == Put(s, HeapAlloc, OnHeap(Fresh(HeapAlloc)))

\* InsertPage, in the order of the pages; the caller has just pinned the page, in
\* the pool or, for BufferBlockImp9, in its direct cache (mark).
InsertPage(s, p, mark) ==
  LET i == Min({k \in DOMAIN blk[s].pages : blk[s].pages[k] = Unset})
  IN /\ s \in live /\ ~Complete(s) /\ (mark => impl = 9)
     /\ blk' = [blk EXCEPT ![s].pages[i] = [page |-> p, mark |-> mark]]
     /\ refs' = [refs EXCEPT ![p] = @ + (IF mark THEN 0 ELSE 1)]
     /\ cached' = [cached EXCEPT ![p] = @ + (IF mark THEN 1 ELSE 0)]
     /\ UNCHANGED <<impl, live, heap, bad>>

\* The static Copy: a heap block with the same bytes; BufferBlockImp8 has none.
Copy(s, d) == impl # 8 /\ Complete(s) /\ blk[s].size # 0 /\ NewHeap(d)

\* free() of a block: a page is released in the pool (DecRefCount) or given back
\* to the direct cache (Erase).
Count(f, p, mark) == Cardinality({i \in DOMAIN f.pages : f.pages[i] = [page |-> p, mark |-> mark]})
Release(f) ==
  /\ refs' = [p \in Pages |-> refs[p] - Count(f, p, FALSE)]
  /\ cached' = [p \in Pages |-> cached[p] - Count(f, p, TRUE)]
  /\ heap' = heap \ f.addrs
  /\ bad' = (bad \/ ~(f.addrs \subseteq heap) \/ Unset \in Range(f.pages)
                 \/ \E p \in Pages : refs'[p] < 0 \/ cached'[p] < 0)

Destroy(s) ==
  /\ Settled /\ s \in live /\ live' = live \ {s}
  /\ Release(Free(blk[s])) /\ blk' = [blk EXCEPT ![s] = Empty]
  /\ UNCHANGED impl

\* A copy or move constructor: the fields of the new object are null.
MoveNew(s, d) ==
  /\ Settled /\ s \in live /\ d \notin live
  /\ live' = live \union {d}
  /\ blk' = [blk EXCEPT ![d] = blk[s], ![s] = Moved(blk[s])]
  /\ UNCHANGED <<impl, refs, cached, heap, bad>>

\* Variant: the target is not freed.
MoveAssignKeeps(s, d) ==
  /\ Settled /\ s \in live /\ d \in live
  /\ blk' = [blk EXCEPT ![d] = blk[s], ![s] = Moved(blk[s])]
  /\ UNCHANGED <<impl, live, refs, cached, heap, bad>>

\* An assignment: the target is freed first, also if it is the source.
MoveAssign(s, d) ==
  LET f == Free(blk[d])
      src == IF s = d THEN f.blk ELSE blk[s]
  IN /\ Settled /\ s \in live /\ d \in live
     /\ Release(f)
     /\ blk' = [blk EXCEPT ![d] = src, ![s] = Moved(src)]
     /\ UNCHANGED <<impl, live>>

Next ==
  \E s \in Slots :
    \/ NewEmpty(s) \/ NewHeap(s) \/ Destroy(s)
    \/ \E n \in 1 .. MaxPages : NewPaged(s, n)
    \/ \E p \in Pages, mark \in BOOLEAN : InsertPage(s, p, mark)
    \/ \E d \in Slots : Copy(s, d) \/ MoveNew(s, d) \/ MoveAssign(s, d)

Spec == Init /\ [][Next]_vars

-----------------------------------------------------------------------------
\* Fields have their types, nothing is freed that is not allocated, and no pin is
\* given back that was not taken.
TypeOK ==
  /\ impl \in Impls /\ live \subseteq Slots /\ heap \subseteq 1 .. MaxAddr
  /\ refs \in [Pages -> Nat] /\ cached \in [Pages -> Nat] /\ bad = FALSE
  /\ \A s \in Slots : /\ blk[s].num \in 0 .. MaxPages /\ blk[s].size \in {0, 1}
                      /\ Len(blk[s].pages) <= MaxPages

\* What a block would release and free if it was destroyed now.
Owned(s) == IF s \in live THEN Free(blk[s]) ELSE Freed(<<>>, {}, Empty)
Held(p, mark) == FoldSet(LAMBDA s, n : n + Count(Owned(s), p, mark), 0, Slots)

\* Every pin of a page belongs to exactly one block, which gives it back: copies,
\* assignments, chains of moves and moves to oneself neither lose nor double it.
PinsExact == \A p \in Pages : refs[p] = Held(p, FALSE) /\ cached[p] = Held(p, TRUE)

\* Everything that is allocated belongs to exactly one block, which frees it.
HeapExact ==
  /\ heap = UNION {Owned(s).addrs : s \in Slots}
  /\ \A s, t \in Slots : s # t => Owned(s).addrs \intersect Owned(t).addrs = {}
==============================================================================
