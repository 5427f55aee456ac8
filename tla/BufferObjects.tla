---------------------------- MODULE BufferObjects ----------------------------
(***************************************************************************)
(* The value classes of buffer_obj.h: BufferObjectImp0, which owns memory  *)
(* or refers to that of someone else, BufferObjectImp2, whose copies and   *)
(* assignments move, and BufferObjectImp3 and 4, which share an Imp2.      *)
(* Who frees the memory, and who gives the pin of a page back.             *)
(*                                                                         *)
(* Memory is addresses; content is left out.  Memory that no object has    *)
(* allocated, a page's bytes included, is Foreign.                         *)
(***************************************************************************)
EXTENDS Integers, FiniteSets, FiniteSetsExt

CONSTANTS
  Impls,       \* the classes to look at, out of {0, 2, 3, 4}
  Slots,       \* the objects of class 0 or 2
  Handles,     \* the objects of class 3 or 4
  Pages,       \* pages of the pool
  MaxSize,     \* sizes of memory blocks
  MaxAddr,     \* places of the heap
  MaxPins,     \* bound on the pins of a page
  AssignOver   \* objects that own something are assigned to

\* What the constants have to be; the modules that instantiate this one assume it.
Parameters ==
  /\ Impls \subseteq {0, 2, 3, 4} /\ {MaxSize, MaxAddr, MaxPins} \subseteq Nat \ {0}
  /\ IsFiniteSet(Slots) /\ IsFiniteSet(Handles) /\ AssignOver \in BOOLEAN

VARIABLES
  impl,    \* the class of the objects
  live,    \* the slots that hold an object
  obj,     \* [Slots -> [data, size, owns, page]]: owns is need_delete_, page is page_
  ptr,     \* [Handles -> slot or None]: inner_ of classes 3 and 4
  refs,    \* [Pages -> Nat]: the pins that were taken for objects
  heap,    \* the addresses that are allocated
  fault    \* "none", "free" of what is not allocated, "read" of what was freed

vars == <<impl, live, obj, ptr, refs, heap, fault>>

Null == 0
Foreign == -1
None == "none"
Sizes == 1 .. MaxSize
Empty == [data |-> Null, size |-> 0, owns |-> FALSE, page |-> None]

FreshIn(h) == Min((1 .. MaxAddr) \ h)
CanAlloc == Cardinality(heap) < MaxAddr
Owning(n, a) == [Empty EXCEPT !.data = a, !.size = n, !.owns = TRUE]

Init ==
  /\ impl \in Impls /\ live = {} /\ heap = {} /\ fault = "none"
  /\ obj = [s \in Slots |-> Empty] /\ ptr = [h \in Handles |-> None]
  /\ refs = [p \in Pages |-> 0]

-----------------------------------------------------------------------------
(* Giving back. *)

Addrs(o) == IF o.owns THEN {o.data} ELSE {}
Frees(o) == fault' = IF Addrs(o) \subseteq heap THEN fault ELSE "free"
Unpin(o) == refs' = [p \in Pages |-> IF p = o.page THEN refs[p] - 1 ELSE refs[p]]

\* BufferObjectImp2::Move, the source.
Moved2(o) == [o EXCEPT !.owns = FALSE, !.page = None]

\* Variant: the memory stays with both.
Moved0Shared(o) == [o EXCEPT !.size = 0]

\* BufferObjectImp0's assignment of an rvalue, the source; its page_ stays.
Moved0(o) == [o EXCEPT !.owns = FALSE, !.size = 0]

\* ~BufferObjectImp0, ~BufferObjectImp2.
Destroy(s) ==
  /\ s \in live /\ impl \in {0, 2}
  /\ live' = live \ {s} /\ obj' = [obj EXCEPT ![s] = Empty]
  /\ heap' = heap \ Addrs(obj[s]) /\ Frees(obj[s]) /\ Unpin(obj[s])
  /\ UNCHANGED <<impl, ptr>>

\* BufferObjectImp2::free.
Free(s) ==
  /\ s \in live /\ impl = 2
  /\ obj' = [obj EXCEPT ![s].owns = FALSE, ![s].page = None]
  /\ heap' = heap \ Addrs(obj[s]) /\ Frees(obj[s]) /\ Unpin(obj[s])
  /\ UNCHANGED <<impl, live, ptr>>

-----------------------------------------------------------------------------
(* Construction. *)

\* An object in a free slot; classes 3 and 4 make one behind a handle.
Make(s, o, pinned, alloc) ==
  /\ s \notin live /\ live' = live \union {s} /\ obj' = [obj EXCEPT ![s] = o]
  /\ refs' = [p \in Pages |-> IF p \in pinned THEN refs[p] + 1 ELSE refs[p]]
  /\ heap' = heap \union alloc
  /\ IF impl \in {0, 2} THEN UNCHANGED ptr
     ELSE \E h \in Handles : ptr[h] = None /\ ptr' = [ptr EXCEPT ![h] = s]
  /\ UNCHANGED <<impl, fault>>

NewEmpty(s) == Make(s, Empty, {}, {})
NewOwning(s, n) == CanAlloc /\ Make(s, Owning(n, FreshIn(heap)), {}, {FreshIn(heap)})
NewRef(s, n) == Make(s, [Empty EXCEPT !.data = Foreign, !.size = n], {}, {})
\* The caller has pinned the page for the object.
NewPaged(s, n, p) ==
  /\ refs[p] < MaxPins
  /\ Make(s, [Empty EXCEPT !.data = Foreign, !.size = n, !.page = p], {p}, {})

\* ConstRef(v) of class 0.
ConstRef(t, s) ==
  /\ impl = 0 /\ t \in live
  /\ Make(s, [Empty EXCEPT !.data = obj[t].data, !.size = obj[t].size], {}, {})

\* The static Copy of classes 2 and 4.
CopyOf(t, s) == impl \in {2, 4} /\ t \in live /\ obj[t].size > 0 /\ NewOwning(s, obj[t].size)

\* The copy constructor of class 0: what is owned is copied, a reference shared.
CopyNew0(t, s) ==
  /\ impl = 0 /\ t \in live
  /\ IF obj[t].owns THEN obj[t].size > 0 /\ NewOwning(s, obj[t].size)
     ELSE Make(s, [Empty EXCEPT !.data = obj[t].data, !.size = obj[t].size], {}, {})

\* Copy and move constructors of class 2.
MoveNew2(t, s) ==
  /\ impl = 2 /\ t \in live /\ s \notin live
  /\ live' = live \union {s}
  /\ obj' = [obj EXCEPT ![s] = obj[t], ![t] = Moved2(obj[t])]
  /\ UNCHANGED <<impl, ptr, refs, heap, fault>>

-----------------------------------------------------------------------------
(* Assignment. *)

\* An assignment would make class 0 forget its memory, class 2 its memory and page.
MayAssign(s) == AssignOver \/ ~(obj[s].owns \/ (impl = 2 /\ obj[s].page # None))

\* LBRealloc: in place or elsewhere.
Realloc(s, h, a) ==
  /\ a \in {obj[s].data} \union (IF CanAlloc THEN {FreshIn(heap)} ELSE {})
  /\ h = (heap \ {obj[s].data}) \union {a}

\* Copy assignment of class 0, of an object that owns its memory.
CopyAssignOwned0(t, s) ==
  /\ impl = 0 /\ {s, t} \subseteq live /\ s # t /\ obj[t].owns
  /\ \E a \in 1 .. MaxAddr :
       /\ IF obj[s].owns THEN Realloc(s, heap', a)
          ELSE CanAlloc /\ a = FreshIn(heap) /\ heap' = heap \union {a}
       /\ obj' = [obj EXCEPT ![s].data = a, ![s].size = obj[t].size, ![s].owns = TRUE]
  /\ UNCHANGED <<impl, live, ptr, refs, fault>>

\* Copy assignment of class 0, of a reference: data_ is overwritten.
CopyAssignRef0(t, s) ==
  /\ impl = 0 /\ {s, t} \subseteq live /\ s # t /\ ~obj[t].owns /\ MayAssign(s)
  /\ obj' = [obj EXCEPT ![s].data = obj[t].data, ![s].size = obj[t].size, ![s].owns = FALSE]
  /\ UNCHANGED <<impl, live, ptr, refs, heap, fault>>

\* Assignment of an rvalue in class 0; page_ stays on both sides.
MoveAssign0(t, s) ==
  /\ impl = 0 /\ {s, t} \subseteq live /\ s # t
  /\ obj' = [obj EXCEPT ![s] = [obj[t] EXCEPT !.page = obj[s].page], ![t] = Moved0(obj[t])]
  /\ heap' = heap \ Addrs(obj[s]) /\ Frees(obj[s])
  /\ UNCHANGED <<impl, live, ptr, refs>>

\* Both assignments of class 2: Move, which frees nothing; to itself, it forgets.
MoveAssign2(t, s) ==
  /\ impl = 2 /\ {s, t} \subseteq live /\ MayAssign(s)
  /\ obj' = [obj EXCEPT ![s] = obj[t], ![t] = Moved2(obj[t])]
  /\ UNCHANGED <<impl, live, ptr, refs, heap, fault>>

\* AssignConstRef, TakeOwnershipFrom and Clear of class 0.
Assign0(s, data, n, owns, h) ==
  /\ impl = 0 /\ s \in live /\ heap' = h /\ Frees(obj[s])
  /\ obj' = [obj EXCEPT ![s].data = data, ![s].size = n, ![s].owns = owns]
  /\ UNCHANGED <<impl, live, ptr, refs>>
AssignConstRef(s, n) == Assign0(s, Foreign, n, FALSE, heap \ Addrs(obj[s]))
\* The caller has allocated the memory before.
TakeOwnershipFrom(s, n) ==
  CanAlloc /\ Assign0(s, FreshIn(heap), n, TRUE, (heap \ Addrs(obj[s])) \union {FreshIn(heap)})

Clear(s) == Assign0(s, Null, 0, FALSE, heap \ Addrs(obj[s]))

\* Resize of class 0: memory that is owned is reallocated if it has to grow; a
\* reference becomes a copy.
Resized(s, n, h, a) ==
  IF obj[s].owns THEN IF n > obj[s].size THEN Realloc(s, h, a) ELSE a = obj[s].data /\ h = heap
  ELSE CanAlloc /\ a = FreshIn(heap) /\ h = heap \union {a}

Resize(s, n) ==
  /\ impl = 0 /\ s \in live
  /\ \E a \in 1 .. MaxAddr :
       /\ Resized(s, n, heap', a)
       /\ obj' = [obj EXCEPT ![s].data = a, ![s].size = n, ![s].owns = TRUE]
  /\ UNCHANGED <<impl, live, ptr, refs, fault>>

Readable(t, h) == obj[t].data = Foreign \/ obj[t].data \in h

\* Copy(rhs) of class 0: Resize, then the bytes of rhs, which is valid at the call.
Copy0(t, s) ==
  /\ impl = 0 /\ {s, t} \subseteq live /\ obj[t].size > 0 /\ Readable(t, heap)
  /\ \E a \in 1 .. MaxAddr :
       /\ Resized(s, obj[t].size, heap', a)
       /\ obj' = [obj EXCEPT ![s].data = a, ![s].size = obj[t].size, ![s].owns = TRUE]
       /\ fault' = IF s = t \/ Readable(t, heap') THEN fault ELSE "read"
  /\ UNCHANGED <<impl, live, ptr, refs>>

-----------------------------------------------------------------------------
(* Classes 3 and 4: a shared_ptr to an Imp2. *)

Sharers(s) == {h \in Handles : ptr[h] = s}

Last(h) == Sharers(ptr[h]) = {h}

\* The handle lets go of its Imp2 and takes what is given.
Redirect(h, to) ==
  LET s == ptr[h] IN
  /\ ptr' = [ptr EXCEPT ![h] = to]
  /\ IF s # None /\ Last(h) /\ to # s
     THEN /\ live' = live \ {s} /\ obj' = [obj EXCEPT ![s] = Empty]
          /\ heap' = heap \ Addrs(obj[s]) /\ Frees(obj[s]) /\ Unpin(obj[s])
     ELSE UNCHANGED <<live, obj, heap, refs, fault>>
  /\ UNCHANGED impl

Drop(h) == ptr[h] # None /\ Redirect(h, None)
\* Copies and assignments of class 4 share.
Share(g, h) == impl = 4 /\ g # h /\ ptr[g] # None /\ Redirect(h, ptr[g])
\* Class 3 can only be moved into a new object.
Move3(g, h) ==
  /\ impl = 3 /\ ptr[g] # None /\ ptr[h] = None
  /\ ptr' = [ptr EXCEPT ![h] = ptr[g], ![g] = None]
  /\ UNCHANGED <<impl, live, obj, refs, heap, fault>>

Next ==
  \/ \E s \in Slots :
       \/ NewEmpty(s) \/ Destroy(s) \/ Free(s) \/ Clear(s)
       \/ \E n \in Sizes : \/ NewOwning(s, n) \/ NewRef(s, n) \/ AssignConstRef(s, n)
                           \/ TakeOwnershipFrom(s, n) \/ Resize(s, n)
                           \/ \E p \in Pages : NewPaged(s, n, p)
       \/ \E t \in Slots : \/ ConstRef(t, s) \/ CopyOf(t, s) \/ CopyNew0(t, s) \/ MoveNew2(t, s)
                           \/ CopyAssignOwned0(t, s) \/ CopyAssignRef0(t, s) \/ MoveAssign0(t, s)
                           \/ MoveAssign2(t, s) \/ Copy0(t, s)
  \/ \E h \in Handles : Drop(h) \/ \E g \in Handles : Share(g, h) \/ Move3(g, h)

Spec == Init /\ [][Next]_vars

-----------------------------------------------------------------------------
\* Fields have their types, and an Imp2 behind handles lives as long as one of them.
TypeOK ==
  /\ impl \in Impls /\ live \subseteq Slots /\ heap \subseteq 1 .. MaxAddr
  /\ obj \in [Slots -> [data : {Foreign} \union 0 .. MaxAddr, size : 0 .. MaxSize, owns : BOOLEAN,
                        page : Pages \union {None}]]
  /\ refs \in [Pages -> Nat] /\ fault \in {"none", "free", "read"}
  /\ impl \in {3, 4} => live = {ptr[h] : h \in Handles} \ {None}

\* Nothing is freed twice: what an object would free is allocated and no other
\* object would free it, and the pins that objects would give back have been taken.
OwnersExclusive ==
  /\ fault # "free"
  /\ \A s \in live : Addrs(obj[s]) \subseteq heap
  /\ \A s, t \in live : s # t => Addrs(obj[s]) \intersect Addrs(obj[t]) = {}
  /\ \A p \in Pages : Cardinality({s \in live : obj[s].page = p}) <= refs[p]

\* Nothing is lost: every pin that was taken will be given back by an object.
PinsExact == \A p \in Pages : refs[p] = Cardinality({s \in live : obj[s].page = p})

\* Nothing is lost: whatever is allocated will be freed by an object.
HeapExact == heap = UNION {Addrs(obj[s]) : s \in live}

\* Copy reads the memory that it copies before it can be gone.
NoStaleRead == fault # "read"
==============================================================================
