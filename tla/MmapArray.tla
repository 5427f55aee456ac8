------------------------------ MODULE MmapArray ------------------------------
(***************************************************************************)
(* mmap_array: arrays of items of a fixed size kept in files behind the    *)
(* buffer pool manager.  Items do not cross a page: the rest of a page is  *)
(* padding.  The module has the objects with their fields, the files by    *)
(* name, and the calls open, close, reset, dump, resize, touch, set,       *)
(* set_partial and swap; get and get_partial are state functions.          *)
(*                                                                         *)
(* A file is what the manager makes of it (ByteFiles); bytes behind the    *)
(* end are kept, because a page in memory keeps them, too.  A file is      *)
(* identified by the name that created it; no file is opened twice at a    *)
(* time, so its handle is identified by the file.                          *)
(***************************************************************************)
EXTENDS Integers, Sequences, FiniteSets

CONSTANTS
  Arrays,       \* the objects
  Names,        \* paths
  None,         \* no file, or the empty filename_
  Item,         \* the item size that the callers give to open
  Page,         \* PAGE_SIZE_FILE = PAGE_SIZE_MEMORY
  MaxItems,     \* bound on the size of an array
  FileInit,     \* [Names -> size]: the files at the beginning, None for no file
  WholeItems,   \* set is used
  Touching,     \* touch is used
  OpenMissing   \* a file that does not exist is opened for reading

VARIABLES
  link,    \* [Names -> file or None]
  files,   \* [Names -> [size, cells]]: the bytes of a file, and those behind its end
  open,    \* the handles that are open in the manager
  wrote,   \* history: the file, items and parts, and value of the last call, if it was a write
  arr,     \* [Arrays -> [name, fd, size, ro, item]]; size only while the array is open
  fate     \* of the last call: "ok", "refused" a resize that fits, "badfd" used no handle

vars == <<link, files, open, wrote, arr, fate>>

INVALID == "invalid"     \* INVALID_FILE_HANDLE, 2^16 - 1
MinusOne == "minus one"  \* -1 in the 32 bits of GBPfile_handle_type

-----------------------------------------------------------------------------
(* Sizes and offsets. *)

PerPage(it) == Page \div it            \* OBJ_NUM_PERPAGE

Offset(it, i) == (i \div PerPage(it)) * Page + (i % PerPage(it)) * it

\* resize and get_size_in_byte: the bytes of n items.
FileSize(it, n) == (n % PerPage(it)) * it + (n \div PerPage(it)) * Page

\* open: the items in a file of so many bytes.
ItemsIn(it, bytes) == (bytes \div Page) * PerPage(it) + (bytes % Page) \div it

MaxBytes == FileSize(Item, MaxItems)

\* What the constants have to be; the modules that instantiate this one assume it.
Parameters ==
  /\ {Item, Page, MaxItems} \subseteq Nat \ {0} /\ Item <= Page
  /\ {WholeItems, Touching, OpenMissing} \subseteq BOOLEAN
  /\ \A n \in Names : FileInit[n] \in {None} \union 0 .. MaxBytes

\* Variant: the first page counts as full.
BlockSizeFirst(it, i, len) ==
  LET rest == Page - (Offset(it, i) % Page)
  IN IF rest > len * it THEN len * it ELSE rest + FileSize(it, len - PerPage(it))

\* get: the bytes of the block for len items from item i on.
BlockSize(it, i, len) ==
  LET rest == Page - (Offset(it, i) % Page)
  IN IF rest > len * it THEN len * it ELSE rest + FileSize(it, len - rest \div it)

\* get_partial asserts that the part is in the page.
PartFits(it, i, k, len) == Page - (Offset(it, i) % Page) - k >= len

-----------------------------------------------------------------------------
(* Bytes. *)

NoBytes == [p \in 1 .. MaxBytes |-> 0]
Put(f, at, len, v) ==
  [files EXCEPT ![f].cells = [p \in DOMAIN @ |-> IF p \in at + 1 .. at + len THEN v ELSE @[p]]]

Init ==
  /\ link = [n \in Names |-> IF FileInit[n] = None THEN None ELSE n]
  /\ files = [n \in Names |-> [size |-> IF FileInit[n] = None THEN 0 ELSE FileInit[n],
                               cells |-> NoBytes]]
  /\ open = {} /\ wrote = <<>> /\ fate = "ok"
  /\ arr = [a \in Arrays |-> [name |-> None, fd |-> INVALID, size |-> 0, ro |-> TRUE, item |-> 0]]

Running == fate # "badfd"
Returns == fate' = "ok" /\ wrote' = <<>>
Writes(a, S, v) == fate' = "ok" /\ wrote' = <<arr[a].fd, S, v>>

IsOpen(a) == arr[a].fd \in open

\* close: the handles left in the manager.
Closed(a) == open \ {arr[a].fd}

\* close compares the handle with INVALID_FILE_HANDLE only; CloseFile of a handle
\* that is none runs over the end of the DiskManager's tables.
CloseBad(a) == arr[a].fd \notin open \union {INVALID}

Bad == fate' = "badfd" /\ UNCHANGED <<link, files, open, wrote, arr>>

Close(a) ==
  /\ Running /\ ~CloseBad(a) /\ IsOpen(a)
  /\ open' = Closed(a) /\ arr' = [arr EXCEPT ![a].fd = INVALID, ![a].size = 0]
  /\ UNCHANGED <<link, files>> /\ Returns
CloseNone(a) == Running /\ CloseBad(a) /\ Bad

\* What open leaves in the object; ro and the file behind the name are given.
Opened(n, f, ro, it) ==
  [name |-> n, fd |-> f, size |-> ItemsIn(it, files'[f].size), ro |-> ro, item |-> it]

\* open for writing, which creates the file (O_CREAT).
Open(a, n) ==
  LET f == IF link[n] = None THEN n ELSE link[n]
  IN /\ Running /\ ~CloseBad(a) /\ f \notin Closed(a)
     /\ link' = [link EXCEPT ![n] = f]
     /\ open' = Closed(a) \union {f} /\ UNCHANGED files /\ Returns
     /\ arr' = [arr EXCEPT ![a] = Opened(n, f, FALSE, Item)]

OpenReadOnly(a, n) ==
  /\ Running /\ ~CloseBad(a) /\ link[n] # None /\ link[n] \notin Closed(a)
  /\ open' = Closed(a) \union {link[n]} /\ UNCHANGED <<link, files>> /\ Returns
  /\ arr' = [arr EXCEPT ![a] = Opened(n, link[n], TRUE, Item)]

\* open for reading of a file that does not exist.
OpenReadOnlyMissing(a, n) ==
  /\ Running /\ ~CloseBad(a) /\ link[n] = None /\ OpenMissing
  /\ open' = Closed(a) /\ UNCHANGED <<link, files>> /\ Returns
  /\ arr' = [arr EXCEPT ![a] = [name |-> n, fd |-> MinusOne, size |-> 0, ro |-> TRUE, item |-> Item]]

-----------------------------------------------------------------------------
(* dump, resize, touch, swap. *)

\* dump: reset sets read_only_ before it is tested, so the file is linked, never
\* renamed; create_hard_link throws if the name is taken, after the reset.
Dump(a, n) ==
  /\ Running /\ arr[a].name # None /\ ~CloseBad(a)
  /\ open' = Closed(a)
  /\ arr' = [arr EXCEPT ![a] = [@ EXCEPT !.name = None, !.fd = INVALID, !.size = 0, !.ro = TRUE]]
  /\ link' = IF link[n] = None THEN [link EXCEPT ![n] = link[arr[a].name]] ELSE link
  /\ UNCHANGED files /\ Returns

\* Pages that are in memory keep the bytes behind the new end, others lose them.
Forgetting(cells, size, kept) ==
  [p \in 1 .. MaxBytes |-> IF p > size /\ (p - 1) \div Page \notin kept THEN 0 ELSE cells[p]]

Resize(a, n, kept) ==
  /\ Running /\ IsOpen(a) /\ ~arr[a].ro /\ n # arr[a].size
  /\ arr' = [arr EXCEPT ![a].size = n]
  /\ LET size == FileSize(arr[a].item, n)
     IN files' = [files EXCEPT ![arr[a].fd] = [size |-> size, cells |-> Forgetting(@.cells, size, kept)]]
  /\ UNCHANGED <<link, open>> /\ Returns

\* A read-only array gets smaller; both tests for it are size < size_.
ResizeReadOnly(a, n) ==
  /\ Running /\ IsOpen(a) /\ arr[a].ro /\ n # arr[a].size
  /\ arr' = IF n < arr[a].size THEN [arr EXCEPT ![a].size = n] ELSE arr
  /\ fate' = IF n > arr[a].size /\ n <= ItemsIn(arr[a].item, files[arr[a].fd].size)
             THEN "refused" ELSE "ok"
  /\ wrote' = <<>> /\ UNCHANGED <<link, files, open>>

\* copy_file: the destination is not truncated.
Copied(f, g) ==
  IF f = None \/ f = g THEN files
  ELSE [files EXCEPT ![g] =
          [size |-> IF files[f].size > @.size THEN files[f].size ELSE @.size,
           cells |-> [p \in 1 .. MaxBytes |-> IF p <= files[f].size THEN files[f].cells[p]
                                              ELSE @.cells[p]]]]

\* touch: close, copy, and open with the default item size, 1.
Touch(a, n) ==
  LET f == IF arr[a].name = None THEN None ELSE link[arr[a].name]
      g == IF link[n] = None THEN n ELSE link[n]
  IN /\ Running /\ Touching /\ ~CloseBad(a) /\ g \notin Closed(a) /\ f \notin Closed(a)
     /\ files' = Copied(f, g) /\ link' = [link EXCEPT ![n] = g]
     /\ open' = Closed(a) \union {g}
     /\ arr' = [arr EXCEPT ![a] = Opened(n, g, FALSE, 1)]
     /\ Returns

\* Variant: the handle stays with the other array, too.
SwappedShared(a, b) ==
  [arr EXCEPT ![a] = [@ EXCEPT !.name = arr[b].name, !.fd = arr[b].fd, !.size = arr[b].size],
              ![b] = [@ EXCEPT !.name = arr[a].name, !.size = arr[a].size]]

\* swap: name, handle and size change places, read_only_ and item_size_ stay, and
\* rhs is left without a handle.
Swapped(a, b) ==
  [arr EXCEPT ![a] = [@ EXCEPT !.name = arr[b].name, !.fd = arr[b].fd, !.size = arr[b].size],
              ![b] = [@ EXCEPT !.name = arr[a].name, !.fd = INVALID, !.size = 0]]

\* The objects swapped were opened alike, and the one that takes is closed.
Swap(a, b) ==
  /\ Running /\ a # b /\ arr[a].fd = INVALID
  /\ arr[a].item = arr[b].item /\ arr[a].ro = arr[b].ro /\ arr[b].item # 0
  /\ arr' = Swapped(a, b)
  /\ UNCHANGED <<link, files, open>> /\ Returns

-----------------------------------------------------------------------------
(* set and set_partial: SetBlock of the manager. *)

Set(a, i, len, v) ==
  /\ Running /\ WholeItems /\ IsOpen(a) /\ ~arr[a].ro /\ i + len <= arr[a].size
  /\ files' = Put(arr[a].fd, i * arr[a].item, len * arr[a].item, v)
  /\ UNCHANGED <<link, open, arr>> /\ Writes(a, (i + 1 .. i + len) \X (0 .. arr[a].item - 1), v)

\* Variant: the padding is forgotten.
SetPartialFlat(a, i, k, v) ==
  /\ Running /\ IsOpen(a) /\ ~arr[a].ro /\ i < arr[a].size /\ k < arr[a].item
  /\ files' = Put(arr[a].fd, i * arr[a].item + k, 1, v)
  /\ UNCHANGED <<link, open, arr>> /\ Writes(a, {<<i + 1, k>>}, v)

SetPartial(a, i, k, v) ==
  /\ Running /\ IsOpen(a) /\ ~arr[a].ro /\ i < arr[a].size /\ k < arr[a].item
  /\ files' = Put(arr[a].fd, Offset(arr[a].item, i) + k, 1, v)
  /\ UNCHANGED <<link, open, arr>> /\ Writes(a, {<<i + 1, k>>}, v)

Next ==
  \E a \in Arrays :
    \/ Close(a) \/ CloseNone(a)
    \/ \E n \in Names : \/ Open(a, n) \/ OpenReadOnly(a, n) \/ OpenReadOnlyMissing(a, n)
                        \/ Dump(a, n) \/ Touch(a, n)
    \/ \E n \in 0 .. MaxItems : \/ ResizeReadOnly(a, n)
                                \/ \E kept \in SUBSET (0 .. MaxBytes \div Page) : Resize(a, n, kept)
    \/ \E b \in Arrays : Swap(a, b)
    \/ \E i \in 0 .. MaxItems - 1, v \in {0, 1} :
         \/ \E len \in 1 .. MaxItems : Set(a, i, len, v)
         \/ \E k \in 0 .. Item - 1 : SetPartial(a, i, k, v)

Spec == Init /\ [][Next]_vars

-----------------------------------------------------------------------------
\* Fields and files have their types, and a file stays within its bound.
TypeOK ==
  /\ link \in [Names -> Names \union {None}] /\ open \subseteq Names
  /\ \A n \in Names : files[n].size \in 0 .. MaxBytes /\ files[n].cells \in [1 .. MaxBytes -> {0, 1}]
  /\ \A a \in Arrays : /\ arr[a].name \in Names \union {None}
                       /\ arr[a].fd \in Names \union {INVALID, MinusOne}
                       /\ arr[a].size \in 0 .. MaxBytes /\ arr[a].ro \in BOOLEAN
                       /\ arr[a].item \in {0, 1, Item}
  /\ fate \in {"ok", "refused", "badfd"}

\* A handle that is open in the manager belongs to exactly one array: reopening,
\* dumping, touching and moving an array leak none and share none.
HandlesOwned == \A f \in open : Cardinality({a \in Arrays : arr[a].fd = f}) = 1

\* The items that a file of so many bytes has in full.
Whole(it, bytes) == Cardinality({i \in 0 .. MaxBytes : Offset(it, i) + it <= bytes})

\* size() of an open array is what the file holds, less for a read-only array that
\* was made smaller.
SizeIsFile ==
  \A a \in Arrays : IsOpen(a) =>
    LET n == Whole(arr[a].item, files[arr[a].fd].size)
    IN IF arr[a].ro THEN arr[a].size <= n ELSE arr[a].size = n

\* The block that get returns ends in the file and holds all the items asked for,
\* and get_partial's assertion holds for every part of an item.
GetInFile ==
  \A a \in Arrays : IsOpen(a) =>
    LET it == arr[a].item
    IN \A i \in 0 .. arr[a].size - 1 :
         /\ \A len \in 1 .. arr[a].size - i :
              LET end == Offset(it, i) + BlockSize(it, i, len)
              IN end <= files[arr[a].fd].size /\ end >= Offset(it, i + len - 1) + it
         /\ \A k \in 0 .. it - 1 : PartFits(it, i, k, it - k)

\* The file as get sees it: item by item, at the offsets of get.
Items(f) ==
  [i \in 1 .. Whole(Item, files[f].size) |->
     [k \in 0 .. Item - 1 |-> files[f].cells[Offset(Item, i - 1) + k + 1]]]
Promise == INSTANCE ItemFiles WITH named <- link, items <- [f \in Names |-> Items(f)],
                                   Parts <- 0 .. Item - 1

\* What set and set_partial write is what get reads, and nothing else changes it:
\* no other write, no growing or shrinking beside it, no reopening, copying,
\* linking or moving.
ActsAsItems == Promise!Spec

\* No handle is used that the manager has not given out.
NoBadHandle == fate # "badfd"

\* A read-only array refuses only what is larger than its file.
RefusedIsLarger == fate # "refused"
=============================================================================
