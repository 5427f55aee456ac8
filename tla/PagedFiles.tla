----------------------------- MODULE PagedFiles -----------------------------
(***************************************************************************)
(* The files of the buffer pool manager: the DiskManager's table of files, *)
(* one mapping per file and pool behind a round-robin partitioner, pages   *)
(* that are loaded, written to, evicted and flushed, and the calls that    *)
(* open, resize, flush and close a file and end the program.               *)
(*                                                                         *)
(* Bytes are members of a small set and pages hold Page of them.  A page   *)
(* is identified by file handle and page number.  How a page is fetched    *)
(* and evicted against other threads is the subject of BufferPool; here    *)
(* those are single steps.                                                 *)
(***************************************************************************)
EXTENDS Integers, Sequences, FiniteSets

CONSTANTS
  Names,        \* paths
  Bytes,        \* the bytes that are written, 0 among them
  Junk,         \* what an earlier page has left in a frame
  Page,         \* PAGE_SIZE_FILE
  Partitions,   \* number of pools
  Frames,       \* frames of all pools together
  MaxSize,      \* bound on the size of a file
  MaxFds,       \* bound on the number of opens
  OsInit,       \* the files at the beginning
  Sync,         \* RWSysCall is the I/O backend, IOURing otherwise
  Shrink,       \* files are made smaller, too
  EvictClosed,  \* pages are evicted after a file has been closed
  Contended     \* other threads lock pages while a file is flushed

\* What the constants have to be; the modules that instantiate this one assume it.
\* The partitioner's constructor asserts that there is a power of two of pools.
Parameters ==
  /\ {Page, Frames, MaxSize, MaxFds} \subseteq Nat \ {0} /\ 0 \in Bytes /\ Junk \notin Bytes
  /\ {Sync, Shrink, EvictClosed, Contended} \subseteq BOOLEAN
  /\ \E k \in 0 .. 8 : Partitions = 2 ^ k

VARIABLES
  os,       \* [Names -> Seq(Bytes)]: the files of the operating system
  fds,      \* fd_oss_, file_names_, file_size_inBytes_: Seq([name, open, size])
  maps,     \* per pool and handle the size of the PageMapping, or Null
  mem,      \* the pages in memory: [handle and page -> [cells, dirty]]
  queue,    \* the pages in memory that are in a replacer's list
  locked,   \* pages whose mapping is BUSY for good, after a flush
  others,   \* pages whose mapping is BUSY for a while, by another thread
  fate      \* "ok", "aborted" by an assertion, "null" mapping used, "down"

vars == <<os, fds, maps, mem, queue, locked, others, fate>>

Null == -1
Pools == 0 .. Partitions - 1
CeilDiv(a, n) == (a + n - 1) \div n
Resized(s, n) == [i \in 1 .. n |-> IF i <= Len(s) THEN s[i] ELSE 0]
Larger(a, b) == IF a > b THEN a ELSE b

-----------------------------------------------------------------------------
(* RoundRobinPartitioner and the sizes of the mappings. *)

GetPartitionId(p) == p % Partitions
GetFPageIdInPartition(p) == p \div Partitions

FPageNum(f) == CeilDiv(fds[f].size, Page)
PagesOf(f) == {<<f, p>> : p \in 0 .. FPageNum(f) - 1}

\* Variant: the pages of a file are divided and rounded down.
RegisterSizeDown(size) == CeilDiv(size, Page) \div Partitions

\* BufferPool::RegisterFile and PageTable::RegisterFile.
RegisterSize(size) == CeilDiv(CeilDiv(size, Page), Partitions)

\* BufferPoolManager::Resize and BufferPool::Resize: the bytes are divided first.
ResizeSize(size) == CeilDiv(CeilDiv(size, Partitions), Page)

\* PageMapping::Resize: it only grows.
MapResized(old, new) == IF new <= old THEN old ELSE new

\* Variant: the entry is taken out of the table.
DeregisteredErased(m, f) == [i \in 1 .. Len(m) - 1 |-> IF i < f THEN m[i] ELSE m[i + 1]]

\* PageTable::DeregisterFile: the entry stays, without a mapping.
Deregistered(m, f) == [m EXCEPT ![f] = Null]

-----------------------------------------------------------------------------
(* The disk. *)

\* Reading a page: RWSysCall fills what the file does not have with zeros, IOURing
\* leaves what was in the frame.
DiskRead(name, p) ==
  [i \in 1 .. Page |-> IF p * Page + i <= Len(os[name]) THEN os[name][p * Page + i]
                       ELSE IF Sync THEN 0 ELSE Junk]

\* Writing a page: all of it; RWSysCall then cuts the file to file_size_inBytes_ if
\* the page reaches past it (size - offset is unsigned: not if it begins past it).
DiskWrite(file, size, p, cells) ==
  LET long == [i \in 1 .. Larger(Len(file), (p + 1) * Page) |->
                 IF i \in p * Page + 1 .. (p + 1) * Page THEN cells[i - p * Page]
                 ELSE IF i <= Len(file) THEN file[i] ELSE 0]
  IN IF Sync /\ p * Page <= size /\ size - p * Page < Page THEN Resized(long, size) ELSE long

\* The file after all dirty pages of a set have been written.
Written(f, pages) ==
  LET put[n \in 0 .. FPageNum(f)] ==
        IF n = 0 THEN os[fds[f].name]
        ELSE IF <<f, n - 1>> \in pages /\ mem[<<f, n - 1>>].dirty
             THEN DiskWrite(put[n - 1], fds[f].size, n - 1, mem[<<f, n - 1>>].cells)
             ELSE put[n - 1]
  IN put[FPageNum(f)]

-----------------------------------------------------------------------------
(* Files. *)

Init ==
  /\ os = OsInit /\ fds = <<>> /\ maps = [k \in Pools |-> <<>>]
  /\ mem = <<>> /\ queue = {} /\ locked = {} /\ others = {} /\ fate = "ok"

IsOpen(f) == f \in DOMAIN fds /\ fds[f].open

\* BufferPoolManager::OpenFile; a path is not opened twice at the same time.
OpenFile(name) ==
  /\ fate = "ok" /\ Len(fds) < MaxFds
  /\ \A f \in DOMAIN fds : fds[f].name = name => ~fds[f].open
  /\ fds' = Append(fds, [name |-> name, open |-> TRUE, size |-> Len(os[name])])
  /\ maps' = [k \in Pools |-> Append(maps[k], RegisterSize(Len(os[name])))]
  /\ UNCHANGED <<os, mem, queue, locked, others, fate>>

\* BufferPoolManager::Resize: DiskManager::Resize, then every pool.
Resize(f, n) ==
  /\ fate = "ok" /\ IsOpen(f) /\ n # fds[f].size /\ (n < fds[f].size => Shrink)
  /\ fds' = [fds EXCEPT ![f].size = n]
  /\ os' = [os EXCEPT ![fds[f].name] = Resized(@, n)]
  /\ maps' = [k \in Pools |-> [maps[k] EXCEPT ![f] = MapResized(@, ResizeSize(n))]]
  /\ UNCHANGED <<mem, queue, locked, others, fate>>

Busy == locked \union others

\* A page is fetched into a free frame.
Load(f, p) ==
  /\ fate = "ok" /\ IsOpen(f) /\ <<f, p>> \in PagesOf(f) \ (DOMAIN mem \union Busy)
  /\ Cardinality(DOMAIN mem) < Frames
  /\ mem' = [x \in DOMAIN mem \union {<<f, p>>} |->
               IF x = <<f, p>> THEN [cells |-> DiskRead(fds[f].name, p), dirty |-> FALSE] ELSE mem[x]]
  /\ queue' = queue \union {<<f, p>>}
  /\ UNCHANGED <<os, fds, maps, locked, others, fate>>

\* SetBlock of one byte of a page in memory.
SetBlock(f, i, b) ==
  LET x == <<f, i \div Page>>
  IN /\ fate = "ok" /\ IsOpen(f) /\ i < fds[f].size /\ x \in DOMAIN mem \ Busy
     /\ mem' = [mem EXCEPT ![x] = [cells |-> [@.cells EXCEPT ![(i % Page) + 1] = b], dirty |-> TRUE]]
     /\ UNCHANGED <<os, fds, maps, queue, locked, others, fate>>

Without(x) == [y \in DOMAIN mem \ {x} |-> mem[y]]

\* A fetch takes the frame of a page that is in a replacer's list.  Victim locks the
\* mapping of the page: of a closed file there is none.
Evict(x) ==
  /\ fate = "ok" /\ x \in queue \ Busy
  /\ IF maps[GetPartitionId(x[2])][x[1]] = Null
     THEN EvictClosed /\ fate' = "null" /\ UNCHANGED <<os, mem, queue>>
     ELSE /\ os' = IF mem[x].dirty
                   THEN [os EXCEPT ![fds[x[1]].name] =
                           DiskWrite(@, fds[x[1]].size, x[2], mem[x].cells)]
                   ELSE os
          /\ mem' = Without(x) /\ queue' = queue \ {x} /\ UNCHANGED fate
  /\ UNCHANGED <<fds, maps, locked, others>>

-----------------------------------------------------------------------------
(* Flushing. *)

Resident(f) == PagesOf(f) \intersect DOMAIN mem

\* FlushFile returns what FlushPage says of the last page.
FlushFileRet(f) == FPageNum(f) = 0 \/ <<f, FPageNum(f) - 1>> \notin Busy

\* Variant: the flush passes over the last page.
FlushableFew(f) == {x \in Resident(f) \ Busy : x[2] # FPageNum(f) - 1}

\* The pages FlushFile writes: a page whose mapping is BUSY is passed over.
Flushable(f) == Resident(f) \ Busy

\* FlushFile without delete_from_memory leaves the pages BUSY (run flush_lock).
FlushFile(f) ==
  /\ fate = "ok" /\ IsOpen(f)
  /\ os' = [os EXCEPT ![fds[f].name] = Written(f, Flushable(f))]
  /\ mem' = [x \in DOMAIN mem |-> IF x \in Flushable(f) THEN [mem[x] EXCEPT !.dirty = FALSE] ELSE mem[x]]
  /\ locked' = locked \union Flushable(f)
  /\ UNCHANGED <<fds, maps, queue, others, fate>>

\* CloseFile: assert(FlushFile(fd)), then the handle and the mappings; the frames
\* stay in the replacers' lists.
CloseFile(f) ==
  /\ fate = "ok" /\ IsOpen(f)
  /\ os' = [os EXCEPT ![fds[f].name] = Written(f, Flushable(f))]
  /\ mem' = [x \in DOMAIN mem |-> IF x \in Flushable(f) THEN [mem[x] EXCEPT !.dirty = FALSE] ELSE mem[x]]
  /\ IF FlushFileRet(f)
     THEN /\ fds' = [fds EXCEPT ![f].open = FALSE]
          /\ maps' = [k \in Pools |-> Deregistered(maps[k], f)]
          \* what is BUSY in a mapping goes with the mapping
          /\ locked' = {x \in locked : x[1] # f} /\ others' = {x \in others : x[1] # f}
          /\ UNCHANGED fate
     ELSE /\ fate' = "aborted" /\ locked' = locked \union Flushable(f)
          /\ UNCHANGED <<fds, maps, others>>
  /\ UNCHANGED queue

OpenFds == {f \in DOMAIN fds : fds[f].open}
AllWritten == [n \in Names |->
                 IF \E f \in OpenFds : fds[f].name = n
                 THEN LET f == CHOOSE g \in OpenFds : fds[g].name = n IN Written(f, Flushable(f))
                 ELSE os[n]]
AllFlushable == UNION {Flushable(f) : f \in OpenFds}

\* Clean: Flush with delete_from_memory; at the end the replacers are emptied.
Clean ==
  /\ fate = "ok" /\ os' = AllWritten
  /\ mem' = [x \in DOMAIN mem \ AllFlushable |-> mem[x]] /\ queue' = {}
  /\ fate' = IF \A f \in OpenFds : FlushFileRet(f) THEN "ok" ELSE "aborted"
  /\ UNCHANGED <<fds, maps, locked, others>>

\* ~BufferPoolManager: Flush, when the other threads have stopped.
Shutdown ==
  /\ fate = "ok" /\ others = {} /\ os' = AllWritten
  /\ fate' = IF \A f \in OpenFds : FlushFileRet(f) THEN "down" ELSE "aborted"
  /\ UNCHANGED <<fds, maps, mem, queue, locked, others>>

\* Another thread loads, evicts or flushes a page in memory: its mapping is BUSY.
OtherLocks(x) ==
  /\ fate = "ok" /\ Contended /\ x \in DOMAIN mem \ Busy /\ fds[x[1]].open
  /\ others' = others \union {x}
  /\ UNCHANGED <<os, fds, maps, mem, queue, locked, fate>>
OtherUnlocks(x) ==
  /\ fate = "ok" /\ x \in others /\ others' = others \ {x}
  /\ UNCHANGED <<os, fds, maps, mem, queue, locked, fate>>

Next ==
  \/ \E n \in Names : OpenFile(n)
  \/ \E f \in DOMAIN fds : \/ \E n \in 0 .. MaxSize : Resize(f, n)
                           \/ \E p \in 0 .. MaxSize : Load(f, p)
                           \/ \E i \in 0 .. MaxSize - 1, b \in Bytes : SetBlock(f, i, b)
                           \/ FlushFile(f) \/ CloseFile(f)
  \/ \E x \in DOMAIN mem : Evict(x) \/ OtherLocks(x) \/ OtherUnlocks(x)
  \/ Clean \/ Shutdown

Spec == Init /\ [][Next]_vars

-----------------------------------------------------------------------------
Cells == Bytes \union {Junk}

\* Tables have their types; in particular no file grows over its bound.
TypeOK ==
  /\ \A n \in Names : os[n] \in Seq(Cells) /\ Len(os[n]) <= MaxSize
  /\ \A f \in DOMAIN fds : fds[f] \in [name : Names, open : BOOLEAN, size : 0 .. MaxSize]
  /\ \A k \in Pools : maps[k] \in Seq(Nat \union {Null})
  /\ DOMAIN mem \subseteq (DOMAIN fds) \X Nat /\ queue \subseteq DOMAIN mem
  /\ Busy \subseteq DOMAIN mem
  /\ fate \in {"ok", "aborted", "null", "down"}

\* Every page of an open file has an entry of its own in the mapping of its pool,
\* whichever of open and resize made the mapping: FindMapping and LockMapping stay
\* inside mappings_.
MappingCovers ==
  \A f \in OpenFds : \A p \in 0 .. FPageNum(f) - 1 :
    GetFPageIdInPartition(p) < maps[GetPartitionId(p)][f]

\* The handle the DiskManager gives out is the index of the file's mapping in every
\* pool, and a closed file has none.
FdsAligned ==
  \A k \in Pools : /\ Len(maps[k]) = Len(fds)
                   /\ \A f \in DOMAIN fds : maps[k][f] = Null <=> ~fds[f].open

\* No mapping is used that has been deleted: PageTable::LockMapping asserts it.
NoNullMapping == fate # "null"

\* What the user sees of a file.
Content ==
  [n \in Names |->
     IF fate = "down" \/ ~\E f \in OpenFds : fds[f].name = n THEN os[n]
     ELSE LET f == CHOOSE g \in OpenFds : fds[g].name = n
          IN [i \in 1 .. fds[f].size |->
                LET x == <<f, (i - 1) \div Page>>
                IN IF x \in DOMAIN mem THEN mem[x].cells[((i - 1) % Page) + 1] ELSE os[n][i]]]

\* Opening, loading, evicting, flushing, cleaning, closing, reopening and shutting
\* down keep every byte that was written, a file keeps its size, and a file that
\* grows grows by zeros, also within a page that is in memory.
Abstract == INSTANCE ByteFiles WITH content <- Content, Bytes <- Cells
ActsAsByteFiles == Abstract!Spec
=============================================================================
