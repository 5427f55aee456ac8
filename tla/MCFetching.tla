----------------------------- MODULE MCFetching -----------------------------
(***************************************************************************)
(* How pages and blocks are found and brought into memory, one part at a    *)
(* time: the manager's block reads, the direct caches in front of them, the *)
(* eviction server behind them, and the hash table that maps pages to       *)
(* frames. The variables of the other parts are Off.                        *)
(***************************************************************************)
EXTENDS Integers, FiniteSets, Sequences, TLC

CONSTANTS t1, t2, f1, f2, b1, b2, p1, p2, p3, p4, s1, s2, c1, c2, c3, None, Null, Empty, Busy

VARIABLES
  part,   \* the part that runs
  \* the variables of the parts:
  mapping, pte, free, repl, mem, disk, pc, kind, rq, at, left, impl, cache, ring,
  refs, resident, block, owner, todo, wait, failed, inUse, mark, channel, slots,
  stop_, gone, frm, done, globalDepth_, bucketNum_, buckets_, bucket, key, val,
  idx, cur, ret, missed

vars == <<part, mapping, pte, free, repl, mem, disk, pc, kind, rq, at, left, impl,
          cache, ring, refs, resident, block, owner, todo, wait, failed, inUse,
          mark, channel, slots, stop_, gone, frm, done, globalDepth_, bucketNum_,
          buckets_, bucket, key, val, idx, cur, ret, missed>>

\* Every caller of the resumable fetches; a list that is no ascending one and one that
\* names a page twice where the callers allow it.
EveryCaller ==
  {<<"Sync", <<p3>>>>, <<"Sync1", <<p2, p3>>>>, <<"Async1", <<p1, p2>>>>,
   <<"New", <<p3, p2>>>>, <<"New", <<p2, p2>>>>, <<"Batch1", <<p2, p3>>>>,
   <<"Round", <<p2, p1>>>>, <<"Round", <<p2, p2>>>>}

\* Two reads of each thread, three pages and two frames.
Reads == INSTANCE BatchFetch WITH
  Threads <- {t1, t2}, Pages <- {p1, p2, p3}, Frames <- {f1, f2},
  Asks <- EveryCaller, Calls <- 2, MaxVersion <- 1

\* Two slots: p1 and p2 share one, p3 and p4 the other.
Cache == INSTANCE DirectCache WITH
  Threads <- {t1, t2}, Pages <- {p1, p2, p3, p4}, Slots <- {s1, s2},
  Slot <- (p1 :> s1 @@ p2 :> s1 @@ p3 :> s2 @@ p4 :> s2), Blocks <- {b1, b2},
  Frames <- 2, Width <- 16, Impls <- 1 .. 5, Handoff <- FALSE, Calls <- 2,
  OneBlock <- {<<p1>>, <<p2, p3>>}, Batch <- {<<<<1, p2>>, <<2, p1>>>>, <<<<1, p1>>, <<1, p4>>>>}

\* A request for more frames than a scan can find is taken up again and again.
Evict == INSTANCE EvictionServer WITH
  Clients <- {c1, c2, c3}, Frames <- {f1, f2}, PageNum <- 2, Slots <- 2,
  ChannelCap <- 2, Fetches <- 2

\* One thread; keys that need a directory of depth three.
Hash == INSTANCE ExtendibleHash WITH
  Threads <- {c1}, Keys <- {0, 1, 2, 4, 6}, Vals <- {7, 8}, BucketSize <- 2,
  MaxDepth <- 3

ASSUME /\ Reads!Parameters /\ Cache!Parameters /\ Evict!Parameters /\ Hash!Parameters

Off == "off"   \* of a variable that the part does not have

NotReads == <<impl, cache, ring, refs, resident, block, owner, todo, wait, failed,
              inUse, mark, channel, slots, stop_, gone, frm, done, globalDepth_,
              bucketNum_, buckets_, bucket, key, val, idx, cur, ret, missed>>
NotCache == <<mapping, pte, free, repl, mem, disk, pc, rq, at, inUse, mark,
              channel, slots, stop_, gone, frm, done, globalDepth_, bucketNum_,
              buckets_, bucket, key, val, idx, cur, ret, missed>>
NotEvict == <<mapping, pte, mem, disk, kind, rq, left, impl, cache, ring, refs,
              resident, block, owner, todo, wait, failed, globalDepth_, bucketNum_,
              buckets_, bucket, key, val, idx, cur, ret, missed>>
NotHash == <<mapping, pte, free, repl, mem, disk, kind, rq, at, left, impl, cache,
             ring, refs, resident, block, owner, todo, wait, failed, inUse, mark,
             channel, slots, stop_, gone, frm, done>>

Init ==
  \/ /\ part = "batch" /\ Reads!Init
     /\ impl = Off /\ cache = Off /\ ring = Off /\ refs = Off /\ resident = Off
     /\ block = Off /\ owner = Off /\ todo = Off /\ wait = Off /\ failed = Off
     /\ inUse = Off /\ mark = Off /\ channel = Off /\ slots = Off /\ stop_ = Off
     /\ gone = Off /\ frm = Off /\ done = Off /\ globalDepth_ = Off
     /\ bucketNum_ = Off /\ buckets_ = Off /\ bucket = Off /\ key = Off
     /\ val = Off /\ idx = Off /\ cur = Off /\ ret = Off /\ missed = Off
  \/ /\ part = "cache" /\ Cache!Init
     /\ mapping = Off /\ pte = Off /\ free = Off /\ repl = Off /\ mem = Off
     /\ disk = Off /\ pc = Off /\ rq = Off /\ at = Off /\ inUse = Off
     /\ mark = Off /\ channel = Off /\ slots = Off /\ stop_ = Off /\ gone = Off
     /\ frm = Off /\ done = Off /\ globalDepth_ = Off /\ bucketNum_ = Off
     /\ buckets_ = Off /\ bucket = Off /\ key = Off /\ val = Off /\ idx = Off
     /\ cur = Off /\ ret = Off /\ missed = Off
  \/ /\ part = "evict" /\ Evict!Init
     /\ mapping = Off /\ pte = Off /\ mem = Off /\ disk = Off /\ kind = Off
     /\ rq = Off /\ left = Off /\ impl = Off /\ cache = Off /\ ring = Off
     /\ refs = Off /\ resident = Off /\ block = Off /\ owner = Off /\ todo = Off
     /\ wait = Off /\ failed = Off /\ globalDepth_ = Off /\ bucketNum_ = Off
     /\ buckets_ = Off /\ bucket = Off /\ key = Off /\ val = Off /\ idx = Off
     /\ cur = Off /\ ret = Off /\ missed = Off
  \/ /\ part = "hash" /\ Hash!Init
     /\ mapping = Off /\ pte = Off /\ free = Off /\ repl = Off /\ mem = Off
     /\ disk = Off /\ kind = Off /\ rq = Off /\ at = Off /\ left = Off
     /\ impl = Off /\ cache = Off /\ ring = Off /\ refs = Off /\ resident = Off
     /\ block = Off /\ owner = Off /\ todo = Off /\ wait = Off /\ failed = Off
     /\ inUse = Off /\ mark = Off /\ channel = Off /\ slots = Off /\ stop_ = Off
     /\ gone = Off /\ frm = Off /\ done = Off

Next ==
  /\ part' = part
  /\ \/ part = "batch" /\ Reads!Next /\ UNCHANGED NotReads
     \/ part = "cache" /\ Cache!Next /\ UNCHANGED NotCache
     \/ part = "evict" /\ Evict!Next /\ UNCHANGED NotEvict
     \/ part = "hash" /\ Hash!Next /\ UNCHANGED NotHash
     \/ part = "cache" /\ UNCHANGED vars   \* the calls are used up

Spec == Init /\ [][Next]_vars

-----------------------------------------------------------------------------
(* Properties. *)

\* The variables of the part that runs have their types; the slots of a cache hold pages
\* that are hashed to them, and the directory of the hash table has 2^globalDepth_
\* entries.
TypeOK ==
  CASE part = "batch" -> Reads!TypeOK
    [] part = "cache" -> Cache!TypeOK
    [] part = "evict" -> Evict!TypeOK
    [] part = "hash" -> Hash!TypeOK

\* GetBlockSync, GetBlockSync1, GetBlockAsync1 and the batch reads: every page of a block
\* that was returned is in the frame the block points to, published, pinned, and no
\* older than its copy on disk; and with a direct cache in front, a page that a block
\* shows stays in memory while the block lives.
BlocksShown ==
  /\ part = "batch" => Reads!BlockComplete
  /\ part = "cache" => Cache!ShownResident

\* A frame's count is the number of requests that ended with it.  With any of the five
\* direct caches the pins of a page are those of the slots that hold it and of the
\* blocks that took it without a slot, a slot counts the block pages taken from it (as
\* long as blocks are released by the thread that got them), and Clean's assertion
\* that no slot is in use holds when no block is left.
ReferencesExact ==
  /\ part = "batch" => Reads!PinsExact
  /\ part = "cache" => Cache!SlotInv /\ Cache!Fits

\* No fetch that returns between its phases leaves anything behind: a locked page has
\* exactly one request that has its lock, and a frame is free, in the replacer, or with
\* the one request that will load it.  Beside the eviction server no frame is lost
\* between free list, replacer and fetches, none is given to two of them, and none that
\* a client has pinned gets to the free list.
NothingLeftBehind ==
  /\ TypeOK
  /\ part = "batch" => /\ Reads!LockHasRequest /\ Reads!FramesKept
                        /\ Reads!BatchInv
  /\ part = "evict" => Evict!FramesPartitioned /\ Evict!PinnedNotFree

\* No eviction that another request begins, and no reload, takes a page back to a
\* version before a write into a block.
NoLostWrite == [][part = "batch" => Reads!KeepsWrites]_vars

\* Splits of the hash table leave each bucket with exactly the directory entries that
\* agree in its local depth and with the keys that those lead to, and Find, Insert and
\* Remove do to the table what they do to a map.  (With one thread: see README for two.)
ActsAsMap ==
  /\ [](part = "hash" => Hash!DirectorySound)
  /\ [][part = "hash" => Hash!MapStep]_vars

Symmetry == Permutations({t1, t2}) \cup Permutations({f1, f2}) \cup Permutations({b1, b2})
=============================================================================
