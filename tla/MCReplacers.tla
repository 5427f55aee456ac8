---------------------------- MODULE MCReplacers -----------------------------
(***************************************************************************)
(* The replacers a pool can be built with, one at a time: a behaviour is    *)
(* one of a single part, and the variables of the others are Off.           *)
(* SieveReplacer_v3, the one the repository uses, has runs of its own; here *)
(* it is emptied by Clean under a single client.                            *)
(***************************************************************************)
EXTENDS Integers, FiniteSets, Sequences

CONSTANTS f1, f2, f3, c1, None

VARIABLES
  part,   \* the part that runs
  \* the variables of the parts:
  kind, list, active, map, size, left, known, older, map_, buckets, freq_map_,
  nulls, min_freq, max_freq, fault, freq, member, hand, cur, scanning, out, inUse,
  pointer_, pc, count, untried, next, prev, val, pointer, latch, free, idle, frm

vars == <<part, kind, list, active, map, size, left, known, older, map_, buckets,
          freq_map_, nulls, min_freq, max_freq, fault, freq, member, hand, cur,
          scanning, out, inUse, pointer_, pc, count, untried, next, prev, val,
          pointer, latch, free, idle, frm>>

Three == {f1, f2, f3}

\* Three frames: a frame can be passed over between two others.
Queue == INSTANCE QueueReplacers WITH
  Frames <- Three, PageNum <- 2, SizeMod <- 8,
  Kinds <- {"LRU", "FIFO", "LRU_v2", "FIFO_v2", "TwoQ"},
  BatchKinds <- {"LRU", "FIFO", "FIFO_v2", "TwoQ"}

\* Four use counts: buckets empty, vanish and return.
LFU == INSTANCE LFUReplacer WITH
  Frames <- Three, FreqBound <- 4

\* Any frame may be pinned at any time.
Clock == INSTANCE ClockReplacers WITH
  Capacity <- 3, Kinds <- {"Clock", "Clock_v2"}, MaxFreq <- 2, Reserve <- {}

\* Frame 1 is never pinned once it is in the list, so that a victim exists.
Reserved == INSTANCE ClockReplacers WITH
  Capacity <- 3, Kinds <- {"Clock_v2"}, MaxFreq <- 2, Reserve <- {1}

\* The hand can be at the front, in the middle and at the back.
Sieve == INSTANCE SieveReplacers WITH
  Frames <- Three, PageNum <- 2, WithErase <- {"Sieve"},
  Kinds <- {"Sieve", "Sieve_v2", "Sieve_v3"}

\* SieveReplacer_v2 with Erase, after which its hand may be outside the list.
Erased == INSTANCE SieveReplacers WITH
  Frames <- Three, PageNum <- 2, WithErase <- {"Sieve_v2"}, Kinds <- {"Sieve_v2"}

\* One client of SieveReplacer_v3, and BufferPoolManager::Clean.
Cleaned == INSTANCE SieveReplacer WITH
  Clients <- {c1}, Capacity <- 3, WithClean <- TRUE

ASSUME /\ Queue!Parameters /\ LFU!Parameters /\ Clock!Parameters /\ Reserved!Parameters
       /\ Sieve!Parameters /\ Erased!Parameters

Off == "off"   \* of a variable that the part does not have

NotQueue == <<map_, buckets, freq_map_, nulls, min_freq, max_freq, fault, freq,
              member, hand, cur, scanning, out, inUse, pointer_, pc, count,
              untried, next, prev, val, pointer, latch, free, idle, frm>>
NotLFU == <<kind, list, active, map, size, left, known, older, freq, member, hand,
            cur, scanning, out, inUse, pointer_, pc, count, untried, next, prev,
            val, pointer, latch, free, idle, frm>>
NotClock == <<active, map, size, left, known, older, map_, buckets, freq_map_,
              nulls, min_freq, max_freq, fault, pointer_, pc, count, untried, next,
              prev, val, pointer, latch, free, idle, frm>>
NotSieve == <<active, map, size, older, map_, buckets, freq_map_, nulls, min_freq,
              max_freq, fault, member, hand, scanning, out, inUse, next, prev, val,
              pointer, latch, free, idle, frm>>
NotCleaned == <<kind, list, active, map, size, left, known, older, map_, buckets,
                freq_map_, nulls, min_freq, max_freq, fault, freq, member, hand,
                scanning, out, pointer_, untried>>

Init ==
  \/ /\ part = "queue" /\ Queue!Init
     /\ map_ = Off /\ buckets = Off /\ freq_map_ = Off /\ nulls = Off
     /\ min_freq = Off /\ max_freq = Off /\ fault = Off /\ freq = Off
     /\ member = Off /\ hand = Off /\ cur = Off /\ scanning = Off /\ out = Off
     /\ inUse = Off /\ pointer_ = Off /\ pc = Off /\ count = Off
     /\ untried = Off /\ next = Off /\ prev = Off /\ val = Off /\ pointer = Off
     /\ latch = Off /\ free = Off /\ idle = Off /\ frm = Off
  \/ /\ part = "lfu" /\ LFU!Init
     /\ kind = Off /\ list = Off /\ active = Off /\ map = Off /\ size = Off
     /\ left = Off /\ known = Off /\ older = Off /\ freq = Off /\ member = Off
     /\ hand = Off /\ cur = Off /\ scanning = Off /\ out = Off /\ inUse = Off
     /\ pointer_ = Off /\ pc = Off /\ count = Off /\ untried = Off /\ next = Off
     /\ prev = Off /\ val = Off /\ pointer = Off /\ latch = Off /\ free = Off
     /\ idle = Off /\ frm = Off
  \/ /\ part = "clock" /\ Clock!Init
     /\ active = Off /\ map = Off /\ size = Off /\ left = Off /\ known = Off
     /\ older = Off /\ map_ = Off /\ buckets = Off /\ freq_map_ = Off
     /\ nulls = Off /\ min_freq = Off /\ max_freq = Off /\ fault = Off
     /\ pointer_ = Off /\ pc = Off /\ count = Off /\ untried = Off /\ next = Off
     /\ prev = Off /\ val = Off /\ pointer = Off /\ latch = Off /\ free = Off
     /\ idle = Off /\ frm = Off
  \/ /\ part = "reserve" /\ Reserved!Init
     /\ active = Off /\ map = Off /\ size = Off /\ left = Off /\ known = Off
     /\ older = Off /\ map_ = Off /\ buckets = Off /\ freq_map_ = Off
     /\ nulls = Off /\ min_freq = Off /\ max_freq = Off /\ fault = Off
     /\ pointer_ = Off /\ pc = Off /\ count = Off /\ untried = Off /\ next = Off
     /\ prev = Off /\ val = Off /\ pointer = Off /\ latch = Off /\ free = Off
     /\ idle = Off /\ frm = Off
  \/ /\ part = "sieve" /\ Sieve!Init
     /\ active = Off /\ map = Off /\ size = Off /\ older = Off /\ map_ = Off
     /\ buckets = Off /\ freq_map_ = Off /\ nulls = Off /\ min_freq = Off
     /\ max_freq = Off /\ fault = Off /\ member = Off /\ hand = Off
     /\ scanning = Off /\ out = Off /\ inUse = Off /\ next = Off /\ prev = Off
     /\ val = Off /\ pointer = Off /\ latch = Off /\ free = Off /\ idle = Off
     /\ frm = Off
  \/ /\ part = "erased" /\ Erased!Init
     /\ active = Off /\ map = Off /\ size = Off /\ older = Off /\ map_ = Off
     /\ buckets = Off /\ freq_map_ = Off /\ nulls = Off /\ min_freq = Off
     /\ max_freq = Off /\ fault = Off /\ member = Off /\ hand = Off
     /\ scanning = Off /\ out = Off /\ inUse = Off /\ next = Off /\ prev = Off
     /\ val = Off /\ pointer = Off /\ latch = Off /\ free = Off /\ idle = Off
     /\ frm = Off
  \/ /\ part = "cleaned" /\ Cleaned!Init
     /\ kind = Off /\ list = Off /\ active = Off /\ map = Off /\ size = Off
     /\ left = Off /\ known = Off /\ older = Off /\ map_ = Off /\ buckets = Off
     /\ freq_map_ = Off /\ nulls = Off /\ min_freq = Off /\ max_freq = Off
     /\ fault = Off /\ freq = Off /\ member = Off /\ hand = Off
     /\ scanning = Off /\ out = Off /\ pointer_ = Off /\ untried = Off

Next ==
  /\ part' = part
  /\ \/ part = "queue" /\ Queue!Next /\ UNCHANGED NotQueue
     \/ part = "lfu" /\ LFU!Next /\ UNCHANGED NotLFU
     \/ part = "clock" /\ Clock!Next /\ UNCHANGED NotClock
     \/ part = "reserve" /\ Reserved!Next /\ UNCHANGED NotClock
     \/ part = "sieve" /\ Sieve!Next /\ UNCHANGED NotSieve
     \/ part = "erased" /\ Erased!Next /\ UNCHANGED NotSieve
     \/ part = "cleaned" /\ Cleaned!Next /\ UNCHANGED NotCleaned

Spec == Init /\ [][Next]_vars

\* A thread inside a scan keeps running.
FairSpec ==
  /\ Spec
  /\ WF_Reserved!vars(part = "reserve" /\ Reserved!Scan)
  /\ WF_Sieve!vars(part = "sieve" /\ Sieve!Scan)

-----------------------------------------------------------------------------
(* Properties. *)

\* The variables of the part that runs have their types; a queue is injective.
TypeOK ==
  CASE part = "queue" -> Queue!TypeOK
    [] part = "lfu" -> LFU!TypeOK
    [] part = "clock" -> Clock!TypeOK
    [] part = "reserve" -> Reserved!TypeOK
    [] part = "sieve" -> Sieve!TypeOK
    [] part = "erased" -> Erased!TypeOK
    [] part = "cleaned" -> Cleaned!TypeOK

\* A single eviction of LRU, FIFO, their v2 and TwoQ takes the acceptable frame that was
\* used (FIFO: inserted) longest ago, and fails only if none is acceptable; one of LFU
\* takes a least used frame although min_freq is kept lazily.
VictimFollowsPolicy ==
  [][/\ part = "queue" => Queue!TakesOldest
     /\ part = "lfu" => LFU!TakesLeastUsed]_vars

\* No replacer loses a frame or has it twice: not the lists of FIFO, FIFO_v2, LRU_v2 and
\* TwoQ, whatever mix of evictions of one and of several frames came before (LRU's
\* eviction of several cuts off the frames it passed over), not LFU between its
\* buckets, not the clocks between list, map and threads, and not the sieves.  The hand
\* of a sieve is always in the list; only Erase of SieveReplacer_v2 may leave it
\* outside, and even the scan from there loses no frame.
NothingLost ==
  /\ TypeOK
  /\ part = "queue" /\ kind # "LRU" => Queue!NothingLost
  /\ part = "lfu" => LFU!BucketsRight
  /\ part = "clock" => Clock!FramesPartitioned
  /\ part = "sieve" => Sieve!HandInList
  /\ part = "erased" => Erased!NoneLost

\* A scan of a sieve gives up only after it has found every frame in use, and throws
\* only on an empty list.  With a single fetching thread this is so even after
\* BufferPoolManager::Clean, which leaves the hand of SieveReplacer_v3 on a frame
\* outside the list: all frames are loaded again before the next scan.
ScansSound ==
  /\ part = "sieve" => Sieve!FaultOnlyIfEmpty /\ Sieve!GiveUpTriedAll
  /\ part = "cleaned" =>
       Cleaned!NoInvalidIndex /\ Cleaned!FramesPartitioned /\ Cleaned!ExhaustedMeansUsed

Scanning == \/ part = "reserve" /\ scanning
            \/ part = "sieve" /\ pc = "scan"
Marked == CASE part = "reserve" -> freq
            [] part = "sieve" /\ kind = "Sieve_v3" -> freq
            [] OTHER -> <<>>

\* A scan ends: ClockReplacer_v2's, which has no way to fail, while the frame in reserve
\* stays in the list and frames are not promoted for ever, those of the sieves with a
\* latch in any case, those of Sieve_v3 once frames are not promoted for ever.
ScanEnds ==
  (/\ <>[](part = "sieve" \/ (part = "reserve" /\ 1 \in member))
   /\ <>[][\A f \in DOMAIN Marked : Marked'[f] <= Marked[f]]_vars)
    => []<>~Scanning
=============================================================================
