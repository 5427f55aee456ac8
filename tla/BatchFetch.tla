----------------------------- MODULE BatchFetch -----------------------------
(***************************************************************************)
(* The block reads of BufferPoolManager that ask for several pages: the    *)
(* resumable fetches FetchPageSync1 and FetchPageSync2, and the loops of   *)
(* their callers.  A resumable fetch returns false between its phases and  *)
(* keeps the lock of its page, and its frame, until it is called again.    *)
(*                                                                         *)
(*   "Sync"    GetBlockSync: FetchPageSync, page after page                *)
(*   "Sync1"   GetBlockSync1: FetchPageSync1, one call each, then the rest *)
(*   "Async1", "New", "Batch1"   GetBlockAsync1, GetBlockBatch_new,        *)
(*             GetBlockBatch1: FetchPageSync2, one call each, then each    *)
(*             request in order until it is done                           *)
(*   "Round"   GetBlockBatchWithoutDirectCache: FetchPageSync2, round robin*)
(*                                                                         *)
(* The page table is used through whole operations (module BufferPool has  *)
(* their steps): a Pin that finds its page counted or does not, a lock     *)
(* that finds a frame and is given back, an eviction with its write.       *)
(***************************************************************************)
EXTENDS Integers, FiniteSets, Sequences

CONSTANTS
  Threads, Pages, Frames, None,
  Empty, Busy,   \* mapping values that are no frame
  Asks,          \* the calls made: <<caller, list of pages>>
  Calls,         \* bound: block reads of one thread
  MaxVersion     \* bound: writes to one page

Callers == {"Sync", "Sync1", "Async1", "New", "Batch1", "Round"}

\* What the constants have to be; the modules that instantiate this one assume it.
Parameters ==
  /\ IsFiniteSet(Threads) /\ MaxVersion \in Nat /\ Calls \in Nat
  /\ None \notin Frames /\ Empty \notin Frames /\ Busy \notin Frames /\ Empty # Busy
  /\ Asks \subseteq Callers \X (Seq(Pages) \ {<<>>})

VARIABLES
  mapping,   \* page -> frame, Empty or Busy
  pte,       \* frame -> [page, ref, dirty]
  free,      \* free_list_
  repl,      \* the frames of the replacer
  mem, disk, \* versions: frame -> content, page -> content
  pc,        \* thread -> where it is
  kind,      \* thread -> the function it is in
  rq,        \* thread -> its requests, BP_sync_request_type
  at,        \* thread -> the request it works on
  left       \* thread -> calls it may still make

vars == <<mapping, pte, free, repl, mem, disk, pc, kind, rq, at, left>>
table == <<mapping, pte, free, repl>>

Phases == {"Begin", "Initing", "Evicting", "Loading", "LoadingFinish", "End"}

\* io: the AsyncMesg of LoadingFinish.  ins: InsertPage was called.
Req == [page : Pages, phase : Phases, frame : Frames \cup {None},
        io : {"none", "sent", "done"}, ins : BOOLEAN]
Request(p) == [page |-> p, phase |-> "Begin", frame |-> None,
               io |-> "none", ins |-> FALSE]

Init ==
  /\ mapping = [p \in Pages |-> Empty]
  /\ pte = [f \in Frames |-> [page |-> None, ref |-> 0, dirty |-> FALSE]]
  /\ free = Frames /\ repl = {}
  /\ mem = [f \in Frames |-> 0] /\ disk = [p \in Pages |-> 0]
  /\ pc = [t \in Threads |-> "idle"]
  /\ kind = [t \in Threads |-> "Sync"]
  /\ rq = [t \in Threads |-> <<>>]
  /\ at = [t \in Threads |-> 1]
  /\ left = [t \in Threads |-> Calls]

\* pc: "pin" and "first" are the first loop, "again" the second one of the round
\* robin callers, "wait" the last.
Working(t) == pc[t] \in {"pin", "first", "again", "wait"}
Cur(t) == rq[t][at[t]]
SetCur(t, r) == rq' = [rq EXCEPT ![t][at[t]] = r]

\* The assert(false) of a fetch that finds no victim has ended the process.
Stopped == \E t \in Threads : pc[t] = "exhausted"

-----------------------------------------------------------------------------
(* Pools and page tables. *)

Pinned(f) == [pte EXCEPT ![f].ref = @ + 1]

\* What Victim may take: a frame nobody refers to, whose page is not locked.
Victims == {f \in repl : pte[f].ref = 0 /\ mapping[pte[f].page] = f}

\* Variant: the frame is not handed to the replacer.
PublishNotInserted(p, f) ==
  /\ pte' = [pte EXCEPT ![f] = [page |-> p, ref |-> 1, dirty |-> FALSE]]
  /\ mapping' = [mapping EXCEPT ![p] = f]
  /\ UNCHANGED <<free, repl>>

\* The end of a load: the PTE, with one reference, the replacer, the mapping.
Publish(p, f) ==
  /\ pte' = [pte EXCEPT ![f] = [page |-> p, ref |-> 1, dirty |-> FALSE]]
  /\ repl' = repl \cup {f}
  /\ mapping' = [mapping EXCEPT ![p] = f]
  /\ UNCHANGED free

-----------------------------------------------------------------------------
(* The callers: what follows when the fetch of the current request returns. *)

Goto(t, l, i) == /\ pc' = [pc EXCEPT ![t] = l]
                 /\ at' = [at EXCEPT ![t] = i]

\* Each gives the next place after a call of the loop under way, for the requests
\* q and the answer ok: "pin" begins a request of the first loop.
Least(s) == CHOOSE j \in s : \A k \in s : j <= k
Open(q) == {j \in 1 .. Len(q) : ~q[j].ins}
InFirstLoop(t, q) == pc[t] \in {"pin", "first"} /\ at[t] < Len(q)

\* FetchPageSync returns when it has the page.
AfterSync(t, q, ok) ==
  IF at[t] < Len(q) THEN <<"pin", at[t] + 1>> ELSE <<"held", 1>>

\* The second loop passes over the requests that were done in the first.
AfterSync1(t, q, ok) ==
  LET todo == {j \in 1 .. Len(q) : /\ q[j].phase # "End"
                                   /\ pc[t] = "wait" => j > at[t]}
  IN IF InFirstLoop(t, q) THEN <<"pin", at[t] + 1>>
     ELSE IF todo = {} THEN <<"held", 1>> ELSE <<"wait", Least(todo)>>

\* The second loop asks each request, done or not, until the answer is true.
AfterNew(t, q, ok) ==
  IF InFirstLoop(t, q) THEN <<"pin", at[t] + 1>>
  ELSE IF pc[t] \in {"pin", "first"} THEN <<"wait", 1>>
  ELSE IF ~ok THEN <<"wait", at[t]>>
  ELSE IF at[t] < Len(q) THEN <<"wait", at[t] + 1>> ELSE <<"held", 1>>

AfterAsync1(t, q, ok) == AfterNew(t, q, ok)

\* Pages pinned at once make no request.
AfterBatch1(t, q, ok) ==
  IF InFirstLoop(t, q) THEN <<"pin", at[t] + 1>>
  ELSE IF pc[t] = "wait" /\ ~ok THEN <<"wait", at[t]>>
  ELSE IF Open(q) = {} THEN <<"held", 1>> ELSE <<"wait", Least(Open(q))>>

\* A second loop asks each request once more; the last goes round the requests
\* that are left, and stays with one that waits for its disk read.
AfterRound(t, q, ok) ==
  LET later == {j \in Open(q) : j > at[t]} IN
  IF InFirstLoop(t, q) THEN <<"pin", at[t] + 1>>
  ELSE IF Open(q) = {} THEN <<"held", 1>>
  ELSE CASE pc[t] \in {"pin", "first"} -> <<"again", Least(Open(q))>>
         [] pc[t] = "wait" /\ ~ok /\ Cur(t).phase = "LoadingFinish" -> <<"wait", at[t]>>
         [] pc[t] = "again" /\ later # {} -> <<"again", Least(later)>>
         [] pc[t] = "again" /\ later = {} -> <<"wait", Least(Open(q))>>
         [] OTHER -> <<"wait", Least(IF later # {} THEN later ELSE Open(q))>>

After(t, q, ok) ==
  CASE kind[t] = "Sync"   -> AfterSync(t, q, ok)
    [] kind[t] = "Sync1"  -> AfterSync1(t, q, ok)
    [] kind[t] = "Async1" -> AfterAsync1(t, q, ok)
    [] kind[t] = "New"    -> AfterNew(t, q, ok)
    [] kind[t] = "Batch1" -> AfterBatch1(t, q, ok)
    [] kind[t] = "Round"  -> AfterRound(t, q, ok)

\* The call returns ok and leaves the request as r.  The page goes into the
\* block when it is done: in GetBlockSync1 after any answer; GetBlockAsync1 and
\* GetBlockBatch_new do it in their second loop; the round robin callers take no
\* notice of the answers before their last.
Return(t, r, ok) ==
  LET ins == CASE kind[t] \in {"Sync", "Sync1"} -> TRUE
               [] kind[t] \in {"Async1", "New"} -> ok /\ pc[t] = "wait"
               [] kind[t] \in {"Batch1", "Round"} -> ok /\ pc[t] \in {"pin", "wait"}
      q == [rq[t] EXCEPT ![at[t]] = [r EXCEPT !.ins = @ \/ ins]]
      next == After(t, q, ok)
  IN /\ rq' = [rq EXCEPT ![t] = q]
     /\ Goto(t, next[1], next[2])

\* The fetch goes on, or returns false if it is one that does so here.
Continue(t, r) ==
  IF kind[t] = "Sync" THEN SetCur(t, r) /\ UNCHANGED <<pc, at>>
                      ELSE Return(t, r, FALSE)

Ask(t, k, b) ==
  /\ pc[t] = "idle" /\ left[t] > 0
  /\ left' = [left EXCEPT ![t] = @ - 1]
  /\ kind' = [kind EXCEPT ![t] = k]
  /\ rq' = [rq EXCEPT ![t] = [i \in 1 .. Len(b) |-> Request(b[i])]]
  /\ Goto(t, "pin", 1)
  /\ UNCHANGED <<table, mem, disk>>

\* The first loop tries Pin before it fetches.
TryPin(t) ==
  /\ pc[t] = "pin"
  /\ LET m == mapping[Cur(t).page] IN
     IF m \in Frames
     THEN /\ pte' = Pinned(m)
          /\ Return(t, [Cur(t) EXCEPT !.phase = "End", !.frame = m], TRUE)
     ELSE Goto(t, "first", at[t]) /\ UNCHANGED <<pte, rq>>
  /\ UNCHANGED <<mapping, free, repl, mem, disk, kind, left>>

-----------------------------------------------------------------------------
(* FetchPageSync, FetchPageSync1, FetchPageSync2: the phases. *)

In(t, phase) == pc[t] \in {"first", "again", "wait"} /\ Cur(t).phase = phase

Own == {"Sync", "Sync1"}   \* callers of FetchPageSync and FetchPageSync1

\* The lock is taken if the page is in no frame; a page in a frame is pinned; on
\* a page locked by someone the call tries again, here: waits.
Begin1(t) ==
  /\ In(t, "Begin") /\ kind[t] \in Own
  /\ LET r == Cur(t)
         m == mapping[r.page] IN
     \/ /\ m = Empty
        /\ mapping' = [mapping EXCEPT ![r.page] = Busy]
        /\ SetCur(t, [r EXCEPT !.phase = "Initing"])
        /\ UNCHANGED <<pte, pc, at>>
     \/ /\ m \in Frames
        /\ pte' = Pinned(m)
        /\ Return(t, [r EXCEPT !.phase = "End", !.frame = m], TRUE)
        /\ UNCHANGED mapping
  /\ UNCHANGED <<free, repl, mem, disk, kind, left>>

\* Variant: a locked page is waited for, as by FetchPageSync1.
Begin2Waits(t) ==
  /\ In(t, "Begin") /\ kind[t] \notin Own
  /\ LET r == Cur(t)
         m == mapping[r.page] IN
     \/ /\ m = Empty
        /\ mapping' = [mapping EXCEPT ![r.page] = Busy]
        /\ SetCur(t, [r EXCEPT !.phase = "Initing"])
        /\ UNCHANGED <<pte, pc, at>>
     \/ /\ m \in Frames
        /\ pte' = Pinned(m)
        /\ Return(t, [r EXCEPT !.phase = "End", !.frame = m], TRUE)
        /\ UNCHANGED mapping
     \/ /\ m = Busy
        /\ UNCHANGED <<mapping, pte, rq, pc, at>>
  /\ UNCHANGED <<free, repl, mem, disk, kind, left>>

\* FetchPageSync2 returns false on a locked page, and also, with the page pinned
\* and the request at its end, if LockMapping failed on a frame in use.
Begin2(t) ==
  /\ In(t, "Begin") /\ kind[t] \notin Own
  /\ LET r == Cur(t)
         m == mapping[r.page] IN
     \/ /\ m = Empty
        /\ mapping' = [mapping EXCEPT ![r.page] = Busy]
        /\ SetCur(t, [r EXCEPT !.phase = "Initing"])
        /\ UNCHANGED <<pte, pc, at>>
     \/ /\ m \in Frames
        /\ pte' = Pinned(m)
        /\ Return(t, [r EXCEPT !.phase = "End", !.frame = m], pte[m].ref = 0)
        /\ UNCHANGED mapping
     \/ /\ m = Busy
        /\ Return(t, r, FALSE)
        /\ UNCHANGED <<mapping, pte>>
  /\ UNCHANGED <<free, repl, mem, disk, kind, left>>

\* A frame from the free list, or a victim, or the end of the process.
Initing(t) ==
  /\ In(t, "Initing")
  /\ LET r == Cur(t) IN
     \/ \E f \in free :
          /\ free' = free \ {f}
          /\ Continue(t, [r EXCEPT !.phase = "Loading", !.frame = f])
          /\ UNCHANGED <<mapping, repl>>
     \/ /\ free = {}
        /\ \E f \in Victims :
             /\ repl' = repl \ {f}
             /\ mapping' = [mapping EXCEPT ![pte[f].page] = Busy]
             /\ SetCur(t, [r EXCEPT !.phase = "Evicting", !.frame = f])
        /\ UNCHANGED <<free, pc, at>>
     \/ /\ free = {} /\ Victims = {}
        /\ Goto(t, "exhausted", at[t])
        /\ UNCHANGED <<mapping, free, repl, rq>>
  /\ UNCHANGED <<pte, mem, disk, kind, left>>

\* Variant: the victim's bytes are not written.
EvictingClean(t) ==
  /\ In(t, "Evicting")
  /\ LET f == Cur(t).frame IN
     mapping' = [mapping EXCEPT ![pte[f].page] = Empty]
  /\ Continue(t, [Cur(t) EXCEPT !.phase = "Loading"])
  /\ UNCHANGED <<pte, free, repl, mem, disk, kind, left>>

\* Variant: the page unmapped is the one to load.
EvictingOwn(t) ==
  /\ In(t, "Evicting")
  /\ LET f == Cur(t).frame
         p == pte[f].page
     IN /\ disk' = IF pte[f].dirty THEN [disk EXCEPT ![p] = mem[f]] ELSE disk
        /\ mapping' = [mapping EXCEPT ![Cur(t).page] = Empty]
  /\ Continue(t, [Cur(t) EXCEPT !.phase = "Loading"])
  /\ UNCHANGED <<pte, free, repl, mem, kind, left>>

\* The victim is written if dirty and its page unmapped.
Evicting(t) ==
  /\ In(t, "Evicting")
  /\ LET f == Cur(t).frame
         p == pte[f].page
     IN /\ disk' = IF pte[f].dirty THEN [disk EXCEPT ![p] = mem[f]] ELSE disk
        /\ mapping' = [mapping EXCEPT ![p] = Empty]
  /\ Continue(t, [Cur(t) EXCEPT !.phase = "Loading"])
  /\ UNCHANGED <<pte, free, repl, mem, kind, left>>

\* FetchPageSync1 reads and finishes (GetBlockSync1 has read the bytes once
\* before that, into the same frame).
Loading1(t) ==
  /\ In(t, "Loading") /\ kind[t] \in Own
  /\ LET r == Cur(t)
     IN /\ mem' = [mem EXCEPT ![r.frame] = disk[r.page]]
        /\ Publish(r.page, r.frame)
        /\ Return(t, [r EXCEPT !.phase = "End"], TRUE)
  /\ UNCHANGED <<disk, kind, left>>

\* FetchPageSync2 sends the read to the I/O server.
Loading2(t) ==
  /\ In(t, "Loading") /\ kind[t] \notin Own
  /\ Return(t, [Cur(t) EXCEPT !.phase = "LoadingFinish", !.io = "sent"], FALSE)
  /\ UNCHANGED <<table, mem, disk, kind, left>>

\* The I/O server reads the page and notifies.
ReadDone(t, i) ==
  /\ rq[t][i].io = "sent"
  /\ mem' = [mem EXCEPT ![rq[t][i].frame] = disk[rq[t][i].page]]
  /\ rq' = [rq EXCEPT ![t][i].io = "done"]
  /\ UNCHANGED <<table, disk, pc, kind, at, left>>

\* Variant: the read is not waited for.
FinishEarly(t) ==
  /\ In(t, "LoadingFinish")
  /\ LET r == Cur(t)
     IN /\ Publish(r.page, r.frame)
        /\ Return(t, [r EXCEPT !.phase = "End"], TRUE)
  /\ UNCHANGED <<mem, disk, kind, left>>

\* Wait blocks until the read is done.
LoadingFinish(t) ==
  /\ In(t, "LoadingFinish")
  /\ LET r == Cur(t)
     IN /\ r.io = "done"
        /\ Publish(r.page, r.frame)
        /\ Return(t, [r EXCEPT !.phase = "End", !.io = "none"], TRUE)
  /\ UNCHANGED <<mem, disk, kind, left>>

End(t) ==
  /\ In(t, "End")
  /\ Return(t, Cur(t), TRUE)
  /\ UNCHANGED <<table, mem, disk, kind, left>>

-----------------------------------------------------------------------------
(* The block that was returned: written through UpdateContent, destroyed. *)

Write(t, i) ==
  /\ pc[t] = "held"
  /\ LET f == rq[t][i].frame
     IN /\ mem[f] < MaxVersion
        /\ mem' = [mem EXCEPT ![f] = @ + 1]
        /\ pte' = [pte EXCEPT ![f].dirty = TRUE]
  /\ UNCHANGED <<mapping, free, repl, disk, pc, kind, rq, at, left>>

PinsOf(t, f) == Cardinality({i \in 1 .. Len(rq[t]) :
                               rq[t][i].phase = "End" /\ rq[t][i].frame = f})

\* Variant: one reference a frame, however many pages of the block are in it.
DestroyOnce(t) ==
  /\ pc[t] = "held"
  /\ pte' = [f \in Frames |->
               [pte[f] EXCEPT !.ref = IF PinsOf(t, f) > 0 THEN @ - 1 ELSE @]]
  /\ rq' = [rq EXCEPT ![t] = <<>>]
  /\ Goto(t, "idle", 1)
  /\ UNCHANGED <<mapping, free, repl, mem, disk, kind, left>>

Destroy(t) ==
  /\ pc[t] = "held"
  /\ pte' = [f \in Frames |-> [pte[f] EXCEPT !.ref = @ - PinsOf(t, f)]]
  /\ rq' = [rq EXCEPT ![t] = <<>>]
  /\ Goto(t, "idle", 1)
  /\ UNCHANGED <<mapping, free, repl, mem, disk, kind, left>>

-----------------------------------------------------------------------------
Step(t) == TryPin(t) \/ Begin1(t) \/ Begin2(t) \/ Initing(t) \/ Evicting(t)
           \/ Loading1(t) \/ Loading2(t) \/ LoadingFinish(t) \/ End(t)

Halt == /\ Stopped \/ \A t \in Threads : pc[t] = "idle" /\ left[t] = 0
        /\ UNCHANGED vars

Next ==
  \/ ~Stopped /\ \E t \in Threads :
       \/ \E a \in Asks : Ask(t, a[1], a[2])
       \/ Step(t)
       \/ \E i \in 1 .. Len(rq[t]) : ReadDone(t, i) \/ Write(t, i)
       \/ Destroy(t)
  \/ Halt

Spec == Init /\ [][Next]_vars

\* Threads run while they have work, and the I/O server serves what it was sent.
FairSpec ==
  /\ Spec
  /\ \A t \in Threads : WF_vars(~Stopped /\ Step(t))
  /\ \A t \in Threads :
       WF_vars(~Stopped /\ \E i \in 1 .. Len(rq[t]) : ReadDone(t, i))

-----------------------------------------------------------------------------
(* Properties. *)

\* The requests, as the pairs of a thread and a number.
Requests == UNION {{t} \X (1 .. Len(rq[t])) : t \in Threads}
Rq(x) == rq[x[1]][x[2]]

\* Values of the variables.
TypeOK ==
  /\ mapping \in [Pages -> Frames \cup {Empty, Busy}]
  /\ pte \in [Frames -> [page : Pages \cup {None}, ref : Nat, dirty : BOOLEAN]]
  /\ free \subseteq Frames /\ repl \subseteq Frames
  /\ mem \in [Frames -> 0 .. MaxVersion] /\ disk \in [Pages -> 0 .. MaxVersion]
  /\ pc \in [Threads -> {"idle", "pin", "first", "again", "wait", "held", "exhausted"}]
  /\ kind \in [Threads -> Callers] /\ rq \in [Threads -> Seq(Req)]
  /\ at \in [Threads -> Nat] /\ left \in [Threads -> 0 .. Calls]

\* Every page of a block that was returned is in the frame the block points to,
\* published and pinned, and a copy there is no older than the one on disk: no
\* caller, whatever it ignores of the answers it gets, hands out a frame that
\* is still being filled.
BlockComplete ==
  \A t \in Threads : pc[t] = "held" =>
    \A i \in 1 .. Len(rq[t]) :
      LET r == rq[t][i] IN
      /\ r.phase = "End" /\ r.ins
      /\ mapping[r.page] = r.frame /\ pte[r.frame].page = r.page
      /\ mem[r.frame] >= disk[r.page]
      /\ mem[r.frame] # disk[r.page] => pte[r.frame].dirty

\* A frame's count is the number of requests that ended with it: duplicates in
\* one batch count twice, and a request asked again is not pinned again.
Pins(f) == {x \in Requests : Rq(x).phase = "End" /\ Rq(x).frame = f}
PinsExact == \A f \in Frames : pte[f].ref = Cardinality(Pins(f))

\* A locked page has one request that has its lock (as the page it loads or the
\* page it evicts), and no two requests ever load the same page.
LockHasRequest ==
  \A p \in Pages :
    LET has == {x \in Requests :
                  \/ Rq(x).page = p /\ Rq(x).phase \in Phases \ {"Begin", "End"}
                  \/ Rq(x).phase = "Evicting" /\ pte[Rq(x).frame].page = p}
    IN Cardinality(has) = IF mapping[p] = Busy THEN 1 ELSE 0

\* The version of a page: that of its frame until it is evicted, then the disk's.
Version(p) ==
  LET in == {f \in Frames : /\ pte[f].page = p
                            /\ \/ mapping[p] = f
                               \/ \E x \in Requests : Rq(x).phase = "Evicting" /\ Rq(x).frame = f}
  IN IF in = {} THEN disk[p] ELSE mem[CHOOSE f \in in : TRUE]

\* What was written into a block stays written: no eviction that another request
\* begins, and no reload of the page, takes a page back to an earlier version.
KeepsWrites == \A p \in Pages : Version(p)' >= Version(p)
NoLostWrite == [][KeepsWrites]_vars

\* A frame is free, in the replacer, or with the one request that will load it.
FramesKept ==
  \A f \in Frames :
    Cardinality({x \in Requests :
                   Rq(x).frame = f /\ Rq(x).phase \in Phases \ {"Begin", "End"}})
      = IF f \in free \cup repl THEN 0 ELSE 1

-----------------------------------------------------------------------------
(* The inductive invariant. *)

Locks(x) == Rq(x).phase \in {"Initing", "Evicting", "Loading", "LoadingFinish"}
Carries(x) == Rq(x).phase \in {"Evicting", "Loading", "LoadingFinish"}
Evicts(x) == Rq(x).phase = "Evicting"
Ended(x) == Rq(x).phase = "End"
Old(x) == pte[Rq(x).frame].page

\* What a request has in each phase: the lock of its page, a frame that is in no
\* list, the lock of the page it evicts, an answer to come.
OnePhase(x) ==
  /\ Locks(x) => mapping[Rq(x).page] = Busy
  /\ Carries(x) => Rq(x).frame \in Frames \ (free \cup repl)
  /\ Evicts(x) => Old(x) \in Pages \ {Rq(x).page} /\ mapping[Old(x)] = Busy
  /\ Ended(x) => Rq(x).frame \in Frames /\ mapping[Rq(x).page] = Rq(x).frame
  /\ Carries(x) \/ Ended(x) \/ Rq(x).frame = None
  /\ Rq(x).io # "none" => Rq(x).phase = "LoadingFinish"

\* Two requests have nothing in common but pages that are in their frames.
TwoPhases(x, y) ==
  /\ Locks(x) /\ Locks(y) => Rq(x).page # Rq(y).page
  /\ Carries(x) /\ Carries(y) => Rq(x).frame # Rq(y).frame
  /\ Locks(x) /\ Evicts(y) => Rq(x).page # Old(y)
  /\ Evicts(x) /\ Evicts(y) => Old(x) # Old(y)

PhaseInv ==
  /\ \A x \in Requests : OnePhase(x)
  /\ \A x, y \in Requests : x # y => TwoPhases(x, y)

\* No lock and no frame is left behind.
HeldInv ==
  /\ \A p \in Pages : mapping[p] = Busy =>
       \E x \in Requests : (Locks(x) /\ Rq(x).page = p) \/ (Evicts(x) /\ Old(x) = p)
  /\ \A f \in Frames \ (free \cup repl) :
       \E x \in Requests : Carries(x) /\ Rq(x).frame = f

\* The mappings that name a frame and the frames in the replacer are the same.
TableInv ==
  /\ free \cap repl = {}
  /\ \A p \in Pages : mapping[p] \in Frames => mapping[p] \in repl /\ pte[mapping[p]].page = p
  /\ \A f \in repl : pte[f].page \in Pages /\ mapping[pte[f].page] = f

\* Frame f holds what was written last to page p.
Holds(f, p) == mem[f] >= disk[p] /\ (mem[f] = disk[p] \/ pte[f].dirty)

\* Where the last contents of a page are.
DataInv ==
  /\ \A p \in Pages : mapping[p] \in Frames => Holds(mapping[p], p)
  /\ \A x \in Requests : /\ Evicts(x) => Holds(Rq(x).frame, Old(x))
                         /\ Rq(x).io = "done" => mem[Rq(x).frame] = disk[Rq(x).page]

\* A call k at place l, working on request i of q: what its loops have done.
Done(r) == r.phase = "End" /\ r.ins
Loaded(r) == r.phase \in {"Loading", "End"} /\ r.ins

CallOf(k, l, i, q) ==
  /\ l = "idle" => q = <<>>
  /\ l \notin {"idle", "held"} => i \in 1 .. Len(q)
  /\ l = "again" => k = "Round"
  /\ l = "wait" => k # "Sync"
  /\ l = "held" => \A j \in 1 .. Len(q) : Done(q[j])
  /\ l \in {"pin", "first"} =>
       \A j \in i .. Len(q) : j > i \/ l = "pin" => q[j].phase = "Begin" /\ ~q[j].ins
  /\ k = "Sync" /\ l \in {"pin", "first"} => \A j \in 1 .. i - 1 : Done(q[j])
  /\ k \in {"Sync1", "Async1", "New"} /\ l = "wait" => \A j \in 1 .. i - 1 : Done(q[j])
  /\ k = "Sync1" /\ l \in {"pin", "first"} => \A j \in 1 .. i - 1 : Loaded(q[j])
  /\ k = "Sync1" /\ l = "wait" => \A j \in 1 .. Len(q) : Loaded(q[j])
  /\ k \in {"Batch1", "Round"} => \A j \in 1 .. Len(q) : q[j].ins => q[j].phase = "End"

CallInv == \A t \in Threads : CallOf(kind[t], pc[t], at[t], rq[t])

BatchInv ==
  /\ TypeOK /\ PhaseInv /\ HeldInv /\ TableInv /\ PinsExact /\ DataInv /\ CallInv

\* Every block read ends, with the block or with the pool exhausted: no two readers, nor
\* two requests of one, wait for each other's page locks.
ReadsEnd == \A t \in Threads : Working(t) ~> pc[t] = "held" \/ Stopped
=============================================================================
