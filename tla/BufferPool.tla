----------------------------- MODULE BufferPool -----------------------------
(***************************************************************************)
(* One buffer pool of gbp: the page table (page_table.h), the free list,   *)
(* the synchronous fetch path BufferPool::FetchPageSync with its eviction, *)
(* and BufferPool::FlushPage, run by concurrent clients.  Every atomic     *)
(* read-modify-write of the code on a mapping or on a PTE, every disk      *)
(* transfer and every critical section of the replacer's latch is one      *)
(* step, so the steps of different clients interleave as in the code.      *)
(*                                                                         *)
(* A client is one use of one page: a thread, or one page of the many a    *)
(* BufferBlock or a direct cache keeps pinned.  A thread that holds k      *)
(* pages is k clients of which k - 1 are between steps.                    *)
(*                                                                         *)
(* The replacement policy is left open: Victim visits the frames of the    *)
(* replacer's list in any order (module SieveReplacer has the order).      *)
(***************************************************************************)
EXTENDS Integers, FiniteSets

CONSTANTS
  Clients,      \* users of the pool
  Pages,        \* file pages (fd, fpage_id) of one open file
  Frames,       \* memory pages, mpage_id of the code
  Empty, Busy,  \* Mapping::EMPTY_VALUE and Mapping::BUSY_VALUE
  None,         \* INVALID_PAGE_ID, and "no value" of a client's locals
  FlushModes,   \* the values of delete_from_memory in use: "keep", "delete"
  MaxVersion,   \* bound: a page is written at most so many times
  RefMax        \* the largest value of the 16 bits of PTE::ref_count

ASSUME ConstantsDistinct ==
  /\ Empty # Busy
  /\ Empty \notin Frames /\ Busy \notin Frames /\ None \notin Frames
  /\ None \notin Pages /\ None # Empty /\ None \notin Clients
ASSUME FiniteClients == IsFiniteSet(Clients)
ASSUME FiniteFrames == IsFiniteSet(Frames)
ASSUME FlushModesType == FlushModes \subseteq {"keep", "delete"}
ASSUME MaxVersionType == MaxVersion \in Nat
ASSUME RefMaxType == RefMax \in Nat /\ Cardinality(Clients) <= RefMax

VARIABLES
  mapping,  \* PageMapping: page -> frame, Empty or Busy
  pte,      \* PageTableInner: frame -> PTE
  free,     \* free_list_, taken in any order
  list,     \* the frames linked in the replacer's list
  latch,    \* who holds the replacer's latch_
  tries,    \* Victim's count: failures left to the scan under way
  mem,      \* frame -> version of the content in memory
  disk,     \* page -> version of the content on disk
  pc,       \* client -> the step it takes next
  op,       \* client -> the caller of LockMapping: fetch, victim or flush
  want,     \* client -> the page it asked for
  frm,      \* client -> the frame it pins, loads or evicts
  snap,     \* client -> Victim's copy of the candidate's identity
  lfr       \* client -> the mpage_id that LockMapping returned

table  == <<mapping, pte>>
pool   == <<free, list, latch, tries>>
data   == <<mem, disk>>
locals == <<pc, op, want, frm, snap, lfr>>
vars   == <<mapping, pte, free, list, latch, tries, mem, disk,
            pc, op, want, frm, snap, lfr>>

-----------------------------------------------------------------------------
(* The page table: one PTE per frame, one mapping per page. *)

PTE == [ref : Int, page : Pages \cup {None}, init : BOOLEAN,
        dirty : BOOLEAN, busy : BOOLEAN]

EmptyPTE == [ref |-> 0, page |-> None, init |-> FALSE,
             dirty |-> FALSE, busy |-> FALSE]

\* The PTE that the Loading phase builds in tmp and stores over the old one.
LoadedPTE(p) == [ref |-> 1, page |-> p, init |-> TRUE,
                 dirty |-> FALSE, busy |-> FALSE]

\* Variant: Lock looks at busy only.
CanLockPteInUse(e) == ~e.busy

\* PTE::Lock gives up on a frame in use or already locked.
CanLockPte(e) == ~((e.ref # 0 /\ e.init) \/ e.busy)

\* Variant: UnLock keeps the count.
UnLockedCountKept(e) == [e EXCEPT !.busy = FALSE]

\* PTE::UnLock also drops the increments made while the frame was locked.
UnLocked(e) == [e EXCEPT !.busy = FALSE, !.ref = 0]

\* PageMapping::CreateMapping and DeleteMapping change only a Busy entry.
CreateMapping(p, m) == IF mapping[p] = Busy THEN [mapping EXCEPT ![p] = m]
                                            ELSE mapping

\* Variant: the entry is left Busy.
DeleteMappingLost(p) == mapping

DeleteMapping(p) == CreateMapping(p, Empty)

-----------------------------------------------------------------------------
(* The control state of a client. *)

PCs == {"idle", "find", "inc", "undo", "lock", "lockpte", "relink", "unlock",
        "unmap", "init", "latch", "scan", "check", "evict", "evdel", "load",
        "store", "insert", "publish", "held", "dirty", "unpin",
        "fwrite", "fdel", "fpush", "exhausted", "assert"}

\* assert() is compiled in: a failed one stops the process.
Stopped == \E t \in Clients : pc[t] \in {"exhausted", "assert"}

Goto(t, l) == pc' = [pc EXCEPT ![t] = l]
GotoIf(t, ok, l) == Goto(t, IF ok THEN l ELSE "assert")

\* The page whose mapping the client is locking or unlocking.
LockPage(t) == IF op[t] = "victim" THEN snap[t] ELSE want[t]

\* The call is over: the client forgets its locals.
Return(t) ==
  /\ Goto(t, "idle")
  /\ op' = [op EXCEPT ![t] = "fetch"]
  /\ want' = [want EXCEPT ![t] = None]
  /\ frm' = [frm EXCEPT ![t] = None]
  /\ snap' = [snap EXCEPT ![t] = None]
  /\ lfr' = [lfr EXCEPT ![t] = None]

\* LockMapping returned {false, 0}, or the lock it took was given back: a
\* fetch pins again, Victim counts a failure and goes on, a flush is over.
Retry(t) ==
  \/ /\ op[t] = "fetch"
     /\ Goto(t, "find")
     /\ lfr' = [lfr EXCEPT ![t] = None]
     /\ UNCHANGED <<op, want, frm, snap, tries>>
  \/ /\ op[t] = "victim"
     /\ Goto(t, "scan")
     /\ tries' = tries - 1
     /\ frm' = [frm EXCEPT ![t] = None]
     /\ snap' = [snap EXCEPT ![t] = None]
     /\ lfr' = [lfr EXCEPT ![t] = None]
     /\ UNCHANGED <<op, want>>
  \/ /\ op[t] = "flush"
     /\ Return(t)
     /\ UNCHANGED tries

-----------------------------------------------------------------------------
Init ==
  /\ mapping = [p \in Pages |-> Empty]
  /\ pte = [f \in Frames |-> EmptyPTE]
  /\ free = Frames
  /\ list = {}
  /\ latch = None
  /\ tries = 0
  /\ mem = [f \in Frames |-> 0]
  /\ disk = [p \in Pages |-> 0]
  /\ pc = [t \in Clients |-> "idle"]
  /\ op = [t \in Clients |-> "fetch"]
  /\ want = [t \in Clients |-> None]
  /\ frm = [t \in Clients |-> None]
  /\ snap = [t \in Clients |-> None]
  /\ lfr = [t \in Clients |-> None]

-----------------------------------------------------------------------------
(* Pin: find the mapping, then count the reference on the PTE it named. *)

FetchPageSync(t, p) ==
  /\ pc[t] = "idle"
  /\ Goto(t, "find")
  /\ want' = [want EXCEPT ![t] = p]
  /\ UNCHANGED <<table, pool, data, op, frm, snap, lfr>>

FindMapping(t) ==
  /\ pc[t] = "find"
  /\ IF mapping[want[t]] \in Frames
       THEN /\ frm' = [frm EXCEPT ![t] = mapping[want[t]]]
            /\ Goto(t, "inc")
       ELSE /\ Goto(t, "lock")
            /\ UNCHANGED frm
  /\ UNCHANGED <<table, pool, data, op, want, snap, lfr>>

\* IncRefCount1: the increment comes first, the tests on the old value after.
\* On a locked frame it stays: UnLock or the next load wipes it out.
IncRefCount1(t) ==
  /\ pc[t] = "inc"
  /\ LET f == frm[t]
     IN /\ pte' = [pte EXCEPT ![f].ref = @ + 1]
        /\ \/ /\ pte[f].busy
              /\ Goto(t, "lock")
              /\ frm' = [frm EXCEPT ![t] = None]
           \/ /\ ~pte[f].busy
              /\ pte[f].page # want[t]
              /\ Goto(t, "undo")
              /\ UNCHANGED frm
           \/ /\ ~pte[f].busy
              /\ pte[f].page = want[t]
              /\ Goto(t, "held")
              /\ UNCHANGED frm
  /\ UNCHANGED <<mapping, pool, data, op, want, snap, lfr>>

\* The frame holds another page by now: take the increment back.
UndoIncRefCount(t) ==
  /\ pc[t] = "undo"
  /\ pte' = [pte EXCEPT ![frm[t]].ref = @ - 1]
  /\ Goto(t, "lock")
  /\ frm' = [frm EXCEPT ![t] = None]
  /\ UNCHANGED <<mapping, pool, data, op, want, snap, lfr>>

-----------------------------------------------------------------------------
(* PageTable::LockMapping and UnLockMapping, for their three callers. *)

LockMapping(t) ==
  /\ pc[t] = "lock"
  /\ LET p == LockPage(t)
         m == mapping[p]
     IN \/ /\ m = Busy
           /\ Retry(t)
           /\ UNCHANGED mapping
        \/ /\ m = Empty
           /\ mapping' = [mapping EXCEPT ![p] = Busy]
           /\ lfr' = [lfr EXCEPT ![t] = Empty]
           /\ Goto(t, CASE op[t] = "fetch"  -> "init"
                        [] op[t] = "victim" -> "check"
                        [] op[t] = "flush"  -> "unmap")
           /\ UNCHANGED <<op, want, frm, snap, tries>>
        \/ /\ m \in Frames
           /\ mapping' = [mapping EXCEPT ![p] = Busy]
           /\ lfr' = [lfr EXCEPT ![t] = m]
           /\ Goto(t, "lockpte")
           /\ UNCHANGED <<op, want, frm, snap, tries>>
  /\ UNCHANGED <<pte, free, list, latch, data>>

LockPte(t) ==
  /\ pc[t] = "lockpte"
  /\ IF CanLockPte(pte[lfr[t]])
       THEN /\ pte' = [pte EXCEPT ![lfr[t]].busy = TRUE]
            /\ Goto(t, CASE op[t] = "fetch"  -> "unlock"
                         [] op[t] = "victim" -> "check"
                         [] op[t] = "flush"  -> "fwrite")
       ELSE /\ Goto(t, "relink")
            /\ UNCHANGED pte
  /\ UNCHANGED <<mapping, pool, data, op, want, frm, snap, lfr>>

\* The frame is in use: the mapping is put back and the caller told {false, 0}.
Relink(t) ==
  /\ pc[t] = "relink"
  /\ mapping' = CreateMapping(LockPage(t), lfr[t])
  /\ IF mapping[LockPage(t)] = Busy
       THEN Retry(t)
       ELSE Goto(t, "assert") /\ UNCHANGED <<op, want, frm, snap, lfr, tries>>
  /\ UNCHANGED <<pte, free, list, latch, data>>

\* UnLockMapping first unlocks the PTE, after a test that it is the page's ...
UnLockPte(t) ==
  /\ pc[t] = "unlock"
  /\ LET e  == pte[lfr[t]]
         ok == e.page = LockPage(t) /\ e.busy
     IN /\ pte' = IF ok THEN [pte EXCEPT ![lfr[t]] = UnLocked(e)] ELSE pte
        /\ GotoIf(t, ok, "unmap")
  /\ UNCHANGED <<mapping, pool, data, op, want, frm, snap, lfr>>

\* ... then makes the mapping point to the frame again.
UnLockMapping(t) ==
  /\ pc[t] = "unmap"
  /\ mapping' = CreateMapping(LockPage(t), lfr[t])
  /\ IF mapping[LockPage(t)] = Busy
       THEN Retry(t)
       ELSE Goto(t, "assert") /\ UNCHANGED <<op, want, frm, snap, lfr, tries>>
  /\ UNCHANGED <<pte, free, list, latch, data>>

-----------------------------------------------------------------------------
(* Initing: a frame from the free list, or a victim of the replacer. *)

Poll(t) ==
  /\ pc[t] = "init"
  /\ \E f \in free :
       /\ free' = free \ {f}
       /\ frm' = [frm EXCEPT ![t] = f]
  /\ lfr' = [lfr EXCEPT ![t] = None]
  /\ Goto(t, "load")
  /\ UNCHANGED <<table, list, latch, tries, data, op, want, snap>>

PollFails(t) ==
  /\ pc[t] = "init"
  /\ free = {}
  /\ lfr' = [lfr EXCEPT ![t] = None]
  /\ op' = [op EXCEPT ![t] = "victim"]
  /\ Goto(t, "latch")
  /\ UNCHANGED <<table, pool, data, want, frm, snap>>

\* Victim asserts that the list is not empty.
VictimBegin(t) ==
  /\ pc[t] = "latch"
  /\ latch = None
  /\ latch' = t
  /\ tries' = 2 * Cardinality(Frames)
  /\ Goto(t, IF list = {} THEN "exhausted" ELSE "scan")
  /\ UNCHANGED <<table, free, list, data, op, want, frm, snap, lfr>>

\* One frame of the list: skipped if referenced, else its page is locked.
VictimScan(t) ==
  /\ pc[t] = "scan"
  /\ tries > 0
  /\ \E f \in list :
       \/ /\ pte[f].ref # 0
          /\ tries' = tries - 1
          /\ UNCHANGED <<pc, frm, snap>>
       \/ /\ pte[f].ref = 0
          /\ frm' = [frm EXCEPT ![t] = f]
          /\ snap' = [snap EXCEPT ![t] = pte[f].page]
          /\ Goto(t, "lock")
          /\ UNCHANGED tries
  /\ UNCHANGED <<table, free, list, latch, data, op, want, lfr>>

\* assert(false) after twice the capacity of failures.
VictimExhausted(t) ==
  /\ pc[t] = "scan"
  /\ tries = 0
  /\ Goto(t, "exhausted")
  /\ UNCHANGED <<table, pool, data, op, want, frm, snap, lfr>>

\* Variant: the candidate is unlinked even if it is not taken.
VictimCheckUnlinks(t) ==
  /\ pc[t] = "check"
  /\ lfr[t] # Empty
  /\ list' = list \ {frm[t]}
  /\ snap' = [snap EXCEPT ![t] = pte[frm[t]].page]
  /\ Goto(t, "unlock")
  /\ UNCHANGED <<table, free, latch, tries, data, op, want, frm, lfr>>

\* The candidate's page is locked.  It is taken if nobody has counted a
\* reference meanwhile; if not, UnLockMapping gets the candidate's identity
\* of now, not the copy that was locked.
VictimCheck(t) ==
  /\ pc[t] = "check"
  /\ \/ /\ lfr[t] # Empty
        /\ pte[frm[t]].ref = 0
        /\ list' = list \ {frm[t]}
        /\ latch' = None
        /\ tries' = 0
        /\ op' = [op EXCEPT ![t] = "fetch"]
        /\ snap' = [snap EXCEPT ![t] = None]
        /\ lfr' = [lfr EXCEPT ![t] = None]
        /\ Goto(t, "evict")
     \/ /\ lfr[t] = Empty \/ pte[frm[t]].ref # 0
        /\ snap' = [snap EXCEPT ![t] = pte[frm[t]].page]
        /\ Goto(t, IF lfr[t] = Empty THEN "unmap" ELSE "unlock")
        /\ UNCHANGED <<list, latch, tries, op, lfr>>
  /\ UNCHANGED <<table, free, data, want, frm>>

-----------------------------------------------------------------------------
(* Evicting and Loading. *)

\* Variant: the victim's bytes are dropped even if dirty.
EvictWriteSkipped(t) ==
  /\ pc[t] = "evict"
  /\ Goto(t, "evdel")
  /\ UNCHANGED <<table, pool, data, op, want, frm, snap, lfr>>

EvictWrite(t) ==
  /\ pc[t] = "evict"
  /\ disk' = IF pte[frm[t]].dirty
               THEN [disk EXCEPT ![pte[frm[t]].page] = mem[frm[t]]]
               ELSE disk
  /\ Goto(t, "evdel")
  /\ UNCHANGED <<table, pool, mem, op, want, frm, snap, lfr>>

\* Variant: the mapping deleted is that of the page being fetched.
EvictUnmapWanted(t) ==
  /\ pc[t] = "evdel"
  /\ mapping' = DeleteMapping(want[t])
  /\ GotoIf(t, mapping[want[t]] = Busy, "load")
  /\ UNCHANGED <<pte, pool, data, op, want, frm, snap, lfr>>

EvictUnmap(t) ==
  /\ pc[t] = "evdel"
  /\ LET p == pte[frm[t]].page
     IN /\ mapping' = DeleteMapping(p)
        /\ GotoIf(t, mapping[p] = Busy, "load")
  /\ UNCHANGED <<pte, pool, data, op, want, frm, snap, lfr>>

LoadRead(t) ==
  /\ pc[t] = "load"
  /\ mem' = [mem EXCEPT ![frm[t]] = disk[want[t]]]
  /\ Goto(t, "store")
  /\ UNCHANGED <<table, pool, disk, op, want, frm, snap, lfr>>

LoadStore(t) ==
  /\ pc[t] = "store"
  /\ pte' = [pte EXCEPT ![frm[t]] = LoadedPTE(want[t])]
  /\ Goto(t, "insert")
  /\ UNCHANGED <<mapping, pool, data, op, want, frm, snap, lfr>>

\* Insert waits for the latch that a Victim in progress holds.
LoadInsert(t) ==
  /\ pc[t] = "insert"
  /\ latch = None
  /\ list' = list \cup {frm[t]}
  /\ Goto(t, "publish")
  /\ UNCHANGED <<table, free, latch, tries, data, op, want, frm, snap, lfr>>

LoadPublish(t) ==
  /\ pc[t] = "publish"
  /\ mapping' = CreateMapping(want[t], frm[t])
  /\ GotoIf(t, mapping[want[t]] = Busy, "held")
  /\ UNCHANGED <<pte, pool, data, op, want, frm, snap, lfr>>

-----------------------------------------------------------------------------
(* Use of a pinned page.  SetBlock copies the data into the frame and calls *)
(* DecRefCount(true), which marks the PTE dirty and then drops the pin.     *)

WritePage(t) ==
  /\ pc[t] = "held"
  /\ mem[frm[t]] < MaxVersion
  /\ mem' = [mem EXCEPT ![frm[t]] = @ + 1]
  /\ Goto(t, "dirty")
  /\ UNCHANGED <<table, pool, disk, op, want, frm, snap, lfr>>

\* Variant: DecRefCount() where DecRefCount(true) is meant.
MarkDirtySkipped(t) ==
  /\ pc[t] = "dirty"
  /\ Goto(t, "unpin")
  /\ UNCHANGED <<table, pool, data, op, want, frm, snap, lfr>>

MarkDirty(t) ==
  /\ pc[t] = "dirty"
  /\ pte' = [pte EXCEPT ![frm[t]].dirty = TRUE]
  /\ Goto(t, "unpin")
  /\ UNCHANGED <<mapping, pool, data, op, want, frm, snap, lfr>>

DecRefCount(t) ==
  /\ pc[t] \in {"held", "unpin"}
  /\ pte' = [pte EXCEPT ![frm[t]].ref = @ - 1]
  /\ Return(t)
  /\ UNCHANGED <<mapping, pool, data>>

-----------------------------------------------------------------------------
(* FlushPage. *)

FlushPage(t, p) ==
  /\ FlushModes # {}
  /\ pc[t] = "idle"
  /\ Goto(t, "lock")
  /\ op' = [op EXCEPT ![t] = "flush"]
  /\ want' = [want EXCEPT ![t] = p]
  /\ UNCHANGED <<table, pool, data, frm, snap, lfr>>

\* Variant: the dirty mark is cleared and nothing is written.
FlushWriteSkipped(t) ==
  /\ pc[t] = "fwrite"
  /\ pte' = [pte EXCEPT ![lfr[t]].dirty = FALSE]
  /\ \/ "keep" \in FlushModes /\ Return(t)
     \/ /\ "delete" \in FlushModes
        /\ Goto(t, "fdel")
        /\ UNCHANGED <<op, want, frm, snap, lfr>>
  /\ UNCHANGED <<mapping, pool, data>>

\* With delete_from_memory the page goes on to be unmapped; without it the
\* function returns, and leaves the mapping Busy and the PTE busy.
FlushWrite(t) ==
  /\ pc[t] = "fwrite"
  /\ LET f == lfr[t]
     IN /\ disk' = IF pte[f].dirty THEN [disk EXCEPT ![want[t]] = mem[f]]
                                   ELSE disk
        /\ pte' = [pte EXCEPT ![f].dirty = FALSE]
  /\ \/ /\ "keep" \in FlushModes
        /\ Return(t)
     \/ /\ "delete" \in FlushModes
        /\ Goto(t, "fdel")
        /\ UNCHANGED <<op, want, frm, snap, lfr>>
  /\ UNCHANGED <<mapping, pool, mem>>

\* Variant: the page is unlocked and not unmapped.
FlushDeleteRelinks(t) ==
  /\ pc[t] = "fdel"
  /\ mapping' = CreateMapping(want[t], lfr[t])
  /\ GotoIf(t, mapping[want[t]] = Busy, "fpush")
  /\ UNCHANGED <<pte, pool, data, op, want, frm, snap, lfr>>

FlushDelete(t) ==
  /\ pc[t] = "fdel"
  /\ mapping' = DeleteMapping(want[t])
  /\ GotoIf(t, mapping[want[t]] = Busy, "fpush")
  /\ UNCHANGED <<pte, pool, data, op, want, frm, snap, lfr>>

\* The frame goes to the free list; it also stays in the replacer's list.
FlushPush(t) ==
  /\ pc[t] = "fpush"
  /\ free' = free \cup {lfr[t]}
  /\ Return(t)
  /\ UNCHANGED <<table, list, latch, tries, data>>

-----------------------------------------------------------------------------
\* The steps a client takes by itself once it has called the pool ...
Step(t) ==
  \/ FindMapping(t) \/ IncRefCount1(t) \/ UndoIncRefCount(t)
  \/ LockMapping(t) \/ LockPte(t) \/ Relink(t) \/ UnLockPte(t)
  \/ UnLockMapping(t)
  \/ Poll(t) \/ PollFails(t) \/ VictimBegin(t) \/ VictimScan(t)
  \/ VictimExhausted(t) \/ VictimCheck(t)
  \/ EvictWrite(t) \/ EvictUnmap(t)
  \/ LoadRead(t) \/ LoadStore(t) \/ LoadInsert(t) \/ LoadPublish(t)
  \/ MarkDirty(t) \/ FlushWrite(t) \/ FlushDelete(t) \/ FlushPush(t)

\* ... and the ones it chooses to take.
Choice(t) ==
  \/ \E p \in Pages : FetchPageSync(t, p)
  \/ \E p \in Pages : FlushPage(t, p)
  \/ WritePage(t)
  \/ DecRefCount(t)

\* A failed assertion has ended the process.
Halt == Stopped /\ UNCHANGED vars

Next == \/ ~Stopped /\ \E t \in Clients : Step(t) \/ Choice(t)
        \/ Halt

Spec == Init /\ [][Next]_vars

\* Threads keep running; the mutex behind the latch does not starve a waiter.
Fairness ==
  \A t \in Clients :
    /\ WF_vars(~Stopped /\ Step(t))
    /\ WF_vars(~Stopped /\ pc[t] = "unpin" /\ DecRefCount(t))
    /\ SF_vars(~Stopped /\ VictimBegin(t))
    /\ SF_vars(~Stopped /\ LoadInsert(t))

FairSpec == Spec /\ Fairness

-----------------------------------------------------------------------------
(* Properties. *)

TypeOK ==
  /\ mapping \in [Pages -> Frames \cup {Empty, Busy}]
  /\ pte \in [Frames -> PTE]
  /\ free \subseteq Frames
  /\ list \subseteq Frames
  /\ latch \in Clients \cup {None}
  /\ tries \in 0 .. 2 * Cardinality(Frames)
  /\ mem \in [Frames -> 0 .. MaxVersion]
  /\ disk \in [Pages -> 0 .. MaxVersion]
  /\ pc \in [Clients -> PCs]
  /\ op \in [Clients -> {"fetch", "victim", "flush"}]
  /\ want \in [Clients -> Pages \cup {None}]
  /\ frm \in [Clients -> Frames \cup {None}]
  /\ snap \in [Clients -> Pages \cup {None}]
  /\ lfr \in [Clients -> Frames \cup {Empty, None}]

\* The caller of FetchPageSync has the page and has not let go of it.
Holds(t) == pc[t] \in {"held", "dirty", "unpin"}

\* A page that FetchPageSync returned stays where it is until the caller
\* calls DecRefCount: whatever the others fetch, evict or flush meanwhile,
\* the frame's PTE still names the page, is unlocked and counts a reference.
PinSafety ==
  \A t \in Clients : Holds(t) =>
    /\ pte[frm[t]].page = want[t]
    /\ pte[frm[t]].init
    /\ ~pte[frm[t]].busy
    /\ pte[frm[t]].ref > 0

\* The clients whose increment of the frame's ref_count is still to be undone
\* by themselves: the pins, and IncRefCount1 between its add and its sub.
Counted(f) ==
  {t \in Clients : /\ frm[t] = f
                   /\ \/ Holds(t)
                      \/ pc[t] \in {"undo", "insert", "publish"}}

\* ref_count of an unlocked frame is exactly the references out on it: no
\* increment is lost when UnLock or a load wipes the count, none is left over
\* to keep the frame in memory for ever.  A locked frame has no references.
RefCountExact ==
  \A f \in Frames :
    IF pte[f].busy THEN Counted(f) = {}
                   ELSE pte[f].ref = Cardinality(Counted(f))

\* The 16-bit ref_count neither borrows below zero nor carries into the bits
\* of fd_cur, the increments that IncRefCount1 leaves on locked frames included.
RefCountFits == \A f \in Frames : pte[f].ref \in 0 .. RefMax

\* A frame whose bytes are those of the page its PTE names: it has been
\* loaded and is neither free nor being filled for another page.
Resident(f) ==
  /\ pte[f].init
  /\ f \notin free
  /\ \A t \in Clients : /\ ~(frm[t] = f /\ pc[t] \in {"load", "store"})
                        /\ ~(lfr[t] = f /\ pc[t] = "fpush")

Copies(p) == {f \in Frames : Resident(f) /\ pte[f].page = p}

\* A page is never in two frames at once, and the mapping never points to a
\* frame that has another page: a writer and a reader of a page always meet
\* in the same memory.
NoAliasing ==
  \A p \in Pages :
    /\ \A f, g \in Copies(p) : f = g
    /\ mapping[p] \in Frames => mapping[p] \in Copies(p)
    /\ mapping[p] = Empty => Copies(p) = {}

\* A frame is in the free list, in the replacer's list or in the hands of the
\* one client that evicted or polled it and has not linked it yet: no path
\* through FetchPageSync drops a frame and shrinks the pool, and a page that
\* is in use can always be promoted and evicted later.
NoFrameLost ==
  \A f \in Frames :
    \/ f \in free
    \/ f \in list
    \/ \E t \in Clients :
         frm[t] = f /\ pc[t] \in {"evict", "evdel", "load", "store", "insert"}

\* The pages a client has locked.  Victim's caller has two: its own page and,
\* from LockMapping until it gives it back or unmaps it, the candidate's.
Locks(t) ==
  LET locking == pc[t] \in {"lockpte", "relink", "check", "unlock", "unmap",
                            "fwrite", "fdel"}
      loading == pc[t] \in {"init", "latch", "scan", "evict", "evdel", "load",
                            "store", "insert", "publish"}
  IN {p \in Pages :
        \/ p = want[t] /\ (loading \/ op[t] = "victim" \/ locking)
        \/ p = snap[t] /\ op[t] = "victim" /\ locking
        \/ /\ pc[t] \in {"evict", "evdel"}
           /\ p = pte[frm[t]].page}

\* A Busy mapping has one client at work that will release it: a page is
\* never locked by two, and never left locked behind a finished call.
LockHasOwner ==
  \A p \in Pages :
    /\ mapping[p] = Busy <=> \E t \in Clients : p \in Locks(t)
    /\ \A t, u \in Clients : p \in Locks(t) /\ p \in Locks(u) => t = u

\* No assert() on CreateMapping, DeleteMapping or UnLockMapping ever fails.
NoAssertFails == \A t \in Clients : pc[t] # "assert"

\* Where the current bytes of a page are: in its frame if it has one, on
\* disk if it has none.
Current == [p \in Pages |-> IF Copies(p) = {}
                              THEN disk[p]
                              ELSE mem[CHOOSE f \in Copies(p) : TRUE]]

Holder == [t \in Clients |-> IF Holds(t) THEN want[t] ELSE None]

Store == INSTANCE PageStore WITH val <- Current, holder <- Holder

\* Seen through Current and Holder the pool is a plain store of pages: loads,
\* evictions and flushes change no page's content, and only a client that
\* holds a page changes it.
ImplementsPageStore == Store!Spec

\* What a client reads in the frame it was given is the page's current
\* content, and a dirty mark is there when content is ahead of the disk and
\* no writer is about to set it.
ReadsCurrent ==
  /\ \A t \in Clients : Holds(t) => mem[frm[t]] = Current[want[t]]
  /\ \A p \in Pages, f \in Frames :
       f \in Copies(p) /\ mem[f] # disk[p] =>
         \/ pte[f].dirty
         \/ \E t \in Clients : pc[t] = "dirty" /\ frm[t] = f

\* A frame's PTE is given to another page only when no reference to it is out.
NoReuseWhileReferenced ==
  [][\A f \in Frames : pte'[f].page # pte[f].page => Counted(f) = {}]_vars

\* Every locked page is unlocked in the end (or the process stops on an
\* assertion): no fetch or flush of it by somebody else waits for ever.
LocksReleased ==
  \A p \in Pages : mapping[p] = Busy ~> mapping[p] # Busy \/ Stopped

\* A fetch ends, with the page or with the process stopped, once the other
\* clients stop calling the pool: it waits for no client that only keeps a
\* page.  (Two fetches that both run can retry in step for ever: each finds
\* the mapping locked by the other's LockMapping just when it looks.)
FetchEndsUndisturbed ==
  \A t \in Clients :
    <>[](\A u \in Clients \ {t} : pc[u] \in {"idle", "held"})
      => (pc[t] = "find" ~> Holds(t) \/ Stopped)
=============================================================================
