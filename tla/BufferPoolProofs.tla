-------------------------- MODULE BufferPoolProofs --------------------------
(***************************************************************************)
(* IInv is an inductive invariant of BufferPool when no page is flushed    *)
(* out of memory, and what follows from it.  One lemma per action shows    *)
(* that the action preserves IInv, one step per part of IInv; the theorems *)
(* about it follow.  The second half adds the content of the pages.        *)
(***************************************************************************)
EXTENDS BufferPoolInv, FiniteSetTheorems, TLAPS

\* Pages are only flushed to disk, not out of memory.
NoDelete == "delete" \notin FlushModes

USE DEF LockSteps, Goto, GotoIf, table, pool, data

-----------------------------------------------------------------------------
(* Facts about a PTE and about the reference counts. *)

\* The read-modify-writes of the code give PTEs.
LEMMA PteUpdate ==
  ASSUME NEW e \in PTE
  PROVE  /\ \A r \in Int : [e EXCEPT !.ref = r] \in PTE
         /\ [e EXCEPT !.busy = TRUE] \in PTE
         /\ [e EXCEPT !.dirty = TRUE] \in PTE
         /\ [e EXCEPT !.dirty = FALSE] \in PTE
         /\ UnLocked(e) \in PTE
<1>1. \A r \in Int : [e EXCEPT !.ref = r] \in PTE
  BY DEF PTE
<1>2. [e EXCEPT !.busy = TRUE] \in PTE
  BY DEF PTE
<1>3. [e EXCEPT !.dirty = TRUE] \in PTE
  BY DEF PTE
<1>4. [e EXCEPT !.dirty = FALSE] \in PTE
  BY DEF PTE
<1>5. UnLocked(e) \in PTE
  <2>1. [e EXCEPT !.busy = FALSE] \in PTE
    BY DEF PTE
  <2>2. UnLocked(e) = [[e EXCEPT !.busy = FALSE] EXCEPT !.ref = 0]
    BY DEF UnLocked, PTE
  <2>3. \A d \in PTE : [d EXCEPT !.ref = 0] \in PTE
    BY DEF PTE
  <2> QED BY <2>1, <2>2, <2>3
<1> QED BY <1>1, <1>2, <1>3, <1>4, <1>5

\* There are finitely many frames.
LEMMA FrameCount == Cardinality(Frames) \in Nat
  BY FiniteFrames, FS_CardinalityType

\* The clients counted on a frame are finitely many.
LEMMA CountedFinite ==
  \A f \in Frames : IsFiniteSet(Counted(f)) /\ Cardinality(Counted(f)) \in Nat
<1> TAKE f \in Frames
<1>1. Counted(f) \subseteq Clients
  BY DEF Counted
<1>2. IsFiniteSet(Counted(f))
  BY <1>1, FiniteClients, FS_Subset
<1> QED BY <1>2, FS_CardinalityType

\* An unlocked frame with ref_count zero is referenced by nobody.
LEMMA ZeroMeansUnreferenced ==
  ASSUME RefCountExact, NEW f \in Frames, ~pte[f].busy, pte[f].ref = 0
  PROVE  Counted(f) = {}
<1>1. Cardinality(Counted(f)) = 0
  BY DEF RefCountExact
<1> QED BY <1>1, CountedFinite, FS_EmptySet

\* A referenced frame is unlocked and has a positive count.
LEMMA CountedMeansPositive ==
  ASSUME RefCountExact, NEW f \in Frames, NEW t \in Counted(f)
  PROVE  ~pte[f].busy /\ pte[f].ref > 0
<1>1. ~pte[f].busy /\ pte[f].ref = Cardinality(Counted(f))
  BY DEF RefCountExact
<1>2. Cardinality(Counted(f)) # 0
  BY CountedFinite, FS_EmptySet
<1> QED BY <1>1, <1>2, CountedFinite

\* What a client has locked is a page.
LEMMA LockedPages ==
  ASSUME IInv, NEW t \in Clients
  PROVE  /\ LocksWanted(t) => want[t] \in Pages
         /\ LocksVictim(t) => VictimPage(t) \in Pages
<1>1. LocksWanted(t) => want[t] \in Pages
  BY DEF IInv, TypeOK, LocalsInv, LocksWanted
<1>2. LocksVictim(t) => frm[t] \in Frames /\ pte[frm[t]].init
  BY DEF IInv, TypeOK, LocalsInv, VictimInv, Scanning, FrameInv, PhaseInv,
     LocksVictim
<1> QED BY <1>1, <1>2 DEF IInv, FrameInv, VictimPage

-----------------------------------------------------------------------------
(* The initial state. *)

\* The pool that init() leaves satisfies IInv.
LEMMA InitIInv == Init => IInv
<1> SUFFICES ASSUME Init PROVE IInv
  OBVIOUS
<1> USE DEF Init
<1>1. TypeOK
  BY MaxVersionType, FrameCount DEF TypeOK, PCs, PTE, EmptyPTE
<1>2. LocalsInv
  BY DEF LocalsInv
<1>3. VictimInv
  BY DEF VictimInv, Scanning, LocksVictim
<1>4. FrameInv
  BY DEF FrameInv, Filling, EmptyPTE
<1>5. MappingInv
  BY ConstantsDistinct DEF MappingInv, Loaded, EmptyPTE
<1>6. LockInv
  BY DEF LockInv, LocksWanted, LocksVictim, FoundEmpty
<1>7. PhaseInv
  BY DEF PhaseInv, Holds
<1>8. RefCountExact
  <2>1. \A f \in Frames : Counted(f) = {}
    BY DEF Counted, Holds
  <2> QED BY <2>1, FS_EmptySet DEF RefCountExact, EmptyPTE
<1> QED BY <1>1, <1>2, <1>3, <1>4, <1>5, <1>6, <1>7, <1>8 DEF IInv

-----------------------------------------------------------------------------
(* The actions. *)

\* A call of FetchPageSync preserves IInv.
LEMMA FetchPageSyncInv ==
  ASSUME IInv, NEW t \in Clients, NEW p \in Pages, FetchPageSync(t, p)
  PROVE  IInv'
<1> USE DEF FetchPageSync
<1>1. TypeOK'
  BY MaxVersionType, FrameCount DEF IInv, TypeOK, LocalsInv, PCs, PTE
<1>2. LocalsInv'
  BY DEF IInv, TypeOK, LocalsInv
<1>3. VictimInv'
  BY DEF IInv, TypeOK, LocalsInv, VictimInv, Scanning, LocksVictim,
     VictimPage
<1>4. FrameInv'
  BY DEF IInv, TypeOK, LocalsInv, FrameInv, Filling
<1>5. MappingInv'
  BY DEF IInv, TypeOK, LocalsInv, MappingInv, Loaded, Filling
<1>6. LockInv'
  BY DEF IInv, TypeOK, LocalsInv, LockInv, Loaded, Filling, LocksWanted,
     LocksVictim, VictimPage, FoundEmpty
<1>7. PhaseInv'
  BY DEF IInv, TypeOK, LocalsInv, PhaseInv, Filling, LockPage, Holds
<1>8. RefCountExact'
  <2>1. \A f \in Frames : Counted(f)' = Counted(f)
    BY DEF IInv, TypeOK, LocalsInv, Counted, Holds
  <2> QED
    BY <2>1 DEF IInv, TypeOK, RefCountExact
<1> QED BY <1>1, <1>2, <1>3, <1>4, <1>5, <1>6, <1>7, <1>8 DEF IInv

\* A call of FlushPage preserves IInv.
LEMMA FlushPageInv ==
  ASSUME IInv, NEW t \in Clients, NEW p \in Pages, FlushPage(t, p)
  PROVE  IInv'
<1> USE DEF FlushPage
<1>1. TypeOK'
  BY MaxVersionType, FrameCount DEF IInv, TypeOK, LocalsInv, PCs, PTE
<1>2. LocalsInv'
  BY DEF IInv, TypeOK, LocalsInv
<1>3. VictimInv'
  BY DEF IInv, TypeOK, LocalsInv, VictimInv, Scanning, LocksVictim,
     VictimPage
<1>4. FrameInv'
  BY DEF IInv, TypeOK, LocalsInv, FrameInv, Filling
<1>5. MappingInv'
  BY DEF IInv, TypeOK, LocalsInv, MappingInv, Loaded, Filling
<1>6. LockInv'
  BY DEF IInv, TypeOK, LocalsInv, LockInv, Loaded, Filling, LocksWanted,
     LocksVictim, VictimPage, FoundEmpty
<1>7. PhaseInv'
  BY DEF IInv, TypeOK, LocalsInv, PhaseInv, Filling, LockPage, Holds
<1>8. RefCountExact'
  <2>1. \A f \in Frames : Counted(f)' = Counted(f)
    BY DEF IInv, TypeOK, LocalsInv, Counted, Holds
  <2> QED
    BY <2>1 DEF IInv, TypeOK, RefCountExact
<1> QED BY <1>1, <1>2, <1>3, <1>4, <1>5, <1>6, <1>7, <1>8 DEF IInv

\* FindMapping preserves IInv: a frame it names has been loaded.
LEMMA FindMappingInv ==
  ASSUME IInv, NEW t \in Clients, FindMapping(t)
  PROVE  IInv'
<1> USE DEF FindMapping
<1>1. TypeOK'
  BY MaxVersionType, FrameCount DEF IInv, TypeOK, LocalsInv, PCs, PTE
<1>2. LocalsInv'
  BY DEF IInv, TypeOK, LocalsInv
<1>3. VictimInv'
  BY DEF IInv, TypeOK, LocalsInv, VictimInv, Scanning, LocksVictim,
     VictimPage
<1>4. FrameInv'
  BY DEF IInv, TypeOK, LocalsInv, FrameInv, Filling
<1>5. MappingInv'
  BY DEF IInv, TypeOK, LocalsInv, MappingInv, Loaded, Filling
<1>6. LockInv'
  BY DEF IInv, TypeOK, LocalsInv, LockInv, Loaded, Filling, LocksWanted,
     LocksVictim, VictimPage, FoundEmpty
<1>7. PhaseInv'
  BY DEF IInv, TypeOK, LocalsInv, PhaseInv, Filling, LockPage, Holds,
     FrameInv, MappingInv
<1>8. RefCountExact'
  <2>1. \A f \in Frames : Counted(f)' = Counted(f)
    BY DEF IInv, TypeOK, LocalsInv, Counted, Holds
  <2> QED
    BY <2>1 DEF IInv, TypeOK, RefCountExact
<1> QED BY <1>1, <1>2, <1>3, <1>4, <1>5, <1>6, <1>7, <1>8 DEF IInv

\* IncRefCount1 preserves IInv: on an unlocked frame it counts one client more,
\* on a locked frame the count means nothing.
LEMMA IncRefCount1Inv ==
  ASSUME IInv, NEW t \in Clients, IncRefCount1(t)
  PROVE  IInv'
<1> USE DEF IncRefCount1
<1>0. /\ frm[t] \in Frames
      /\ \A g \in Frames : /\ pte'[g].page = pte[g].page
                           /\ pte'[g].init = pte[g].init
                           /\ pte'[g].busy = pte[g].busy
  BY DEF IInv, TypeOK, LocalsInv, PTE
<1>1. TypeOK'
  <2>1. pte' \in [Frames -> PTE]
    <3>1. frm[t] \in Frames /\ pte[frm[t]] \in PTE
      BY DEF IInv, TypeOK, LocalsInv
    <3>2. [pte[frm[t]] EXCEPT !.ref = pte[frm[t]].ref + 1] \in PTE
      BY <3>1 DEF PTE
    <3> QED BY <3>1, <3>2 DEF IInv, TypeOK
  <2> QED
    BY <2>1, MaxVersionType, FrameCount DEF IInv, TypeOK, LocalsInv, PCs
<1>2. LocalsInv'
  BY DEF IInv, TypeOK, LocalsInv
<1>3. VictimInv'
  BY DEF IInv, TypeOK, LocalsInv, VictimInv, Scanning, LocksVictim,
     VictimPage
<1>4. FrameInv'
  BY DEF IInv, TypeOK, LocalsInv, FrameInv, Filling, PhaseInv
<1>5. MappingInv'
  BY DEF IInv, TypeOK, LocalsInv, MappingInv, Loaded, Filling
<1>6. LockInv'
  BY <1>0 DEF IInv, TypeOK, LocalsInv, LockInv, Loaded, Filling,
     LocksWanted, LocksVictim, VictimPage, FoundEmpty
<1>7. PhaseInv'
  BY DEF IInv, TypeOK, LocalsInv, PhaseInv, Filling, LockPage, Holds
<1>8. RefCountExact'
  <2>1. PICK f \in Frames : f = frm[t]
    BY DEF IInv, LocalsInv
  <2>2. \A g \in Frames \ {f} : Counted(g)' = Counted(g)
    BY <2>1 DEF IInv, TypeOK, Counted, Holds
  <2>3. CASE pte[f].busy
    <3>1. Counted(f)' = Counted(f)
      BY <2>1, <2>3, ConstantsDistinct DEF IInv, TypeOK, Counted, Holds
    <3> QED BY <2>1, <2>2, <2>3, <3>1 DEF IInv, TypeOK, RefCountExact, PTE
  <2>4. CASE ~pte[f].busy
    <3>1. Counted(f)' = Counted(f) \cup {t} /\ t \notin Counted(f)
      BY <2>1, <2>4 DEF IInv, TypeOK, Counted, Holds
    <3>2. Cardinality(Counted(f)') = Cardinality(Counted(f)) + 1
      BY <2>1, <3>1, CountedFinite, FS_AddElement
    <3> QED BY <2>1, <2>2, <2>4, <3>2 DEF IInv, TypeOK, RefCountExact, PTE
  <2> QED BY <2>3, <2>4
<1> QED BY <1>1, <1>2, <1>3, <1>4, <1>5, <1>6, <1>7, <1>8 DEF IInv

\* The decrement that takes IncRefCount1 back preserves IInv.
LEMMA UndoIncRefCountInv ==
  ASSUME IInv, NEW t \in Clients, UndoIncRefCount(t)
  PROVE  IInv'
<1> USE DEF UndoIncRefCount
<1>1. TypeOK'
  <2>1. pte' \in [Frames -> PTE]
    <3>1. frm[t] \in Frames /\ pte[frm[t]] \in PTE
      BY DEF IInv, TypeOK, LocalsInv
    <3>2. [pte[frm[t]] EXCEPT !.ref = pte[frm[t]].ref - 1] \in PTE
      BY <3>1 DEF PTE
    <3> QED BY <3>1, <3>2 DEF IInv, TypeOK
  <2> QED
    BY <2>1, MaxVersionType, FrameCount DEF IInv, TypeOK, LocalsInv, PCs
<1>2. LocalsInv'
  BY DEF IInv, TypeOK, LocalsInv
<1>3. VictimInv'
  BY DEF IInv, TypeOK, LocalsInv, VictimInv, Scanning, LocksVictim,
     VictimPage
<1>4. FrameInv'
  BY DEF IInv, TypeOK, LocalsInv, FrameInv, Filling, PhaseInv
<1>5. MappingInv'
  BY DEF IInv, TypeOK, LocalsInv, MappingInv, Loaded, Filling
<1>6. LockInv'
  BY DEF IInv, TypeOK, LocalsInv, LockInv, Loaded, Filling, LocksWanted,
     LocksVictim, VictimPage, FoundEmpty
<1>7. PhaseInv'
  BY DEF IInv, TypeOK, LocalsInv, PhaseInv, Filling, LockPage, Holds
<1>8. RefCountExact'
  <2>1. PICK f \in Frames : f = frm[t] /\ t \in Counted(f)
    BY DEF IInv, LocalsInv, Counted, Holds
  <2>2. \A g \in Frames \ {f} : Counted(g)' = Counted(g)
    BY <2>1 DEF IInv, TypeOK, Counted, Holds
  <2>3. Counted(f)' = Counted(f) \ {t}
    BY <2>1, ConstantsDistinct DEF IInv, TypeOK, Counted, Holds
  <2>4. Cardinality(Counted(f)') = Cardinality(Counted(f)) - 1
    BY <2>1, <2>3, CountedFinite, FS_RemoveElement
  <2>5. ~pte[f].busy
    BY <2>1, CountedMeansPositive DEF IInv
  <2> QED BY <2>1, <2>2, <2>4, <2>5 DEF IInv, TypeOK, RefCountExact, PTE
<1> QED BY <1>1, <1>2, <1>3, <1>4, <1>5, <1>6, <1>7, <1>8 DEF IInv

\* LockMapping failed, or the lock it took is given back: Retry, with the
\* mapping as it was or pointing to the frame again.
Release(t) ==
  /\ pc[t] \in {"lock", "relink", "unmap"}
  /\ mapping' = IF pc[t] = "lock" THEN mapping
                ELSE [mapping EXCEPT ![LockPage(t)] = lfr[t]]
  /\ Retry(t)
  /\ UNCHANGED <<pte, free, list, latch, data>>

\* Victim gives up a candidate: its page is the frame's own and is mapped again.
LEMMA ReleaseVictim ==
  ASSUME IInv, NEW t \in Clients, Release(t), op[t] = "victim"
  PROVE  IInv'
<1>0. /\ pc[t] \in {"lock", "relink", "unmap"}
      /\ pc' = [pc EXCEPT ![t] = "scan"]
      /\ tries' = tries - 1
      /\ frm' = [frm EXCEPT ![t] = None]
      /\ snap' = [snap EXCEPT ![t] = None]
      /\ lfr' = [lfr EXCEPT ![t] = None]
      /\ UNCHANGED <<op, want, pte, free, list, latch, mem, disk>>
  BY DEF Release, Retry
<1>a. PICK f \in Frames : f = frm[t] /\ f \in list /\ pte[f].init
  BY <1>0 DEF IInv, TypeOK, VictimInv, Scanning, FrameInv
<1>b. PICK p \in Pages : p = pte[f].page /\ p = snap[t] /\ p = LockPage(t)
  BY <1>0, <1>a DEF IInv, TypeOK, VictimInv, Scanning, FrameInv, VictimPage,
     LockPage
<1>c. tries > 0 /\ latch = t /\ want[t] \in Pages
  BY <1>0 DEF IInv, TypeOK, VictimInv, Scanning, LocalsInv
<1>d. \/ pc[t] = "lock" /\ mapping' = mapping
      \/ /\ pc[t] # "lock"
         /\ mapping' = [mapping EXCEPT ![p] = f]
         /\ mapping[p] = Busy
         /\ ~pte[f].busy
  <2>1. CASE pc[t] = "lock"
    BY <2>1 DEF Release
  <2>2. CASE pc[t] # "lock"
    <3>1. lfr[t] = f /\ LocksVictim(t)
      BY <1>0, <1>a, <2>2 DEF IInv, VictimInv, LocksVictim
    <3>2. mapping[p] = Busy
      BY <3>1, <1>a, <1>b DEF IInv, LockInv, VictimPage
    <3>3. ~pte[f].busy
      BY <1>0, <2>2, <3>1, <1>a DEF IInv, PhaseInv
    <3> QED BY <2>2, <3>1, <3>2, <3>3, <1>b DEF Release
  <2> QED BY <2>1, <2>2
<1>1. TypeOK'
  <2>1. mapping' \in [Pages -> Frames \cup {Empty, Busy}]
    BY <1>d DEF IInv, TypeOK
  <2>2. tries' \in 0 .. 2 * Cardinality(Frames)
    BY <1>0, <1>c, FrameCount DEF IInv, TypeOK
  <2> QED BY <1>0, <2>1, <2>2 DEF IInv, TypeOK, PCs
<1>2. LocalsInv'
  BY <1>0 DEF IInv, TypeOK, LocalsInv
<1>3. VictimInv'
  BY <1>0, <1>c DEF IInv, TypeOK, LocalsInv, VictimInv, Scanning, LocksVictim,
     VictimPage
<1>4. FrameInv'
  BY <1>0 DEF IInv, TypeOK, FrameInv, Filling
<1>e. \A g \in Frames : Loaded(g)' <=> Loaded(g)
  BY <1>0 DEF IInv, TypeOK, Loaded, Filling
<1>5. MappingInv'
  <2>1. \A q \in Pages : mapping'[q] \in Frames => /\ mapping'[q] \in list
       /\ pte[mapping'[q]].page = q
       /\ ~pte[mapping'[q]].busy
    <3>1. \A q \in Pages : mapping[q] \in Frames => /\ mapping[q] \in list
             /\ pte[mapping[q]].page = q
             /\ ~pte[mapping[q]].busy
      BY DEF IInv, MappingInv
    <3>2. \A q \in Pages : \/ mapping'[q] = mapping[q]
                           \/ q = p /\ mapping'[q] = f /\ ~pte[f].busy
      BY <1>d DEF IInv, TypeOK
    <3> QED BY <1>a, <1>b, <3>1, <3>2
  <2>2. \A g \in Frames : Loaded(g) => mapping'[pte[g].page] \in {g, Busy}
    <3>1. Loaded(f)
      BY <1>a DEF IInv, FrameInv, Loaded
    <3>2. \A g \in Frames : Loaded(g) => pte[g].page \in Pages
      BY DEF IInv, FrameInv, Loaded
    <3> QED BY <1>b, <1>d, <3>1, <3>2 DEF IInv, TypeOK, MappingInv
  <2> QED BY <2>1, <2>2, <1>e, <1>0 DEF IInv, MappingInv
<1>6. LockInv'
  <2>1. \A u \in Clients : LocksWanted(u)' <=> LocksWanted(u)
    BY <1>0 DEF IInv, TypeOK, LocksWanted
  <2>2. \A u \in Clients : LocksVictim(u)'
       => u # t /\ LocksVictim(u) /\ VictimPage(u)' = VictimPage(u)
    BY <1>0 DEF IInv, TypeOK, LocksVictim, VictimPage
  <2>3. \A u \in Clients : FoundEmpty(u)' <=> FoundEmpty(u)
    BY <1>0 DEF IInv, TypeOK, FoundEmpty
  <2>4. pc[t] # "lock" => LocksVictim(t) /\ VictimPage(t) = p
    BY <1>0, <1>a, <1>b DEF LocksVictim, VictimPage
  <2>5. \A u \in Clients : LocksWanted(u) => mapping'[want[u]] = Busy
    BY <1>b, <1>d, <2>4, LockedPages DEF IInv, TypeOK, LockInv
  <2>6. \A u \in Clients : LocksVictim(u) /\ u # t
       => mapping'[VictimPage(u)] = Busy
    BY <1>b, <1>d, <2>4, LockedPages DEF IInv, TypeOK, LockInv
  <2> QED BY <1>0, <1>e, <2>1, <2>2, <2>3, <2>5, <2>6 DEF IInv, LockInv
<1>7. PhaseInv'
  BY <1>0, ConstantsDistinct DEF IInv, TypeOK, LocalsInv, PhaseInv, Filling,
     LockPage, Holds
<1>8. RefCountExact'
  <2>1. \A g \in Frames : Counted(g)' = Counted(g)
    BY <1>0, ConstantsDistinct DEF IInv, TypeOK, LocalsInv, Counted, Holds
  <2> QED BY <1>0, <2>1 DEF IInv, TypeOK, RefCountExact
<1> QED BY <1>1, <1>2, <1>3, <1>4, <1>5, <1>6, <1>7, <1>8 DEF IInv

\* A fetch or a flush gives up the lock of the page it asked for.
LEMMA ReleaseOwn ==
  ASSUME IInv, NEW t \in Clients, Release(t), op[t] # "victim"
  PROVE  IInv'
<1>0. /\ pc[t] \in {"lock", "relink", "unmap"}
      /\ want[t] \in Pages
      /\ UNCHANGED <<pte, free, list, latch, tries, mem, disk>>
  BY DEF Release, Retry, IInv, TypeOK, LocalsInv
<1>a. /\ pc'[t] = "find" \/ pc'[t] = "idle"
      /\ pc'[t] = "find" => want'[t] = want[t]
      /\ op'[t] = "fetch"
      /\ lfr'[t] = None
      /\ \A u \in Clients \ {t} :
           /\ pc'[u] = pc[u] /\ op'[u] = op[u] /\ want'[u] = want[u]
           /\ frm'[u] = frm[u] /\ snap'[u] = snap[u] /\ lfr'[u] = lfr[u]
  BY DEF Release, Retry, Return, IInv, TypeOK
<1>b. PICK p \in Pages : p = want[t] /\ p = LockPage(t)
  BY <1>0 DEF LockPage
<1>c. PICK m : m = lfr[t]
  OBVIOUS
<1>d. \/ pc[t] = "lock" /\ mapping' = mapping
      \/ /\ pc[t] # "lock"
         /\ LocksWanted(t)
         /\ mapping' = [mapping EXCEPT ![p] = m]
         /\ mapping[p] = Busy
         /\ \/ m = Empty /\ FoundEmpty(t)
            \/ m \in Frames /\ m \in list /\ pte[m].page = p /\ ~pte[m].busy
  <2>1. CASE pc[t] = "lock"
    BY <2>1 DEF Release
  <2>2. CASE pc[t] # "lock"
    <3>1. LocksWanted(t)
      BY <1>0, <2>2 DEF LocksWanted
    <3>2. mapping[p] = Busy
      BY <3>1, <1>b DEF IInv, LockInv
    <3>3. CASE m = Empty
      <4>1. FoundEmpty(t)
        BY <1>0, <1>c, <2>2, <3>3, ConstantsDistinct
           DEF IInv, TypeOK, LocalsInv, FoundEmpty
      <4> QED BY <1>b, <1>c, <2>2, <3>1, <3>2, <3>3, <4>1 DEF Release
    <3>4. CASE m \in Frames
      <4>1. m \in list /\ pte[m].page = p /\ ~pte[m].busy
        BY <1>0, <1>b, <1>c, <2>2, <3>4 DEF IInv, PhaseInv
      <4> QED BY <1>b, <1>c, <2>2, <3>1, <3>2, <3>4, <4>1 DEF Release
    <3> QED BY <1>0, <1>c, <2>2, <3>3, <3>4 DEF IInv, LocalsInv
  <2> QED BY <2>1, <2>2
<1>1. TypeOK'
  <2>1. mapping' \in [Pages -> Frames \cup {Empty, Busy}]
    BY <1>d DEF IInv, TypeOK
  <2>2. /\ pc' \in [Clients -> PCs]
        /\ op' \in [Clients -> {"fetch", "victim", "flush"}]
        /\ want' \in [Clients -> Pages \cup {None}]
        /\ frm' \in [Clients -> Frames \cup {None}]
        /\ snap' \in [Clients -> Pages \cup {None}]
        /\ lfr' \in [Clients -> Frames \cup {Empty, None}]
    BY DEF Release, Retry, Return, IInv, TypeOK, PCs
  <2> QED BY <1>0, <2>1, <2>2 DEF IInv, TypeOK
<1>2. LocalsInv'
  BY <1>0, <1>a DEF IInv, LocalsInv
<1>3. VictimInv'
  BY <1>0, <1>a DEF IInv, VictimInv, Scanning, LocksVictim, VictimPage
<1>4. FrameInv'
  BY <1>0, <1>a DEF IInv, FrameInv, Filling
<1>e. \A g \in Frames : Loaded(g)' <=> Loaded(g)
  BY <1>0, <1>a DEF Loaded, Filling
<1>f. \A g \in Frames : Loaded(g) => pte[g].page \in Pages
  BY DEF IInv, FrameInv, Loaded
<1>5. MappingInv'
  <2>1. \A q \in Pages : mapping'[q] \in Frames => /\ mapping'[q] \in list
       /\ pte[mapping'[q]].page = q
       /\ ~pte[mapping'[q]].busy
    BY <1>b, <1>d, ConstantsDistinct DEF IInv, TypeOK, MappingInv
  <2>2. \A g \in Frames : Loaded(g) => mapping'[pte[g].page] \in {g, Busy}
    <3>1. \A g \in list : Loaded(g)
      BY DEF IInv, TypeOK, FrameInv, Loaded
    <3>2. \A g \in Frames : FoundEmpty(t) /\ Loaded(g) => pte[g].page # p
      BY <1>b DEF IInv, LockInv
    <3>3. \A g \in Frames : Loaded(g) => mapping[pte[g].page] \in {g, Busy}
      BY DEF IInv, MappingInv
    <3>4. \A g, h \in Frames :
            Loaded(g) /\ Loaded(h) /\ pte[g].page = pte[h].page => g = h
      BY DEF IInv, MappingInv
    <3>5. mapping \in [Pages -> Frames \cup {Empty, Busy}]
      BY DEF IInv, TypeOK
    <3> QED BY <1>d, <1>f, <3>1, <3>2, <3>3, <3>4, <3>5
  <2> QED BY <1>0, <1>e, <2>1, <2>2 DEF IInv, MappingInv
<1>6. LockInv'
  <2>1. \A u \in Clients : LocksWanted(u)' =>
          u # t /\ LocksWanted(u) /\ want'[u] = want[u]
    BY <1>0, <1>a DEF LocksWanted
  <2>2. \A u \in Clients : LocksVictim(u)' =>
          u # t /\ LocksVictim(u) /\ VictimPage(u)' = VictimPage(u)
    BY <1>0, <1>a DEF LocksVictim, VictimPage
  <2>3. \A u \in Clients : FoundEmpty(u)' =>
          u # t /\ FoundEmpty(u) /\ want'[u] = want[u]
    BY <1>0, <1>a DEF FoundEmpty
  <2>4. \A u \in Clients : LocksWanted(u) /\ u # t => mapping'[want[u]] = Busy
    BY <1>b, <1>d, LockedPages DEF IInv, TypeOK, LockInv
  <2>5. \A u \in Clients : LocksVictim(u) /\ u # t
          => mapping'[VictimPage(u)] = Busy
    <3>1. \A u \in Clients : LocksVictim(u) =>
            VictimPage(u) \in Pages /\ mapping[VictimPage(u)] = Busy
      BY LockedPages DEF IInv, LockInv
    <3>2. \A u \in Clients : LocksVictim(u) /\ u # t /\ pc[t] # "lock"
            => VictimPage(u) # p
      BY <1>b, <1>d DEF IInv, LockInv
    <3>3. \A q \in Pages : mapping'[q] # mapping[q] => q = p /\ pc[t] # "lock"
      BY <1>d DEF IInv, TypeOK
    <3> QED BY <3>1, <3>2, <3>3
  <2> QED BY <1>0, <1>e, <2>1, <2>2, <2>3, <2>4, <2>5 DEF IInv, LockInv
<1>7. PhaseInv'
  BY <1>0, <1>a, ConstantsDistinct
     DEF IInv, PhaseInv, Filling, LockPage, Holds
<1>8. RefCountExact'
  <2>1. \A g \in Frames : Counted(g)' = Counted(g)
    BY <1>0, <1>a DEF Counted, Holds
  <2> QED BY <1>0, <2>1 DEF IInv, RefCountExact
<1> QED BY <1>1, <1>2, <1>3, <1>4, <1>5, <1>6, <1>7, <1>8 DEF IInv

\* Relink preserves IInv: the mapping it restores is Busy, so its assertion holds.
LEMMA RelinkInv ==
  ASSUME IInv, NEW t \in Clients, Relink(t)
  PROVE  IInv'
<1>1. LocksWanted(t) /\ (op[t] = "victim" => LocksVictim(t))
  BY DEF Relink, LocksWanted, LocksVictim
<1>2. op[t] = "victim" => snap[t] = VictimPage(t)
  BY DEF Relink, IInv, VictimInv, Scanning
<1>3. mapping[LockPage(t)] = Busy
  BY <1>1, <1>2 DEF IInv, LockInv, LockPage
<1>4. Release(t)
  BY <1>3 DEF Relink, Release, CreateMapping
<1> QED BY <1>4, ReleaseOwn, ReleaseVictim

\* UnLockMapping preserves IInv: the mapping it restores is Busy.
LEMMA UnLockMappingInv ==
  ASSUME IInv, NEW t \in Clients, UnLockMapping(t)
  PROVE  IInv'
<1>1. LocksWanted(t) /\ (op[t] = "victim" => LocksVictim(t))
  BY DEF UnLockMapping, LocksWanted, LocksVictim
<1>2. op[t] = "victim" => snap[t] = VictimPage(t)
  BY DEF UnLockMapping, IInv, VictimInv, Scanning
<1>3. mapping[LockPage(t)] = Busy
  BY <1>1, <1>2 DEF IInv, LockInv, LockPage
<1>4. Release(t)
  BY <1>3 DEF UnLockMapping, Release, CreateMapping
<1> QED BY <1>4, ReleaseOwn, ReleaseVictim

\* LockMapping on a page locked by another changes nothing but the caller.
LEMMA LockMappingBusyInv ==
  ASSUME IInv, NEW t \in Clients, LockMapping(t), mapping[LockPage(t)] = Busy
  PROVE  IInv'
<1>1. Release(t)
  BY ConstantsDistinct DEF LockMapping, Release
<1> QED BY <1>1, ReleaseOwn, ReleaseVictim

\* The page that LockMapping is called for, and what its mapping says.
LEMMA LockMappingPage ==
  ASSUME IInv, NEW t \in Clients, pc[t] = "lock"
  PROVE  /\ LockPage(t) \in Pages
         /\ op[t] = "victim" =>
              /\ frm[t] \in Frames
              /\ LockPage(t) = VictimPage(t)
              /\ mapping[LockPage(t)] \in {frm[t], Busy}
<1>1. CASE op[t] = "victim"
  <2>1. frm[t] \in list /\ snap[t] = VictimPage(t) /\ frm[t] \in Frames
    BY <1>1 DEF IInv, TypeOK, VictimInv, Scanning
  <2>2. Loaded(frm[t]) /\ VictimPage(t) \in Pages
    BY <2>1 DEF IInv, FrameInv, Loaded, VictimPage
  <2> QED BY <1>1, <2>1, <2>2 DEF IInv, MappingInv, LockPage, VictimPage
<1>2. CASE op[t] # "victim"
  BY <1>2 DEF IInv, LocalsInv, LockPage
<1> QED BY <1>1, <1>2

\* A page whose mapping is not Busy is locked by nobody.
LEMMA UnlockedPage ==
  ASSUME IInv, NEW p \in Pages, mapping[p] # Busy, NEW t \in Clients
  PROVE  /\ LocksWanted(t) => want[t] # p
         /\ LocksVictim(t) => VictimPage(t) # p
  BY DEF IInv, LockInv

\* LockMapping on an unmapped page: the page is in no frame, and becomes the
\* caller's.
LEMMA LockMappingEmptyInv ==
  ASSUME IInv, NEW t \in Clients, LockMapping(t), mapping[LockPage(t)] = Empty
  PROVE  IInv'
<1>0. PICK p \in Pages : p = LockPage(t)
  BY LockMappingPage DEF LockMapping
<1>a. op[t] # "victim" /\ p = want[t] /\ mapping[p] = Empty
  BY <1>0, LockMappingPage, ConstantsDistinct DEF LockMapping, LockPage
<1>b. /\ pc[t] = "lock"
      /\ mapping' = [mapping EXCEPT ![p] = Busy]
      /\ lfr' = [lfr EXCEPT ![t] = Empty]
      /\ UNCHANGED <<op, want, frm, snap, tries, pte, free, list, latch, mem,
         disk>>
  BY <1>0, <1>a, ConstantsDistinct DEF LockMapping
<1>c. \/ op[t] = "fetch" /\ pc' = [pc EXCEPT ![t] = "init"]
      \/ op[t] = "flush" /\ pc' = [pc EXCEPT ![t] = "unmap"]
  <2>1. CASE op[t] = "fetch"
    BY <2>1, <1>0, <1>a, ConstantsDistinct DEF LockMapping
  <2>2. CASE op[t] = "flush"
    BY <2>2, <1>0, <1>a, ConstantsDistinct DEF LockMapping
  <2> QED BY <2>1, <2>2, <1>a DEF IInv, TypeOK
<1>1. TypeOK'
  BY <1>b, <1>c DEF IInv, TypeOK, PCs
<1>2. LocalsInv'
  BY <1>b, <1>c DEF IInv, TypeOK, LocalsInv
<1>3. VictimInv'
  BY <1>a, <1>b, <1>c
     DEF IInv, TypeOK, VictimInv, Scanning, LocksVictim, VictimPage
<1>4. FrameInv'
  BY <1>b, <1>c DEF IInv, TypeOK, FrameInv, Filling
<1>d. \A g \in Frames : Loaded(g)' <=> Loaded(g)
  BY <1>b, <1>c DEF IInv, TypeOK, Loaded, Filling
<1>e. \A g \in Frames : Loaded(g) => pte[g].page \in Pages \ {p}
  BY <1>a, ConstantsDistinct DEF IInv, FrameInv, MappingInv, Loaded
<1>f. \A q \in Pages : mapping'[q] = IF q = p THEN Busy ELSE mapping[q]
  BY <1>b DEF IInv, TypeOK
<1>5. MappingInv'
  BY <1>b, <1>d, <1>e, <1>f, ConstantsDistinct DEF IInv, MappingInv
<1>6. LockInv'
  <2>1. \A u \in Clients : LocksWanted(u)' <=> u = t \/ LocksWanted(u)
    BY <1>a, <1>b, <1>c DEF IInv, TypeOK, LocksWanted
  <2>2. \A u \in Clients : LocksVictim(u)' <=> LocksVictim(u)
    BY <1>a, <1>b, <1>c DEF IInv, TypeOK, LocksVictim
  <2>3. \A u \in Clients : VictimPage(u)' = VictimPage(u)
    BY <1>b DEF VictimPage
  <2>4. \A u \in Clients : FoundEmpty(u)' => u = t \/ FoundEmpty(u)
    BY <1>a, <1>b, <1>c DEF IInv, TypeOK, FoundEmpty
  <2>5. \A u \in Clients : /\ LocksWanted(u) => want[u] # p
                           /\ LocksVictim(u) => VictimPage(u) # p
    BY <1>a, UnlockedPage, ConstantsDistinct
  <2> QED BY <1>a, <1>b, <1>d, <1>e, <1>f, <2>1, <2>2, <2>3, <2>4, <2>5,
             LockedPages DEF IInv, LockInv
<1>7. PhaseInv'
  BY <1>a, <1>b, <1>c, ConstantsDistinct
     DEF IInv, TypeOK, PhaseInv, Filling, LockPage, Holds
<1>8. RefCountExact'
  <2>1. \A g \in Frames : Counted(g)' = Counted(g)
    BY <1>b, <1>c DEF IInv, TypeOK, Counted, Holds
  <2> QED BY <1>b, <2>1 DEF IInv, RefCountExact
<1> QED BY <1>1, <1>2, <1>3, <1>4, <1>5, <1>6, <1>7, <1>8 DEF IInv

\* LockMapping on a mapped page: the frame has the page and nobody else locks it.
LEMMA LockMappingFoundInv ==
  ASSUME IInv, NEW t \in Clients, LockMapping(t),
         mapping[LockPage(t)] \in Frames
  PROVE  IInv'
<1>0. PICK p \in Pages, f \in Frames : p = LockPage(t) /\ f = mapping[p]
  BY LockMappingPage DEF LockMapping
<1>a. /\ pc[t] = "lock"
      /\ f \in list /\ pte[f].page = p /\ ~pte[f].busy /\ pte[f].init
      /\ mapping[p] # Busy
      /\ op[t] = "victim" => f = frm[t] /\ p = VictimPage(t)
      /\ op[t] # "victim" => p = want[t]
  BY <1>0, LockMappingPage, ConstantsDistinct
     DEF LockMapping, LockPage, IInv, MappingInv, FrameInv
<1>b. /\ mapping' = [mapping EXCEPT ![p] = Busy]
      /\ lfr' = [lfr EXCEPT ![t] = f]
      /\ pc' = [pc EXCEPT ![t] = "lockpte"]
      /\ UNCHANGED <<op, want, frm, snap, tries, pte, free, list, latch, mem,
         disk>>
  BY <1>0, ConstantsDistinct DEF LockMapping
<1>1. TypeOK'
  BY <1>b DEF IInv, TypeOK, PCs
<1>2. LocalsInv'
  BY <1>a, <1>b DEF IInv, TypeOK, LocalsInv
<1>3. VictimInv'
  BY <1>a, <1>b
     DEF IInv, TypeOK, VictimInv, Scanning, LocksVictim, VictimPage
<1>4. FrameInv'
  BY <1>a, <1>b DEF IInv, TypeOK, FrameInv, Filling
<1>d. \A g \in Frames : Loaded(g)' <=> Loaded(g)
  BY <1>a, <1>b DEF IInv, TypeOK, Loaded, Filling
<1>e. \A g \in Frames : Loaded(g) => pte[g].page \in Pages
  BY DEF IInv, FrameInv, Loaded
<1>f. \A q \in Pages : mapping'[q] = IF q = p THEN Busy ELSE mapping[q]
  BY <1>b DEF IInv, TypeOK
<1>5. MappingInv'
  BY <1>b, <1>d, <1>e, <1>f, ConstantsDistinct DEF IInv, MappingInv
<1>6. LockInv'
  <2>1. \A u \in Clients :
          LocksWanted(u)' /\ ~LocksWanted(u) => u = t /\ op[t] # "victim"
    BY <1>b DEF IInv, TypeOK, LocksWanted
  <2>2. \A u \in Clients :
          LocksVictim(u)' /\ ~LocksVictim(u) => u = t /\ op[t] = "victim"
    BY <1>b DEF IInv, TypeOK, LocksVictim
  <2>3. \A u \in Clients : VictimPage(u)' = VictimPage(u)
    BY <1>b DEF VictimPage
  <2>4. \A u \in Clients : FoundEmpty(u)' => FoundEmpty(u)
    BY <1>a, <1>b DEF IInv, TypeOK, FoundEmpty
  <2>5. \A u \in Clients : /\ LocksWanted(u) => want[u] # p
                           /\ LocksVictim(u) => VictimPage(u) # p
    BY <1>a, UnlockedPage
  <2> QED BY <1>a, <1>b, <1>d, <1>e, <1>f, <2>1, <2>2, <2>3, <2>4, <2>5,
             LockedPages DEF IInv, LockInv
<1>7. PhaseInv'
  <2>1. LockPage(t)' = p
    BY <1>0, <1>b DEF LockPage
  <2> QED BY <1>a, <1>b, <2>1, ConstantsDistinct
       DEF IInv, TypeOK, PhaseInv, Filling, LockPage, Holds
<1>8. RefCountExact'
  <2>1. \A g \in Frames : Counted(g)' = Counted(g)
    BY <1>a, <1>b DEF IInv, TypeOK, Counted, Holds
  <2> QED BY <1>b, <2>1 DEF IInv, RefCountExact
<1> QED BY <1>1, <1>2, <1>3, <1>4, <1>5, <1>6, <1>7, <1>8 DEF IInv

\* Two clients are never at work on the lock of the same page.
LEMMA SameLock ==
  ASSUME IInv, NEW t \in Clients, NEW u \in Clients,
         pc[t] \in LockSteps \cup {"fwrite"},
            pc[u] \in LockSteps \cup {"fwrite"},
         LockPage(t) = LockPage(u)
  PROVE  t = u
<1>1. \A v \in {t, u} :
        IF op[v] = "victim" THEN LocksVictim(v) /\ LockPage(v) = VictimPage(v)
                            ELSE LocksWanted(v) /\ LockPage(v) = want[v]
  BY DEF IInv, LocalsInv, VictimInv, Scanning, LocksVictim, LocksWanted,
     LockPage
<1> QED BY <1>1 DEF IInv, LockInv

\* The frame that LockMapping found, and the page it is locked for.
LEMMA LockedFrame ==
  ASSUME IInv, NEW t \in Clients, pc[t] \in LockSteps \cup {"fwrite"},
         lfr[t] \in Frames
  PROVE  /\ lfr[t] \in list /\ pte[lfr[t]].init
         /\ pte[lfr[t]].page = LockPage(t)
         /\ LockPage(t) \in Pages
         /\ mapping[LockPage(t)] = Busy
         /\ \A q \in Pages : mapping[q] # lfr[t]
<1>1. lfr[t] \in list /\ pte[lfr[t]].init /\ pte[lfr[t]].page = LockPage(t)
  BY DEF IInv, PhaseInv, FrameInv
<1>2. LockPage(t) \in Pages
  BY <1>1 DEF IInv, FrameInv
<1>3. mapping[LockPage(t)] = Busy
  BY DEF IInv, LocalsInv, VictimInv, Scanning, LocksVictim, LocksWanted,
         LockPage, LockInv
<1>4. \A q \in Pages : mapping[q] # lfr[t]
  BY <1>1, <1>3, ConstantsDistinct DEF IInv, MappingInv
<1> QED BY <1>1, <1>2, <1>3, <1>4

\* PTE::Lock succeeds only on a frame nobody references and nobody else works on.
LEMMA LockPteOkInv ==
  ASSUME IInv, NEW t \in Clients, LockPte(t), CanLockPte(pte[lfr[t]])
  PROVE  IInv'
<1>0. PICK f \in Frames : f = lfr[t]
  BY DEF LockPte, IInv, LocalsInv
<1>a. /\ pc[t] = "lockpte"
      /\ f \in list /\ pte[f].init /\ pte[f].page = LockPage(t)
      /\ pte[f].ref = 0 /\ ~pte[f].busy
      /\ pte[f] \in PTE
      /\ \A q \in Pages : mapping[q] # f
  BY <1>0, LockedFrame DEF LockPte, CanLockPte, IInv, TypeOK
<1>b. /\ pte' = [pte EXCEPT ![f].busy = TRUE]
      /\ UNCHANGED <<mapping, free, list, latch, tries, mem, disk, op, want,
                     frm, snap, lfr>>
  BY <1>0 DEF LockPte
<1>c. \/ op[t] = "fetch"  /\ pc' = [pc EXCEPT ![t] = "unlock"]
      \/ op[t] = "victim" /\ pc' = [pc EXCEPT ![t] = "check"]
      \/ op[t] = "flush"  /\ pc' = [pc EXCEPT ![t] = "fwrite"]
  <2>1. CASE op[t] = "fetch"
    BY <2>1 DEF LockPte
  <2>2. CASE op[t] = "victim"
    BY <2>2 DEF LockPte
  <2>3. CASE op[t] = "flush"
    BY <2>3 DEF LockPte
  <2> QED BY <2>1, <2>2, <2>3 DEF IInv, TypeOK
<1>d. /\ pte'[f].busy
      /\ \A g \in Frames : /\ pte'[g].page = pte[g].page
                           /\ pte'[g].init = pte[g].init
                           /\ pte'[g].ref = pte[g].ref
                           /\ g # f => pte'[g].busy = pte[g].busy
  BY <1>b DEF IInv, TypeOK, PTE
<1>e. Counted(f) = {}
  BY <1>a, ZeroMeansUnreferenced DEF IInv
<1>1. TypeOK'
  <2>1. [pte[f] EXCEPT !.busy = TRUE] \in PTE
    BY <1>a, PteUpdate
  <2>2. pte' \in [Frames -> PTE]
    BY <1>b, <2>1 DEF IInv, TypeOK
  <2> QED BY <1>b, <1>c, <2>2 DEF IInv, TypeOK, PCs
<1>2. LocalsInv'
  BY <1>a, <1>b, <1>c DEF IInv, TypeOK, LocalsInv
<1>f. \A u \in Clients : /\ Scanning(u)' <=> Scanning(u)
                         /\ LocksVictim(u)' <=> LocksVictim(u)
                         /\ LocksWanted(u)' <=> LocksWanted(u)
                         /\ FoundEmpty(u)' <=> FoundEmpty(u)
                         /\ Filling(u)' <=> Filling(u)
  BY <1>a, <1>b, <1>c DEF IInv, TypeOK, Scanning, LocksVictim, LocksWanted,
     FoundEmpty, Filling
<1>g. \A u \in Clients : frm[u] \in Frames => VictimPage(u)' = VictimPage(u)
  BY <1>b, <1>d DEF VictimPage
<1>h. \A u \in Clients : LocksVictim(u) \/ Scanning(u) => frm[u] \in Frames
  BY DEF IInv, TypeOK, LocalsInv, VictimInv, Scanning, LocksVictim
<1>3. VictimInv'
  BY <1>a, <1>b, <1>c, <1>f, <1>g, <1>h DEF IInv, TypeOK, VictimInv
<1>4. FrameInv'
  BY <1>a, <1>b, <1>d, <1>f DEF IInv, TypeOK, LocalsInv, FrameInv, Filling
<1>i. \A g \in Frames : Loaded(g)' <=> Loaded(g)
  BY <1>b, <1>d, <1>f DEF Loaded
<1>5. MappingInv'
  BY <1>a, <1>b, <1>d, <1>i DEF IInv, MappingInv
<1>6. LockInv'
  BY <1>b, <1>d, <1>f, <1>g, <1>h, <1>i DEF IInv, LockInv
<1>7. PhaseInv'
  <2>1. \A u \in Clients : LockPage(u)' = LockPage(u)
    BY <1>b DEF LockPage
  <2>2. \A u \in Clients \ {t} :
          pc[u] \in LockSteps \cup {"fwrite"} => lfr[u] # f
    BY <1>0, <1>a, SameLock, LockedFrame
  <2>3. \A u \in Clients : Holds(u) \/ pc[u] \in {"insert", "publish"}
          => frm[u] # f
    BY <1>e DEF Counted
  <2> QED BY <1>0, <1>a, <1>b, <1>c, <1>d, <1>f, <2>1, <2>2, <2>3
          DEF IInv, TypeOK, LocalsInv, PhaseInv, Holds
<1>8. RefCountExact'
  <2>1. \A g \in Frames : Counted(g)' = Counted(g)
    BY <1>a, <1>b, <1>c DEF IInv, TypeOK, Counted, Holds
  <2> QED BY <1>d, <1>e, <2>1 DEF IInv, RefCountExact
<1> QED BY <1>1, <1>2, <1>3, <1>4, <1>5, <1>6, <1>7, <1>8 DEF IInv

\* PTE::Lock fails: the caller goes on to Relink.
LEMMA LockPteFailsInv ==
  ASSUME IInv, NEW t \in Clients, LockPte(t), ~CanLockPte(pte[lfr[t]])
  PROVE  IInv'
<1> USE DEF LockPte
<1>1. TypeOK'
  <2>1. pte' \in [Frames -> PTE]
    BY PteUpdate DEF IInv, TypeOK, LocalsInv
  <2> QED
    BY <2>1, MaxVersionType, FrameCount DEF IInv, TypeOK, LocalsInv, PCs
<1>2. LocalsInv'
  BY DEF IInv, TypeOK, LocalsInv
<1>3. VictimInv'
  BY DEF IInv, TypeOK, LocalsInv, VictimInv, Scanning, LocksVictim,
     VictimPage
<1>4. FrameInv'
  BY DEF IInv, TypeOK, LocalsInv, FrameInv, Filling
<1>5. MappingInv'
  BY DEF IInv, TypeOK, LocalsInv, MappingInv, Loaded, Filling
<1>6. LockInv'
  BY DEF IInv, TypeOK, LocalsInv, LockInv, Loaded, Filling, LocksWanted,
     LocksVictim, VictimPage, FoundEmpty
<1>7. PhaseInv'
  BY DEF IInv, TypeOK, LocalsInv, PhaseInv, Filling, LockPage, Holds
<1>8. RefCountExact'
  <2>1. \A f \in Frames : Counted(f)' = Counted(f)
    BY DEF IInv, TypeOK, LocalsInv, Counted, Holds
  <2> QED
    BY <2>1 DEF IInv, TypeOK, RefCountExact
<1> QED BY <1>1, <1>2, <1>3, <1>4, <1>5, <1>6, <1>7, <1>8 DEF IInv

\* PTE::UnLock preserves IInv: zero is the right count of a frame that was locked.
LEMMA UnLockPteInv ==
  ASSUME IInv, NEW t \in Clients, UnLockPte(t)
  PROVE  IInv'
<1> USE DEF UnLockPte, UnLocked
<1>1. TypeOK'
  <2>1. pte' \in [Frames -> PTE]
    BY PteUpdate DEF IInv, TypeOK, LocalsInv
  <2> QED
    BY <2>1, MaxVersionType, FrameCount DEF IInv, TypeOK, LocalsInv, PCs
<1>2. LocalsInv'
  BY DEF IInv, TypeOK, LocalsInv, PhaseInv
<1>3. VictimInv'
  BY DEF IInv, TypeOK, LocalsInv, VictimInv, Scanning, LocksVictim,
     VictimPage
<1>4. FrameInv'
  BY DEF IInv, TypeOK, LocalsInv, FrameInv, Filling, PhaseInv
<1>5. MappingInv'
  BY DEF IInv, TypeOK, LocalsInv, MappingInv, Loaded, Filling, PhaseInv
<1>6. LockInv'
  BY DEF IInv, TypeOK, LocalsInv, LockInv, Loaded, Filling, LocksWanted,
     LocksVictim, VictimPage, FoundEmpty
<1>7. PhaseInv'
  BY DEF IInv, TypeOK, LocalsInv, PhaseInv, Filling, LockPage, Holds,
     LockInv, LocksWanted, LocksVictim, VictimPage, VictimInv, Scanning,
     FrameInv
<1>8. RefCountExact'
  <2>1. \A g \in Frames : Counted(g)' = Counted(g)
    BY DEF IInv, TypeOK, Counted, Holds
  <2>2. lfr[t] \in Frames /\ pte[lfr[t]].busy
    BY DEF IInv, LocalsInv, PhaseInv
  <2>3. Counted(lfr[t]) = {}
    BY <2>2 DEF IInv, RefCountExact
  <2>4. Cardinality({}) = 0
    BY FS_EmptySet
  <2>5. \A g \in Frames \ {lfr[t]} : pte'[g] = pte[g]
    BY <2>2 DEF IInv, TypeOK
  <2>6. pte'[lfr[t]].ref = 0
    BY <2>2 DEF IInv, TypeOK, PTE, PhaseInv
  <2>7. ASSUME NEW g \in Frames
        PROVE  IF pte'[g].busy THEN Counted(g) = {}
                               ELSE pte'[g].ref = Cardinality(Counted(g))
    <3>1. CASE g = lfr[t]
      BY <2>3, <2>4, <2>6, <3>1
    <3>2. CASE g # lfr[t]
      BY <2>5, <3>2 DEF IInv, RefCountExact
    <3> QED BY <3>1, <3>2
  <2> HIDE DEF UnLockPte
  <2> QED BY <2>1, <2>7 DEF RefCountExact
<1> QED BY <1>1, <1>2, <1>3, <1>4, <1>5, <1>6, <1>7, <1>8 DEF IInv

\* Poll preserves IInv: a free frame has never been loaded.
LEMMA PollInv ==
  ASSUME IInv, NEW t \in Clients, Poll(t)
  PROVE  IInv'
<1> USE DEF Poll
<1>1. TypeOK'
  BY MaxVersionType, FrameCount DEF IInv, TypeOK, LocalsInv, PCs, PTE
<1>2. LocalsInv'
  BY DEF IInv, TypeOK, LocalsInv
<1>3. VictimInv'
  BY DEF IInv, TypeOK, LocalsInv, VictimInv, Scanning, LocksVictim,
     VictimPage
<1>4. FrameInv'
  BY DEF IInv, TypeOK, LocalsInv, FrameInv, Filling
<1>5. MappingInv'
  BY DEF IInv, TypeOK, LocalsInv, MappingInv, Loaded, Filling, FrameInv
<1>6. LockInv'
  BY DEF IInv, TypeOK, LocalsInv, LockInv, Loaded, Filling, LocksWanted,
     LocksVictim, VictimPage, FoundEmpty, FrameInv
<1>7. PhaseInv'
  BY DEF IInv, TypeOK, LocalsInv, PhaseInv, Filling, LockPage, Holds
<1>8. RefCountExact'
  <2>1. \A f \in Frames : Counted(f)' = Counted(f)
    BY DEF IInv, TypeOK, LocalsInv, Counted, Holds
  <2> QED
    BY <2>1 DEF IInv, TypeOK, RefCountExact
<1> QED BY <1>1, <1>2, <1>3, <1>4, <1>5, <1>6, <1>7, <1>8 DEF IInv

\* Poll on an empty free list preserves IInv.
LEMMA PollFailsInv ==
  ASSUME IInv, NEW t \in Clients, PollFails(t)
  PROVE  IInv'
<1> USE DEF PollFails
<1>1. TypeOK'
  BY MaxVersionType, FrameCount DEF IInv, TypeOK, LocalsInv, PCs, PTE
<1>2. LocalsInv'
  BY DEF IInv, TypeOK, LocalsInv
<1>3. VictimInv'
  BY DEF IInv, TypeOK, LocalsInv, VictimInv, Scanning, LocksVictim,
     VictimPage
<1>4. FrameInv'
  BY DEF IInv, TypeOK, LocalsInv, FrameInv, Filling
<1>5. MappingInv'
  BY DEF IInv, TypeOK, LocalsInv, MappingInv, Loaded, Filling
<1>6. LockInv'
  BY DEF IInv, TypeOK, LocalsInv, LockInv, Loaded, Filling, LocksWanted,
     LocksVictim, VictimPage, FoundEmpty
<1>7. PhaseInv'
  BY DEF IInv, TypeOK, LocalsInv, PhaseInv, Filling, LockPage, Holds
<1>8. RefCountExact'
  <2>1. \A f \in Frames : Counted(f)' = Counted(f)
    BY DEF IInv, TypeOK, LocalsInv, Counted, Holds
  <2> QED
    BY <2>1 DEF IInv, TypeOK, RefCountExact
<1> QED BY <1>1, <1>2, <1>3, <1>4, <1>5, <1>6, <1>7, <1>8 DEF IInv

\* Entering Victim preserves IInv: nobody else is in it.
LEMMA VictimBeginInv ==
  ASSUME IInv, NEW t \in Clients, VictimBegin(t)
  PROVE  IInv'
<1> USE DEF VictimBegin
<1>1. TypeOK'
  BY MaxVersionType, FrameCount DEF IInv, TypeOK, LocalsInv, PCs, PTE
<1>2. LocalsInv'
  BY DEF IInv, TypeOK, LocalsInv
<1>3. VictimInv'
  BY ConstantsDistinct DEF IInv, TypeOK, LocalsInv, VictimInv, Scanning,
     LocksVictim, VictimPage
<1>4. FrameInv'
  BY DEF IInv, TypeOK, LocalsInv, FrameInv, Filling
<1>5. MappingInv'
  BY DEF IInv, TypeOK, LocalsInv, MappingInv, Loaded, Filling
<1>6. LockInv'
  BY DEF IInv, TypeOK, LocalsInv, LockInv, Loaded, Filling, LocksWanted,
     LocksVictim, VictimPage, FoundEmpty
<1>7. PhaseInv'
  BY DEF IInv, TypeOK, LocalsInv, PhaseInv, Filling, LockPage, Holds
<1>8. RefCountExact'
  <2>1. \A f \in Frames : Counted(f)' = Counted(f)
    BY DEF IInv, TypeOK, LocalsInv, Counted, Holds
  <2> QED
    BY <2>1 DEF IInv, TypeOK, RefCountExact
<1> QED BY <1>1, <1>2, <1>3, <1>4, <1>5, <1>6, <1>7, <1>8 DEF IInv

\* Looking at a frame of the list preserves IInv.
LEMMA VictimScanInv ==
  ASSUME IInv, NEW t \in Clients, VictimScan(t)
  PROVE  IInv'
<1> USE DEF VictimScan
<1>1. TypeOK'
  BY MaxVersionType, FrameCount DEF IInv, TypeOK, LocalsInv, PCs, PTE
<1>2. LocalsInv'
  BY DEF IInv, TypeOK, LocalsInv
<1>3. VictimInv'
  BY DEF IInv, TypeOK, LocalsInv, VictimInv, Scanning, LocksVictim,
     VictimPage
<1>4. FrameInv'
  BY DEF IInv, TypeOK, LocalsInv, FrameInv, Filling
<1>5. MappingInv'
  BY DEF IInv, TypeOK, LocalsInv, MappingInv, Loaded, Filling
<1>6. LockInv'
  BY DEF IInv, TypeOK, LocalsInv, LockInv, Loaded, Filling, LocksWanted,
     LocksVictim, VictimPage, FoundEmpty
<1>7. PhaseInv'
  BY DEF IInv, TypeOK, LocalsInv, PhaseInv, Filling, LockPage, Holds
<1>8. RefCountExact'
  <2>1. \A f \in Frames : Counted(f)' = Counted(f)
    BY DEF IInv, TypeOK, LocalsInv, Counted, Holds
  <2> QED
    BY <2>1 DEF IInv, TypeOK, RefCountExact
<1> QED BY <1>1, <1>2, <1>3, <1>4, <1>5, <1>6, <1>7, <1>8 DEF IInv

\* The end of a scan without a victim preserves IInv.
LEMMA VictimExhaustedInv ==
  ASSUME IInv, NEW t \in Clients, VictimExhausted(t)
  PROVE  IInv'
<1> USE DEF VictimExhausted
<1>1. TypeOK'
  BY MaxVersionType, FrameCount DEF IInv, TypeOK, LocalsInv, PCs, PTE
<1>2. LocalsInv'
  BY DEF IInv, TypeOK, LocalsInv
<1>3. VictimInv'
  BY DEF IInv, TypeOK, LocalsInv, VictimInv, Scanning, LocksVictim,
     VictimPage
<1>4. FrameInv'
  BY DEF IInv, TypeOK, LocalsInv, FrameInv, Filling
<1>5. MappingInv'
  BY DEF IInv, TypeOK, LocalsInv, MappingInv, Loaded, Filling
<1>6. LockInv'
  BY DEF IInv, TypeOK, LocalsInv, LockInv, Loaded, Filling, LocksWanted,
     LocksVictim, VictimPage, FoundEmpty
<1>7. PhaseInv'
  BY DEF IInv, TypeOK, LocalsInv, PhaseInv, Filling, LockPage, Holds
<1>8. RefCountExact'
  <2>1. \A f \in Frames : Counted(f)' = Counted(f)
    BY DEF IInv, TypeOK, LocalsInv, Counted, Holds
  <2> QED
    BY <2>1 DEF IInv, TypeOK, RefCountExact
<1> QED BY <1>1, <1>2, <1>3, <1>4, <1>5, <1>6, <1>7, <1>8 DEF IInv

\* Victim takes its candidate, whose frame is locked and out of every mapping.
LEMMA VictimCheckTakenInv ==
  ASSUME IInv, NEW t \in Clients, VictimCheck(t), pte[frm[t]].ref = 0
  PROVE  IInv'
<1>0. PICK f \in Frames : f = lfr[t] /\ f = frm[t]
  BY DEF VictimCheck, IInv, LocalsInv, VictimInv, LocksVictim
<1>a. /\ pc[t] = "check" /\ op[t] = "victim"
      /\ latch = t /\ f \in list
      /\ pte[f].init /\ pte[f].busy /\ pte[f].page = LockPage(t)
      /\ \A q \in Pages : mapping[q] # f
  <2>1. pc[t] = "check" /\ op[t] = "victim"
    BY DEF VictimCheck, IInv, LocalsInv
  <2>2. latch = t /\ pte[f].busy
    BY <1>0, <2>1 DEF IInv, VictimInv, Scanning, PhaseInv
  <2> QED BY <1>0, <2>1, <2>2, LockedFrame
<1>b. /\ pc' = [pc EXCEPT ![t] = "evict"]
      /\ list' = list \ {f}
      /\ latch' = None
      /\ tries' = 0
      /\ op' = [op EXCEPT ![t] = "fetch"]
      /\ snap' = [snap EXCEPT ![t] = None]
      /\ lfr' = [lfr EXCEPT ![t] = None]
      /\ UNCHANGED <<mapping, pte, free, mem, disk, want, frm>>
  BY <1>0, <1>a, ConstantsDistinct DEF VictimCheck
<1>1. TypeOK'
  BY <1>b, FrameCount DEF IInv, TypeOK, PCs
<1>2. LocalsInv'
  BY <1>0, <1>a, <1>b DEF IInv, TypeOK, LocalsInv
<1>3. VictimInv'
  BY <1>a, <1>b DEF IInv, TypeOK, LocalsInv, VictimInv, Scanning, LocksVictim,
     VictimPage
<1>c. \A u \in Clients : Filling(u)' <=> Filling(u)
  BY <1>a, <1>b DEF IInv, TypeOK, Filling
<1>4. FrameInv'
  BY <1>b, <1>c DEF IInv, FrameInv
<1>d. \A g \in Frames : Loaded(g)' <=> Loaded(g)
  BY <1>b, <1>c DEF Loaded
<1>5. MappingInv'
  BY <1>a, <1>b, <1>d DEF IInv, MappingInv
<1>6. LockInv'
  <2>1. \A u \in Clients : /\ LocksVictim(u)' <=> LocksVictim(u)
                           /\ LocksWanted(u)' <=> LocksWanted(u)
                           /\ FoundEmpty(u)' <=> FoundEmpty(u)
    BY <1>a, <1>b DEF IInv, TypeOK, LocksVictim, LocksWanted, FoundEmpty
  <2>2. \A u \in Clients : VictimPage(u)' = VictimPage(u)
    BY <1>b DEF VictimPage
  <2> QED BY <1>b, <1>d, <2>1, <2>2 DEF IInv, LockInv
<1>7. PhaseInv'
  <2>1. \A u \in Clients \ {t} :
          /\ LockPage(u)' = LockPage(u)
          /\ pc'[u] = pc[u]
          /\ lfr'[u] = lfr[u]
    BY <1>b DEF IInv, TypeOK, LockPage
  <2>2. \A u \in Clients \ {t} :
          pc[u] \in LockSteps \cup {"fwrite"} => lfr[u] # f
    BY <1>0, <1>a, SameLock, LockedFrame
  <2>3. \A u \in Clients : pc[u] = "publish" => frm[u] # f
    BY <1>a DEF IInv, PhaseInv
  <2>4. f \notin free /\ \A u \in Clients : Filling(u) => frm[u] # f
    BY <1>a DEF IInv, FrameInv
  <2>5. pc'[t] = "evict" /\ frm[t] = f
    BY <1>0, <1>b DEF IInv, TypeOK
  <2> QED BY <1>a, <1>b, <1>c, <2>1, <2>2, <2>3, <2>4, <2>5
          DEF IInv, LocalsInv, PhaseInv, Holds
<1>8. RefCountExact'
  <2>1. \A g \in Frames : Counted(g)' = Counted(g)
    BY <1>a, <1>b DEF IInv, TypeOK, Counted, Holds
  <2> QED BY <1>b, <2>1 DEF IInv, RefCountExact
<1> QED BY <1>1, <1>2, <1>3, <1>4, <1>5, <1>6, <1>7, <1>8 DEF IInv

\* Victim refuses its candidate and goes on to unlock it.
LEMMA VictimCheckNotTakenInv ==
  ASSUME IInv, NEW t \in Clients, VictimCheck(t), pte[frm[t]].ref # 0
  PROVE  IInv'
<1>a. /\ pc[t] = "check" /\ op[t] = "victim"
      /\ lfr[t] = frm[t] /\ frm[t] \in list /\ frm[t] \in Frames
      /\ lfr[t] # Empty
      /\ snap[t] = pte[frm[t]].page
      /\ pte[frm[t]].init /\ pte[frm[t]].busy
  BY ConstantsDistinct DEF VictimCheck, IInv, TypeOK, LocalsInv, VictimInv,
     Scanning, LockSteps, LocksVictim, VictimPage, FrameInv, PhaseInv
<1>b. /\ pc' = [pc EXCEPT ![t] = "unlock"]
      /\ snap' = snap
      /\ UNCHANGED <<mapping, pte, free, list, latch, tries, mem, disk, op,
                     want, frm, lfr>>
  <2>1. snap' = [snap EXCEPT ![t] = pte[frm[t]].page]
    BY <1>a DEF VictimCheck
  <2>2. snap' = snap
    BY <1>a, <2>1 DEF IInv, TypeOK
  <2> QED BY <1>a, <2>2 DEF VictimCheck, table, data
<1>c. \A u \in Clients : pc'[u] = IF u = t THEN "unlock" ELSE pc[u]
  BY <1>b DEF IInv, TypeOK
<1>1. TypeOK'
  BY <1>b DEF IInv, TypeOK, PCs
<1>2. LocalsInv'
  BY <1>a, <1>b, <1>c DEF IInv, LocalsInv, LockSteps
<1>3. VictimInv'
  BY <1>a, <1>b, <1>c DEF IInv, VictimInv, Scanning, LocksVictim, LockSteps,
     VictimPage
<1>d. \A g \in Frames : Loaded(g)' <=> Loaded(g)
  BY <1>a, <1>b, <1>c DEF Loaded, Filling
<1>4. FrameInv'
  BY <1>a, <1>b, <1>c DEF IInv, FrameInv, Filling
<1>5. MappingInv'
  BY <1>b, <1>d DEF IInv, MappingInv
<1>6. LockInv'
  <2>1. \A u \in Clients : /\ LocksWanted(u)' <=> LocksWanted(u)
                           /\ LocksVictim(u)' <=> LocksVictim(u)
                           /\ FoundEmpty(u)' <=> FoundEmpty(u)
                           /\ VictimPage(u)' = VictimPage(u)
    BY <1>a, <1>b, <1>c DEF LocksWanted, LocksVictim, FoundEmpty, VictimPage,
       LockSteps
  <2> QED BY <1>b, <1>d, <2>1 DEF IInv, LockInv
<1>7. PhaseInv'
  BY <1>a, <1>b, <1>c DEF IInv, PhaseInv, Filling, LockPage, Holds, LockSteps
<1>8. RefCountExact'
  <2>1. \A f \in Frames : Counted(f)' = Counted(f)
    BY <1>a, <1>b, <1>c DEF Counted, Holds
  <2> QED BY <1>b, <2>1 DEF IInv, RefCountExact
<1> QED BY <1>1, <1>2, <1>3, <1>4, <1>5, <1>6, <1>7, <1>8 DEF IInv

\* The write-back of the victim preserves IInv.
LEMMA EvictWriteInv ==
  ASSUME IInv, NEW t \in Clients, EvictWrite(t)
  PROVE  IInv'
<1> USE DEF EvictWrite
<1>1. TypeOK'
  BY MaxVersionType, FrameCount DEF IInv, TypeOK, LocalsInv, PCs, PTE
<1>2. LocalsInv'
  BY DEF IInv, TypeOK, LocalsInv
<1>3. VictimInv'
  BY DEF IInv, TypeOK, LocalsInv, VictimInv, Scanning, LocksVictim,
     VictimPage
<1>4. FrameInv'
  BY DEF IInv, TypeOK, LocalsInv, FrameInv, Filling
<1>5. MappingInv'
  BY DEF IInv, TypeOK, LocalsInv, MappingInv, Loaded, Filling
<1>6. LockInv'
  BY DEF IInv, TypeOK, LocalsInv, LockInv, Loaded, Filling, LocksWanted,
     LocksVictim, VictimPage, FoundEmpty
<1>7. PhaseInv'
  BY DEF IInv, TypeOK, LocalsInv, PhaseInv, Filling, LockPage, Holds
<1>8. RefCountExact'
  <2>1. \A f \in Frames : Counted(f)' = Counted(f)
    BY DEF IInv, TypeOK, LocalsInv, Counted, Holds
  <2> QED
    BY <2>1 DEF IInv, TypeOK, RefCountExact
<1> QED BY <1>1, <1>2, <1>3, <1>4, <1>5, <1>6, <1>7, <1>8 DEF IInv

\* DeleteMapping of the victim preserves IInv: its mapping is Busy.
LEMMA EvictUnmapInv ==
  ASSUME IInv, NEW t \in Clients, EvictUnmap(t)
  PROVE  IInv'
<1> USE DEF EvictUnmap, DeleteMapping, CreateMapping
<1>1. TypeOK'
  BY MaxVersionType, FrameCount, ConstantsDistinct DEF IInv, TypeOK,
     LocalsInv, PCs, PTE
<1>2. LocalsInv'
  BY ConstantsDistinct DEF IInv, TypeOK, LocalsInv, LockInv, LocksVictim,
     VictimPage
<1>3. VictimInv'
  BY ConstantsDistinct DEF IInv, TypeOK, LocalsInv, VictimInv, Scanning,
     LocksVictim, VictimPage
<1>4. FrameInv'
  BY ConstantsDistinct DEF IInv, TypeOK, LocalsInv, FrameInv, Filling,
     PhaseInv
<1>5. MappingInv'
  <2>1. PICK f \in Frames : f = frm[t] /\ pte[f].init
    BY DEF IInv, TypeOK, LocalsInv, PhaseInv
  <2>2. PICK p \in Pages : p = pte[f].page
    BY <2>1 DEF IInv, FrameInv
  <2>3. mapping[p] = Busy /\ Loaded(f)
    BY <2>1, <2>2 DEF IInv, LockInv, LocksVictim, VictimPage, PhaseInv, Loaded
  <2>4. mapping' = [mapping EXCEPT ![p] = Empty] /\ UNCHANGED <<pte, list>>
    BY <2>1, <2>2, <2>3 DEF pool
  <2>5. \A g \in Frames : Loaded(g)' => Loaded(g) /\ g # f
    BY <2>1, <2>2, <2>3 DEF IInv, TypeOK, Loaded, Filling
  <2>6. \A g \in Frames : Loaded(g)' => pte[g].page \in Pages \ {p}
    BY <2>2, <2>3, <2>5 DEF IInv, MappingInv, FrameInv, Loaded
  <2>7. \A q \in Pages : mapping'[q] = IF q = p THEN Empty ELSE mapping[q]
    BY <2>4 DEF IInv, TypeOK
  <2> QED BY <2>4, <2>5, <2>6, <2>7, ConstantsDistinct DEF IInv, MappingInv
<1>6. LockInv'
  BY ConstantsDistinct DEF IInv, TypeOK, LocalsInv, LockInv, Loaded,
     Filling, LocksWanted, LocksVictim, VictimPage, FoundEmpty, PhaseInv,
     FrameInv
<1>7. PhaseInv'
  BY ConstantsDistinct DEF IInv, TypeOK, LocalsInv, PhaseInv, Filling,
     LockPage, Holds, LockInv, LocksVictim, VictimPage
<1>8. RefCountExact'
  <2>1. \A f \in Frames : Counted(f)' = Counted(f)
    BY DEF IInv, TypeOK, LocalsInv, Counted, Holds
  <2> QED
    BY <2>1 DEF IInv, TypeOK, RefCountExact
<1> QED BY <1>1, <1>2, <1>3, <1>4, <1>5, <1>6, <1>7, <1>8 DEF IInv

\* Reading the page into the frame preserves IInv.
LEMMA LoadReadInv ==
  ASSUME IInv, NEW t \in Clients, LoadRead(t)
  PROVE  IInv'
<1> USE DEF LoadRead
<1>1. TypeOK'
  BY MaxVersionType, FrameCount DEF IInv, TypeOK, LocalsInv, PCs, PTE
<1>2. LocalsInv'
  BY DEF IInv, TypeOK, LocalsInv
<1>3. VictimInv'
  BY DEF IInv, TypeOK, LocalsInv, VictimInv, Scanning, LocksVictim,
     VictimPage
<1>4. FrameInv'
  BY DEF IInv, TypeOK, LocalsInv, FrameInv, Filling
<1>5. MappingInv'
  BY DEF IInv, TypeOK, LocalsInv, MappingInv, Loaded, Filling
<1>6. LockInv'
  BY DEF IInv, TypeOK, LocalsInv, LockInv, Loaded, Filling, LocksWanted,
     LocksVictim, VictimPage, FoundEmpty
<1>7. PhaseInv'
  BY DEF IInv, TypeOK, LocalsInv, PhaseInv, Filling, LockPage, Holds
<1>8. RefCountExact'
  <2>1. \A f \in Frames : Counted(f)' = Counted(f)
    BY DEF IInv, TypeOK, LocalsInv, Counted, Holds
  <2> QED
    BY <2>1 DEF IInv, TypeOK, RefCountExact
<1> QED BY <1>1, <1>2, <1>3, <1>4, <1>5, <1>6, <1>7, <1>8 DEF IInv

\* The store of the new PTE preserves IInv: the loader is its one reference.
LEMMA LoadStoreInv ==
  ASSUME IInv, NEW t \in Clients, LoadStore(t)
  PROVE  IInv'
<1> USE DEF LoadStore, LoadedPTE
<1>1. TypeOK'
  BY MaxVersionType, FrameCount DEF IInv, TypeOK, LocalsInv, PCs, PTE
<1>2. LocalsInv'
  BY DEF IInv, TypeOK, LocalsInv
<1>3. VictimInv'
  BY DEF IInv, TypeOK, LocalsInv, VictimInv, Scanning, LocksVictim,
     VictimPage, FrameInv, Filling
<1>4. FrameInv'
  BY DEF IInv, TypeOK, LocalsInv, FrameInv, Filling
<1>5. MappingInv'
  BY DEF IInv, TypeOK, LocalsInv, MappingInv, Loaded, Filling, FrameInv,
     LockInv, LocksWanted, FoundEmpty
<1>6. LockInv'
  BY DEF IInv, TypeOK, LocalsInv, LockInv, Loaded, Filling, LocksWanted,
     LocksVictim, VictimPage, FoundEmpty, FrameInv, PhaseInv, VictimInv,
     Scanning
<1>7. PhaseInv'
  BY DEF IInv, TypeOK, LocalsInv, PhaseInv, Filling, LockPage, Holds,
     FrameInv
<1>8. RefCountExact'
  <2> DEFINE f == frm[t]
  <2>1. f \in Frames /\ (pte[f].busy \/ ~pte[f].init)
    BY DEF IInv, LocalsInv, FrameInv, Filling
  <2>2. \A g \in Frames \ {f} : Counted(g)' = Counted(g)
    BY DEF IInv, TypeOK, Counted, Holds
  <2>3. Counted(f) = {}
    BY <2>1 DEF IInv, LocalsInv, PhaseInv, Counted, RefCountExact
  <2>4. Counted(f)' = {t}
    BY <2>1, <2>3 DEF IInv, TypeOK, Counted, Holds
  <2> QED
    BY <2>1, <2>2, <2>4, FS_Singleton DEF IInv, TypeOK, RefCountExact
<1> QED BY <1>1, <1>2, <1>3, <1>4, <1>5, <1>6, <1>7, <1>8 DEF IInv

\* Insert into the replacer preserves IInv.
LEMMA LoadInsertInv ==
  ASSUME IInv, NEW t \in Clients, LoadInsert(t)
  PROVE  IInv'
<1> USE DEF LoadInsert
<1>1. TypeOK'
  BY MaxVersionType, FrameCount, ConstantsDistinct DEF IInv, TypeOK,
     LocalsInv, PCs, PTE
<1>2. LocalsInv'
  BY ConstantsDistinct DEF IInv, TypeOK, LocalsInv
<1>3. VictimInv'
  BY ConstantsDistinct DEF IInv, TypeOK, LocalsInv, VictimInv, Scanning,
     LocksVictim, VictimPage
<1>4. FrameInv'
  BY ConstantsDistinct DEF IInv, TypeOK, LocalsInv, FrameInv, Filling,
     PhaseInv
<1>5. MappingInv'
  BY ConstantsDistinct DEF IInv, TypeOK, LocalsInv, MappingInv, Loaded,
     Filling
<1>6. LockInv'
  BY ConstantsDistinct DEF IInv, TypeOK, LocalsInv, LockInv, Loaded,
     Filling, LocksWanted, LocksVictim, VictimPage, FoundEmpty
<1>7. PhaseInv'
  BY ConstantsDistinct DEF IInv, TypeOK, LocalsInv, PhaseInv, Filling,
     LockPage, Holds, VictimInv, LockInv, LocksWanted
<1>8. RefCountExact'
  <2>1. \A f \in Frames : Counted(f)' = Counted(f)
    BY DEF IInv, TypeOK, LocalsInv, Counted, Holds
  <2> QED
    BY <2>1 DEF IInv, TypeOK, RefCountExact
<1> QED BY <1>1, <1>2, <1>3, <1>4, <1>5, <1>6, <1>7, <1>8 DEF IInv

\* CreateMapping of the loaded page preserves IInv: its mapping is Busy.
LEMMA LoadPublishInv ==
  ASSUME IInv, NEW t \in Clients, LoadPublish(t)
  PROVE  IInv'
<1> USE DEF LoadPublish, CreateMapping
<1>1. TypeOK'
  BY MaxVersionType, FrameCount, ConstantsDistinct DEF IInv, TypeOK,
     LocalsInv, PCs, PTE
<1>2. LocalsInv'
  BY ConstantsDistinct DEF IInv, TypeOK, LocalsInv, LockInv, LocksWanted
<1>3. VictimInv'
  BY ConstantsDistinct DEF IInv, TypeOK, LocalsInv, VictimInv, Scanning,
     LocksVictim, VictimPage
<1>4. FrameInv'
  BY ConstantsDistinct DEF IInv, TypeOK, LocalsInv, FrameInv, Filling
<1>5. MappingInv'
  BY ConstantsDistinct DEF IInv, TypeOK, LocalsInv, MappingInv, Loaded,
     Filling, PhaseInv, FrameInv
<1>6. LockInv'
  BY ConstantsDistinct DEF IInv, TypeOK, LocalsInv, LockInv, Loaded,
     Filling, LocksWanted, LocksVictim, VictimPage, FoundEmpty
<1>7. PhaseInv'
  BY ConstantsDistinct DEF IInv, TypeOK, LocalsInv, PhaseInv, Filling,
     LockPage, Holds
<1>8. RefCountExact'
  <2>1. \A f \in Frames : Counted(f)' = Counted(f)
    BY DEF IInv, TypeOK, LocalsInv, Counted, Holds, LockInv, LocksWanted
  <2> QED
    BY <2>1 DEF IInv, TypeOK, RefCountExact
<1> QED BY <1>1, <1>2, <1>3, <1>4, <1>5, <1>6, <1>7, <1>8 DEF IInv

\* Writing into a held page preserves IInv.
LEMMA WritePageInv ==
  ASSUME IInv, NEW t \in Clients, WritePage(t)
  PROVE  IInv'
<1> USE DEF WritePage
<1>1. TypeOK'
  BY MaxVersionType, FrameCount DEF IInv, TypeOK, LocalsInv, PCs, PTE
<1>2. LocalsInv'
  BY DEF IInv, TypeOK, LocalsInv
<1>3. VictimInv'
  BY DEF IInv, TypeOK, LocalsInv, VictimInv, Scanning, LocksVictim,
     VictimPage
<1>4. FrameInv'
  BY DEF IInv, TypeOK, LocalsInv, FrameInv, Filling
<1>5. MappingInv'
  BY DEF IInv, TypeOK, LocalsInv, MappingInv, Loaded, Filling
<1>6. LockInv'
  BY DEF IInv, TypeOK, LocalsInv, LockInv, Loaded, Filling, LocksWanted,
     LocksVictim, VictimPage, FoundEmpty
<1>7. PhaseInv'
  BY DEF IInv, TypeOK, LocalsInv, PhaseInv, Filling, LockPage, Holds
<1>8. RefCountExact'
  <2>1. \A f \in Frames : Counted(f)' = Counted(f)
    BY DEF IInv, TypeOK, LocalsInv, Counted, Holds
  <2> QED
    BY <2>1 DEF IInv, TypeOK, RefCountExact
<1> QED BY <1>1, <1>2, <1>3, <1>4, <1>5, <1>6, <1>7, <1>8 DEF IInv

\* Marking a held page dirty preserves IInv.
LEMMA MarkDirtyInv ==
  ASSUME IInv, NEW t \in Clients, MarkDirty(t)
  PROVE  IInv'
<1> USE DEF MarkDirty
<1>1. TypeOK'
  <2>1. pte' \in [Frames -> PTE]
    BY PteUpdate DEF IInv, TypeOK, LocalsInv
  <2> QED
    BY <2>1, MaxVersionType, FrameCount DEF IInv, TypeOK, LocalsInv, PCs
<1>2. LocalsInv'
  BY DEF IInv, TypeOK, LocalsInv
<1>3. VictimInv'
  BY DEF IInv, TypeOK, LocalsInv, VictimInv, Scanning, LocksVictim,
     VictimPage
<1>4. FrameInv'
  BY DEF IInv, TypeOK, LocalsInv, FrameInv, Filling, PhaseInv, Holds
<1>5. MappingInv'
  BY DEF IInv, TypeOK, LocalsInv, MappingInv, Loaded, Filling
<1>6. LockInv'
  BY DEF IInv, TypeOK, LocalsInv, LockInv, Loaded, Filling, LocksWanted,
     LocksVictim, VictimPage, FoundEmpty
<1>7. PhaseInv'
  BY DEF IInv, TypeOK, LocalsInv, PhaseInv, Filling, LockPage, Holds
<1>8. RefCountExact'
  <2>1. \A f \in Frames : Counted(f)' = Counted(f)
    BY DEF IInv, TypeOK, LocalsInv, Counted, Holds
  <2> QED
    BY <2>1 DEF IInv, TypeOK, RefCountExact
<1> QED BY <1>1, <1>2, <1>3, <1>4, <1>5, <1>6, <1>7, <1>8 DEF IInv

\* DecRefCount preserves IInv: one reference less, one client less.
LEMMA DecRefCountInv ==
  ASSUME IInv, NEW t \in Clients, DecRefCount(t)
  PROVE  IInv'
<1> USE DEF DecRefCount, Return
<1>1. TypeOK'
  <2>1. pte' \in [Frames -> PTE]
    <3>1. frm[t] \in Frames /\ pte[frm[t]] \in PTE
      BY DEF IInv, TypeOK, LocalsInv
    <3>2. [pte[frm[t]] EXCEPT !.ref = pte[frm[t]].ref - 1] \in PTE
      BY <3>1 DEF PTE
    <3> QED BY <3>1, <3>2 DEF IInv, TypeOK
  <2> QED
    BY <2>1, MaxVersionType, FrameCount DEF IInv, TypeOK, LocalsInv, PCs
<1>2. LocalsInv'
  BY DEF IInv, TypeOK, LocalsInv
<1>3. VictimInv'
  BY DEF IInv, TypeOK, LocalsInv, VictimInv, Scanning, LocksVictim,
     VictimPage
<1>4. FrameInv'
  BY DEF IInv, TypeOK, LocalsInv, FrameInv, Filling, PhaseInv, Holds
<1>5. MappingInv'
  BY DEF IInv, TypeOK, LocalsInv, MappingInv, Loaded, Filling
<1>6. LockInv'
  BY DEF IInv, TypeOK, LocalsInv, LockInv, Loaded, Filling, LocksWanted,
     LocksVictim, VictimPage, FoundEmpty
<1>7. PhaseInv'
  BY DEF IInv, TypeOK, LocalsInv, PhaseInv, Filling, LockPage, Holds
<1>8. RefCountExact'
  <2>1. PICK f \in Frames : f = frm[t] /\ t \in Counted(f)
    BY DEF IInv, LocalsInv, Counted, Holds
  <2>2. \A g \in Frames \ {f} : Counted(g)' = Counted(g)
    BY <2>1 DEF IInv, TypeOK, Counted, Holds
  <2>3. Counted(f)' = Counted(f) \ {t}
    BY <2>1, ConstantsDistinct DEF IInv, TypeOK, Counted, Holds
  <2>4. Cardinality(Counted(f)') = Cardinality(Counted(f)) - 1
    BY <2>1, <2>3, CountedFinite, FS_RemoveElement
  <2>5. ~pte[f].busy
    BY <2>1, CountedMeansPositive DEF IInv
  <2> QED BY <2>1, <2>2, <2>4, <2>5 DEF IInv, TypeOK, RefCountExact, PTE
<1> QED BY <1>1, <1>2, <1>3, <1>4, <1>5, <1>6, <1>7, <1>8 DEF IInv

\* FlushPage without delete_from_memory preserves IInv, the lock it leaves
\* behind included.
LEMMA FlushWriteInv ==
  ASSUME IInv, NEW t \in Clients, FlushWrite(t), NoDelete
  PROVE  IInv'
<1>0. PICK f \in Frames : f = lfr[t]
  BY DEF FlushWrite, IInv, LocalsInv
<1>a. /\ pc[t] = "fwrite" /\ op[t] = "flush"
      /\ pte[f] \in PTE
      /\ want[t] \in Pages
  BY DEF FlushWrite, IInv, LocalsInv, TypeOK
<1>b. /\ pte' = [pte EXCEPT ![f].dirty = FALSE]
      /\ disk' = disk \/ disk' = [disk EXCEPT ![want[t]] = mem[f]]
      /\ pc' = [pc EXCEPT ![t] = "idle"]
      /\ op' = [op EXCEPT ![t] = "fetch"]
      /\ want' = [want EXCEPT ![t] = None]
      /\ frm' = [frm EXCEPT ![t] = None]
      /\ snap' = [snap EXCEPT ![t] = None]
      /\ lfr' = [lfr EXCEPT ![t] = None]
      /\ UNCHANGED <<mapping, free, list, latch, tries, mem>>
  BY <1>0 DEF FlushWrite, Return, NoDelete
<1>c. \A g \in Frames : /\ pte'[g].page = pte[g].page
                        /\ pte'[g].init = pte[g].init
                        /\ pte'[g].ref = pte[g].ref
                        /\ pte'[g].busy = pte[g].busy
  BY <1>b DEF IInv, TypeOK, PTE
<1>d. /\ pc'[t] = "idle" /\ op'[t] = "fetch"
      /\ \A u \in Clients \ {t} :
           /\ pc'[u] = pc[u] /\ op'[u] = op[u] /\ want'[u] = want[u]
           /\ frm'[u] = frm[u] /\ snap'[u] = snap[u] /\ lfr'[u] = lfr[u]
  BY <1>b DEF IInv, TypeOK
<1>1. TypeOK'
  <2>1. [pte[f] EXCEPT !.dirty = FALSE] \in PTE
    BY <1>a, PteUpdate
  <2>2. pte' \in [Frames -> PTE]
    BY <1>b, <2>1 DEF IInv, TypeOK
  <2>3. disk' \in [Pages -> 0 .. MaxVersion]
    BY <1>b DEF IInv, TypeOK
  <2> QED BY <1>b, <2>2, <2>3 DEF IInv, TypeOK, PCs
<1>2. LocalsInv'
  BY <1>d DEF IInv, LocalsInv
<1>e. \A u \in Clients :
        LocksVictim(u)' \/ Scanning(u)' \/ Filling(u)' =>
          /\ u # t
          /\ frm[u] \in Frames
          /\ frm'[u] = frm[u]
          /\ VictimPage(u)' = VictimPage(u)
  BY <1>b, <1>c, <1>d DEF IInv, TypeOK, LocalsInv, VictimInv, Scanning,
     LocksVictim, VictimPage, Filling
<1>3. VictimInv'
  BY <1>b, <1>d, <1>e DEF IInv, VictimInv, Scanning, LocksVictim
<1>f. \A u \in Clients : Filling(u)' <=> Filling(u) /\ u # t
  BY <1>a, <1>d DEF Filling
<1>4. FrameInv'
  BY <1>a, <1>b, <1>c, <1>e, <1>f DEF IInv, TypeOK, FrameInv, Filling
<1>g. \A g \in Frames : Loaded(g)' <=> Loaded(g)
  BY <1>a, <1>c, <1>d DEF Loaded, Filling
<1>5. MappingInv'
  BY <1>b, <1>c, <1>g DEF IInv, MappingInv
<1>6. LockInv'
  <2>1. \A u \in Clients : LocksWanted(u)' \/ FoundEmpty(u)'
       => want'[u] = want[u]
    BY <1>d DEF LocksWanted, FoundEmpty
  <2>2. \A u \in Clients : /\ LocksWanted(u)' => LocksWanted(u)
                           /\ LocksVictim(u)' => LocksVictim(u)
                           /\ FoundEmpty(u)' => FoundEmpty(u)
    BY <1>d DEF LocksWanted, LocksVictim, FoundEmpty
  <2> QED BY <1>b, <1>c, <1>e, <1>g, <2>1, <2>2 DEF IInv, LockInv
<1>7. PhaseInv'
  BY <1>b, <1>c, <1>d
     DEF IInv, TypeOK, LocalsInv, PhaseInv, Filling, LockPage, Holds
<1>8. RefCountExact'
  <2>1. \A g \in Frames : Counted(g)' = Counted(g)
    BY <1>a, <1>d DEF Counted, Holds
  <2> QED BY <1>c, <2>1 DEF IInv, RefCountExact
<1> QED BY <1>1, <1>2, <1>3, <1>4, <1>5, <1>6, <1>7, <1>8 DEF IInv

-----------------------------------------------------------------------------
(* Every step preserves IInv. *)

\* Every disjunct of Next is covered by the lemmas above, or cannot happen
\* without "delete": FlushDelete and FlushPush.
LEMMA NextIInv ==
  ASSUME NoDelete, IInv, [Next]_vars
  PROVE  IInv'
<1>1. ASSUME NEW t \in Clients, Step(t) PROVE IInv'
  <2>1. CASE LockMapping(t)
    <3>1. mapping[LockPage(t)] \in Frames \cup {Empty, Busy}
      BY <2>1, LockMappingPage DEF LockMapping, IInv, TypeOK
    <3> QED BY <2>1, <3>1, LockMappingBusyInv, LockMappingEmptyInv,
               LockMappingFoundInv
  <2>2. CASE LockPte(t)
    BY <2>2, LockPteOkInv, LockPteFailsInv
  <2>3. CASE VictimCheck(t)
    BY <2>3, VictimCheckTakenInv, VictimCheckNotTakenInv
  <2>4. ~FlushDelete(t) /\ ~FlushPush(t)
    BY DEF FlushDelete, FlushPush, IInv, LocalsInv
  <2>5. CASE \/ FindMapping(t) \/ IncRefCount1(t) \/ UndoIncRefCount(t)
             \/ Relink(t) \/ UnLockPte(t) \/ UnLockMapping(t)
    BY <2>5, FindMappingInv, IncRefCount1Inv, UndoIncRefCountInv, RelinkInv,
       UnLockPteInv, UnLockMappingInv
  <2>6. CASE \/ Poll(t) \/ PollFails(t) \/ VictimBegin(t) \/ VictimScan(t)
             \/ VictimExhausted(t) \/ EvictWrite(t) \/ EvictUnmap(t)
    BY <2>6, PollInv, PollFailsInv, VictimBeginInv, VictimScanInv,
       VictimExhaustedInv, EvictWriteInv, EvictUnmapInv
  <2>7. CASE \/ LoadRead(t) \/ LoadStore(t) \/ LoadInsert(t) \/ LoadPublish(t)
             \/ MarkDirty(t) \/ FlushWrite(t)
    BY <2>7, LoadReadInv, LoadStoreInv, LoadInsertInv, LoadPublishInv,
       MarkDirtyInv, FlushWriteInv
  <2> QED BY <1>1, <2>1, <2>2, <2>3, <2>4, <2>5, <2>6, <2>7 DEF Step
<1>2. ASSUME NEW t \in Clients, Choice(t) PROVE IInv'
  BY <1>2, FetchPageSyncInv, FlushPageInv, WritePageInv, DecRefCountInv
     DEF Choice
<1>3. ASSUME UNCHANGED vars PROVE IInv'
  <2>1. IInv' <=> IInv
    BY <1>3 DEF vars, IInv, TypeOK, LocalsInv, VictimInv, Scanning,
       LocksVictim, VictimPage, FrameInv, Filling, MappingInv, Loaded, LockInv,
       LocksWanted, FoundEmpty, PhaseInv, LockPage, Holds, RefCountExact,
       Counted
  <2> QED BY <2>1
<1> QED BY <1>1, <1>2, <1>3 DEF Next, Halt

\* The only step that gives a frame's PTE to another page is the end of a
\* load, and the frame it loads is referenced by nobody.
LEMMA ReusedFrameUnreferenced ==
  ASSUME NoDelete, IInv, [Next]_vars, NEW f \in Frames,
         pte'[f].page # pte[f].page
  PROVE  Counted(f) = {}
<1>1. pte \in [Frames -> PTE]
  BY DEF IInv, TypeOK
<1>2. ASSUME NEW t \in Clients, LoadStore(t) PROVE Counted(f) = {}
  <2>1. frm[t] = f
    BY <1>1, <1>2 DEF LoadStore, IInv, LocalsInv
  <2>2. pte[f].busy \/ ~pte[f].init
    BY <1>2, <2>1 DEF LoadStore, IInv, FrameInv, Filling
  <2> QED BY <2>2 DEF IInv, PhaseInv, Counted, RefCountExact
<1>3. ASSUME NEW t \in Clients, Step(t), ~LoadStore(t) PROVE FALSE
  <2>1. CASE \/ IncRefCount1(t) \/ UndoIncRefCount(t) \/ MarkDirty(t)
             \/ LockPte(t) \/ FlushWrite(t)
    BY <1>1, <2>1 DEF IncRefCount1, UndoIncRefCount, MarkDirty, LockPte,
       FlushWrite, PTE, IInv, LocalsInv
  <2>2. CASE UnLockPte(t)
    BY <1>1, <2>2 DEF UnLockPte, UnLocked, PTE
  <2>3. CASE pte' = pte
    BY <2>3
  <2> QED BY <1>3, <2>1, <2>2, <2>3
      DEF Step, FindMapping, LockMapping, Relink, UnLockMapping, Poll,
          PollFails, VictimBegin, VictimScan, VictimExhausted, VictimCheck,
          EvictWrite, EvictUnmap, LoadRead, LoadInsert, LoadPublish,
          FlushDelete, FlushPush
<1>4. ASSUME NEW t \in Clients, Choice(t) PROVE FALSE
  BY <1>1, <1>4 DEF Choice, FetchPageSync, FlushPage, WritePage, DecRefCount,
     PTE
<1>5. ~UNCHANGED vars
  BY DEF vars
<1> QED BY <1>2, <1>3, <1>4, <1>5 DEF Next, Halt

\* A frame leaves the free list and the replacer's list only with the client
\* that took it, and that client ends by linking it.
LEMMA NextNoFrameLost ==
  ASSUME NoDelete, IInv, NoFrameLost, [Next]_vars
  PROVE  NoFrameLost'
<1> DEFINE Carrying == {"evict", "evdel", "load", "store", "insert"}
<1>0. IInv'
  BY NextIInv
<1>1. \A t \in Clients : pc[t] \in Carrying => frm[t] \in Frames
  BY DEF IInv, LocalsInv
<1>a. ASSUME UNCHANGED <<free, list>>,
             \A t \in Clients : pc[t] \in Carrying =>
               pc'[t] \in Carrying /\ frm'[t] = frm[t]
      PROVE  NoFrameLost'
  BY <1>a DEF NoFrameLost
<1>2. ASSUME NEW t \in Clients, Poll(t) PROVE NoFrameLost'
  BY <1>2 DEF Poll, NoFrameLost, IInv, TypeOK
<1>3. ASSUME NEW t \in Clients, VictimCheck(t) PROVE NoFrameLost'
  BY <1>3 DEF VictimCheck, NoFrameLost, IInv, TypeOK
<1>4. ASSUME NEW t \in Clients, LoadInsert(t) PROVE NoFrameLost'
  BY <1>4 DEF LoadInsert, NoFrameLost, IInv, TypeOK
<1>5. ASSUME NEW t \in Clients,
             EvictWrite(t) \/ EvictUnmap(t) \/ LoadRead(t) \/ LoadStore(t)
      PROVE  NoFrameLost'
  <2>1. pc'[t] \in Carrying
    BY <1>0, <1>5 DEF EvictWrite, EvictUnmap, LoadRead, LoadStore, IInv,
       TypeOK, LocalsInv
  <2> QED BY <1>5, <1>a, <2>1 DEF EvictWrite, EvictUnmap, LoadRead, LoadStore,
          IInv, TypeOK
<1>6. ASSUME NEW t \in Clients,
             \/ FindMapping(t) \/ IncRefCount1(t) \/ UndoIncRefCount(t)
             \/ LockPte(t) \/ UnLockPte(t) \/ PollFails(t) \/ VictimBegin(t)
             \/ VictimScan(t) \/ VictimExhausted(t) \/ LoadPublish(t)
             \/ MarkDirty(t) \/ WritePage(t)
      PROVE  NoFrameLost'
  <2>1. UNCHANGED <<free, list>> /\ pc[t] \notin Carrying
    BY <1>6 DEF FindMapping, IncRefCount1, UndoIncRefCount, LockPte,
       UnLockPte, PollFails, VictimBegin, VictimScan, VictimExhausted,
       LoadPublish, MarkDirty, WritePage
  <2>2. \A u \in Clients \ {t} : pc'[u] = pc[u] /\ frm'[u] = frm[u]
    BY <1>6 DEF FindMapping, IncRefCount1, UndoIncRefCount, LockPte,
       UnLockPte, PollFails, VictimBegin, VictimScan, VictimExhausted,
       LoadPublish, MarkDirty, WritePage, IInv, TypeOK
  <2> QED BY <1>a, <2>1, <2>2
<1>7. ASSUME NEW t \in Clients,
             \/ LockMapping(t) \/ Relink(t) \/ UnLockMapping(t)
             \/ FlushWrite(t) \/ DecRefCount(t)
             \/ \E p \in Pages : FetchPageSync(t, p) \/ FlushPage(t, p)
      PROVE  NoFrameLost'
  <2>1. UNCHANGED <<free, list>> /\ pc[t] \notin Carrying
    BY <1>7 DEF LockMapping, Relink, UnLockMapping, FlushWrite, DecRefCount,
       FetchPageSync, FlushPage
  <2>2. \A u \in Clients \ {t} : pc'[u] = pc[u] /\ frm'[u] = frm[u]
    BY <1>7 DEF LockMapping, Relink, UnLockMapping, FlushWrite, DecRefCount,
       FetchPageSync, FlushPage, Retry, Return, IInv, TypeOK
  <2> QED BY <1>a, <2>1, <2>2
<1>8. ASSUME UNCHANGED vars PROVE NoFrameLost'
  BY <1>8 DEF vars, NoFrameLost
<1>9. \A t \in Clients : ~FlushDelete(t) /\ ~FlushPush(t)
  BY DEF FlushDelete, FlushPush, IInv, LocalsInv
<1> QED BY <1>2, <1>3, <1>4, <1>5, <1>6, <1>7, <1>8, <1>9
     DEF Next, Halt, Step, Choice

-----------------------------------------------------------------------------
(* The theorems: what holds for any number of clients, pages and frames. *)

\* The inductive invariant holds in every reachable state of a pool whose
\* flushes keep the pages in memory.
THEOREM Invariance == NoDelete /\ Spec => []IInv
<1>1. ASSUME NoDelete PROVE Spec => []IInv
  <2>1. NoDelete
    BY <1>1
  <2>2. IInv /\ [Next]_vars => IInv'
    BY <2>1, NextIInv
  <2> QED BY <2>2, InitIInv, PTL DEF Spec
<1> QED BY <1>1

\* FetchPageSync, FlushPage and DecRefCount keep every variable in its type.
THEOREM TypeCorrect == NoDelete /\ Spec => []TypeOK
<1>1. IInv => TypeOK
  BY DEF IInv
<1> QED BY <1>1, Invariance, PTL

\* The ref_count of an unlocked PTE is exactly the number of references out
\* on the frame, however IncRefCount1, Lock and UnLock interleave.
THEOREM RefCountIsExact == NoDelete /\ Spec => []RefCountExact
<1>1. IInv => RefCountExact
  BY DEF IInv
<1> QED BY <1>1, Invariance, PTL

\* A page that FetchPageSync returned stays in its frame, unlocked and counted,
\* until the caller's DecRefCount.
THEOREM PinsAreSafe == NoDelete /\ Spec => []PinSafety
<1>1. IInv => PinSafety
  <2> SUFFICES ASSUME IInv, NEW t \in Clients, Holds(t)
               PROVE  /\ pte[frm[t]].page = want[t]
                      /\ pte[frm[t]].init
                      /\ ~pte[frm[t]].busy
                      /\ pte[frm[t]].ref > 0
    BY DEF PinSafety
  <2>1. frm[t] \in Frames /\ t \in Counted(frm[t])
    BY DEF IInv, LocalsInv, Holds, Counted
  <2>2. pte[frm[t]].ref > 0
    BY <2>1, CountedMeansPositive DEF IInv
  <2> QED BY <2>2 DEF IInv, PhaseInv
<1> QED BY <1>1, Invariance, PTL

\* No assert() on CreateMapping, DeleteMapping or UnLockMapping fails.
THEOREM AssertsHold == NoDelete /\ Spec => []NoAssertFails
<1>1. IInv => NoAssertFails
  BY DEF IInv, LocalsInv, NoAssertFails
<1> QED BY <1>1, Invariance, PTL

\* A page is in at most one frame, and a mapping names a frame only if that
\* frame has the page.
THEOREM PagesAreNotAliased == NoDelete /\ Spec => []NoAliasing
<1>1. IInv => NoAliasing
  <2> SUFFICES ASSUME IInv, NEW p \in Pages
               PROVE  /\ \A f, g \in Copies(p) : f = g
                      /\ mapping[p] \in Frames => mapping[p] \in Copies(p)
                      /\ mapping[p] = Empty => Copies(p) = {}
    BY DEF NoAliasing
  <2>1. \A f \in Frames : Resident(f) <=> Loaded(f)
    BY DEF IInv, LocalsInv, FrameInv, Resident, Loaded, Filling
  <2>2. \A f \in list : f \in Frames /\ Loaded(f)
    BY DEF IInv, TypeOK, FrameInv, Loaded
  <2> QED BY <2>1, <2>2, ConstantsDistinct DEF Copies, IInv, MappingInv
<1> QED BY <1>1, Invariance, PTL

\* No frame is lost to the pool: it is free, linked in the replacer, or with
\* the one client that is loading it.
THEOREM FramesAreKept == NoDelete /\ Spec => []NoFrameLost
<1>1. ASSUME NoDelete PROVE Spec => []NoFrameLost
  <2>1. NoDelete
    BY <1>1
  <2>2. Init => NoFrameLost
    BY DEF Init, NoFrameLost
  <2>3. IInv /\ NoFrameLost /\ [Next]_vars => NoFrameLost'
    BY <2>1, NextNoFrameLost
  <2> QED BY <2>1, <2>2, <2>3, Invariance, PTL DEF Spec
<1> QED BY <1>1

\* A frame is given to another page only when no reference to it is out.
THEOREM FramesAreNotReusedInUse == NoDelete /\ Spec => NoReuseWhileReferenced
<1>1. ASSUME NoDelete PROVE Spec => NoReuseWhileReferenced
  <2>1. NoDelete
    BY <1>1
  <2>2. IInv /\ [Next]_vars =>
          [\A f \in Frames : pte'[f].page # pte[f].page
             => Counted(f) = {}]_vars
    BY <2>1, ReusedFrameUnreferenced
  <2> QED BY <2>1, <2>2, Invariance, PTL DEF Spec, NoReuseWhileReferenced
<1> QED BY <1>1

-----------------------------------------------------------------------------
(***************************************************************************)
(* What the pool does with the content of the pages: FullInv, the          *)
(* strengthening of IInv by the content, by the range of ref_count and by  *)
(* the owners of the locks, is an invariant, and BufferPool implements the *)
(* plain store of pages of module PageStore.                               *)
(***************************************************************************)

(* Where the current content of a page is. *)

\* Current is the content of the page's frame, or of the disk without one.
CurrentRight ==
  /\ \A f \in Frames : Loaded(f) =>
       pte[f].page \in Pages /\ Current[pte[f].page] = mem[f]
  /\ \A p \in Pages :
       (\A f \in Frames : Loaded(f) => pte[f].page # p) => Current[p] = disk[p]

\* With one frame per page, Current does not depend on what CHOOSE picks.
LEMMA CurrentFact == IInv => CurrentRight
<1> SUFFICES ASSUME IInv PROVE CurrentRight
  OBVIOUS
<1>1. \A f \in Frames : Resident(f) <=> Loaded(f)
  BY DEF IInv, LocalsInv, FrameInv, Resident, Loaded, Filling
<1>2. ASSUME NEW f \in Frames, Loaded(f)
      PROVE  pte[f].page \in Pages /\ Current[pte[f].page] = mem[f]
  <2>1. pte[f].page \in Pages
    BY <1>2 DEF IInv, FrameInv, Loaded
  <2>2. Copies(pte[f].page) = {f}
    BY <1>1, <1>2 DEF Copies, IInv, MappingInv
  <2> QED BY <2>1, <2>2 DEF Current
<1>3. ASSUME NEW p \in Pages, \A f \in Frames : Loaded(f) => pte[f].page # p
      PROVE  Current[p] = disk[p]
  <2>1. Copies(p) = {}
    BY <1>1, <1>3 DEF Copies
  <2> QED BY <2>1 DEF Current
<1> QED BY <1>2, <1>3 DEF CurrentRight

\* The frame is loaded now and then with the same page and the same content.
KeptIn(f) == /\ Loaded(f) /\ Loaded(f)'
             /\ pte'[f].page = pte[f].page
             /\ mem'[f] = mem[f]

\* A step that keeps every loaded frame and the disk of every other page
\* keeps the content of every page.
LEMMA SameCurrent ==
  ASSUME IInv, CurrentRight, CurrentRight',
         \A f \in Frames : Loaded(f) \/ Loaded(f)' => KeptIn(f),
         \A p \in Pages : (\A f \in Frames : Loaded(f) => pte[f].page # p)
                            => disk'[p] = disk[p]
  PROVE  Current' = Current
<1>1. ASSUME NEW p \in Pages PROVE Current'[p] = Current[p]
  <2>1. CASE \E f \in Frames : Loaded(f) /\ pte[f].page = p
    <3>1. PICK f \in Frames : Loaded(f) /\ pte[f].page = p
      BY <2>1
    <3>2. KeptIn(f)
      BY <3>1
    <3>3. Current[p] = mem[f]
      BY <3>1 DEF CurrentRight
    <3>4. Current'[p] = mem'[f]
      BY <3>1, <3>2 DEF CurrentRight, KeptIn
    <3> QED BY <3>2, <3>3, <3>4 DEF KeptIn
  <2>2. CASE \A f \in Frames : Loaded(f) => pte[f].page # p
    <3>1. \A f \in Frames : Loaded(f)' => pte'[f].page # p
      BY <2>2 DEF KeptIn
    <3>2. Current[p] = disk[p]
      BY <2>2 DEF CurrentRight
    <3>3. Current'[p] = disk'[p]
      BY <3>1 DEF CurrentRight
    <3> QED BY <2>2, <3>2, <3>3
  <2> QED BY <2>1, <2>2
<1>2. Current = [p \in Pages |-> Current[p]]
  BY DEF Current
<1>3. Current' = [p \in Pages |-> Current'[p]]
  BY DEF Current
<1> QED BY <1>1, <1>2, <1>3

-----------------------------------------------------------------------------
(* The steps that touch no content. *)

\* The step moves no bytes: it keeps the memory, the disk, the identity and
\* the dirty mark of every frame, and loads or unloads none.
Quiet ==
  /\ UNCHANGED data
  /\ \A f \in Frames : /\ pte'[f].page = pte[f].page
                       /\ pte'[f].init = pte[f].init
                       /\ pte'[f].dirty = pte[f].dirty
  /\ \A u \in Clients :
       /\ pc'[u] \in {"store", "evdel"} =>
            pc'[u] = pc[u] /\ frm'[u] = frm[u] /\ want'[u] = want[u]
       /\ pc[u] = "dirty" => pc'[u] = "dirty" /\ frm'[u] = frm[u]
       /\ Filling(u) => Filling(u)' /\ frm'[u] = frm[u]
       /\ Filling(u)' => \/ Filling(u) /\ frm'[u] = frm[u]
                         \/ ~pte[frm'[u]].init

\* The steps other than those that move bytes or mark them dirty.
QuietStep(t) ==
  \/ FindMapping(t) \/ IncRefCount1(t) \/ UndoIncRefCount(t)
  \/ LockMapping(t) \/ LockPte(t) \/ Relink(t) \/ UnLockPte(t)
  \/ UnLockMapping(t)
  \/ Poll(t) \/ PollFails(t) \/ VictimBegin(t) \/ VictimScan(t)
  \/ VictimExhausted(t) \/ VictimCheck(t)
  \/ LoadInsert(t) \/ LoadPublish(t) \/ DecRefCount(t)
  \/ \E p \in Pages : FetchPageSync(t, p) \/ FlushPage(t, p)

\* They are quiet: fetching, pinning, locking, searching and publishing.
LEMMA QuietStepIsQuiet ==
  ASSUME IInv, NEW t \in Clients, QuietStep(t)
  PROVE  Quiet
<1> USE DEF IInv, TypeOK
<1>1. UNCHANGED data
  BY DEF QuietStep, FindMapping, IncRefCount1, UndoIncRefCount, LockMapping,
     LockPte, Relink, UnLockPte, UnLockMapping, Poll, PollFails, VictimBegin,
     VictimScan, VictimExhausted, VictimCheck, LoadInsert, LoadPublish,
     DecRefCount, FetchPageSync, FlushPage
<1>2. \A f \in Frames : /\ pte'[f].page = pte[f].page
                        /\ pte'[f].init = pte[f].init
                        /\ pte'[f].dirty = pte[f].dirty
  <2>1. CASE \/ IncRefCount1(t) \/ UndoIncRefCount(t) \/ DecRefCount(t)
             \/ LockPte(t)
    BY <2>1 DEF IncRefCount1, UndoIncRefCount, DecRefCount, LockPte, PTE
  <2>2. CASE UnLockPte(t)
    BY <2>2 DEF UnLockPte, UnLocked, PTE
  <2>3. CASE pte' = pte
    BY <2>3
  <2> QED BY <2>1, <2>2, <2>3 DEF QuietStep, FindMapping, LockMapping, Relink,
          UnLockMapping, Poll, PollFails, VictimBegin, VictimScan,
          VictimExhausted, VictimCheck, LoadInsert, LoadPublish,
          FetchPageSync, FlushPage
<1>3. \A u \in Clients \ {t} :
        pc'[u] = pc[u] /\ frm'[u] = frm[u] /\ want'[u] = want[u]
  <2>1. CASE \/ FindMapping(t) \/ IncRefCount1(t) \/ UndoIncRefCount(t)
             \/ LockPte(t) \/ UnLockPte(t) \/ Poll(t) \/ PollFails(t)
    BY <2>1 DEF FindMapping, IncRefCount1, UndoIncRefCount, LockPte,
       UnLockPte, Poll, PollFails
  <2>2. CASE \/ VictimBegin(t) \/ VictimScan(t) \/ VictimExhausted(t)
             \/ VictimCheck(t) \/ LoadInsert(t) \/ LoadPublish(t)
    BY <2>2 DEF VictimBegin, VictimScan, VictimExhausted, VictimCheck,
       LoadInsert, LoadPublish
  <2>3. CASE \/ DecRefCount(t)
             \/ \E p \in Pages : FetchPageSync(t, p) \/ FlushPage(t, p)
    BY <2>3 DEF DecRefCount, Return, FetchPageSync, FlushPage
  <2>4. CASE LockMapping(t) \/ Relink(t) \/ UnLockMapping(t)
    BY <2>4 DEF LockMapping, Relink, UnLockMapping, Retry, Return
  <2> QED BY <2>1, <2>2, <2>3, <2>4 DEF QuietStep
<1>4. /\ pc[t] \notin {"dirty", "load", "store"}
      /\ pc'[t] \notin {"store", "evdel"}
      /\ pc'[t] = "load" => ~pte[frm'[t]].init
  <2>1. CASE \/ FindMapping(t) \/ IncRefCount1(t) \/ UndoIncRefCount(t)
             \/ LockPte(t) \/ UnLockPte(t) \/ PollFails(t)
    BY <2>1 DEF FindMapping, IncRefCount1, UndoIncRefCount, LockPte,
       UnLockPte, PollFails
  <2>2. CASE \/ VictimBegin(t) \/ VictimScan(t) \/ VictimExhausted(t)
             \/ VictimCheck(t) \/ LoadInsert(t) \/ LoadPublish(t)
    BY <2>2 DEF VictimBegin, VictimScan, VictimExhausted, VictimCheck,
       LoadInsert, LoadPublish
  <2>3. CASE \/ DecRefCount(t)
             \/ \E p \in Pages : FetchPageSync(t, p) \/ FlushPage(t, p)
    BY <2>3 DEF DecRefCount, Return, FetchPageSync, FlushPage
  <2>4. CASE LockMapping(t) \/ Relink(t) \/ UnLockMapping(t)
    BY <2>4 DEF LockMapping, Relink, UnLockMapping, Retry, Return
  <2>5. CASE Poll(t)
    BY <2>5 DEF Poll, FrameInv
  <2> QED BY <2>1, <2>2, <2>3, <2>4, <2>5 DEF QuietStep
<1> QED BY <1>1, <1>2, <1>3, <1>4 DEF Quiet, Filling

\* A quiet step loads and unloads no frame.
LEMMA QuietLoaded ==
  ASSUME IInv, Quiet
  PROVE  \A f \in Frames : Loaded(f)' <=> Loaded(f)
BY DEF Quiet, Loaded

\* A quiet step keeps ContentInv and the content of every page.
LEMMA QuietContent ==
  ASSUME IInv, Quiet, ContentInv, CurrentRight, CurrentRight'
  PROVE  ContentInv' /\ Current' = Current
<1>1. \A f \in Frames : Loaded(f)' <=> Loaded(f)
  BY QuietLoaded
<1>2. ContentInv'
  <2>1. ASSUME NEW f \in Frames, Loaded(f)', mem'[f] # disk'[pte'[f].page]
        PROVE  \/ pte'[f].dirty
               \/ \E u \in Clients : pc'[u] = "dirty" /\ frm'[u] = f
    BY <1>1, <2>1 DEF Quiet, ContentInv
  <2>2. ASSUME NEW u \in Clients, pc'[u] = "store"
        PROVE  mem'[frm'[u]] = disk'[want'[u]]
    BY <2>2 DEF Quiet, ContentInv
  <2>3. ASSUME NEW u \in Clients, pc'[u] = "evdel"
        PROVE  mem'[frm'[u]] = disk'[VictimPage(u)']
    <3>1. pc[u] = "evdel" /\ frm'[u] = frm[u] /\ frm[u] \in Frames
      BY <2>3 DEF Quiet, IInv, LocalsInv
    <3> QED BY <3>1 DEF Quiet, ContentInv, VictimPage
  <2> QED BY <2>1, <2>2, <2>3 DEF ContentInv
<1>3. Current' = Current
  BY <1>1, SameCurrent DEF Quiet, KeptIn
<1> QED BY <1>2, <1>3

-----------------------------------------------------------------------------
(* The steps that move bytes or mark them dirty. *)

\* The step leaves the other clients where they are.
OthersStay(t) ==
  \A u \in Clients \ {t} :
    pc'[u] = pc[u] /\ frm'[u] = frm[u] /\ want'[u] = want[u]

\* Eviction writes the victim's bytes where they differ from the disk.
LEMMA EvictWriteContent ==
  ASSUME IInv, ContentInv, CurrentRight, CurrentRight',
         NEW t \in Clients, EvictWrite(t)
  PROVE  ContentInv' /\ Current' = Current
<1> DEFINE f == frm[t]
           p == pte[f].page
<1>1. /\ f \in Frames /\ pc[t] = "evict" /\ pte[f].init /\ pte[f].busy
      /\ p \in Pages /\ p = VictimPage(t) /\ LocksVictim(t)
      /\ pte' = pte /\ mem' = mem /\ frm' = frm /\ want' = want
      /\ \A q \in Pages : q # p => disk'[q] = disk[q]
      /\ pc'[t] = "evdel" /\ OthersStay(t)
  BY DEF EvictWrite, IInv, TypeOK, LocalsInv, PhaseInv, FrameInv, VictimPage,
     LocksVictim, OthersStay
<1>2. \A g \in Frames : Loaded(g)' <=> Loaded(g)
  BY <1>1 DEF Loaded, Filling, OthersStay
<1>3. Loaded(f)
  BY <1>1 DEF Loaded, Filling, IInv, PhaseInv
<1>4. disk'[p] = mem[f]
  <2>1. CASE pte[f].dirty
    BY <1>1, <2>1 DEF EvictWrite, IInv, TypeOK
  <2>2. CASE ~pte[f].dirty
    <3>1. \A u \in Clients : ~(pc[u] = "dirty" /\ frm[u] = f)
      BY <1>1 DEF IInv, PhaseInv, Holds
    <3> QED BY <1>1, <1>3, <2>2, <3>1 DEF EvictWrite, ContentInv
  <2> QED BY <2>1, <2>2
<1>5. ContentInv'
  <2>1. ASSUME NEW g \in Frames, Loaded(g)', mem'[g] # disk'[pte'[g].page]
        PROVE  \/ pte'[g].dirty
               \/ \E u \in Clients : pc'[u] = "dirty" /\ frm'[u] = g
    <3>1. Loaded(g)
      BY <1>2, <2>1
    <3>2. g # f
      BY <1>1, <1>4, <2>1
    <3>3. pte[g].page \in Pages /\ pte[g].page # p
      BY <1>1, <1>3, <3>1, <3>2 DEF IInv, MappingInv, FrameInv, Loaded
    <3> QED BY <1>1, <2>1, <3>1, <3>3 DEF ContentInv, OthersStay
  <2>2. ASSUME NEW u \in Clients, pc'[u] = "store"
        PROVE  mem'[frm'[u]] = disk'[want'[u]]
    <3>1. u # t /\ pc[u] = "store"
      BY <1>1, <2>2 DEF OthersStay
    <3>2. want[u] \in Pages /\ want[u] # p
      BY <1>1, <3>1 DEF IInv, LockInv, LocalsInv, LocksWanted
    <3> QED BY <1>1, <3>1, <3>2 DEF ContentInv
  <2>3. ASSUME NEW u \in Clients, pc'[u] = "evdel"
        PROVE  mem'[frm'[u]] = disk'[VictimPage(u)']
    <3>1. CASE u = t
      BY <1>1, <1>4, <3>1 DEF VictimPage
    <3>2. CASE u # t
      <4>1. pc[u] = "evdel" /\ LocksVictim(u)
        BY <1>1, <2>3, <3>2 DEF OthersStay, LocksVictim
      <4>2. VictimPage(u) \in Pages /\ VictimPage(u) # p
        BY <1>1, <3>2, <4>1, LockedPages DEF IInv, LockInv
      <4>3. VictimPage(u)' = VictimPage(u)
        BY <1>1 DEF VictimPage
      <4> QED BY <1>1, <4>1, <4>2, <4>3 DEF ContentInv
    <3> QED BY <3>1, <3>2
  <2> QED BY <2>1, <2>2, <2>3 DEF ContentInv
<1>6. Current' = Current
  <2>1. \A q \in Pages : (\A g \in Frames : Loaded(g) => pte[g].page # q)
                           => disk'[q] = disk[q]
    BY <1>1, <1>3
  <2> QED BY <1>1, <1>2, <2>1, SameCurrent DEF KeptIn
<1> QED BY <1>5, <1>6

\* The victim's page leaves its frame when the disk has its content.
LEMMA EvictUnmapContent ==
  ASSUME IInv, IInv', ContentInv, CurrentRight, CurrentRight',
         NEW t \in Clients, EvictUnmap(t)
  PROVE  ContentInv' /\ Current' = Current
<1> DEFINE f == frm[t]
           p == pte[f].page
<1>1. /\ f \in Frames /\ pc[t] = "evdel" /\ pte[f].init
      /\ p \in Pages /\ p = VictimPage(t)
      /\ pte' = pte /\ mem' = mem /\ disk' = disk
      /\ frm' = frm /\ want' = want
      /\ pc'[t] \in {"load", "assert"} /\ OthersStay(t)
  BY DEF EvictUnmap, IInv, TypeOK, LocalsInv, PhaseInv, FrameInv, VictimPage,
     OthersStay
<1>2. pc'[t] = "load"
  BY <1>1 DEF IInv, LocalsInv
<1>3. \A g \in Frames : Loaded(g)' <=> Loaded(g) /\ g # f
  BY <1>1, <1>2 DEF Loaded, Filling, OthersStay
<1>4. Loaded(f) /\ mem[f] = disk[p]
  BY <1>1 DEF Loaded, Filling, IInv, PhaseInv, ContentInv
<1>5. ContentInv'
  <2>1. ASSUME NEW g \in Frames, Loaded(g)', mem'[g] # disk'[pte'[g].page]
        PROVE  \/ pte'[g].dirty
               \/ \E u \in Clients : pc'[u] = "dirty" /\ frm'[u] = g
    BY <1>1, <1>3, <2>1 DEF ContentInv, OthersStay
  <2>2. \A u \in Clients : VictimPage(u)' = VictimPage(u)
    BY <1>1 DEF VictimPage
  <2> QED BY <1>1, <1>2, <2>1, <2>2 DEF ContentInv, OthersStay
<1>6. ASSUME NEW q \in Pages PROVE Current'[q] = Current[q]
  <2>1. CASE q = p
    <3>1. \A g \in Frames : Loaded(g)' => pte'[g].page # p
      BY <1>1, <1>3, <1>4 DEF IInv, MappingInv
    <3>2. Current'[p] = disk[p]
      BY <1>1, <3>1 DEF CurrentRight
    <3>3. Current[p] = mem[f]
      BY <1>1, <1>4 DEF CurrentRight
    <3> QED BY <1>4, <2>1, <3>2, <3>3
  <2>2. CASE q # p /\ \E g \in Frames : Loaded(g) /\ pte[g].page = q
    <3>1. PICK g \in Frames : Loaded(g) /\ pte[g].page = q
      BY <2>2
    <3>2. Loaded(g)' /\ pte'[g].page = q /\ mem'[g] = mem[g]
      BY <1>1, <1>3, <2>2, <3>1
    <3> QED BY <3>1, <3>2 DEF CurrentRight
  <2>3. CASE \A g \in Frames : Loaded(g) => pte[g].page # q
    <3>1. \A g \in Frames : Loaded(g)' => pte'[g].page # q
      BY <1>1, <1>3, <2>3
    <3> QED BY <1>1, <2>3, <3>1 DEF CurrentRight
  <2> QED BY <2>1, <2>2, <2>3
<1>7. /\ Current = [q \in Pages |-> Current[q]]
      /\ Current' = [q \in Pages |-> Current'[q]]
  BY DEF Current
<1> QED BY <1>5, <1>6, <1>7

\* The read fills a frame that has no page.
LEMMA LoadReadContent ==
  ASSUME IInv, ContentInv, CurrentRight, CurrentRight',
         NEW t \in Clients, LoadRead(t)
  PROVE  ContentInv' /\ Current' = Current
<1> DEFINE f == frm[t]
<1>1. /\ f \in Frames /\ want[t] \in Pages /\ pc[t] = "load"
      /\ pte' = pte /\ disk' = disk /\ frm' = frm /\ want' = want
      /\ mem'[f] = disk[want[t]]
      /\ \A g \in Frames : g # f => mem'[g] = mem[g]
      /\ pc'[t] = "store" /\ OthersStay(t)
  BY DEF LoadRead, IInv, TypeOK, LocalsInv, OthersStay
<1>2. \A g \in Frames : Loaded(g)' <=> Loaded(g)
  BY <1>1 DEF Loaded, Filling, OthersStay
<1>3. ~Loaded(f)
  BY <1>1 DEF Loaded, Filling
<1>4. ContentInv'
  <2>1. ASSUME NEW g \in Frames, Loaded(g)', mem'[g] # disk'[pte'[g].page]
        PROVE  \/ pte'[g].dirty
               \/ \E u \in Clients : pc'[u] = "dirty" /\ frm'[u] = g
    BY <1>1, <1>2, <1>3, <2>1 DEF ContentInv, OthersStay
  <2>2. ASSUME NEW u \in Clients, pc'[u] = "store"
        PROVE  mem'[frm'[u]] = disk'[want'[u]]
    <3>1. CASE u = t
      BY <1>1, <3>1
    <3>2. CASE u # t
      <4>1. pc[u] = "store" /\ frm[u] \in Frames
        BY <1>1, <2>2, <3>2 DEF OthersStay, IInv, LocalsInv
      <4>2. frm[u] # f
        BY <1>1, <3>2, <4>1 DEF IInv, FrameInv, Filling
      <4> QED BY <1>1, <4>1, <4>2 DEF ContentInv
    <3> QED BY <3>1, <3>2
  <2>3. ASSUME NEW u \in Clients, pc'[u] = "evdel"
        PROVE  mem'[frm'[u]] = disk'[VictimPage(u)']
    <3>1. pc[u] = "evdel" /\ frm[u] \in Frames
      BY <1>1, <2>3 DEF OthersStay, IInv, LocalsInv
    <3>2. frm[u] # f
      BY <1>1, <3>1 DEF IInv, PhaseInv, Filling
    <3>3. VictimPage(u)' = VictimPage(u)
      BY <1>1 DEF VictimPage
    <3> QED BY <1>1, <3>1, <3>2, <3>3 DEF ContentInv
  <2> QED BY <2>1, <2>2, <2>3 DEF ContentInv
<1>5. Current' = Current
  <2>1. \A g \in Frames : Loaded(g) => KeptIn(g)
    BY <1>1, <1>2, <1>3 DEF KeptIn
  <2> QED BY <1>1, <1>2, <2>1, SameCurrent
<1> QED BY <1>4, <1>5

\* The frame that was read becomes the page's, with the content of the disk.
LEMMA LoadStoreContent ==
  ASSUME IInv, ContentInv, CurrentRight, CurrentRight',
         NEW t \in Clients, LoadStore(t)
  PROVE  ContentInv' /\ Current' = Current
<1> DEFINE f == frm[t]
           p == want[t]
<1>1. /\ f \in Frames /\ p \in Pages /\ pc[t] = "store"
      /\ pte'[f] = LoadedPTE(p)
      /\ \A g \in Frames : g # f => pte'[g] = pte[g]
      /\ mem' = mem /\ disk' = disk /\ frm' = frm /\ want' = want
      /\ pc'[t] = "insert" /\ OthersStay(t)
  BY DEF LoadStore, IInv, TypeOK, LocalsInv, OthersStay
<1>2. \A g \in Frames : Loaded(g)' <=> Loaded(g) \/ g = f
  <2>1. Loaded(f)'
    <3>1. \A u \in Clients : Filling(u)' => frm'[u] # f
      BY <1>1 DEF Filling, OthersStay, IInv, FrameInv
    <3> QED BY <1>1, <3>1 DEF Loaded, LoadedPTE
  <2>2. \A g \in Frames : g # f => (Loaded(g)' <=> Loaded(g))
    BY <1>1 DEF Loaded, Filling, OthersStay
  <2> QED BY <1>1, <2>1, <2>2
<1>3. /\ \A g \in Frames : Loaded(g) => pte[g].page # p
      /\ ~Loaded(f)
  BY <1>1 DEF IInv, LockInv, FoundEmpty, Loaded, Filling
<1>4. mem[f] = disk[p] /\ pte'[f].page = p
  BY <1>1 DEF ContentInv, LoadedPTE
<1>5. ContentInv'
  <2>1. ASSUME NEW g \in Frames, Loaded(g)', mem'[g] # disk'[pte'[g].page]
        PROVE  \/ pte'[g].dirty
               \/ \E u \in Clients : pc'[u] = "dirty" /\ frm'[u] = g
    <3>1. g # f /\ Loaded(g)
      BY <1>1, <1>2, <1>4, <2>1
    <3> QED BY <1>1, <2>1, <3>1 DEF ContentInv, OthersStay
  <2>2. ASSUME NEW u \in Clients, pc'[u] = "store"
        PROVE  mem'[frm'[u]] = disk'[want'[u]]
    BY <1>1, <2>2 DEF ContentInv, OthersStay
  <2>3. ASSUME NEW u \in Clients, pc'[u] = "evdel"
        PROVE  mem'[frm'[u]] = disk'[VictimPage(u)']
    <3>1. pc[u] = "evdel" /\ frm[u] \in Frames
      BY <1>1, <2>3 DEF OthersStay, IInv, LocalsInv
    <3>2. frm[u] # f
      BY <1>1, <3>1 DEF IInv, PhaseInv, Filling
    <3>3. VictimPage(u)' = VictimPage(u)
      BY <1>1, <3>1, <3>2 DEF VictimPage
    <3> QED BY <1>1, <3>1, <3>3 DEF ContentInv
  <2> QED BY <2>1, <2>2, <2>3 DEF ContentInv
<1>6. ASSUME NEW q \in Pages PROVE Current'[q] = Current[q]
  <2>1. CASE q = p
    <3>1. Current[p] = disk[p]
      BY <1>1, <1>3 DEF CurrentRight
    <3>2. Current'[p] = mem[f]
      BY <1>1, <1>2, <1>4 DEF CurrentRight
    <3> QED BY <1>4, <2>1, <3>1, <3>2
  <2>2. CASE \E g \in Frames : Loaded(g) /\ pte[g].page = q
    <3>1. PICK g \in Frames : Loaded(g) /\ pte[g].page = q
      BY <2>2
    <3>2. Loaded(g)' /\ pte'[g].page = q /\ mem'[g] = mem[g]
      BY <1>1, <1>2, <1>3, <3>1
    <3> QED BY <3>1, <3>2 DEF CurrentRight
  <2>3. CASE q # p /\ \A g \in Frames : Loaded(g) => pte[g].page # q
    <3>1. \A g \in Frames : Loaded(g)' => pte'[g].page # q
      BY <1>1, <1>2, <1>4, <2>3
    <3> QED BY <1>1, <2>3, <3>1 DEF CurrentRight
  <2> QED BY <2>1, <2>2, <2>3
<1>7. /\ Current = [q \in Pages |-> Current[q]]
      /\ Current' = [q \in Pages |-> Current'[q]]
  BY DEF Current
<1> QED BY <1>5, <1>6, <1>7

\* A holder's write changes the content of the page it holds, and no other.
LEMMA WritePageContent ==
  ASSUME IInv, ContentInv, CurrentRight, CurrentRight',
         NEW t \in Clients, WritePage(t)
  PROVE  /\ ContentInv'
         /\ Current[want[t]] < MaxVersion
         /\ Current' = [Current EXCEPT ![want[t]] = @ + 1]
<1> DEFINE f == frm[t]
           p == want[t]
<1>1. /\ f \in Frames /\ p \in Pages /\ pc[t] = "held"
      /\ pte[f].page = p /\ pte[f].init /\ ~pte[f].busy
      /\ pte' = pte /\ disk' = disk /\ frm' = frm /\ want' = want
      /\ mem[f] < MaxVersion
      /\ mem'[f] = mem[f] + 1
      /\ \A g \in Frames : g # f => mem'[g] = mem[g]
      /\ pc'[t] = "dirty" /\ OthersStay(t)
  BY DEF WritePage, IInv, TypeOK, LocalsInv, PhaseInv, Holds, OthersStay
<1>2. \A g \in Frames : Loaded(g)' <=> Loaded(g)
  BY <1>1 DEF Loaded, Filling, OthersStay
<1>3. Loaded(f) /\ \A u \in Clients : Filling(u) => frm[u] # f
  BY <1>1 DEF Loaded, IInv, FrameInv
<1>4. ContentInv'
  <2>1. ASSUME NEW g \in Frames, Loaded(g)', mem'[g] # disk'[pte'[g].page]
        PROVE  \/ pte'[g].dirty
               \/ \E u \in Clients : pc'[u] = "dirty" /\ frm'[u] = g
    <3>1. CASE g = f
      BY <1>1, <3>1
    <3>2. CASE g # f
      BY <1>1, <1>2, <2>1, <3>2 DEF ContentInv, OthersStay
    <3> QED BY <3>1, <3>2
  <2>2. ASSUME NEW u \in Clients, pc'[u] = "store"
        PROVE  mem'[frm'[u]] = disk'[want'[u]]
    <3>1. pc[u] = "store" /\ frm[u] \in Frames /\ frm[u] # f
      BY <1>1, <1>3, <2>2 DEF OthersStay, IInv, LocalsInv, Filling
    <3> QED BY <1>1, <3>1 DEF ContentInv
  <2>3. ASSUME NEW u \in Clients, pc'[u] = "evdel"
        PROVE  mem'[frm'[u]] = disk'[VictimPage(u)']
    <3>1. pc[u] = "evdel" /\ frm[u] \in Frames /\ frm[u] # f
      BY <1>1, <2>3 DEF OthersStay, IInv, LocalsInv, PhaseInv
    <3>2. VictimPage(u)' = VictimPage(u)
      BY <1>1 DEF VictimPage
    <3> QED BY <1>1, <3>1, <3>2 DEF ContentInv
  <2> QED BY <2>1, <2>2, <2>3 DEF ContentInv
<1>5. Current[p] = mem[f] /\ Current'[p] = mem[f] + 1
  BY <1>1, <1>2, <1>3 DEF CurrentRight
<1>6. ASSUME NEW q \in Pages, q # p PROVE Current'[q] = Current[q]
  <2>1. CASE \E g \in Frames : Loaded(g) /\ pte[g].page = q
    <3>1. PICK g \in Frames : Loaded(g) /\ pte[g].page = q
      BY <2>1
    <3>2. Loaded(g)' /\ pte'[g].page = q /\ mem'[g] = mem[g]
      BY <1>1, <1>2, <1>6, <3>1
    <3> QED BY <3>1, <3>2 DEF CurrentRight
  <2>2. CASE \A g \in Frames : Loaded(g) => pte[g].page # q
    <3>1. \A g \in Frames : Loaded(g)' => pte'[g].page # q
      BY <1>1, <1>2, <2>2
    <3> QED BY <1>1, <2>2, <3>1 DEF CurrentRight
  <2> QED BY <2>1, <2>2
<1>7. /\ Current = [q \in Pages |-> Current[q]]
      /\ Current' = [q \in Pages |-> Current'[q]]
  BY DEF Current
<1>8. Current' = [Current EXCEPT ![p] = @ + 1]
  BY <1>1, <1>5, <1>6, <1>7
<1> QED BY <1>1, <1>4, <1>5, <1>8

\* DecRefCount(true) marks what its caller has written.
LEMMA MarkDirtyContent ==
  ASSUME IInv, ContentInv, CurrentRight, CurrentRight',
         NEW t \in Clients, MarkDirty(t)
  PROVE  ContentInv' /\ Current' = Current
<1> DEFINE f == frm[t]
<1>1. /\ f \in Frames /\ pc[t] = "dirty"
      /\ pte'[f].dirty
      /\ \A g \in Frames : pte'[g].page = pte[g].page /\ pte'[g].init = pte[g].init
      /\ \A g \in Frames : g # f => pte'[g] = pte[g]
      /\ mem' = mem /\ disk' = disk /\ frm' = frm /\ want' = want
      /\ pc'[t] = "unpin" /\ OthersStay(t)
  BY DEF MarkDirty, IInv, TypeOK, PTE, LocalsInv, OthersStay
<1>2. \A g \in Frames : Loaded(g)' <=> Loaded(g)
  BY <1>1 DEF Loaded, Filling, OthersStay
<1>3. ContentInv'
  <2>1. ASSUME NEW g \in Frames, Loaded(g)', mem'[g] # disk'[pte'[g].page]
        PROVE  \/ pte'[g].dirty
               \/ \E u \in Clients : pc'[u] = "dirty" /\ frm'[u] = g
    BY <1>1, <1>2, <2>1 DEF ContentInv, OthersStay
  <2>2. ASSUME NEW u \in Clients, pc'[u] = "store"
        PROVE  mem'[frm'[u]] = disk'[want'[u]]
    BY <1>1, <2>2 DEF ContentInv, OthersStay
  <2>3. ASSUME NEW u \in Clients, pc'[u] = "evdel"
        PROVE  mem'[frm'[u]] = disk'[VictimPage(u)']
    <3>1. pc[u] = "evdel" /\ frm[u] \in Frames
      BY <1>1, <2>3 DEF OthersStay, IInv, LocalsInv
    <3>2. VictimPage(u)' = VictimPage(u)
      BY <1>1, <3>1 DEF VictimPage
    <3> QED BY <1>1, <3>1, <3>2 DEF ContentInv
  <2> QED BY <2>1, <2>2, <2>3 DEF ContentInv
<1>4. Current' = Current
  BY <1>1, <1>2, SameCurrent DEF KeptIn
<1> QED BY <1>3, <1>4

\* FlushPage writes the bytes back before it clears the dirty mark.
LEMMA FlushWriteContent ==
  ASSUME NoDelete, IInv, ContentInv, CurrentRight, CurrentRight',
         NEW t \in Clients, FlushWrite(t)
  PROVE  ContentInv' /\ Current' = Current
<1> DEFINE f == lfr[t]
           p == want[t]
<1>1. /\ f \in Frames /\ pc[t] = "fwrite" /\ p \in Pages
      /\ f \in list /\ pte[f].page = p /\ pte[f].busy
      /\ LocksWanted(t)
      /\ \A g \in Frames : pte'[g].page = pte[g].page /\ pte'[g].init = pte[g].init
      /\ \A g \in Frames : g # f => pte'[g] = pte[g]
      /\ mem' = mem
      /\ \A q \in Pages : q # p => disk'[q] = disk[q]
      /\ pc'[t] = "idle" /\ OthersStay(t)
  BY DEF FlushWrite, Return, NoDelete, IInv, TypeOK, PTE, LocalsInv, PhaseInv,
     LockPage, LocksWanted, OthersStay
<1>2. \A g \in Frames : Loaded(g)' <=> Loaded(g)
  BY <1>1 DEF Loaded, Filling, OthersStay
<1>3. Loaded(f)
  BY <1>1 DEF Loaded, IInv, FrameInv
<1>4. disk'[p] = mem[f]
  <2>1. CASE pte[f].dirty
    BY <1>1, <2>1 DEF FlushWrite, IInv, TypeOK
  <2>2. CASE ~pte[f].dirty
    <3>1. \A u \in Clients : ~(pc[u] = "dirty" /\ frm[u] = f)
      BY <1>1 DEF IInv, PhaseInv, Holds
    <3> QED BY <1>1, <1>3, <2>2, <3>1 DEF FlushWrite, ContentInv
  <2> QED BY <2>1, <2>2
<1>5. ContentInv'
  <2>1. ASSUME NEW g \in Frames, Loaded(g)', mem'[g] # disk'[pte'[g].page]
        PROVE  \/ pte'[g].dirty
               \/ \E u \in Clients : pc'[u] = "dirty" /\ frm'[u] = g
    <3>1. Loaded(g)
      BY <1>2, <2>1
    <3>2. g # f
      BY <1>1, <1>4, <2>1
    <3>3. pte[g].page \in Pages /\ pte[g].page # p
      BY <1>1, <1>3, <3>1, <3>2 DEF IInv, MappingInv, FrameInv, Loaded
    <3> QED BY <1>1, <2>1, <3>1, <3>2, <3>3 DEF ContentInv, OthersStay
  <2>2. ASSUME NEW u \in Clients, pc'[u] = "store"
        PROVE  mem'[frm'[u]] = disk'[want'[u]]
    <3>1. u # t /\ pc[u] = "store" /\ frm'[u] = frm[u] /\ want'[u] = want[u]
      BY <1>1, <2>2 DEF OthersStay
    <3>2. want[u] \in Pages /\ want[u] # p
      BY <1>1, <3>1 DEF IInv, LockInv, LocalsInv, LocksWanted
    <3> QED BY <1>1, <3>1, <3>2 DEF ContentInv
  <2>3. ASSUME NEW u \in Clients, pc'[u] = "evdel"
        PROVE  mem'[frm'[u]] = disk'[VictimPage(u)']
    <3>1. u # t /\ pc[u] = "evdel" /\ frm'[u] = frm[u] /\ frm[u] \in Frames
      BY <1>1, <2>3 DEF OthersStay, IInv, LocalsInv
    <3>2. VictimPage(u) \in Pages /\ VictimPage(u) # p
      BY <1>1, <3>1, LockedPages DEF IInv, LockInv, LocksVictim
    <3>3. VictimPage(u)' = VictimPage(u)
      BY <1>1, <3>1 DEF VictimPage
    <3> QED BY <1>1, <3>1, <3>2, <3>3 DEF ContentInv
  <2> QED BY <2>1, <2>2, <2>3 DEF ContentInv
<1>6. Current' = Current
  <2>1. \A q \in Pages : (\A g \in Frames : Loaded(g) => pte[g].page # q)
                           => disk'[q] = disk[q]
    BY <1>1, <1>3
  <2> QED BY <1>1, <1>2, <2>1, SameCurrent DEF KeptIn
<1> QED BY <1>5, <1>6

-----------------------------------------------------------------------------
(* The steps of the store. *)

\* The steps at which FetchPageSync's caller gets or gives up its page.
LEMMA HolderSteps ==
  ASSUME NoDelete, IInv, IInv', NEW t \in Clients, Step(t) \/ Choice(t)
  PROVE  \/ Holder' = Holder
         \/ /\ Holder[t] = None
            /\ want[t] \in Pages
            /\ Holder' = [Holder EXCEPT ![t] = want[t]]
            /\ QuietStep(t)
         \/ /\ Holder[t] # None
            /\ Holder' = [Holder EXCEPT ![t] = None]
            /\ QuietStep(t)
<1> USE DEF IInv, TypeOK
<1>1. ASSUME OthersStay(t), Holds(t)' <=> Holds(t), Holds(t) => want'[t] = want[t]
      PROVE  Holder' = Holder
  BY <1>1 DEF Holder, Holds, OthersStay
<1>2. CASE LoadPublish(t) \/ (IncRefCount1(t) /\ pc'[t] = "held")
  <2>1. /\ ~Holds(t) /\ pc'[t] = "held" /\ want' = want /\ want[t] \in Pages
        /\ \A u \in Clients \ {t} : pc'[u] = pc[u]
    BY <1>2 DEF LoadPublish, IncRefCount1, Holds, LocalsInv
  <2>2. Holder[t] = None
    BY <2>1 DEF Holder
  <2>3. Holder' = [Holder EXCEPT ![t] = want[t]]
    BY <2>1 DEF Holder, Holds
  <2> QED BY <1>2, <2>1, <2>2, <2>3 DEF QuietStep
<1>3. CASE DecRefCount(t)
  <2>1. /\ Holds(t) /\ pc'[t] = "idle" /\ want[t] \in Pages
        /\ \A u \in Clients \ {t} : pc'[u] = pc[u] /\ want'[u] = want[u]
    BY <1>3 DEF DecRefCount, Return, Holds, LocalsInv
  <2>2. Holder[t] # None
    BY <2>1, ConstantsDistinct DEF Holder
  <2>3. Holder' = [Holder EXCEPT ![t] = None]
    BY <2>1 DEF Holder, Holds
  <2> QED BY <1>3, <2>2, <2>3 DEF QuietStep
<1>4. CASE WritePage(t) \/ MarkDirty(t)
  BY <1>1, <1>4 DEF WritePage, MarkDirty, OthersStay, Holds
<1>5. CASE \/ FindMapping(t) \/ UndoIncRefCount(t)
           \/ (IncRefCount1(t) /\ pc'[t] # "held")
           \/ LockPte(t) \/ UnLockPte(t) \/ Poll(t) \/ PollFails(t)
  BY <1>1, <1>5 DEF FindMapping, UndoIncRefCount, IncRefCount1, LockPte,
     UnLockPte, Poll, PollFails, OthersStay, Holds
<1>6. CASE \/ VictimBegin(t) \/ VictimScan(t) \/ VictimExhausted(t)
           \/ VictimCheck(t) \/ EvictWrite(t) \/ EvictUnmap(t)
           \/ LoadRead(t) \/ LoadStore(t) \/ LoadInsert(t)
  BY <1>1, <1>6 DEF VictimBegin, VictimScan, VictimExhausted, VictimCheck,
     EvictWrite, EvictUnmap, LoadRead, LoadStore, LoadInsert, OthersStay,
     Holds
<1>7. CASE \/ FlushWrite(t)
           \/ \E p \in Pages : FetchPageSync(t, p) \/ FlushPage(t, p)
  BY <1>1, <1>7 DEF FlushWrite, Return, FetchPageSync, FlushPage, OthersStay,
     Holds, NoDelete
<1>8. CASE LockMapping(t) \/ Relink(t) \/ UnLockMapping(t)
  BY <1>1, <1>8 DEF LockMapping, Relink, UnLockMapping, Retry, Return,
     OthersStay, Holds
<1>9. ~FlushDelete(t) /\ ~FlushPush(t)
  BY DEF FlushDelete, FlushPush, LocalsInv
<1> QED BY <1>2, <1>3, <1>4, <1>5, <1>6, <1>7, <1>8, <1>9 DEF Step, Choice

\* A holder's write keeps the holders.
LEMMA WriteKeepsHolder ==
  ASSUME IInv, NEW t \in Clients, WritePage(t)
  PROVE  Holder' = Holder /\ Holder[t] = want[t] /\ Holder[t] # None
BY ConstantsDistinct DEF WritePage, Holder, Holds, IInv, TypeOK, LocalsInv

\* Every step of the pool keeps ContentInv, and is a step of the store or
\* leaves the store as it is.
LEMMA NextContent ==
  ASSUME NoDelete, IInv, IInv', CurrentRight, CurrentRight', ContentInv,
         [Next]_vars
  PROVE  ContentInv' /\ Store!StoreStep
<1>1. ASSUME NEW t \in Clients, WritePage(t)
      PROVE  ContentInv' /\ Store!StoreStep
  <2>1. Store!Update(t)
    BY <1>1, WritePageContent, WriteKeepsHolder DEF Store!Update
  <2> QED BY <1>1, <2>1, WritePageContent DEF Store!StoreStep, Store!StoreNext
<1>2. ASSUME NEW t \in Clients, QuietStep(t), Step(t) \/ Choice(t)
      PROVE  ContentInv' /\ Store!StoreStep
  <2>1. ContentInv' /\ Current' = Current
    BY <1>2, QuietStepIsQuiet, QuietContent
  <2>2. CASE Holder' = Holder
    BY <2>1, <2>2 DEF Store!StoreStep
  <2>3. CASE /\ Holder[t] = None
             /\ want[t] \in Pages
             /\ Holder' = [Holder EXCEPT ![t] = want[t]]
    <3>1. Store!Acquire(t, want[t])
      BY <2>1, <2>3 DEF Store!Acquire
    <3> QED BY <2>1, <2>3, <3>1 DEF Store!StoreStep, Store!StoreNext
  <2>4. CASE Holder[t] # None /\ Holder' = [Holder EXCEPT ![t] = None]
    <3>1. Store!Release(t)
      BY <2>1, <2>4 DEF Store!Release
    <3> QED BY <2>1, <3>1 DEF Store!StoreStep, Store!StoreNext
  <2> QED BY <1>2, <2>2, <2>3, <2>4, HolderSteps
<1>3. ASSUME NEW t \in Clients, Step(t) \/ Choice(t), ~QuietStep(t),
             ~WritePage(t)
      PROVE  ContentInv' /\ Store!StoreStep
  <2>1. \/ EvictWrite(t) \/ EvictUnmap(t) \/ LoadRead(t) \/ LoadStore(t)
        \/ MarkDirty(t) \/ FlushWrite(t)
    <3>1. ~FlushDelete(t) /\ ~FlushPush(t)
      BY DEF FlushDelete, FlushPush, IInv, LocalsInv
    <3> QED BY <1>3, <3>1 DEF Step, Choice, QuietStep
  <2>2. ContentInv' /\ Current' = Current
    BY <2>1, EvictWriteContent, EvictUnmapContent, LoadReadContent,
       LoadStoreContent, MarkDirtyContent, FlushWriteContent
  <2>3. Holder' = Holder
    BY <1>3, HolderSteps
  <2> QED BY <2>2, <2>3 DEF Store!StoreStep
<1>4. ASSUME UNCHANGED vars PROVE ContentInv' /\ Store!StoreStep
  <2>1. Quiet
    BY <1>4 DEF vars, Quiet, Filling
  <2>2. ContentInv' /\ Current' = Current
    BY <2>1, QuietContent
  <2>3. Holder' = Holder
    BY <1>4 DEF vars, Holder, Holds
  <2> QED BY <2>2, <2>3 DEF Store!StoreStep
<1> QED BY <1>1, <1>2, <1>3, <1>4 DEF Next, Halt

\* The pool that init() leaves agrees with the disk, and holds nothing.
LEMMA InitContent ==
  ASSUME Init, IInv, CurrentRight
  PROVE  ContentInv /\ Store!StoreInit
<1>1. \A f \in Frames : ~Loaded(f)
  BY DEF Init, EmptyPTE, Loaded
<1>2. ContentInv
  BY <1>1 DEF Init, ContentInv
<1>3. \A p \in Pages : Current[p] = 0
  BY <1>1 DEF CurrentRight, Init
<1>4. Current = [p \in Pages |-> 0]
  <2>1. Current = [p \in Pages |-> Current[p]]
    BY DEF Current
  <2> QED BY <1>3, <2>1
<1>5. Holder = [t \in Clients |-> None]
  BY DEF Init, Holder, Holds
<1> QED BY <1>2, <1>4, <1>5 DEF Store!StoreInit

\* The content part of the invariant and the steps of the store, in every
\* behaviour.
LEMMA ContentInvariance ==
  NoDelete /\ Spec => []ContentInv /\ Store!Spec
<1>1. ASSUME NoDelete PROVE Spec => []ContentInv /\ Store!Spec
  <2>1. NoDelete
    BY <1>1
  <2>2. IInv => CurrentRight
    BY CurrentFact
  <2>3. Init /\ IInv /\ CurrentRight => ContentInv /\ Store!StoreInit
    BY InitContent
  <2>4. /\ IInv /\ IInv' /\ CurrentRight /\ CurrentRight' /\ ContentInv
        /\ [Next]_vars
        => ContentInv' /\ Store!StoreStep
    BY <2>1, NextContent
  <2>5. Store!StoreStep => [Store!StoreStep]_<<Current, Holder>>
    OBVIOUS
  <2> QED BY <2>1, <2>2, <2>3, <2>4, <2>5, InitIInv, Invariance, PTL
          DEF Spec, Store!Spec
<1> QED BY <1>1

-----------------------------------------------------------------------------
(* The range of ref_count. *)

\* The late clients are finitely many, at most all of them.
LEMMA LateFinite ==
  \A f \in Frames : /\ IsFiniteSet(Late(f))
                    /\ Cardinality(Late(f)) \in Nat
                    /\ Cardinality(Late(f)) <= Cardinality(Clients)
<1> TAKE f \in Frames
<1>1. Late(f) \subseteq Clients
  BY DEF Late
<1> QED BY <1>1, FiniteClients, FS_Subset, FS_CardinalityType

\* The references counted on a frame are at most one per client.
LEMMA CountedFits ==
  \A f \in Frames : Cardinality(Counted(f)) \in 0 .. Cardinality(Clients)
<1> TAKE f \in Frames
<1>1. Counted(f) \subseteq Clients
  BY DEF Counted
<1> QED BY <1>1, FiniteClients, FS_Subset, FS_CardinalityType

\* A frame stays locked, keeps its count, and nobody finds it: or it is
\* unlocked after the step.
StaysLate(f) ==
  pte'[f].busy =>
    /\ pte[f].busy
    /\ pte'[f].ref = pte[f].ref
    /\ Late(f)' \subseteq Late(f)

\* What StaysLate is for.
LEMMA StaysLateCounts ==
  ASSUME IInv, CountInv, NEW f \in Frames, StaysLate(f), pte'[f].busy
  PROVE  /\ pte'[f].ref >= 0
         /\ pte'[f].ref + Cardinality(Late(f)') <= Cardinality(Clients)
<1>1. pte[f].ref \in Int
  BY DEF IInv, TypeOK, PTE
<1>2. Cardinality(Clients) \in Nat
  BY FiniteClients, FS_CardinalityType
<1>3. /\ Cardinality(Late(f)') <= Cardinality(Late(f))
      /\ Cardinality(Late(f)') \in Nat
      /\ Cardinality(Late(f)) \in Nat
  <2>1. Late(f)' \subseteq Late(f)
    BY DEF StaysLate
  <2> QED BY <2>1, LateFinite, FS_Subset, FS_CardinalityType
<1> QED BY <1>1, <1>2, <1>3 DEF CountInv, StaysLate

\* A step that keeps the counts of locked frames and makes nobody late.
LEMMA StaysLateInv ==
  ASSUME IInv, CountInv, \A f \in Frames : StaysLate(f)
  PROVE  CountInv'
BY StaysLateCounts DEF CountInv

\* LockPte locks a frame whose count is zero: the late ones are to come.
LEMMA LockPteCount ==
  ASSUME IInv, CountInv, NEW t \in Clients, LockPte(t)
  PROVE  CountInv'
<1> SUFFICES ASSUME NEW f \in Frames, pte'[f].busy
             PROVE  /\ pte'[f].ref >= 0
                    /\ pte'[f].ref + Cardinality(Late(f)') <= Cardinality(Clients)
  BY DEF CountInv
<1>1. Late(f)' = Late(f)
  BY DEF LockPte, Late, IInv, TypeOK
<1>2. CASE pte[f].busy
  <2>1. pte'[f].ref = pte[f].ref
    BY DEF LockPte, IInv, TypeOK, PTE
  <2> QED BY <1>1, <1>2, <2>1 DEF CountInv
<1>3. CASE ~pte[f].busy
  <2>1. f = lfr[t] /\ CanLockPte(pte[f]) /\ pte'[f].ref = pte[f].ref
    BY <1>3 DEF LockPte, IInv, TypeOK, PTE
  <2>2. pte[f].init
    BY <2>1 DEF LockPte, IInv, PhaseInv, FrameInv
  <2>3. pte'[f].ref = 0
    BY <2>1, <2>2 DEF CanLockPte
  <2>4. Cardinality(Clients) \in Nat
    BY FiniteClients, FS_CardinalityType
  <2> QED BY <1>1, <2>3, <2>4, LateFinite
<1> QED BY <1>2, <1>3

\* An increment of a locked frame makes one late client less.
LEMMA IncRefCount1Count ==
  ASSUME IInv, CountInv, NEW t \in Clients, IncRefCount1(t)
  PROVE  CountInv'
<1> SUFFICES ASSUME NEW f \in Frames, pte'[f].busy
             PROVE  /\ pte'[f].ref >= 0
                    /\ pte'[f].ref + Cardinality(Late(f)') <= Cardinality(Clients)
  BY DEF CountInv
<1>1. frm[t] \in Frames /\ pc[t] = "inc"
  BY DEF IncRefCount1, IInv, LocalsInv
<1>2. /\ pte'[frm[t]].ref = pte[frm[t]].ref + 1
      /\ pte'[frm[t]].busy = pte[frm[t]].busy
      /\ \A g \in Frames : g # frm[t] => pte'[g] = pte[g]
  BY <1>1 DEF IncRefCount1, IInv, TypeOK, PTE
<1>3. pc'[t] # "inc" /\ \A u \in Clients \ {t} : pc'[u] = pc[u] /\ frm'[u] = frm[u]
  BY DEF IncRefCount1, IInv, TypeOK
<1>4. CASE f # frm[t]
  <2>1. StaysLate(f)
    BY <1>2, <1>3, <1>4 DEF StaysLate, Late
  <2> QED BY <2>1, StaysLateCounts
<1>5. CASE f = frm[t]
  <2>1. Late(f)' = Late(f) \ {t} /\ t \in Late(f)
    BY <1>1, <1>3, <1>5 DEF Late
  <2>2. Cardinality(Late(f)') = Cardinality(Late(f)) - 1
    BY <2>1, LateFinite, FS_RemoveElement
  <2>3. pte[f].ref \in Int /\ Cardinality(Clients) \in Nat
    BY FiniteClients, FS_CardinalityType DEF IInv, TypeOK, PTE
  <2>4. pte[f].busy
    BY <1>2, <1>5
  <2> QED BY <1>2, <1>5, <2>2, <2>3, <2>4, LateFinite DEF CountInv
<1> QED BY <1>4, <1>5

\* The steps that drop a reference find the frame unlocked.
LEMMA DropCount ==
  ASSUME IInv, CountInv, NEW t \in Clients,
         UndoIncRefCount(t) \/ DecRefCount(t)
  PROVE  CountInv'
<1>1. frm[t] \in Frames /\ t \in Counted(frm[t])
  BY DEF UndoIncRefCount, DecRefCount, Counted, Holds, IInv, LocalsInv
<1>2. ~pte[frm[t]].busy
  BY <1>1, CountedMeansPositive DEF IInv
<1>3. \A f \in Frames : StaysLate(f)
  <2> TAKE f \in Frames
  <2>1. Late(f)' \subseteq Late(f)
    BY DEF UndoIncRefCount, DecRefCount, Return, Late, IInv, TypeOK
  <2>2. pte \in [Frames -> PTE]
    BY DEF IInv, TypeOK
  <2>3. pte' = [pte EXCEPT ![frm[t]].ref = @ - 1]
    BY DEF UndoIncRefCount, DecRefCount
  <2>4. pte'[f].busy = pte[f].busy /\ (f # frm[t] => pte'[f] = pte[f])
    BY <1>1, <2>2, <2>3 DEF PTE
  <2> QED BY <1>2, <2>1, <2>4 DEF StaysLate
<1> QED BY <1>3, StaysLateInv

\* A mapping that names a frame names an unlocked one: nobody finds a locked
\* frame.
LEMMA FindMappingCount ==
  ASSUME IInv, CountInv, NEW t \in Clients, FindMapping(t)
  PROVE  CountInv'
<1>1. ASSUME NEW f \in Frames, pte[f].busy PROVE Late(f)' \subseteq Late(f)
  <2>1. want[t] \in Pages
    BY DEF FindMapping, IInv, LocalsInv
  <2>2. mapping[want[t]] # f
    BY <1>1, <2>1 DEF IInv, MappingInv
  <2> QED BY <2>2 DEF FindMapping, Late, IInv, TypeOK
<1>2. pte' = pte
  BY DEF FindMapping
<1> QED BY <1>1, <1>2, StaysLateInv DEF StaysLate

\* Every step keeps the bound on the increments of locked frames.
LEMMA NextCount ==
  ASSUME NoDelete, IInv, CountInv, [Next]_vars
  PROVE  CountInv'
<1>0. pte \in [Frames -> PTE]
  BY DEF IInv, TypeOK
<1>1. ASSUME NEW t \in Clients, pc'[t] # "inc",
             \A u \in Clients \ {t} : pc'[u] = pc[u] /\ frm'[u] = frm[u],
             \A f \in Frames : pte'[f].busy =>
               pte[f].busy /\ pte'[f].ref = pte[f].ref
      PROVE  CountInv'
  BY <1>1, StaysLateInv DEF StaysLate, Late
<1>2. ASSUME NEW t \in Clients, UnLockPte(t) \/ LoadStore(t) PROVE CountInv'
  <2>1. /\ pc'[t] # "inc"
        /\ \A u \in Clients \ {t} : pc'[u] = pc[u] /\ frm'[u] = frm[u]
    BY <1>2 DEF UnLockPte, LoadStore, IInv, TypeOK
  <2>2. ASSUME NEW f \in Frames, pte'[f].busy
        PROVE  pte[f].busy /\ pte'[f].ref = pte[f].ref
    <3>1. CASE UnLockPte(t)
      <4>1. pte'[f] = pte[f] \/ pte'[f] = UnLocked(pte[f])
        BY <1>0, <3>1 DEF UnLockPte
      <4>2. ~UnLocked(pte[f]).busy
        BY <1>0 DEF UnLocked, PTE
      <4> QED BY <2>2, <4>1, <4>2
    <3>2. CASE LoadStore(t)
      BY <1>0, <2>2, <3>2 DEF LoadStore, LoadedPTE
    <3> QED BY <1>2, <3>1, <3>2
  <2> QED BY <1>1, <2>1, <2>2
<1>3. ASSUME NEW t \in Clients, MarkDirty(t) \/ FlushWrite(t) PROVE CountInv'
  <2>1. /\ pc'[t] # "inc"
        /\ \A u \in Clients \ {t} : pc'[u] = pc[u] /\ frm'[u] = frm[u]
    BY <1>3 DEF MarkDirty, FlushWrite, Return, IInv, TypeOK, NoDelete
  <2>2. \A f \in Frames : pte'[f].busy = pte[f].busy /\ pte'[f].ref = pte[f].ref
    BY <1>0, <1>3 DEF MarkDirty, FlushWrite, PTE
  <2> QED BY <1>1, <2>1, <2>2
<1>4. ASSUME NEW t \in Clients,
             \/ Poll(t) \/ PollFails(t) \/ VictimBegin(t) \/ VictimScan(t)
             \/ VictimExhausted(t) \/ VictimCheck(t) \/ EvictWrite(t)
             \/ EvictUnmap(t) \/ LoadRead(t) \/ LoadInsert(t)
             \/ LoadPublish(t) \/ WritePage(t)
             \/ \E p \in Pages : FetchPageSync(t, p) \/ FlushPage(t, p)
      PROVE  CountInv'
  <2>1. pte' = pte
    BY <1>4 DEF Poll, PollFails, VictimBegin, VictimScan, VictimExhausted,
       VictimCheck, EvictWrite, EvictUnmap, LoadRead, LoadInsert,
       LoadPublish, WritePage, FetchPageSync, FlushPage
  <2>2. /\ pc'[t] # "inc"
        /\ \A u \in Clients \ {t} : pc'[u] = pc[u] /\ frm'[u] = frm[u]
    BY <1>4 DEF Poll, PollFails, VictimBegin, VictimScan, VictimExhausted,
       VictimCheck, EvictWrite, EvictUnmap, LoadRead, LoadInsert,
       LoadPublish, WritePage, FetchPageSync, FlushPage, IInv, TypeOK
  <2> QED BY <1>1, <2>1, <2>2
<1>5. ASSUME NEW t \in Clients, LockMapping(t) \/ Relink(t) \/ UnLockMapping(t)
      PROVE  CountInv'
  <2>1. pte' = pte
    BY <1>5 DEF LockMapping, Relink, UnLockMapping
  <2>2. /\ pc'[t] # "inc"
        /\ \A u \in Clients \ {t} : pc'[u] = pc[u] /\ frm'[u] = frm[u]
    BY <1>5 DEF LockMapping, Relink, UnLockMapping, Retry, Return, IInv, TypeOK
  <2> QED BY <1>1, <2>1, <2>2
<1>6. ASSUME NEW t \in Clients,
             \/ FindMapping(t) \/ IncRefCount1(t) \/ UndoIncRefCount(t)
             \/ LockPte(t) \/ DecRefCount(t)
      PROVE  CountInv'
  BY <1>6, FindMappingCount, IncRefCount1Count, DropCount, LockPteCount
<1>7. ASSUME UNCHANGED vars PROVE CountInv'
  BY <1>7 DEF vars, CountInv, Late
<1>8. \A t \in Clients : ~FlushDelete(t) /\ ~FlushPush(t)
  BY DEF FlushDelete, FlushPush, IInv, LocalsInv
<1> QED BY <1>2, <1>3, <1>4, <1>5, <1>6, <1>7, <1>8
     DEF Next, Halt, Step, Choice

-----------------------------------------------------------------------------
(* The owners of the locks, where nothing is flushed. *)

\* FlushPage is never called.
NoFlush == FlushModes = {}

\* Every owner but of the page p goes on owning what it owns.
OwnersStay(p) ==
  \A u \in Clients, q \in Pages \ {p} : Owns(u, q) => Owns(u, q)'

\* What OwnersStay is for: p is released, or has an owner; nothing else is
\* locked.
LEMMA OwnersStayInv ==
  ASSUME OwnerInv, NEW p, OwnersStay(p),
         \A u \in Clients : op'[u] # "flush",
         \A q \in Pages \ {p} : mapping'[q] = Busy => mapping[q] = Busy,
         p \in Pages /\ mapping'[p] = Busy => \E u \in Clients : Owns(u, p)'
  PROVE  OwnerInv'
<1> SUFFICES ASSUME NEW q \in Pages, mapping'[q] = Busy
             PROVE  \E u \in Clients : Owns(u, q)'
  BY DEF OwnerInv
<1>1. CASE q = p
  BY <1>1
<1>2. CASE q # p
  BY <1>2 DEF OwnerInv, OwnersStay
<1> QED BY <1>1, <1>2

\* LoadStore changes the identity of a frame that is no one's victim.
LEMMA VictimPageKept ==
  ASSUME IInv, NEW t \in Clients, Step(t) \/ Choice(t), NEW u \in Clients \ {t},
         LocksVictim(u), pte' = pte \/ LoadStore(t) \/ Quiet
  PROVE  frm[u] \in Frames /\ pte'[frm[u]].page = pte[frm[u]].page
<1>1. frm[u] \in Frames /\ (frm[u] \in list \/ pc[u] \in {"evict", "evdel"})
  BY DEF IInv, TypeOK, LocalsInv, VictimInv, Scanning, LocksVictim, PhaseInv
<1>2. CASE LoadStore(t)
  <2>1. frm[u] # frm[t]
    BY <1>1, <1>2 DEF LoadStore, Filling, IInv, FrameInv, PhaseInv
  <2> QED BY <1>1, <1>2, <2>1 DEF LoadStore, IInv, TypeOK
<1> QED BY <1>1, <1>2 DEF Quiet

\* A step of one client takes no lock away from another.
LEMMA OthersOwn ==
  ASSUME NoDelete, IInv, NEW t \in Clients, Step(t) \/ Choice(t),
         NEW u \in Clients \ {t}
  PROVE  /\ op'[u] = op[u]
         /\ \A q \in Pages : Owns(u, q) => Owns(u, q)'
<1>1. OthersStay(t) /\ op'[u] = op[u]
  <2> USE DEF IInv, TypeOK
  <2>1. CASE \/ FindMapping(t) \/ IncRefCount1(t) \/ UndoIncRefCount(t)
             \/ LockPte(t) \/ UnLockPte(t) \/ Poll(t) \/ PollFails(t)
             \/ VictimBegin(t) \/ VictimScan(t) \/ VictimExhausted(t)
             \/ VictimCheck(t)
    BY <2>1 DEF FindMapping, IncRefCount1, UndoIncRefCount, LockPte,
       UnLockPte, Poll, PollFails, VictimBegin, VictimScan, VictimExhausted,
       VictimCheck, OthersStay
  <2>2. CASE \/ EvictWrite(t) \/ EvictUnmap(t) \/ LoadRead(t) \/ LoadStore(t)
             \/ LoadInsert(t) \/ LoadPublish(t) \/ WritePage(t) \/ MarkDirty(t)
    BY <2>2 DEF EvictWrite, EvictUnmap, LoadRead, LoadStore, LoadInsert,
       LoadPublish, WritePage, MarkDirty, OthersStay
  <2>3. CASE \/ DecRefCount(t) \/ FlushWrite(t)
             \/ \E p \in Pages : FetchPageSync(t, p) \/ FlushPage(t, p)
    BY <2>3 DEF DecRefCount, FlushWrite, Return, FetchPageSync, FlushPage,
       NoDelete, OthersStay
  <2>4. CASE LockMapping(t) \/ Relink(t) \/ UnLockMapping(t)
    BY <2>4 DEF LockMapping, Relink, UnLockMapping, Retry, Return, OthersStay
  <2>5. ~FlushDelete(t) /\ ~FlushPush(t)
    BY DEF FlushDelete, FlushPush, LocalsInv
  <2> QED BY <2>1, <2>2, <2>3, <2>4, <2>5 DEF Step, Choice
<1>2. \A f \in Frames : LoadStore(t) \/ pte'[f].page = pte[f].page
  <2> SUFFICES ASSUME NEW f \in Frames, ~LoadStore(t)
               PROVE  pte'[f].page = pte[f].page
    OBVIOUS
  <2>1. CASE QuietStep(t)
    BY <2>1, QuietStepIsQuiet DEF Quiet
  <2>2. CASE MarkDirty(t) \/ FlushWrite(t)
    BY <2>2 DEF MarkDirty, FlushWrite, IInv, TypeOK, PTE
  <2>3. CASE EvictWrite(t) \/ EvictUnmap(t) \/ LoadRead(t) \/ WritePage(t)
    BY <2>3 DEF EvictWrite, EvictUnmap, LoadRead, WritePage
  <2>4. ~FlushDelete(t) /\ ~FlushPush(t)
    BY DEF FlushDelete, FlushPush, IInv, LocalsInv
  <2> QED BY <2>1, <2>2, <2>3, <2>4 DEF Step, Choice, QuietStep
<1>3. LocksVictim(u) => /\ frm[u] \in Frames
                        /\ pte'[frm[u]].page = pte[frm[u]].page
  <2> SUFFICES ASSUME LocksVictim(u)
               PROVE  frm[u] \in Frames /\ pte'[frm[u]].page = pte[frm[u]].page
    OBVIOUS
  <2>1. frm[u] \in Frames
    BY DEF IInv, TypeOK, LocalsInv, VictimInv, Scanning, LocksVictim
  <2>2. CASE LoadStore(t)
    BY <2>2, VictimPageKept
  <2> QED BY <1>2, <2>1, <2>2
<1> QED BY <1>1, <1>3
     DEF OthersStay, Owns, LocksWanted, LocksVictim, VictimPage

\* Every step keeps an owner for every Busy mapping.
LEMMA NextOwner ==
  ASSUME NoFlush, NoDelete, IInv, IInv', OwnerInv, [Next]_vars
  PROVE  OwnerInv'
<1>1. ASSUME NEW t \in Clients, Step(t) \/ Choice(t), NEW p,
             op'[t] # "flush",
             \A q \in Pages \ {p} : Owns(t, q) => Owns(t, q)',
             \A q \in Pages \ {p} : mapping'[q] = Busy => mapping[q] = Busy,
             p \in Pages /\ mapping'[p] = Busy => Owns(t, p)'
      PROVE  OwnerInv'
  <2>1. \A u \in Clients : op'[u] # "flush"
    BY <1>1, OthersOwn DEF OwnerInv
  <2>2. OwnersStay(p)
    BY <1>1, OthersOwn DEF OwnersStay
  <2> QED BY <1>1, <2>1, <2>2, OwnersStayInv
\* Steps that lock and release nothing.
<1>2. ASSUME NEW t \in Clients, Step(t) \/ Choice(t), mapping' = mapping,
             op'[t] # "flush", \A q \in Pages : Owns(t, q) => Owns(t, q)'
      PROVE  OwnerInv'
  BY <1>1, <1>2, ConstantsDistinct
<1>3. ASSUME NEW t \in Clients, Step(t) \/ Choice(t),
             \/ FindMapping(t) \/ IncRefCount1(t) \/ UndoIncRefCount(t)
             \/ WritePage(t) \/ MarkDirty(t) \/ DecRefCount(t)
             \/ \E p \in Pages : FetchPageSync(t, p)
      PROVE  OwnerInv'
  <2>1. \A q \in Pages : ~Owns(t, q)
    BY <1>3 DEF FindMapping, IncRefCount1, UndoIncRefCount, WritePage,
       MarkDirty, DecRefCount, FetchPageSync, Owns, LocksWanted, LocksVictim,
       IInv, LocalsInv
  <2>2. mapping' = mapping /\ op'[t] # "flush"
    BY <1>3 DEF FindMapping, IncRefCount1, UndoIncRefCount, WritePage,
       MarkDirty, DecRefCount, Return, FetchPageSync, OwnerInv, IInv, TypeOK
  <2> QED BY <1>2, <1>3, <2>1, <2>2
<1>4. ASSUME NEW t \in Clients, Step(t),
             \/ Poll(t) \/ PollFails(t) \/ VictimBegin(t) \/ VictimScan(t)
             \/ VictimExhausted(t)
      PROVE  OwnerInv'
  <2>1. /\ LocksWanted(t) /\ ~LocksVictim(t) /\ LocksWanted(t)'
        /\ mapping' = mapping /\ want' = want /\ op'[t] # "flush"
    BY <1>4 DEF Poll, PollFails, VictimBegin, VictimScan, VictimExhausted,
       LocksWanted, LocksVictim, OwnerInv, IInv, TypeOK, LocalsInv
  <2> QED BY <1>2, <1>4, <2>1 DEF Owns
<1>5. ASSUME NEW t \in Clients, Step(t),
             LockPte(t) \/ UnLockPte(t) \/ VictimCheck(t) \/ EvictWrite(t)
      PROVE  OwnerInv'
  <2>1. /\ LocksWanted(t) /\ LocksWanted(t)'
        /\ mapping' = mapping /\ want' = want /\ frm' = frm
        /\ op'[t] # "flush"
        /\ LocksVictim(t) => LocksVictim(t)' /\ frm[t] \in Frames
    BY <1>5 DEF LockPte, UnLockPte, VictimCheck, EvictWrite, LocksWanted,
       LocksVictim, OwnerInv, IInv, TypeOK, LocalsInv, VictimInv, Scanning
  <2>2. \A f \in Frames : pte'[f].page = pte[f].page
    <3>1. CASE LockPte(t) \/ VictimCheck(t) \/ UnLockPte(t)
      BY <3>1, QuietStepIsQuiet DEF QuietStep, Quiet
    <3>2. CASE EvictWrite(t)
      BY <3>2 DEF EvictWrite
    <3> QED BY <1>5, <3>1, <3>2
  <2> QED BY <1>2, <1>5, <2>1, <2>2 DEF Owns, VictimPage
<1>6. ASSUME NEW t \in Clients, Step(t),
             LoadRead(t) \/ LoadStore(t) \/ LoadInsert(t)
      PROVE  OwnerInv'
  <2>1. /\ LocksWanted(t) /\ ~LocksVictim(t) /\ LocksWanted(t)'
        /\ mapping' = mapping /\ want' = want /\ op'[t] # "flush"
    BY <1>6 DEF LoadRead, LoadStore, LoadInsert, LocksWanted, LocksVictim,
       OwnerInv, IInv, TypeOK, LocalsInv
  <2> QED BY <1>2, <1>6, <2>1 DEF Owns
\* LockMapping.
<1>7. ASSUME NEW t \in Clients, Step(t), LockMapping(t) PROVE OwnerInv'
  <2>0. PICK p : p = LockPage(t)
    OBVIOUS
  <2>1. p \in Pages /\ op[t] \in {"fetch", "victim"} /\ ~LocksVictim(t)
    BY <1>7, <2>0, LockMappingPage DEF LockMapping, OwnerInv, IInv, TypeOK,
       LocksVictim
  <2>2. CASE mapping[p] = Busy
    <3>1. mapping' = mapping /\ op' = op /\ want' = want
      BY <1>7, <2>0, <2>1, <2>2, ConstantsDistinct DEF LockMapping, Retry
    <3>2. op[t] = "fetch" => ~LocksWanted(t)
      BY <1>7 DEF LockMapping, LocksWanted
    <3>3. op[t] = "victim" => LocksWanted(t)'
      BY <3>1 DEF LocksWanted
    <3> QED BY <1>2, <1>7, <2>1, <3>1, <3>2, <3>3 DEF Owns, OwnerInv
  <2>3. CASE mapping[p] # Busy
    <3>1. /\ mapping' = [mapping EXCEPT ![p] = Busy]
          /\ op' = op /\ want' = want /\ frm' = frm /\ pte' = pte
          /\ pc'[t] \in {"init", "check", "lockpte"}
      BY <1>7, <2>0, <2>1, <2>3 DEF LockMapping, IInv, TypeOK
    <3>2. LocksWanted(t)' /\ (op[t] = "fetch" => ~LocksWanted(t))
      BY <1>7, <3>1 DEF LockMapping, LocksWanted
    <3>3. Owns(t, p)'
      <4>1. CASE op[t] = "fetch"
        BY <2>0, <3>1, <3>2, <4>1 DEF Owns, LockPage
      <4>2. CASE op[t] = "victim"
        <5>1. pc'[t] \in LockSteps
          BY <1>7, <2>0, <2>1, <2>3, <4>2 DEF LockMapping, IInv, TypeOK
        <5>2. p = VictimPage(t)
          BY <1>7, <2>0, <4>2 DEF LockMapping, LockPage, IInv, VictimInv, Scanning
        <5> QED BY <3>1, <4>2, <5>1, <5>2 DEF Owns, LocksVictim, VictimPage
      <4> QED BY <2>1, <4>1, <4>2
    <3>4. \A q \in Pages \ {p} : Owns(t, q) => Owns(t, q)'
      BY <2>1, <3>1, <3>2 DEF Owns
    <3>5. \A q \in Pages \ {p} : mapping'[q] = mapping[q]
      BY <3>1 DEF IInv, TypeOK
    <3>6. op'[t] # "flush"
      BY <2>1, <3>1
    <3> QED BY <1>1, <1>7, <3>3, <3>4, <3>5, <3>6
  <2> QED BY <2>2, <2>3
\* Relink and UnLockMapping release LockPage(t).
<1>8. ASSUME NEW t \in Clients, Step(t), Relink(t) \/ UnLockMapping(t)
      PROVE  OwnerInv'
  <2> DEFINE p == LockPage(t)
  <2>1. /\ pc[t] \in {"relink", "unmap"} /\ op[t] \in {"fetch", "victim"}
        /\ lfr[t] \in Frames /\ p \in Pages
    BY <1>8 DEF Relink, UnLockMapping, OwnerInv, IInv, TypeOK, LocalsInv,
       LockPage, VictimInv, Scanning, FrameInv, PhaseInv, VictimPage
  <2>2. mapping[p] = Busy
    BY <2>1 DEF IInv, LockInv, LocksWanted, LocksVictim, LockPage, VictimInv,
       Scanning
  <2>3. mapping' = [mapping EXCEPT ![p] = lfr[t]] /\ Retry(t)
    BY <1>8, <2>2 DEF Relink, UnLockMapping, CreateMapping
  <2>4. mapping'[p] # Busy /\ \A q \in Pages \ {p} : mapping'[q] = mapping[q]
    BY <2>1, <2>3, ConstantsDistinct DEF IInv, TypeOK
  <2>5. op' = op /\ want' = want
    BY <2>1, <2>3 DEF Retry
  <2>6. \A q \in Pages \ {p} : Owns(t, q) => Owns(t, q)'
    <3>1. CASE op[t] = "fetch"
      BY <2>1, <3>1 DEF Owns, LocksVictim, LockPage
    <3>2. CASE op[t] = "victim"
      <4>1. VictimPage(t) = p
        BY <2>1, <3>2 DEF LockPage, IInv, VictimInv, Scanning
      <4>2. LocksWanted(t)'
        BY <2>5, <3>2 DEF LocksWanted
      <4> QED BY <2>5, <4>1, <4>2 DEF Owns
    <3> QED BY <2>1, <3>1, <3>2
  <2>7. op'[t] # "flush"
    BY <2>1, <2>5
  <2> HIDE DEF p
  <2> QED BY <1>1, <1>8, <2>4, <2>6, <2>7
\* EvictUnmap releases the victim's page.
<1>9. ASSUME NEW t \in Clients, Step(t), EvictUnmap(t) PROVE OwnerInv'
  <2> DEFINE p == VictimPage(t)
  <2>1. /\ pc[t] = "evdel" /\ LocksVictim(t) /\ p \in Pages /\ mapping[p] = Busy
        /\ pc'[t] = "load" /\ op' = op /\ want' = want
    BY <1>9, LockedPages DEF EvictUnmap, LocksVictim, VictimPage, IInv,
       TypeOK, LockInv
  <2>2. mapping' = [mapping EXCEPT ![p] = Empty]
    BY <1>9, <2>1 DEF EvictUnmap, DeleteMapping, CreateMapping, VictimPage
  <2>3. mapping'[p] # Busy /\ \A q \in Pages \ {p} : mapping'[q] = mapping[q]
    BY <2>1, <2>2, ConstantsDistinct DEF IInv, TypeOK
  <2>4. \A q \in Pages \ {p} : Owns(t, q) => Owns(t, q)'
    BY <2>1 DEF Owns, LocksWanted
  <2>5. op'[t] # "flush"
    BY <2>1 DEF OwnerInv
  <2> HIDE DEF p
  <2> QED BY <1>1, <1>9, <2>3, <2>4, <2>5
\* LoadPublish releases the page it has loaded.
<1>10. ASSUME NEW t \in Clients, Step(t), LoadPublish(t) PROVE OwnerInv'
  <2> DEFINE p == want[t]
  <2>1. /\ pc[t] = "publish" /\ p \in Pages /\ frm[t] \in Frames
        /\ mapping[p] = Busy /\ ~LocksVictim(t) /\ op' = op
    BY <1>10 DEF LoadPublish, LocksVictim, LocksWanted, IInv, LocalsInv,
       LockInv
  <2>2. mapping' = [mapping EXCEPT ![p] = frm[t]]
    BY <1>10, <2>1 DEF LoadPublish, CreateMapping
  <2>3. mapping'[p] # Busy /\ \A q \in Pages \ {p} : mapping'[q] = mapping[q]
    BY <2>1, <2>2, ConstantsDistinct DEF IInv, TypeOK
  <2>4. \A q \in Pages \ {p} : Owns(t, q) => Owns(t, q)'
    BY <2>1 DEF Owns
  <2>5. op'[t] # "flush"
    BY <2>1 DEF OwnerInv
  <2> HIDE DEF p
  <2> QED BY <1>1, <1>10, <2>3, <2>4, <2>5
<1>11. ASSUME UNCHANGED vars PROVE OwnerInv'
  BY <1>11 DEF vars, OwnerInv, Owns, LocksWanted, LocksVictim, VictimPage
<1>12. \A t \in Clients : /\ ~FlushWrite(t) /\ ~FlushDelete(t) /\ ~FlushPush(t)
                          /\ \A p \in Pages : ~FlushPage(t, p)
  BY DEF NoFlush, OwnerInv, FlushPage, FlushWrite, FlushDelete, FlushPush,
     IInv, LocalsInv
<1>13. ASSUME NEW t \in Clients, Step(t) PROVE OwnerInv'
  BY <1>3, <1>4, <1>5, <1>6, <1>7, <1>8, <1>9, <1>10, <1>12, <1>13 DEF Step
<1>14. ASSUME NEW t \in Clients, Choice(t) PROVE OwnerInv'
  BY <1>3, <1>12, <1>14 DEF Choice
<1> QED BY <1>11, <1>13, <1>14 DEF Next, Halt

-----------------------------------------------------------------------------
(* The theorems: what holds for any number of clients, pages and frames. *)

\* The increments of locked frames stay within the bound.
LEMMA CountInvariance == NoDelete /\ Spec => []CountInv
<1>1. ASSUME NoDelete PROVE Spec => []CountInv
  <2>1. NoDelete
    BY <1>1
  <2>2. Init => CountInv
    BY DEF Init, CountInv, EmptyPTE
  <2>3. IInv /\ CountInv /\ [Next]_vars => CountInv'
    BY <2>1, NextCount
  <2> QED BY <2>1, <2>2, <2>3, Invariance, PTL DEF Spec
<1> QED BY <1>1

\* Without flushes every Busy mapping has an owner.
LEMMA OwnerInvariance == NoFlush /\ Spec => []OwnerInv
<1>1. ASSUME NoFlush PROVE Spec => []OwnerInv
  <2>1. NoFlush /\ NoDelete
    BY <1>1 DEF NoFlush, NoDelete
  <2>2. Init => OwnerInv
    BY ConstantsDistinct DEF Init, OwnerInv
  <2>3. IInv /\ IInv' /\ OwnerInv /\ [Next]_vars => OwnerInv'
    BY <2>1, NextOwner
  <2> QED BY <2>1, <2>2, <2>3, Invariance, PTL DEF Spec
<1> QED BY <1>1

\* The whole invariant of the pool: locks, frames and counts (IInv), content,
\* the increments left on locked frames, and the owners of the locks.
THEOREM FullInvariance == NoDelete /\ Spec => []FullInv
<1>1. ASSUME NoDelete, NoFlush PROVE Spec => []FullInv
  <2>1. NoDelete /\ NoFlush
    BY <1>1
  <2>2. IInv /\ ContentInv /\ CountInv /\ OwnerInv => FullInv
    BY DEF FullInv
  <2> QED BY <2>1, <2>2, Invariance, ContentInvariance, CountInvariance,
             OwnerInvariance, PTL
<1>2. ASSUME NoDelete, ~NoFlush PROVE Spec => []FullInv
  <2>1. NoDelete
    BY <1>2
  <2>2. IInv /\ ContentInv /\ CountInv => FullInv
    BY <1>2 DEF FullInv, NoFlush
  <2> QED BY <2>1, <2>2, Invariance, ContentInvariance, CountInvariance, PTL
<1> QED BY <1>1, <1>2

\* Seen through Current and Holder, FetchPageSync, eviction, DecRefCount and
\* FlushPage are a plain store of pages: no load, eviction or flush changes a
\* page's content, and only a holder does.
THEOREM PoolIsAStore == NoDelete /\ Spec => ImplementsPageStore
BY ContentInvariance, PTL DEF ImplementsPageStore

\* What FetchPageSync returns is the current content of the page, and content
\* that is ahead of the disk is marked dirty or about to be.
THEOREM ReadsAreCurrent == NoDelete /\ Spec => []ReadsCurrent
<1>1. IInv /\ ContentInv /\ CurrentRight => ReadsCurrent
  <2> SUFFICES ASSUME IInv, ContentInv, CurrentRight PROVE ReadsCurrent
    OBVIOUS
  <2>1. ASSUME NEW t \in Clients, Holds(t)
        PROVE  mem[frm[t]] = Current[want[t]]
    <3>1. /\ frm[t] \in Frames /\ pte[frm[t]].page = want[t]
          /\ pte[frm[t]].init /\ ~pte[frm[t]].busy
      BY <2>1 DEF IInv, LocalsInv, PhaseInv, Holds
    <3>2. Loaded(frm[t])
      BY <3>1 DEF IInv, FrameInv, Loaded
    <3> QED BY <3>1, <3>2 DEF CurrentRight
  <2>2. ASSUME NEW p \in Pages, NEW f \in Frames, f \in Copies(p),
               mem[f] # disk[p]
        PROVE  \/ pte[f].dirty
               \/ \E t \in Clients : pc[t] = "dirty" /\ frm[t] = f
    <3>1. pte[f].page = p /\ Loaded(f)
      BY <2>2 DEF Copies, Resident, Loaded, Filling
    <3> QED BY <2>2, <3>1 DEF ContentInv
  <2> QED BY <2>1, <2>2 DEF ReadsCurrent
<1> QED BY <1>1, CurrentFact, Invariance, ContentInvariance, PTL

\* IncRefCount1, DecRefCount and UnLock keep the 16-bit ref_count in range,
\* however many increments a locked frame collects.
THEOREM RefCountsFit == NoDelete /\ Spec => []RefCountFits
<1>1. IInv /\ CountInv => RefCountFits
  <2> SUFFICES ASSUME IInv, CountInv, NEW f \in Frames
               PROVE  pte[f].ref \in 0 .. RefMax
    BY DEF RefCountFits
  <2>1. pte[f].ref \in Int /\ Cardinality(Clients) \in Nat
    BY FiniteClients, FS_CardinalityType DEF IInv, TypeOK, PTE
  <2>2. CASE pte[f].busy
    BY <2>1, <2>2, LateFinite, RefMaxType DEF CountInv
  <2>3. CASE ~pte[f].busy
    BY <2>1, <2>3, CountedFits, RefMaxType DEF IInv, RefCountExact
  <2> QED BY <2>2, <2>3
<1> QED BY <1>1, Invariance, CountInvariance, PTL

\* A mapping is Busy exactly while one client at work has locked it: LockMapping
\* never succeeds for two, and no fetch leaves a page locked behind it.
THEOREM LocksHaveOwners == NoFlush /\ Spec => []LockHasOwner
<1>1. IInv /\ OwnerInv => LockHasOwner
  <2> SUFFICES ASSUME IInv, OwnerInv PROVE LockHasOwner
    OBVIOUS
  <2>1. ASSUME NEW t \in Clients, NEW p \in Pages
        PROVE  p \in Locks(t) <=> Owns(t, p)
    <3>1. pc[t] \notin {"fwrite", "fdel"}
      BY DEF IInv, LocalsInv, OwnerInv
    <3>2. op[t] = "victim" /\ pc[t] \in LockSteps => snap[t] = VictimPage(t)
      BY DEF IInv, VictimInv, Scanning
    <3> QED BY <3>1, <3>2 DEF Locks, Owns, LocksWanted, LocksVictim, VictimPage
  <2>2. ASSUME NEW t \in Clients, NEW p \in Pages, Owns(t, p)
        PROVE  mapping[p] = Busy
    BY <2>2 DEF Owns, IInv, LockInv
  <2>3. ASSUME NEW t \in Clients, NEW u \in Clients, NEW p \in Pages,
               Owns(t, p), Owns(u, p)
        PROVE  t = u
    BY <2>3 DEF Owns, IInv, LockInv
  <2> QED BY <2>1, <2>2, <2>3 DEF LockHasOwner, OwnerInv
<1>2. NoFlush => NoDelete
  BY DEF NoFlush, NoDelete
<1> QED BY <1>1, <1>2, Invariance, OwnerInvariance, PTL
=============================================================================
