--------------------------- MODULE BufferPoolInv ---------------------------
(***************************************************************************)
(* The inductive invariant of BufferPool, for a pool whose pages are not   *)
(* flushed out of memory ("delete" \notin FlushModes).  Each part says     *)
(* what one piece of the state means while the locks are held as they are. *)
(***************************************************************************)
EXTENDS BufferPool

\* The steps between LockMapping's success and the lock's release.
LockSteps == {"lockpte", "relink", "check", "unlock", "unmap"}

Filling(t) == pc[t] \in {"load", "store"}

\* The frame has been loaded and nobody is filling it for another page.
Loaded(f) == pte[f].init /\ \A t \in Clients : ~(Filling(t) /\ frm[t] = f)

\* Victim works on a candidate, under the latch.
Scanning(t) == op[t] = "victim" /\ (pc[t] = "lock" \/ pc[t] \in LockSteps)

\* The client has locked the page it asked for ...
LocksWanted(t) ==
  \/ pc[t] \in {"init", "latch", "scan", "evict", "evdel", "load", "store",
                "insert", "publish", "fwrite"}
  \/ pc[t] \in LockSteps
  \/ op[t] = "victim"

\* ... and the page of the frame it is about to evict.
LocksVictim(t) ==
  \/ op[t] = "victim" /\ pc[t] \in LockSteps
  \/ pc[t] \in {"evict", "evdel"}

VictimPage(t) == pte[frm[t]].page

\* The page the client has locked was in no frame when it locked it.
FoundEmpty(t) ==
  \/ pc[t] \in {"init", "latch", "scan", "evict", "evdel", "load", "store"}
  \/ op[t] = "victim"
  \/ op[t] = "flush" /\ pc[t] = "unmap" /\ lfr[t] = Empty

\* Which locals are set at which step; no assertion has failed.
LocalsInv ==
  \A t \in Clients :
    /\ pc[t] \notin {"fdel", "fpush", "assert"}
    /\ pc[t] = "idle" => op[t] = "fetch"
    /\ pc[t] # "idle" => want[t] \in Pages
    /\ pc[t] \in {"find", "inc", "undo", "init", "evict", "evdel", "load",
                  "store", "insert", "publish", "held", "dirty", "unpin"}
         => op[t] = "fetch"
    /\ pc[t] \in {"latch", "scan", "check"} => op[t] = "victim"
    /\ op[t] = "victim" =>
         pc[t] \in {"latch", "scan", "lock", "exhausted"} \cup LockSteps
    /\ pc[t] = "fwrite" => op[t] = "flush"
    /\ pc[t] = "unlock" => op[t] # "flush"
    /\ pc[t] = "unmap" /\ op[t] # "flush" => lfr[t] \in Frames
    /\ pc[t] \in {"inc", "undo", "evict", "evdel", "load", "store", "insert",
                  "publish", "held", "dirty", "unpin"} => frm[t] \in Frames
    /\ pc[t] \in {"lockpte", "relink", "unlock", "fwrite", "check"}
         => lfr[t] \in Frames
    /\ pc[t] = "unmap" => lfr[t] \in Frames \cup {Empty}

\* Victim runs under the latch, and its candidate stays in the list with the
\* identity it was first seen with.
VictimInv ==
  \A t \in Clients :
    /\ pc[t] = "scan" => latch = t
    /\ Scanning(t) => /\ latch = t
                      /\ tries > 0
                      /\ frm[t] \in list
                      /\ snap[t] = VictimPage(t)
    /\ LocksVictim(t) /\ op[t] = "victim" => lfr[t] = frm[t]

\* Free frames have never been used; frames in the list have been loaded.
FrameInv ==
  /\ \A f \in free : ~pte[f].init /\ f \notin list
  /\ \A f \in list : pte[f].init
  /\ \A f \in Frames : pte[f].init => pte[f].page \in Pages
  /\ \A t \in Clients : Filling(t) =>
       /\ frm[t] \notin free
       /\ frm[t] \notin list
       /\ pte[frm[t]].busy \/ ~pte[frm[t]].init
       /\ \A u \in Clients : Filling(u) /\ frm[u] = frm[t] => u = t

\* A page is in at most one frame, and its mapping names that frame or is
\* locked.
MappingInv ==
  /\ \A p \in Pages : mapping[p] \in Frames =>
       /\ mapping[p] \in list
       /\ pte[mapping[p]].page = p
       /\ ~pte[mapping[p]].busy
  /\ \A f \in Frames : Loaded(f) => mapping[pte[f].page] \in {f, Busy}
  /\ \A f, g \in Frames :
       Loaded(f) /\ Loaded(g) /\ pte[f].page = pte[g].page => f = g

\* Who has locked what: a locked page is Busy and has one owner.
LockInv ==
  /\ \A t \in Clients :
       /\ LocksWanted(t) => mapping[want[t]] = Busy
       /\ LocksVictim(t) => mapping[VictimPage(t)] = Busy
  /\ \A t, u \in Clients :
       /\ LocksWanted(t) /\ LocksWanted(u) /\ want[t] = want[u] => t = u
       /\ LocksVictim(t) /\ LocksVictim(u) /\ VictimPage(t) = VictimPage(u)
            => t = u
       /\ LocksWanted(t) /\ LocksVictim(u) => want[t] # VictimPage(u)
  /\ \A t \in Clients, f \in Frames :
       FoundEmpty(t) /\ Loaded(f) => pte[f].page # want[t]

\* What a client knows of the frame it works on.
PhaseInv ==
  \A t \in Clients :
    /\ pc[t] \in LockSteps \cup {"fwrite"} /\ lfr[t] \in Frames =>
         /\ lfr[t] \in list
         /\ pte[lfr[t]].page = LockPage(t)
         /\ pte[lfr[t]].busy <=> pc[t] \in {"unlock", "check", "fwrite"}
    /\ pc[t] \in {"evict", "evdel"} =>
         /\ frm[t] \notin list
         /\ frm[t] \notin free
         /\ pte[frm[t]].init /\ pte[frm[t]].busy
         /\ \A u \in Clients : Filling(u) => frm[u] # frm[t]
    /\ Holds(t) \/ pc[t] \in {"insert", "publish"} =>
         /\ pte[frm[t]].page = want[t]
         /\ pte[frm[t]].init /\ ~pte[frm[t]].busy
    /\ pc[t] = "insert" => frm[t] \notin list
    /\ pc[t] = "publish" => frm[t] \in list
    /\ pc[t] \in {"inc", "undo"} => pte[frm[t]].init

\* The strengthening under which each step preserves the pool's properties.
IInv ==
  /\ TypeOK
  /\ LocalsInv
  /\ VictimInv
  /\ FrameInv
  /\ MappingInv
  /\ LockInv
  /\ PhaseInv
  /\ RefCountExact

-----------------------------------------------------------------------------
(* What is added to IInv for the content, the counter's range and the owners. *)

\* Content that is ahead of the disk is marked dirty, or its writer is about
\* to mark it; a frame just read and a frame just written back agree with
\* the disk.
ContentInv ==
  /\ \A f \in Frames : Loaded(f) /\ mem[f] # disk[pte[f].page] =>
       pte[f].dirty \/ \E t \in Clients : pc[t] = "dirty" /\ frm[t] = f
  /\ \A t \in Clients :
       /\ pc[t] = "store" => mem[frm[t]] = disk[want[t]]
       /\ pc[t] = "evdel" => mem[frm[t]] = disk[VictimPage(t)]

\* The clients that found the frame mapped and have not counted it yet.
Late(f) == {t \in Clients : pc[t] = "inc" /\ frm[t] = f}

\* While a frame is locked nobody new finds it, so the increments left on it
\* and those still to come are one per client at most.
CountInv ==
  \A f \in Frames : pte[f].busy =>
    /\ pte[f].ref >= 0
    /\ pte[f].ref + Cardinality(Late(f)) <= Cardinality(Clients)

Owns(t, p) ==
  \/ LocksWanted(t) /\ want[t] = p
  \/ LocksVictim(t) /\ VictimPage(t) = p

\* Where nothing is flushed, a Busy mapping is owned by a client at work.
OwnerInv ==
  /\ \A t \in Clients : op[t] # "flush"
  /\ \A p \in Pages : mapping[p] = Busy => \E t \in Clients : Owns(t, p)

FullInv ==
  /\ IInv
  /\ ContentInv
  /\ CountInv
  /\ FlushModes = {} => OwnerInv
=============================================================================
