----------------------------- MODULE MCWaiting ------------------------------
(***************************************************************************)
(* Who waits for whom, one part at a time and with fairness: the block      *)
(* reads that wait for each other's page locks, the two servers of the      *)
(* asynchronous path, the I/O server and the kernel, the eviction server's  *)
(* end, and the reader-writer locks. The variables of the other parts are   *)
(* Off.                                                                     *)
(***************************************************************************)
EXTENDS Integers, FiniteSets, Sequences

CONSTANTS t1, t2, t3, t4, g1, g2, f1, f2, p1, p2, p3, None, Empty, Busy

VARIABLES
  part,   \* the part that runs
  \* the variables of the parts:
  mapping, pte, free, repl, mem, disk, pc, kind, rq, at, left, chan, place, again,
  mchan, mplace, mat, pages, i, fut, blk, written, req, buf, mesg, channel, slot,
  state, finish, spc, sq, flight, cq, num_preparing_, num_processing_, version,
  stop_, gone, inUse, mark, slots, frm, done, n_readers, writing, readerCv,
  writerCv, locked_

vars == <<part, mapping, pte, free, repl, mem, disk, pc, kind, rq, at, left, chan,
          place, again, mchan, mplace, mat, pages, i, fut, blk, written, req, buf,
          mesg, channel, slot, state, finish, spc, sq, flight, cq, num_preparing_,
          num_processing_, version, stop_, gone, inUse, mark, slots, frm, done,
          n_readers, writing, readerCv, writerCv, locked_>>

Two == {t1, t2}
Four == {t1, t2, t3, t4}

\* The requests of one block name its pages in ascending order; those of a round robin
\* batch come in any order, and may name a page twice.
InOrder ==
  ({"Async1", "New"} \X {<<p1, p2>>, <<p2, p3>>})
    \cup {<<"Batch1", <<p1, p2>>>>, <<"Sync", <<p3>>>>}
    \cup ({"Round"} \X {<<p2, p1>>, <<p2, p2>>})
Locking == ({"Sync1", "Sync"} \X {<<p1, p2>>, <<p2, p3>>, <<p3>>})
             \cup ({"Round"} \X {<<p2, p1>>, <<p2, p2>>})

\* The callers that wait for their requests in order, and the round robin batch.
Reads == INSTANCE BatchFetch WITH
  Threads <- Two, Pages <- {p1, p2, p3}, Frames <- {f1, f2}, Calls <- 1, MaxVersion <- 1,
  Asks <- InOrder

\* GetBlockSync1, which waits for a page while it has others locked.
Sync1 == INSTANCE BatchFetch WITH
  Threads <- Two, Pages <- {p1, p2, p3}, Frames <- {f1, f2}, Calls <- 1, MaxVersion <- 1,
  Asks <- Locking

\* Two clients that ask for the same page: their requests meet in the array while it is
\* loaded, or evicted for another one.
Async == INSTANCE AsyncPool WITH
  Clients <- Two, Pages <- {p1, p2, p3}, Frames <- {f1, f2}, Calls <- 2,
  MaxVersion <- 1, Places <- 2, Channel <- 2,
  Asks <- [c \in Two |-> IF c = t1 THEN {<<p1, p2>>} ELSE {<<p1>>, <<p3>>}]

\* Bound: only p2 is written, so that its eviction has to wait for the disk.
OnlyP2Written == \A p \in {p1, p3} : written'[p] = written[p]

\* A channel of one, two slots and a ring of one entry: each is full at times.
IO == INSTANCE IOServer WITH
  Clients <- {t1, t2, t3}, Pages <- {p1, p2}, Slots <- 2, Depth <- 1,
  ChannelCap <- 1, MaxVersion <- 0, MayFail <- FALSE, MayStop <- TRUE

\* Requests that can never be served among them.
Evict == INSTANCE EvictionServer WITH
  Clients <- Two, Frames <- {f1, f2}, PageNum <- 2, Slots <- 2, ChannelCap <- 2,
  Fetches <- 2

\* SpinningRWLock.
Spin == INSTANCE RWLocks WITH
  Threads <- Four, Guards <- {g1, g2}, Kind <- "spin", MaxReaders <- 5

\* RWLock.
Cv == INSTANCE RWLocks WITH
  Threads <- Four, Guards <- {g1, g2}, Kind <- "cv", MaxReaders <- 5

\* RWMutex.
Mutex == INSTANCE RWLocks WITH
  Threads <- Four, Guards <- {g1, g2}, Kind <- "mutex", MaxReaders <- 5

ASSUME /\ Reads!Parameters /\ Sync1!Parameters /\ Async!Parameters /\ IO!Parameters
       /\ Evict!Parameters /\ Spin!Parameters /\ Cv!Parameters /\ Mutex!Parameters
       /\ Cv!NeverFull /\ Mutex!NeverFull

Off == "off"   \* of a variable that the part does not have

NotReads == <<chan, place, again, mchan, mplace, mat, pages, i, fut, blk, written,
              req, buf, mesg, channel, slot, state, finish, spc, sq, flight, cq,
              num_preparing_, num_processing_, version, stop_, gone, inUse, mark,
              slots, frm, done, n_readers, writing, readerCv, writerCv, locked_>>
NotAsync == <<kind, rq, req, buf, mesg, channel, slot, state, finish, spc, sq,
              flight, cq, num_preparing_, num_processing_, version, stop_, gone,
              inUse, mark, slots, frm, done, n_readers, writing, readerCv,
              writerCv, locked_>>
NotIO == <<mapping, pte, free, repl, mem, kind, rq, left, chan, place, again,
           mchan, mplace, mat, pages, i, fut, blk, written, inUse, mark, slots,
           frm, done, n_readers, writing, readerCv, writerCv, locked_>>
NotEvict == <<mapping, pte, mem, disk, kind, rq, left, chan, place, again, mchan,
              mplace, mat, pages, i, fut, blk, written, req, buf, mesg, slot,
              state, finish, spc, sq, flight, cq, num_preparing_, num_processing_,
              version, n_readers, writing, readerCv, writerCv, locked_>>
NotSpin == <<mapping, pte, free, repl, mem, disk, kind, rq, at, left, chan, place,
             again, mchan, mplace, mat, pages, i, fut, blk, written, req, buf,
             mesg, channel, slot, state, finish, spc, sq, flight, cq,
             num_preparing_, num_processing_, version, stop_, gone, inUse, mark,
             slots, frm, done>>

Init ==
  \/ /\ part = "batch" /\ Reads!Init
     /\ chan = Off /\ place = Off /\ again = Off /\ mchan = Off /\ mplace = Off
     /\ mat = Off /\ pages = Off /\ i = Off /\ fut = Off /\ blk = Off
     /\ written = Off /\ req = Off /\ buf = Off /\ mesg = Off /\ channel = Off
     /\ slot = Off /\ state = Off /\ finish = Off /\ spc = Off /\ sq = Off
     /\ flight = Off /\ cq = Off /\ num_preparing_ = Off
     /\ num_processing_ = Off /\ version = Off /\ stop_ = Off /\ gone = Off
     /\ inUse = Off /\ mark = Off /\ slots = Off /\ frm = Off /\ done = Off
     /\ n_readers = Off /\ writing = Off /\ readerCv = Off /\ writerCv = Off
     /\ locked_ = Off
  \/ /\ part = "sync1" /\ Sync1!Init
     /\ chan = Off /\ place = Off /\ again = Off /\ mchan = Off /\ mplace = Off
     /\ mat = Off /\ pages = Off /\ i = Off /\ fut = Off /\ blk = Off
     /\ written = Off /\ req = Off /\ buf = Off /\ mesg = Off /\ channel = Off
     /\ slot = Off /\ state = Off /\ finish = Off /\ spc = Off /\ sq = Off
     /\ flight = Off /\ cq = Off /\ num_preparing_ = Off
     /\ num_processing_ = Off /\ version = Off /\ stop_ = Off /\ gone = Off
     /\ inUse = Off /\ mark = Off /\ slots = Off /\ frm = Off /\ done = Off
     /\ n_readers = Off /\ writing = Off /\ readerCv = Off /\ writerCv = Off
     /\ locked_ = Off
  \/ /\ part = "async" /\ Async!Init
     /\ kind = Off /\ rq = Off /\ req = Off /\ buf = Off /\ mesg = Off
     /\ channel = Off /\ slot = Off /\ state = Off /\ finish = Off /\ spc = Off
     /\ sq = Off /\ flight = Off /\ cq = Off /\ num_preparing_ = Off
     /\ num_processing_ = Off /\ version = Off /\ stop_ = Off /\ gone = Off
     /\ inUse = Off /\ mark = Off /\ slots = Off /\ frm = Off /\ done = Off
     /\ n_readers = Off /\ writing = Off /\ readerCv = Off /\ writerCv = Off
     /\ locked_ = Off
  \/ /\ part = "io" /\ IO!Init
     /\ mapping = Off /\ pte = Off /\ free = Off /\ repl = Off /\ mem = Off
     /\ kind = Off /\ rq = Off /\ left = Off /\ chan = Off /\ place = Off
     /\ again = Off /\ mchan = Off /\ mplace = Off /\ mat = Off /\ pages = Off
     /\ i = Off /\ fut = Off /\ blk = Off /\ written = Off /\ inUse = Off
     /\ mark = Off /\ slots = Off /\ frm = Off /\ done = Off /\ n_readers = Off
     /\ writing = Off /\ readerCv = Off /\ writerCv = Off /\ locked_ = Off
  \/ /\ part = "evict" /\ Evict!Init
     /\ mapping = Off /\ pte = Off /\ mem = Off /\ disk = Off /\ kind = Off
     /\ rq = Off /\ left = Off /\ chan = Off /\ place = Off /\ again = Off
     /\ mchan = Off /\ mplace = Off /\ mat = Off /\ pages = Off /\ i = Off
     /\ fut = Off /\ blk = Off /\ written = Off /\ req = Off /\ buf = Off
     /\ mesg = Off /\ slot = Off /\ state = Off /\ finish = Off /\ spc = Off
     /\ sq = Off /\ flight = Off /\ cq = Off /\ num_preparing_ = Off
     /\ num_processing_ = Off /\ version = Off /\ n_readers = Off
     /\ writing = Off /\ readerCv = Off /\ writerCv = Off /\ locked_ = Off
  \/ /\ part = "spin" /\ Spin!Init
     /\ mapping = Off /\ pte = Off /\ free = Off /\ repl = Off /\ mem = Off
     /\ disk = Off /\ kind = Off /\ rq = Off /\ at = Off /\ left = Off
     /\ chan = Off /\ place = Off /\ again = Off /\ mchan = Off /\ mplace = Off
     /\ mat = Off /\ pages = Off /\ i = Off /\ fut = Off /\ blk = Off
     /\ written = Off /\ req = Off /\ buf = Off /\ mesg = Off /\ channel = Off
     /\ slot = Off /\ state = Off /\ finish = Off /\ spc = Off /\ sq = Off
     /\ flight = Off /\ cq = Off /\ num_preparing_ = Off
     /\ num_processing_ = Off /\ version = Off /\ stop_ = Off /\ gone = Off
     /\ inUse = Off /\ mark = Off /\ slots = Off /\ frm = Off /\ done = Off
  \/ /\ part = "cv" /\ Cv!Init
     /\ mapping = Off /\ pte = Off /\ free = Off /\ repl = Off /\ mem = Off
     /\ disk = Off /\ kind = Off /\ rq = Off /\ at = Off /\ left = Off
     /\ chan = Off /\ place = Off /\ again = Off /\ mchan = Off /\ mplace = Off
     /\ mat = Off /\ pages = Off /\ i = Off /\ fut = Off /\ blk = Off
     /\ written = Off /\ req = Off /\ buf = Off /\ mesg = Off /\ channel = Off
     /\ slot = Off /\ state = Off /\ finish = Off /\ spc = Off /\ sq = Off
     /\ flight = Off /\ cq = Off /\ num_preparing_ = Off
     /\ num_processing_ = Off /\ version = Off /\ stop_ = Off /\ gone = Off
     /\ inUse = Off /\ mark = Off /\ slots = Off /\ frm = Off /\ done = Off
  \/ /\ part = "mutex" /\ Mutex!Init
     /\ mapping = Off /\ pte = Off /\ free = Off /\ repl = Off /\ mem = Off
     /\ disk = Off /\ kind = Off /\ rq = Off /\ at = Off /\ left = Off
     /\ chan = Off /\ place = Off /\ again = Off /\ mchan = Off /\ mplace = Off
     /\ mat = Off /\ pages = Off /\ i = Off /\ fut = Off /\ blk = Off
     /\ written = Off /\ req = Off /\ buf = Off /\ mesg = Off /\ channel = Off
     /\ slot = Off /\ state = Off /\ finish = Off /\ spc = Off /\ sq = Off
     /\ flight = Off /\ cq = Off /\ num_preparing_ = Off
     /\ num_processing_ = Off /\ version = Off /\ stop_ = Off /\ gone = Off
     /\ inUse = Off /\ mark = Off /\ slots = Off /\ frm = Off /\ done = Off

Next ==
  /\ part' = part
  /\ \/ part = "batch" /\ Reads!Next /\ UNCHANGED NotReads
     \/ part = "sync1" /\ Sync1!Next /\ UNCHANGED NotReads
     \/ part = "async" /\ Async!Next /\ OnlyP2Written /\ UNCHANGED NotAsync
     \/ part = "io" /\ IO!Next /\ UNCHANGED NotIO
     \/ part = "evict" /\ Evict!Next /\ UNCHANGED NotEvict
     \/ part = "spin" /\ Spin!Next /\ UNCHANGED NotSpin
     \/ part = "cv" /\ Cv!Next /\ UNCHANGED NotSpin
     \/ part = "mutex" /\ Mutex!Next /\ UNCHANGED NotSpin
     \/ part = "async" /\ UNCHANGED vars   \* the calls are used up

Spec == Init /\ [][Next]_vars

\* Threads and servers keep running, a lock is given back after a while, and the kernel
\* takes and completes what it is handed often enough.
FairSpec ==
  /\ Spec
  /\ \A t \in Two :
       /\ WF_Reads!vars(part \in {"batch", "sync1"} /\ ~Reads!Stopped /\ Reads!Step(t))
       /\ WF_Reads!vars(/\ part \in {"batch", "sync1"} /\ ~Reads!Stopped
                        /\ \E i_ \in 1 .. Len(rq[t]) : Reads!ReadDone(t, i_))
       /\ WF_Async!vars(part = "async" /\ ~Async!Stopped /\ Async!Client(t))
       /\ WF_Evict!vars(part = "evict" /\ (\/ Evict!Fetch(t) \/ Evict!Poll(t) \/ Evict!Send(t)
                                           \/ Evict!Load(t) \/ Evict!Unpin(t)))
  /\ WF_Async!vars(part = "async" /\ ~Async!Stopped /\ Async!Run)
  /\ WF_Async!vars(part = "async" /\ ~Async!Stopped /\ Async!ManagerRun)
  /\ \A k \in 1 .. 2 :
       WF_Async!vars(/\ part = "async" /\ ~Async!Stopped
                     /\ k \in Async!InPlaces /\ Async!IODone(k))
  /\ WF_IO!vars(part = "io" /\ IO!Run) /\ SF_IO!vars(part = "io" /\ IO!Accepted)
  /\ \A t \in {t1, t2, t3} :
       /\ WF_IO!vars(part = "io" /\ IO!Complete(t))
       /\ SF_IO!vars(part = "io" /\ IO!SendRequest(t))
       /\ WF_IO!vars(part = "io" /\ IO!Await(t))
  /\ WF_Evict!vars(part = "evict" /\ (Evict!Take \/ Evict!Process))
  /\ WF_Evict!vars(part = "evict" /\ Evict!Stop)
  /\ \A t \in Four :
       /\ WF_Spin!vars(part = "spin" /\ Spin!Locks(t))
       /\ WF_Spin!vars(part = "spin" /\ Spin!Unlock(t))
       /\ WF_Spin!vars(part = "spin" /\ Spin!Leave(t))
       /\ WF_Mutex!vars(part = "mutex" /\ Mutex!Locks(t))
       /\ WF_Mutex!vars(part = "mutex" /\ Mutex!Unlock(t))
       /\ WF_Mutex!vars(part = "mutex" /\ Mutex!Leave(t))

-----------------------------------------------------------------------------
(* Properties. *)

\* The variables of the part that runs have their types.
TypeOK ==
  CASE part = "batch" -> Reads!TypeOK
    [] part = "sync1" -> Sync1!TypeOK
    [] part = "async" -> Async!TypeOK
    [] part = "io" -> IO!TypeOK
    [] part = "evict" -> Evict!TypeOK
    [] part = "spin" -> Spin!TypeOK
    [] part = "cv" -> Cv!TypeOK
    [] part = "mutex" -> Mutex!TypeOK

\* Each of the three locks, with its guards moved and unlocked early, implements the
\* abstract lock, one writer or any number of readers; and their condition variables lose
\* no wake-up: a thread sleeps only while the one that will notify it has the lock, or
\* is on its way out.
IsReadersWriters ==
  /\ (part = "spin" => Spin!Promise!Init) /\ (part = "cv" => Cv!Promise!Init)
  /\ part = "mutex" => Mutex!Promise!Init
  /\ [](/\ TypeOK
        /\ part = "spin" => Spin!RWInv
        /\ part = "cv" => Cv!RWInv /\ Cv!SleepInv /\ Cv!SleepersAwaited
        /\ part = "mutex" => Mutex!RWInv /\ Mutex!SleepInv /\ Mutex!SleepersAwaited)
  /\ [][/\ part = "spin" => Spin!Promise!Step
        /\ part = "cv" => Cv!Promise!Step
        /\ part = "mutex" => Mutex!Promise!Step]_vars

\* The one way in which a fetch waits for the eviction server for ever: inside
\* SendRequest, before a channel that nobody empties since every frame is on the free
\* list and the server's requests have nothing to evict.  No process leaves such a state.
Overlooks ==
  /\ pc[t1] = "send" /\ Len(channel) = 2 /\ free = {f1, f2}
  /\ \A k \in 1 .. 2 : slots[k] > 0
  /\ pc[t2] = "send" \/ (pc[t2] = "idle" /\ done[t2] = 2)

Begun ==
  CASE part \in {"batch", "sync1"} -> Reads!Working(t1)
    [] part = "async" -> pc[t1] \notin {"idle", "held"}
    [] part = "io" -> pc[t1] = "push"
    [] part = "evict" -> pc[t1] = "poll" \/ stop_
    [] part \in {"spin", "mutex"} -> pc[t1] = "wdrain"
    [] OTHER -> FALSE
Ended ==
  CASE part \in {"batch", "sync1"} -> pc[t1] = "held" \/ Reads!Stopped
    [] part = "async" -> pc[t1] = "held" \/ Async!Stopped
    [] part = "io" -> stop_ \/ pc[t1] = "idle"
    [] part = "evict" -> pc[t1] = "use" \/ Overlooks \/ gone
    [] part \in {"spin", "mutex"} -> pc[t1] = "writing"
    [] OTHER -> TRUE

=============================================================================
