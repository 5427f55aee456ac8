------------------------------ MODULE AsyncPool ------------------------------
(***************************************************************************)
(* The asynchronous path: GetBlockAsync, the server thread of a buffer     *)
(* pool (BufferPool::Run), which fetches pages for the requests in its     *)
(* channel, and the server thread of the manager (BufferPoolManager::Run), *)
(* which puts blocks of several pages together.                            *)
(*                                                                         *)
(* Each server goes round an array of requests: an empty place takes the   *)
(* next request of the channel, a request is processed until it has to     *)
(* wait, one that is done is deleted, which sets its promise.  A page      *)
(* table operation is one step here (module BufferPool has its steps).     *)
(***************************************************************************)
EXTENDS Integers, FiniteSets, Sequences

CONSTANTS
  Clients, Pages, Frames, None,
  Empty, Busy,   \* mapping values that are no frame
  Asks,          \* client -> the lists of pages it may ask for
  Calls,         \* bound: calls of one client
  MaxVersion,    \* bound: writes to one page
  Places,        \* BATCH_SIZE_BUFFER_POOL and BATCH_SIZE_BUFFER_POOL_MANAGER
  Channel        \* capacity of the two channels

\* The requests of the pool's server.
Req == [page : Pages, to : Clients \X Nat, frame : Frames \cup {None},
        phase : {"Begin", "Initing", "Evicting", "EvictingFinish", "Loading",
                 "LoadingFinish", "End", "exhausted"},
        io : {"none", "sent", "done"}]

\* What the constants have to be; the modules that instantiate this one assume it.
Parameters ==
  /\ IsFiniteSet(Clients) /\ None \notin Clients
  /\ \A c \in Clients : Asks[c] \subseteq Seq(Pages) \ {<<>>}
  /\ Places \in Nat \ {0} /\ Channel \in Nat \ {0} /\ Calls \in Nat /\ MaxVersion \in Nat
  /\ {None, Empty, Busy, "none", "pending"} \cap Frames = {} /\ Empty # Busy
  /\ None \notin Req

VARIABLES
  mapping, pte, free, repl, mem, disk,   \* as in BatchFetch
  chan,     \* request_channel_ of the pool
  place,    \* the requests its server works on
  at,       \* the place the server is at
  again,    \* it has just popped that request (Run's second ProcessFunc)
  mchan, mplace, mat,   \* the same of the manager: clients stand for requests
  pc,       \* client -> where it is
  pages,    \* client -> the pages it asks for
  i,        \* client -> the page it is at in the Begin phase
  fut,      \* client -> page -> future: "none", "pending" or a frame
  blk,      \* client -> the block: page -> frame
  left,     \* client -> calls it may still make
  written   \* page -> writes so far

vars == <<mapping, pte, free, repl, mem, disk, chan, place, at, again, mchan,
          mplace, mat, pc, pages, i, fut, blk, left, written>>
table == <<mapping, pte, free, repl>>
pool == <<chan, place, at, again>>
manager == <<mchan, mplace, mat>>
client == <<pc, pages, i, fut, blk, left>>

\* to: the client, and the future of its request that will be set.
\* io: none; sent; done: the state of ssd_IO_req.
Request(p, to) == [page |-> p, to |-> to, phase |-> "Begin", frame |-> None, io |-> "none"]

Init ==
  /\ mapping = [p \in Pages |-> Empty]
  /\ pte = [f \in Frames |-> [page |-> None, ref |-> 0, dirty |-> FALSE]]
  /\ free = Frames /\ repl = {}
  /\ mem = [f \in Frames |-> 0] /\ disk = [p \in Pages |-> 0]
  /\ chan = <<>> /\ place = [k \in 1 .. Places |-> None] /\ at = 1 /\ again = FALSE
  /\ mchan = <<>> /\ mplace = [k \in 1 .. Places |-> None] /\ mat = 1
  /\ pc = [c \in Clients |-> "idle"]
  /\ pages = [c \in Clients |-> <<>>] /\ i = [c \in Clients |-> 1]
  /\ fut = [c \in Clients |-> <<>>] /\ blk = [c \in Clients |-> <<>>]
  /\ left = [c \in Clients |-> Calls]
  /\ written = [p \in Pages |-> 0]

InPlaces == {k \in 1 .. Places : place[k] # None}

\* The assert(false) of a fetch that finds no victim has ended the process.
Stopped == \E k \in InPlaces : place[k].phase = "exhausted"

-----------------------------------------------------------------------------
(* GetBlockAsync, in the client's thread. *)

Pinned(f) == [pte EXCEPT ![f].ref = @ + 1]
Count(c) == Len(pages[c])

Ask(c, ps) ==
  /\ pc[c] = "idle" /\ left[c] > 0
  /\ left' = [left EXCEPT ![c] = @ - 1]
  /\ pages' = [pages EXCEPT ![c] = ps]
  /\ i' = [i EXCEPT ![c] = 1]
  /\ fut' = [fut EXCEPT ![c] = [k \in 1 .. Len(ps) |-> "none"]]
  /\ blk' = [blk EXCEPT ![c] = [k \in 1 .. Len(ps) |-> None]]
  /\ pc' = [pc EXCEPT ![c] = "begin"]
  /\ UNCHANGED <<table, mem, disk, pool, manager, written>>

\* Where a block of one page, or of several, stands after its last Pin.
AfterBegin(c, f) ==
  IF i[c] < Count(c) THEN "begin"
  ELSE IF \A k \in 1 .. Count(c) : f[k] = "none" THEN "held"
  ELSE IF Count(c) = 1 THEN "wait" ELSE "check"

\* A page in memory is pinned, for any other one a request is sent: FetchBlockAsync
\* if it is the only page, FetchPageAsync if not.  Sending spins while the channel
\* is full.
Begin(c) ==
  /\ pc[c] = "begin"
  /\ LET p == pages[c][i[c]]  m == mapping[p] IN
     \/ /\ m \in Frames
        /\ pte' = Pinned(m)
        /\ blk' = [blk EXCEPT ![c][i[c]] = m]
        /\ pc' = [pc EXCEPT ![c] = AfterBegin(c, fut[c])]
        /\ UNCHANGED <<chan, fut>>
     \/ /\ m \notin Frames /\ Len(chan) < Channel
        /\ chan' = Append(chan, Request(p, <<c, i[c]>>))
        /\ fut' = [fut EXCEPT ![c][i[c]] = "pending"]
        /\ pc' = [pc EXCEPT ![c] = AfterBegin(c, fut'[c])]
        /\ UNCHANGED <<pte, blk>>
  /\ i' = [i EXCEPT ![c] = @ + 1]
  /\ UNCHANGED <<mapping, free, repl, mem, disk, place, at, again, manager, pages,
                 left, written>>

-----------------------------------------------------------------------------
(* A block of several pages: BufferPoolManager::ProcessFunc. *)

Ready(c) == \A k \in 1 .. Count(c) : fut[c][k] # "pending"

\* Variant: only the first page that was fetched goes into the block.
FinishWaitingOne(c) ==
  [k \in 1 .. Count(c) |-> IF k = 1 /\ fut[c][k] # "none" THEN fut[c][k] ELSE blk[c][k]]

\* The pages that were fetched go into the block; the promise is set.
FinishWaiting(c) ==
  [k \in 1 .. Count(c) |-> IF fut[c][k] = "none" THEN blk[c][k] ELSE fut[c][k]]

\* The client itself looks once, and leaves a request that waits to the manager.
Check(c) ==
  /\ pc[c] = "check"
  /\ \/ /\ Ready(c)
        /\ blk' = [blk EXCEPT ![c] = FinishWaiting(c)]
        /\ pc' = [pc EXCEPT ![c] = "held"]
        /\ UNCHANGED mchan
     \/ /\ ~Ready(c) /\ Len(mchan) < Channel
        /\ mchan' = Append(mchan, c)
        /\ pc' = [pc EXCEPT ![c] = "wait"]
        /\ UNCHANGED blk
  /\ UNCHANGED <<table, mem, disk, pool, mplace, mat, pages, i, fut, left, written>>

Following(k) == (k % Places) + 1

\* BufferPoolManager::Run: one place.  A request popped after another was deleted is
\* processed at once, but the answer is ignored and counts on the next round.
ManagerRun ==
  /\ LET c == mplace[mat] IN
     \/ /\ c = None /\ mchan # <<>>
        /\ mplace' = [mplace EXCEPT ![mat] = Head(mchan)]
        /\ mchan' = Tail(mchan)
        /\ UNCHANGED <<mat, pc, blk>>
     \/ /\ c = None /\ mchan = <<>>
        /\ mat' = Following(mat)
        /\ UNCHANGED <<mchan, mplace, pc, blk>>
     \/ /\ c # None /\ ~Ready(c)
        /\ mat' = Following(mat)
        /\ UNCHANGED <<mchan, mplace, pc, blk>>
     \/ /\ c # None /\ Ready(c)
        /\ blk' = [blk EXCEPT ![c] = FinishWaiting(c)]
        /\ pc' = [pc EXCEPT ![c] = "held"]
        /\ mplace' = [mplace EXCEPT ![mat] = IF mchan = <<>> THEN None ELSE Head(mchan)]
        /\ mchan' = IF mchan = <<>> THEN mchan ELSE Tail(mchan)
        /\ mat' = Following(mat)
  /\ UNCHANGED <<table, mem, disk, pool, pages, i, fut, left, written>>

-----------------------------------------------------------------------------
(* The server of the pool: BufferPool::Run and FetchPageAsyncInner. *)

Cur == place[at]
In(phase) == Cur # None /\ Cur.phase = phase
\* ProcessFunc goes on with the request as r, or returns false.
Go(r) == place' = [place EXCEPT ![at] = r] /\ UNCHANGED <<at, again>>
False(r) == /\ place' = [place EXCEPT ![at] = r]
            /\ at' = Following(at) /\ again' = FALSE

Pop ==
  /\ Cur = None
  /\ \/ /\ chan # <<>>
        /\ Go(Head(chan)) /\ chan' = Tail(chan)
     \/ /\ chan = <<>>
        /\ at' = Following(at)
        /\ UNCHANGED <<chan, place, again>>
  /\ UNCHANGED <<table, mem, disk, manager, client, written>>

\* Variant: on a page that is locked the request begins again at once.
BeginFetchSpins ==
  /\ In("Begin")
  /\ LET m == mapping[Cur.page] IN
     \/ /\ m = Empty
        /\ mapping' = [mapping EXCEPT ![Cur.page] = Busy]
        /\ Go([Cur EXCEPT !.phase = "Initing"])
        /\ UNCHANGED pte
     \/ /\ m \in Frames
        /\ pte' = Pinned(m)
        /\ LET r == [Cur EXCEPT !.phase = "End", !.frame = m] IN
           IF pte[m].ref = 0 THEN Go(r) ELSE False(r)
        /\ UNCHANGED mapping
  /\ UNCHANGED <<free, repl, mem, disk, chan, manager, client, written>>

\* LockMapping takes an unmapped page, and a loaded one that nobody uses, which is
\* unlocked and pinned at once.  After a failure one Pin is tried: a page in use is
\* pinned; one that another request has locked is left for the next round, the request
\* still in its Begin phase.
BeginFetch ==
  /\ In("Begin")
  /\ LET m == mapping[Cur.page] IN
     \/ /\ m = Empty
        /\ mapping' = [mapping EXCEPT ![Cur.page] = Busy]
        /\ Go([Cur EXCEPT !.phase = "Initing"])
        /\ UNCHANGED pte
     \/ /\ m \in Frames
        /\ pte' = Pinned(m)
        /\ LET r == [Cur EXCEPT !.phase = "End", !.frame = m] IN
           IF pte[m].ref = 0 THEN Go(r) ELSE False(r)
        /\ UNCHANGED mapping
     \/ /\ m = Busy
        /\ False(Cur)
        /\ UNCHANGED <<mapping, pte>>
  /\ UNCHANGED <<free, repl, mem, disk, chan, manager, client, written>>

Victims == {f \in repl : pte[f].ref = 0 /\ mapping[pte[f].page] = f}

Initing ==
  /\ In("Initing")
  /\ \/ \E f \in free :
          /\ free' = free \ {f}
          /\ Go([Cur EXCEPT !.phase = "Loading", !.frame = f])
          /\ UNCHANGED <<mapping, repl>>
     \/ /\ free = {}
        /\ \E f \in Victims :
             /\ repl' = repl \ {f}
             /\ mapping' = [mapping EXCEPT ![pte[f].page] = Busy]
             /\ Go([Cur EXCEPT !.phase = "Evicting", !.frame = f])
        /\ UNCHANGED free
     \/ /\ free = {} /\ Victims = {}
        /\ Go([Cur EXCEPT !.phase = "exhausted"])
        /\ UNCHANGED <<mapping, free, repl>>
  /\ UNCHANGED <<pte, mem, disk, chan, manager, client, written>>

Unmap == mapping' = [mapping EXCEPT ![pte[Cur.frame].page] = Empty]

Evicting ==
  /\ In("Evicting")
  /\ IF pte[Cur.frame].dirty
     THEN /\ False([Cur EXCEPT !.phase = "EvictingFinish", !.io = "sent"])
          /\ UNCHANGED mapping
     ELSE Unmap /\ Go([Cur EXCEPT !.phase = "Loading"])
  /\ UNCHANGED <<pte, free, repl, mem, disk, chan, manager, client, written>>

\* Variant: the write is not waited for.
EvictingFinishEarly ==
  /\ In("EvictingFinish")
  /\ Unmap /\ Go([Cur EXCEPT !.phase = "Loading", !.io = "none"])
  /\ UNCHANGED <<pte, free, repl, mem, disk, chan, manager, client, written>>

EvictingFinish ==
  /\ In("EvictingFinish")
  /\ IF Cur.io = "done"
     THEN Unmap /\ Go([Cur EXCEPT !.phase = "Loading"])
     ELSE False(Cur) /\ UNCHANGED mapping
  /\ UNCHANGED <<pte, free, repl, mem, disk, chan, manager, client, written>>

Loading ==
  /\ In("Loading")
  /\ False([Cur EXCEPT !.phase = "LoadingFinish", !.io = "sent"])
  /\ UNCHANGED <<table, mem, disk, chan, manager, client, written>>

Publish(r) ==
  /\ pte' = [pte EXCEPT ![r.frame] = [page |-> r.page, ref |-> 1, dirty |-> FALSE]]
  /\ repl' = repl \cup {r.frame}
  /\ mapping' = [mapping EXCEPT ![r.page] = r.frame]
  /\ UNCHANGED free

LoadingFinish ==
  /\ In("LoadingFinish")
  /\ IF Cur.io = "done" THEN Publish(Cur) /\ Go([Cur EXCEPT !.phase = "End"])
                        ELSE False(Cur) /\ UNCHANGED table
  /\ UNCHANGED <<mem, disk, chan, manager, client, written>>

\* The ring of the I/O server completes a read or a write: ProcessFunc's Poll.
IODone(k) ==
  /\ place[k].io = "sent"
  /\ LET r == place[k] IN
     IF r.phase = "EvictingFinish"
     THEN disk' = [disk EXCEPT ![pte[r.frame].page] = mem[r.frame]] /\ UNCHANGED mem
     ELSE mem' = [mem EXCEPT ![r.frame] = disk[r.page]] /\ UNCHANGED disk
  /\ place' = [place EXCEPT ![k].io = "done"]
  /\ UNCHANGED <<table, chan, at, again, manager, client, written>>

\* Deleting a request sets its promise: the block itself if it has one page.
Promise(r) ==
  LET c == r.to[1]  k == r.to[2] IN
  IF Count(c) = 1
  THEN /\ blk' = [blk EXCEPT ![c][1] = r.frame]
       /\ pc' = [pc EXCEPT ![c] = "held"]
       /\ UNCHANGED fut
  ELSE fut' = [fut EXCEPT ![c][k] = r.frame] /\ UNCHANGED <<blk, pc>>

\* Variant: the next request of the channel is popped and forgotten.
EndDrops ==
  /\ In("End")
  /\ Promise(Cur)
  /\ False(None)
  /\ chan' = IF chan = <<>> THEN chan ELSE Tail(chan)
  /\ UNCHANGED <<table, mem, disk, manager, pages, i, left, written>>

\* The answer to the request that was popped in place of a finished one is not
\* looked at: it stays for the next round.
End ==
  /\ In("End")
  /\ IF again
     THEN False(Cur) /\ UNCHANGED <<chan, pc, fut, blk>>
     ELSE /\ Promise(Cur)
          /\ IF chan # <<>>
             THEN /\ place' = [place EXCEPT ![at] = Head(chan)]
                  /\ chan' = Tail(chan) /\ again' = TRUE
                  /\ UNCHANGED at
             ELSE False(None) /\ UNCHANGED chan
  /\ UNCHANGED <<table, mem, disk, manager, pages, i, left, written>>

Run == \/ Pop \/ BeginFetch \/ Initing \/ Evicting \/ EvictingFinish
       \/ Loading \/ LoadingFinish \/ End

-----------------------------------------------------------------------------
(* The block in the client's hands. *)

Write(c, k) ==
  /\ pc[c] = "held" /\ written[pages[c][k]] < MaxVersion
  /\ LET f == blk[c][k] IN
     /\ mem' = [mem EXCEPT ![f] = @ + 1]
     /\ pte' = [pte EXCEPT ![f].dirty = TRUE]
  /\ written' = [written EXCEPT ![pages[c][k]] = @ + 1]
  /\ UNCHANGED <<mapping, free, repl, disk, pool, manager, client>>

Release(c) ==
  /\ pc[c] = "held"
  /\ pte' = [f \in Frames |-> [pte[f] EXCEPT
               !.ref = @ - Cardinality({k \in 1 .. Count(c) : blk[c][k] = f})]]
  /\ pc' = [pc EXCEPT ![c] = "idle"]
  /\ pages' = [pages EXCEPT ![c] = <<>>]
  /\ fut' = [fut EXCEPT ![c] = <<>>] /\ blk' = [blk EXCEPT ![c] = <<>>]
  /\ UNCHANGED <<mapping, free, repl, mem, disk, pool, manager, i, left, written>>

Client(c) == Begin(c) \/ Check(c)

Next ==
  /\ ~Stopped
  /\ \/ \E c \in Clients : \/ \E ps \in Asks[c] : Ask(c, ps)
                           \/ Client(c) \/ Release(c)
                           \/ \E k \in 1 .. Count(c) : Write(c, k)
     \/ ManagerRun \/ Run
     \/ \E k \in InPlaces : IODone(k)

Spec == Init /\ [][Next]_vars

\* The servers run, the disk answers, clients go on with a call they have begun.
FairSpec ==
  /\ Spec
  /\ WF_vars(~Stopped /\ Run) /\ WF_vars(~Stopped /\ ManagerRun)
  /\ \A k \in 1 .. Places : WF_vars(~Stopped /\ k \in InPlaces /\ IODone(k))
  /\ \A c \in Clients : WF_vars(~Stopped /\ Client(c))

-----------------------------------------------------------------------------
(* Properties. *)

\* Values of the variables.
TypeOK ==
  /\ mapping \in [Pages -> Frames \cup {Empty, Busy}]
  /\ pte \in [Frames -> [page : Pages \cup {None}, ref : Nat, dirty : BOOLEAN]]
  /\ free \subseteq Frames /\ repl \subseteq Frames
  /\ mem \in [Frames -> Nat] /\ disk \in [Pages -> Nat] /\ written \in [Pages -> Nat]
  /\ chan \in Seq(Req) /\ Len(chan) <= Channel
  /\ place \in [1 .. Places -> Req \cup {None}] /\ at \in 1 .. Places /\ again \in BOOLEAN
  /\ mchan \in Seq(Clients) /\ Len(mchan) <= Channel
  /\ mplace \in [1 .. Places -> Clients \cup {None}] /\ mat \in 1 .. Places
  /\ pc \in [Clients -> {"idle", "begin", "check", "wait", "held"}]
  /\ pages \in [Clients -> Seq(Pages)] /\ i \in [Clients -> Nat] /\ left \in [Clients -> Nat]
  /\ DOMAIN fut = Clients /\ DOMAIN blk = Clients
  /\ \A c \in Clients : /\ fut[c] \in [1 .. Count(c) -> Frames \cup {"none", "pending"}]
                        /\ blk[c] \in [1 .. Count(c) -> Frames \cup {None}]

\* A block that was handed out shows, on each of its pages, that page, as it was
\* written last by anyone: the frame is filled and pinned, and no write-back or
\* reload in flight takes it back (FetchPageAsyncInner).
BlockCurrent ==
  \A c \in Clients : pc[c] = "held" =>
    \A k \in 1 .. Count(c) :
      LET f == blk[c][k] IN
      /\ f \in Frames /\ pte[f].page = pages[c][k] /\ mapping[pages[c][k]] = f
      /\ mem[f] = written[pages[c][k]]

\* The pages of the blocks that are asked for.
Futures == UNION {{c} \X (1 .. Count(c)) : c \in Clients}

\* A frame's references are those of blocks, of answers on the way to one, and of
\* requests that are done: none is lost between the two servers, nor counted twice.
PinsExact ==
  \A f \in Frames :
    pte[f].ref = Cardinality({x \in Futures : blk[x[1]][x[2]] = f})
                 + Cardinality({x \in Futures : pc[x[1]] # "held" /\ fut[x[1]][x[2]] = f})
                 + Cardinality({k \in InPlaces : place[k].phase = "End" /\ place[k].frame = f})

\* Each future that is pending has one request, in the channel or in the array:
\* exchanging a finished request for the next of the channel loses none.
OneRequestPerFuture ==
  \A c \in Clients : \A k \in 1 .. Count(c) :
    Cardinality({r \in InPlaces : place[r].to = <<c, k>>})
      + Cardinality({n \in DOMAIN chan : chan[n].to = <<c, k>>})
      = IF fut[c][k] = "pending" /\ pc[c] # "held" THEN 1 ELSE 0

-----------------------------------------------------------------------------
(* The inductive invariant. *)

\* A page of a block that has been asked for is pinned, or a request was sent for it.
Asked(c, k) == IF fut[c][k] = "none" THEN blk[c][k] \in Frames ELSE blk[c][k] = None

\* How far a call is.
CallInv ==
  \A c \in Clients :
    /\ pc[c] = "idle" <=> Count(c) = 0
    /\ pc[c] = "begin" =>
         /\ i[c] \in 1 .. Count(c)
         /\ \A k \in 1 .. i[c] - 1 : Asked(c, k)
         /\ \A k \in i[c] .. Count(c) : fut[c][k] = "none" /\ blk[c][k] = None
    /\ pc[c] \in {"check", "wait"} => \A k \in 1 .. Count(c) : Asked(c, k)
    /\ pc[c] = "check" => Count(c) > 1
    /\ pc[c] = "held" => \A k \in 1 .. Count(c) : blk[c][k] \in Frames

\* The manager has a block that waits once.
ManagerInv ==
  /\ \A m, n \in 1 .. Len(mchan) : mchan[m] = mchan[n] => m = n
  /\ \A j, k \in 1 .. Places : mplace[j] = mplace[k] /\ mplace[j] # None => j = k
  /\ \A n \in 1 .. Len(mchan), k \in 1 .. Places : mchan[n] # mplace[k]
  /\ \A n \in 1 .. Len(mchan) : pc[mchan[n]] = "wait" /\ Count(mchan[n]) > 1
  /\ \A k \in 1 .. Places : mplace[k] # None => pc[mplace[k]] = "wait" /\ Count(mplace[k]) > 1

\* A request is for a page that its client has asked for and not got.
Wanted(r) ==
  LET c == r.to[1]  k == r.to[2] IN
  /\ k \in 1 .. Count(c) /\ r.page = pages[c][k]
  /\ fut[c][k] = "pending" /\ pc[c] # "held"

IsFor(r, c, k) == r.to = <<c, k>>

\* A future has one request, and a pending one has a request.
RequestInv ==
  /\ \A n \in 1 .. Len(chan) : /\ Wanted(chan[n]) /\ chan[n].phase = "Begin"
                              /\ chan[n].io = "none"
  /\ \A k \in InPlaces : Wanted(place[k])
  /\ \A m, n \in 1 .. Len(chan) : chan[m].to = chan[n].to => m = n
  /\ \A j, k \in InPlaces : place[j].to = place[k].to => j = k
  /\ \A n \in 1 .. Len(chan), k \in InPlaces : chan[n].to # place[k].to
  /\ \A c \in Clients : \A k \in 1 .. Count(c) :
       fut[c][k] = "pending" /\ pc[c] # "held" =>
         \/ \E n \in 1 .. Len(chan) : IsFor(chan[n], c, k)
         \/ \E j \in InPlaces : IsFor(place[j], c, k)

\* What the requests in the array have: the lock of their page, a frame that is in
\* no list, the lock of the page they evict.
Phase(k, S) == k \in InPlaces /\ place[k].phase \in S
Locks(k) == Phase(k, {"Initing", "Evicting", "EvictingFinish", "Loading", "LoadingFinish", "exhausted"})
Carries(k) == Phase(k, {"Evicting", "EvictingFinish", "Loading", "LoadingFinish"})
Evicts(k) == Phase(k, {"Evicting", "EvictingFinish"})
Old(k) == pte[place[k].frame].page

PhaseInv ==
  \A j \in 1 .. Places :
    /\ Locks(j) => mapping[place[j].page] = Busy
    /\ Carries(j) => place[j].frame \in Frames \ (free \cup repl)
    /\ Evicts(j) => Old(j) \in Pages /\ mapping[Old(j)] = Busy
    /\ Phase(j, {"End"}) => place[j].frame \in Frames /\ mapping[place[j].page] = place[j].frame
    /\ j \in InPlaces /\ place[j].io = "sent" => Phase(j, {"EvictingFinish", "LoadingFinish"})
    /\ Phase(j, {"Begin", "Initing", "Evicting"}) => place[j].io = "none"
    /\ \A k \in 1 .. Places \ {j} :
         /\ Locks(j) /\ Locks(k) => place[j].page # place[k].page
         /\ Carries(j) /\ Carries(k) => place[j].frame # place[k].frame
         /\ Locks(j) /\ Evicts(k) => place[j].page # Old(k)
         /\ Evicts(j) /\ Evicts(k) => Old(j) # Old(k)
    /\ Evicts(j) => place[j].page # Old(j)

\* The mappings that name a frame and the frames in the replacer are the same.
TableInv ==
  /\ free \cap repl = {}
  /\ \A p \in Pages : mapping[p] \in Frames => mapping[p] \in repl /\ pte[mapping[p]].page = p
  /\ \A f \in repl : pte[f].page \in Pages /\ mapping[pte[f].page] = f

\* The pages that refer to a frame: in a block, in a future, or in an answer.
Refers(c, k, f) ==
  \/ blk[c][k] = f
  \/ pc[c] # "held" /\ fut[c][k] = f
  \/ \E j \in InPlaces : place[j].phase = "End" /\ place[j].frame = f /\ IsFor(place[j], c, k)
Refs(f) == {x \in Futures : Refers(x[1], x[2], f)}

\* They are counted, and the page is in the frame.
RefInv ==
  /\ \A f \in Frames : pte[f].ref = Cardinality(Refs(f))
  /\ \A f \in Frames, c \in Clients : \A k \in 1 .. Count(c) :
       Refers(c, k, f) => mapping[pages[c][k]] = f

\* Where the last contents of a page are.
DataInv ==
  /\ \A p \in Pages : LET f == mapping[p] IN
       /\ f \in Frames => mem[f] = written[p] /\ (pte[f].dirty \/ disk[p] = written[p])
       /\ f = Empty => disk[p] = written[p]
  /\ \A k \in InPlaces : LET r == place[k] IN
       /\ Locks(k) => disk[r.page] = written[r.page]
       /\ Evicts(k) => /\ mem[r.frame] = written[Old(k)]
                       /\ \/ disk[Old(k)] = written[Old(k)]
                          \/ r.phase = "Evicting" /\ pte[r.frame].dirty
                          \/ r.phase = "EvictingFinish" /\ r.io # "done"
       /\ r.phase = "LoadingFinish" /\ r.io = "done" => mem[r.frame] = disk[r.page]

AsyncInv ==
  /\ TypeOK /\ CallInv /\ ManagerInv /\ RequestInv
  /\ PhaseInv /\ TableInv /\ RefInv /\ DataInv

\* Every future is set, or the pool was exhausted.
AnswersArrive == \A c \in Clients : pc[c] \notin {"idle", "held"} ~> pc[c] = "held" \/ Stopped
=============================================================================
