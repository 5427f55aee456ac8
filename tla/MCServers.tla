----------------------------- MODULE MCServers ------------------------------
(***************************************************************************)
(* The servers behind the pool, one part at a time: the asynchronous pool,  *)
(* whose request array and channel are full at times, the I/O server with   *)
(* its channel, slots and ring of the kernel, and the ring between one      *)
(* producer and one consumer. The variables of the other parts are Off.     *)
(***************************************************************************)
EXTENDS Integers, FiniteSets, Sequences, TLC

CONSTANTS c1, c2, d1, d2, d3, f1, f2, p1, p2, p3, q1, q2, None, Empty, Busy

VARIABLES
  part,   \* the part that runs
  \* the variables of the parts:
  mapping, pte, free, repl, mem, disk, chan, place, at, again, mchan, mplace, mat,
  pc, pages, i, fut, blk, left, written, req, buf, mesg, channel, slot, state,
  finish, spc, sq, flight, cq, num_preparing_, num_processing_, version, stop_,
  gone, buffer, head, tail, ppc, item, cpc, taken, given

vars == <<part, mapping, pte, free, repl, mem, disk, chan, place, at, again, mchan,
          mplace, mat, pc, pages, i, fut, blk, left, written, req, buf, mesg,
          channel, slot, state, finish, spc, sq, flight, cq, num_preparing_,
          num_processing_, version, stop_, gone, buffer, head, tail, ppc, item,
          cpc, taken, given>>

\* Two clients that ask for the same pages, and write them.
Async == INSTANCE AsyncPool WITH
  Clients <- {c1, c2}, Pages <- {p1, p2, p3}, Frames <- {f1, f2}, Calls <- 2,
  MaxVersion <- 1, Places <- 2, Channel <- 2,
  Asks <- [c \in {c1, c2} |-> {<<p1>>, <<p3>>} \cup (IF c = c1 THEN {<<p1, p2>>} ELSE {})]

\* A channel of one, two slots and a ring of one entry: each is full at times.
IO == INSTANCE IOServer WITH
  Clients <- {d1, d2, d3}, Pages <- {q1, q2}, Slots <- 2, Depth <- 1,
  ChannelCap <- 1, MaxVersion <- 2, MayFail <- FALSE, MayStop <- TRUE

\* A ring of three places, which holds two items.
Ring == INSTANCE LockFreeQueue WITH
  Capacity <- 3, Items <- {q1, q2}, MaxPops <- 5

ASSUME /\ Async!Parameters /\ IO!Parameters /\ Ring!Parameters

Off == "off"   \* of a variable that the part does not have

NotAsync == <<req, buf, mesg, channel, slot, state, finish, spc, sq, flight, cq,
              num_preparing_, num_processing_, version, stop_, gone, buffer, head,
              tail, ppc, item, cpc, taken, given>>
NotIO == <<mapping, pte, free, repl, mem, chan, place, again, mchan, mplace, mat,
           pages, i, fut, blk, left, written, buffer, head, tail, ppc, item, cpc,
           taken, given>>
NotRing == <<mapping, pte, free, repl, mem, disk, chan, place, at, again, mchan,
             mplace, mat, pc, pages, i, fut, blk, left, written, req, buf, mesg,
             channel, slot, state, finish, spc, sq, flight, cq, num_preparing_,
             num_processing_, version, stop_, gone>>

Init ==
  \/ /\ part = "async" /\ Async!Init
     /\ req = Off /\ buf = Off /\ mesg = Off /\ channel = Off /\ slot = Off
     /\ state = Off /\ finish = Off /\ spc = Off /\ sq = Off /\ flight = Off
     /\ cq = Off /\ num_preparing_ = Off /\ num_processing_ = Off
     /\ version = Off /\ stop_ = Off /\ gone = Off /\ buffer = Off /\ head = Off
     /\ tail = Off /\ ppc = Off /\ item = Off /\ cpc = Off /\ taken = Off
     /\ given = Off
  \/ /\ part = "io" /\ IO!Init
     /\ mapping = Off /\ pte = Off /\ free = Off /\ repl = Off /\ mem = Off
     /\ chan = Off /\ place = Off /\ again = Off /\ mchan = Off /\ mplace = Off
     /\ mat = Off /\ pages = Off /\ i = Off /\ fut = Off /\ blk = Off
     /\ left = Off /\ written = Off /\ buffer = Off /\ head = Off /\ tail = Off
     /\ ppc = Off /\ item = Off /\ cpc = Off /\ taken = Off /\ given = Off
  \/ /\ part = "ring" /\ Ring!Init
     /\ mapping = Off /\ pte = Off /\ free = Off /\ repl = Off /\ mem = Off
     /\ disk = Off /\ chan = Off /\ place = Off /\ at = Off /\ again = Off
     /\ mchan = Off /\ mplace = Off /\ mat = Off /\ pc = Off /\ pages = Off
     /\ i = Off /\ fut = Off /\ blk = Off /\ left = Off /\ written = Off
     /\ req = Off /\ buf = Off /\ mesg = Off /\ channel = Off /\ slot = Off
     /\ state = Off /\ finish = Off /\ spc = Off /\ sq = Off /\ flight = Off
     /\ cq = Off /\ num_preparing_ = Off /\ num_processing_ = Off
     /\ version = Off /\ stop_ = Off /\ gone = Off

Next ==
  /\ part' = part
  /\ \/ part = "async" /\ Async!Next /\ UNCHANGED NotAsync
     \/ part = "io" /\ IO!Next /\ UNCHANGED NotIO
     \/ part = "ring" /\ Ring!Next /\ UNCHANGED NotRing
     \/ part \in {"async", "ring"} /\ UNCHANGED vars   \* the calls are used up

Spec == Init /\ [][Next]_vars

-----------------------------------------------------------------------------
Symmetric == Permutations({d1, d2, d3}) \cup Permutations({q1, q2})

(* Properties. *)

\* The variables of the part that runs have their types.
TypeOK ==
  CASE part = "async" -> Async!TypeOK
    [] part = "io" -> IO!TypeOK
    [] part = "ring" -> Ring!TypeOK

\* A block that was handed out shows, on each of its pages, that page as it was written
\* last by anyone, whichever reads and write-backs were in flight; and reference counts
\* are the references that blocks, answers and requests have, none lost between the two
\* servers and none counted twice.
BlockCurrent == part = "async" => Async!BlockCurrent /\ Async!PinsExact

\* Each future that is pending has one request, in the channel or in the array; a request
\* that an I/O client waits for is in the channel or in one slot, once; and the server
\* never posts to a message that has been seen and deleted.
NoRequestLost ==
  /\ TypeOK
  /\ part = "async" => Async!AsyncInv /\ Async!OneRequestPerFuture
  /\ part = "io" => IO!IOInv /\ IO!OnePlace /\ IO!MessageAlive

\* ReadWrite, ReadWriteSync: a client that finds its message set has the page in its
\* buffer, or its buffer in the file; no answer is early or that of an earlier request.
\* Progress counts what it hands to the kernel and what comes back: no prepared entry is
\* forgotten when it skips io_uring_submit, and num_processing_ does not wrap around.
AnswerMeansDone == part = "io" => IO!AnswerMeansDone /\ IO!RingCounts

\* The ring implements a bounded queue: what is popped was pushed, in order, once; and its
\* producer and consumer never touch the same place at the same time.
ActsAsQueue ==
  /\ part = "ring" => Ring!Ring!Init
  /\ [](part = "ring" => Ring!RingInv /\ Ring!PlacesApart)
  /\ [][part = "ring" => Ring!Ring!Step]_vars
=============================================================================
