------------------------------ MODULE IOServer ------------------------------
(***************************************************************************)
(* The I/O server (io_server.h) and the io_uring back end (io_backend.h).  *)
(* Clients put requests for one page in a bounded channel and wait for     *)
(* their message; the server's thread keeps a row of slots, prepares each  *)
(* request in the ring, submits, reaps completions and posts the messages. *)
(*                                                                         *)
(* A client has one request at a time (ReadWrite and LoadingFinish both    *)
(* wait), so a request is named by its client.  The kernel (external)      *)
(* accepts any prefix of what was prepared, completes in any order and,    *)
(* where MayFail says so, completes without having moved the data.         *)
(***************************************************************************)
EXTENDS Integers, FiniteSets, Sequences, Functions

CONSTANTS
  Clients, Pages, None,
  Slots,       \* BATCH_SIZE_IO_SERVER
  Depth,       \* IOURing_MAX_DEPTH: entries of the submission ring
  ChannelCap,  \* IO_SERVER_CHANNEL_SIZE
  MaxVersion,  \* contents written, a bound of the model
  MayFail,     \* completions may carry an error
  MayStop      \* the destructor runs

\* What the constants have to be; the modules that instantiate this one assume it.
Parameters ==
  /\ Slots \in Nat \ {0} /\ Depth \in Nat \ {0} /\ ChannelCap \in Nat \ {0}
  /\ MaxVersion \in Nat /\ MayFail \in BOOLEAN /\ MayStop \in BOOLEAN
  /\ IsFiniteSet(Clients) /\ None \notin Clients

VARIABLES
  pc,        \* client -> "idle", "push", "wait"
  req,       \* client -> [page, read]: its request
  buf,       \* client -> the contents of its buffer
  mesg,      \* client -> its AsyncMesg: "none" (deleted), "unset", "set"
  channel,   \* request_channel_
  slot,      \* async_requests: slot -> client or None
  state,     \* client -> async_context.state
  finish,    \* client -> async_context.finish, an AsyncMesg1
  at, spc,   \* the slot the server is at, and where it is in the round
  sq,        \* entries prepared and not submitted
  flight,    \* requests the kernel works on
  cq,        \* completions not yet reaped
  num_preparing_, num_processing_,
  disk,      \* page -> its contents
  version,   \* the last contents written
  stop_, gone

vars == <<pc, req, buf, mesg, channel, slot, state, finish, at, spc, sq, flight,
          cq, num_preparing_, num_processing_, disk, version, stop_, gone>>
clientVars == <<pc, req, buf, mesg>>
ringVars == <<sq, flight, cq, num_preparing_, num_processing_>>
diskVars == <<disk, version>>
stopVars == <<stop_, gone>>

Junk == MaxVersion + 1

Init ==
  /\ pc = [c \in Clients |-> "idle"]
  /\ req = [c \in Clients |-> None]
  /\ buf = [c \in Clients |-> Junk]
  /\ mesg = [c \in Clients |-> "none"]
  /\ channel = <<>>
  /\ slot = [i \in 1 .. Slots |-> None]
  /\ state = [c \in Clients |-> "Commit"]
  /\ finish = [c \in Clients |-> FALSE]
  /\ at = 1 /\ spc = "slot"
  /\ sq = <<>> /\ flight = {} /\ cq = <<>>
  /\ num_preparing_ = 0 /\ num_processing_ = 0
  /\ disk = [p \in Pages |-> 0] /\ version = 0
  /\ stop_ = FALSE /\ gone = FALSE

Members(f) == {f[x] : x \in DOMAIN f}

-----------------------------------------------------------------------------
(* The clients. *)

\* A client holds the lock of the page it reads or writes, so no other has a
\* request for it.
Ask(c, p, read) ==
  /\ pc[c] = "idle" /\ ~stop_
  /\ ~ \E d \in Clients : pc[d] # "idle" /\ req[d].page = p
  /\ ~read => version < MaxVersion
  /\ pc' = [pc EXCEPT ![c] = "push"]
  /\ req' = [req EXCEPT ![c] = [page |-> p, read |-> read]]
  /\ mesg' = [mesg EXCEPT ![c] = "unset"]
  /\ version' = IF read THEN version ELSE version + 1
  /\ buf' = [buf EXCEPT ![c] = IF read THEN Junk ELSE version + 1]
  /\ UNCHANGED <<channel, slot, state, finish, at, spc, ringVars, disk, stopVars>>

\* Init of a new request and the blocking push, which spins while the channel
\* is full.
SendRequest(c) ==
  /\ pc[c] = "push" /\ Len(channel) < ChannelCap
  /\ state' = [state EXCEPT ![c] = "Commit"]
  /\ finish' = [finish EXCEPT ![c] = FALSE]
  /\ channel' = Append(channel, c)
  /\ pc' = [pc EXCEPT ![c] = "wait"]
  /\ UNCHANGED <<req, buf, mesg, slot, at, spc, ringVars, diskVars, stopVars>>

\* The client sees its message and deletes it.
Await(c) ==
  /\ pc[c] = "wait" /\ mesg[c] = "set"
  /\ mesg' = [mesg EXCEPT ![c] = "none"]
  /\ pc' = [pc EXCEPT ![c] = "idle"]
  /\ UNCHANGED <<req, buf, channel, slot, state, finish, at, spc, ringVars, diskVars, stopVars>>

-----------------------------------------------------------------------------
(* IOURing and the kernel. *)

\* Read and Write: an entry of the ring, if there is one.
Prepare(c) ==
  /\ Len(sq) < Depth
  /\ sq' = Append(sq, c)
  /\ num_preparing_' = num_preparing_ + 1

\* Variant: everything prepared is taken to be submitted.
SubmitAll(k) ==
  /\ sq' = SubSeq(sq, k + 1, Len(sq))
  /\ flight' = flight \union Members(SubSeq(sq, 1, k))
  /\ num_processing_' = num_processing_ + num_preparing_
  /\ num_preparing_' = 0

\* Progress, first part: io_uring_submit, which takes k of the entries.
Submit(k) ==
  /\ sq' = SubSeq(sq, k + 1, Len(sq))
  /\ flight' = flight \union Members(SubSeq(sq, 1, k))
  /\ num_processing_' = num_processing_ + k
  /\ num_preparing_' = num_preparing_ - k

\* Progress, second part: every completion posts the message of its context;
\* the result it carries is not looked at.
Reap ==
  /\ finish' = [c \in Clients |-> finish[c] \/ c \in Members(cq)]
  /\ cq' = <<>>
  /\ num_processing_' = num_processing_ - Len(cq)

\* The kernel moves the page and queues a completion.
Complete(c) ==
  /\ c \in flight
  /\ flight' = flight \ {c}
  /\ cq' = Append(cq, c)
  /\ LET p == req[c].page
     IN \/ /\ buf' = IF req[c].read THEN [buf EXCEPT ![c] = disk[p]] ELSE buf
           /\ disk' = IF req[c].read THEN disk ELSE [disk EXCEPT ![p] = buf[c]]
        \/ MayFail /\ UNCHANGED <<buf, disk>>
  /\ UNCHANGED <<pc, req, mesg, channel, slot, state, finish, at, spc, sq,
                 num_preparing_, num_processing_, version, stopVars>>

-----------------------------------------------------------------------------
(* Run and ProcessFunc. *)

Cur == slot[at]
InRing(c) == c \in Members(sq) \union flight \union Members(cq)
Server(l) == spc = l /\ ~gone

\* The next slot; after the last one the server looks at stop_.
NextSlot ==
  IF at < Slots THEN at' = at + 1 /\ spc' = "slot" /\ UNCHANGED gone
                ELSE /\ at' = 1 /\ spc' = "slot" /\ gone' = stop_

\* An empty slot takes a request from the channel, if there is one.
Take ==
  /\ Server("slot")
  /\ \/ Cur # None /\ spc' = "process" /\ UNCHANGED <<channel, slot, at, gone>>
     \/ /\ Cur = None /\ channel # <<>>
        /\ slot' = [slot EXCEPT ![at] = Head(channel)]
        /\ channel' = Tail(channel)
        /\ spc' = "process" /\ UNCHANGED <<at, gone>>
     \/ Cur = None /\ channel = <<>> /\ NextSlot /\ UNCHANGED <<channel, slot>>
  /\ UNCHANGED <<clientVars, state, finish, ringVars, diskVars, stop_>>

\* Commit prepares the request: Progress follows, and when there was no entry
\* Commit is tried again.  Poll goes to Progress, End is
\* done.
Process ==
  /\ Server("process")
  /\ spc' = IF state[Cur] = "End" THEN "post" ELSE "submit"
  /\ \/ state[Cur] = "Commit" /\ Prepare(Cur)
     \/ state[Cur] = "Commit" /\ Len(sq) = Depth /\ UNCHANGED <<sq, num_preparing_>>
     \/ state[Cur] # "Commit" /\ UNCHANGED <<sq, num_preparing_>>
  /\ UNCHANGED <<clientVars, channel, slot, state, finish, at, flight, cq, num_processing_,
                 diskVars, stopVars>>

\* Nothing is submitted when nothing is prepared.
ProgressSubmit ==
  /\ Server("submit")
  /\ \E k \in 0 .. Len(sq) :
       IF num_preparing_ > 0 THEN Submit(k)
       ELSE UNCHANGED <<sq, flight, num_preparing_, num_processing_>>
  /\ spc' = "reap"
  /\ UNCHANGED <<clientVars, channel, slot, state, finish, at, cq, diskVars, stopVars>>

\* Variant: the client is answered as soon as the request is in the ring.
ProgressReapEager ==
  /\ Server("reap")
  /\ Reap
  /\ \/ /\ state[Cur] = "Commit" /\ ~InRing(Cur)
        /\ spc' = "process" /\ UNCHANGED <<state, at, gone>>
     \/ /\ state[Cur] = "Commit" /\ InRing(Cur)
        /\ state' = [state EXCEPT ![Cur] = "Poll"] /\ NextSlot
     \/ /\ state[Cur] = "Poll"
        /\ state' = [state EXCEPT ![Cur] = "End"]
        /\ spc' = "post" /\ UNCHANGED <<at, gone>>
  /\ UNCHANGED <<clientVars, channel, slot, sq, flight, num_preparing_, diskVars, stop_>>

\* After Progress: another try of Commit, if there was no entry; the request just
\* prepared is left for the next round; TryWait in Poll.
ProgressReap ==
  /\ Server("reap")
  /\ Reap
  /\ \/ /\ state[Cur] = "Commit" /\ ~InRing(Cur)
        /\ spc' = "process" /\ UNCHANGED <<state, at, gone>>
     \/ /\ state[Cur] = "Commit" /\ InRing(Cur)
        /\ state' = [state EXCEPT ![Cur] = "Poll"] /\ NextSlot
     \/ /\ state[Cur] = "Poll" /\ finish'[Cur]
        /\ state' = [state EXCEPT ![Cur] = "End"]
        /\ spc' = "post" /\ UNCHANGED <<at, gone>>
     \/ /\ state[Cur] = "Poll" /\ ~finish'[Cur]
        /\ NextSlot /\ UNCHANGED state
  /\ UNCHANGED <<clientVars, channel, slot, sq, flight, num_preparing_, diskVars, stop_>>

\* The request is done: finish_ of its message is set, the request deleted.  (The
\* notify_all that AsyncMesg2 adds wakes nobody: clients ask with TryWait.)
Post ==
  /\ Server("post")
  /\ mesg' = [mesg EXCEPT ![Cur] = IF @ = "none" THEN "none" ELSE "set"]
  /\ spc' = "next"
  /\ UNCHANGED <<pc, req, buf, channel, slot, state, finish, at, ringVars, diskVars, stopVars>>

\* Variant: the slot keeps the request that was answered.
PopNextKeeps ==
  /\ Server("next")
  /\ \/ channel # <<>> /\ slot' = [slot EXCEPT ![at] = Head(channel)] /\ channel' = Tail(channel)
     \/ channel = <<>> /\ UNCHANGED <<slot, channel>>
  /\ NextSlot
  /\ UNCHANGED <<clientVars, state, finish, ringVars, diskVars, stop_>>

\* Variant: the request that takes the slot is lost.
PopNextLoses ==
  /\ Server("next")
  /\ slot' = [slot EXCEPT ![at] = None]
  /\ channel' = IF channel = <<>> THEN channel ELSE Tail(channel)
  /\ NextSlot
  /\ UNCHANGED <<clientVars, state, finish, ringVars, diskVars, stop_>>

\* The slot takes the next request, which is processed in the next round.
PopNext ==
  /\ Server("next")
  /\ \/ channel # <<>> /\ slot' = [slot EXCEPT ![at] = Head(channel)] /\ channel' = Tail(channel)
     \/ channel = <<>> /\ slot' = [slot EXCEPT ![at] = None] /\ UNCHANGED channel
  /\ NextSlot
  /\ UNCHANGED <<clientVars, state, finish, ringVars, diskVars, stop_>>

\* ~IOServer sets stop_ and joins the thread.
Stop ==
  /\ MayStop /\ ~stop_ /\ stop_' = TRUE
  /\ UNCHANGED <<clientVars, channel, slot, state, finish, at, spc, ringVars, diskVars, gone>>

\* The thread has ended and no client can go on.
Ended ==
  /\ gone /\ flight = {}
  /\ \A c \in Clients : /\ ~(pc[c] = "push" /\ Len(channel) < ChannelCap)
                        /\ ~(pc[c] = "wait" /\ mesg[c] = "set")
  /\ UNCHANGED vars

Run == Take \/ Process \/ ProgressSubmit \/ ProgressReap \/ Post \/ PopNext
Next ==
  \/ \E c \in Clients, p \in Pages, read \in BOOLEAN : Ask(c, p, read)
  \/ \E c \in Clients : SendRequest(c) \/ Await(c) \/ Complete(c)
  \/ Run \/ Stop \/ Ended

\* The kernel's side of the fairness: an entry handed over often enough is
\* taken, and what was taken completes.
Accepted == ProgressSubmit /\ flight' # flight

Spec == Init /\ [][Next]_vars
FairSpec ==
  /\ Spec /\ WF_vars(Run) /\ SF_vars(Accepted)
  /\ \A c \in Clients : WF_vars(Complete(c)) /\ SF_vars(SendRequest(c)) /\ WF_vars(Await(c))

-----------------------------------------------------------------------------
TypeOK ==
  /\ pc \in [Clients -> {"idle", "push", "wait"}]
  /\ req \in [Clients -> [page : Pages, read : BOOLEAN] \union {None}]
  /\ buf \in [Clients -> 0 .. Junk]
  /\ mesg \in [Clients -> {"none", "unset", "set"}]
  /\ channel \in Seq(Clients) /\ Len(channel) <= ChannelCap
  /\ slot \in [1 .. Slots -> Clients \union {None}]
  /\ state \in [Clients -> {"Commit", "Poll", "End"}]
  /\ finish \in [Clients -> BOOLEAN]
  /\ at \in 1 .. Slots
  /\ spc \in {"slot", "process", "submit", "reap", "post", "next"}
  /\ sq \in Seq(Clients) /\ Len(sq) <= Depth
  /\ flight \subseteq Clients /\ cq \in Seq(Clients)
  /\ num_preparing_ \in Nat /\ num_processing_ \in Nat
  /\ disk \in [Pages -> 0 .. MaxVersion] /\ version \in 0 .. MaxVersion
  /\ stop_ \in BOOLEAN /\ gone \in BOOLEAN

\* ReadWrite and LoadingFinish: a client that finds its message set has the page
\* in its buffer, or its buffer in the file: no answer is early, and none is the
\* answer of the client's earlier request.
AnswerMeansDone ==
  \A c \in Clients : mesg[c] = "set" => buf[c] = disk[req[c].page]

\* Run posts to the message of a client that still waits, never to one that has
\* been seen and deleted: a request is answered once.
MessageAlive ==
  Server("post") => pc[Cur] = "wait" /\ mesg[Cur] = "unset"

\* Every request a client waits for is in one place: the channel or one slot,
\* and once; no slot or channel entry is left behind by a request answered.
OnePlace ==
  \A c \in Clients :
    LET places == {i \in 1 .. Len(channel) : channel[i] = c}
        slots == {i \in 1 .. Slots : slot[i] = c /\ ~(i = at /\ spc = "next")}
    IN Cardinality(places) + Cardinality(slots) =
         IF pc[c] = "wait" /\ mesg[c] = "unset" THEN 1 ELSE 0

\* Progress counts what it hands to the kernel and what comes back, and skips
\* io_uring_submit when num_preparing_ is zero: an entry prepared is always
\* counted, and num_processing_ does not wrap around.
RingCounts ==
  /\ num_preparing_ = Len(sq)
  /\ num_processing_ = Cardinality(flight) + Len(cq)

\* Where the request of a client is: in the channel, or held by a slot that has not
\* answered it; and whether its client waits for it.
Queued(c) == c \in Members(channel)
Holds(i, c) == slot[i] = c /\ ~(i = at /\ spc = "next")
Held(c) == \E i \in 1 .. Slots : Holds(i, c)
Waits(c) == pc[c] = "wait" /\ mesg[c] = "unset"

\* A client has a message while it has a request, and no two requests are for one
\* page.
ClientInv ==
  /\ \A c \in Clients :
       /\ pc[c] = "idle" => mesg[c] = "none"
       /\ pc[c] = "push" => mesg[c] = "unset"
       /\ pc[c] = "wait" => mesg[c] # "none"
       /\ pc[c] # "idle" => req[c] \in [page : Pages, read : BOOLEAN]
       /\ pc[c] # "idle" /\ ~req[c].read => buf[c] # Junk
  /\ \A c, d \in Clients :
       pc[c] # "idle" /\ pc[d] # "idle" /\ req[c].page = req[d].page => c = d

\* A request that is waited for is in one place, and nothing else is in any.
PlaceInv ==
  /\ IsInjective(channel)
  /\ \A i, j \in 1 .. Slots, c \in Clients : Holds(i, c) /\ Holds(j, c) => i = j
  /\ \A c \in Clients : /\ Waits(c) <=> (Queued(c) \/ Held(c))
                        /\ ~(Queued(c) /\ Held(c))
  /\ spc # "slot" => Cur # None

\* How far a request is, and which are in the ring.
StateInv ==
  /\ \A c \in Clients :
       /\ Queued(c) => state[c] = "Commit"
       /\ Queued(c) \/ (Held(c) /\ state[c] = "Commit") => ~finish[c]
       /\ Held(c) /\ state[c] = "Poll" => InRing(c) \/ finish[c]
       /\ Held(c) /\ state[c] = "End" => finish[c] /\ spc = "post" /\ Cur = c
       /\ InRing(c) => /\ Held(c) /\ ~finish[c]
                       /\ \/ state[c] = "Poll"
                          \/ state[c] = "Commit" /\ Cur = c /\ spc \in {"submit", "reap"}
  /\ spc = "post" => state[Cur] = "End"

\* The ring has an entry once, and the counters count the entries.
RingInv ==
  /\ IsInjective(sq) /\ IsInjective(cq)
  /\ Members(sq) \cap flight = {} /\ Members(sq) \cap Members(cq) = {}
  /\ flight \cap Members(cq) = {}
  /\ RingCounts

\* A request whose completion is queued, or reaped, or answered has been served.
DataInv ==
  \A c \in Clients :
    c \in Members(cq) \/ (Held(c) /\ finish[c]) \/ mesg[c] = "set"
      => buf[c] = disk[req[c].page]

\* The inductive invariant; a completion may carry an error only if MayFail says so.
IOInv ==
  /\ TypeOK /\ ClientInv /\ PlaceInv /\ StateInv /\ RingInv
  /\ ~MayFail => DataInv

\* A request put in the channel is answered, unless the server is told to stop:
\* Run leaves its loop with requests in its slots and in the channel.
Answered == \A c \in Clients : pc[c] = "push" ~> (pc[c] = "idle" \/ stop_)
=============================================================================
