--------------------------- MODULE EvictionServer ---------------------------
(***************************************************************************)
(* The eviction server and the fetches that wait for it: the build with    *)
(* EVICTION_BATCH_ENABLE.  A fetch that finds no free frame, and the mark  *)
(* of the replacer set, sends a request for a number of frames and polls   *)
(* again; the server keeps a row of requests, asks the replacer for frames *)
(* and puts them on the free list until a request has its number.          *)
(*                                                                         *)
(* The replacer is a set of frames here (modules QueueReplacers and        *)
(* SieveReplacers have its order): an eviction of several takes frames not *)
(* in use one by one and stops at the first scan that finds none.          *)
(***************************************************************************)
EXTENDS Integers, FiniteSets, Sequences, SequencesExt, FiniteSetsExt

CONSTANTS
  Frames, Clients, None,
  PageNum,     \* EVICTION_BATCH_SIZE
  Slots,       \* EVICTION_FIBER_CHANNEL_DEPTH: the slots the server looks at
  ChannelCap,  \* EVICTION_SERVER_CHANNEL_SERVER
  Fetches      \* fetches of one client, a bound of the model

\* What the constants have to be; the modules that instantiate this one assume it.
Parameters == {PageNum, Slots, ChannelCap} \subseteq Nat \ {0}

VARIABLES
  free,      \* free_list_
  repl,      \* the frames of the replacer
  inUse,     \* frames pinned by the clients
  mark,      \* finish_mark_async_
  channel,   \* request_channel_: the page_num of each request
  slots,     \* async_requests: slot -> page_num, 0 for an empty slot
  at,        \* req_id
  stop_, gone,  \* the destructor has set stop_; Run has returned
  pc,        \* client -> "idle", "poll", "send", "load", "use"
  frm,       \* client -> its frame
  done       \* client -> fetches ended

vars == <<free, repl, inUse, mark, channel, slots, at, stop_, gone, pc, frm, done>>
server == <<slots, at, stop_, gone>>

Init ==
  /\ free = Frames /\ repl = {} /\ inUse = {}
  /\ mark = TRUE
  /\ channel = <<>>
  /\ slots = [i \in 1 .. Slots |-> 0]
  /\ at = 1
  /\ stop_ = FALSE /\ gone = FALSE
  /\ pc = [c \in Clients |-> "idle"]
  /\ frm = [c \in Clients |-> None]
  /\ done = [c \in Clients |-> 0]

Goto(c, l) == pc' = [pc EXCEPT ![c] = l]

-----------------------------------------------------------------------------
(* FetchPageSync, phase Initing to End. *)

Fetch(c) ==
  /\ pc[c] = "idle" /\ done[c] < Fetches /\ ~stop_
  /\ Goto(c, "poll")
  /\ UNCHANGED <<free, repl, inUse, mark, channel, server, frm, done>>

Poll(c) ==
  /\ pc[c] = "poll"
  /\ \/ \E f \in free : /\ free' = free \ {f}
                        /\ frm' = [frm EXCEPT ![c] = f]
                        /\ Goto(c, "load")
     \/ /\ free = {}
        /\ Goto(c, IF mark THEN "send" ELSE "poll")
        /\ UNCHANGED <<free, frm>>
  /\ UNCHANGED <<repl, inUse, mark, channel, server, done>>

\* SendRequest, which spins while the channel is full; the mark is not reset.
Send(c) ==
  /\ pc[c] = "send"
  /\ Len(channel) < ChannelCap
  /\ channel' = Append(channel, PageNum)
  /\ Goto(c, "poll")
  /\ UNCHANGED <<free, repl, inUse, mark, server, frm, done>>

Load(c) ==
  /\ pc[c] = "load"
  /\ repl' = repl \cup {frm[c]}
  /\ inUse' = inUse \cup {frm[c]}
  /\ Goto(c, "use")
  /\ UNCHANGED <<free, mark, channel, server, frm, done>>

Unpin(c) ==
  /\ pc[c] = "use"
  /\ inUse' = inUse \ {frm[c]}
  /\ frm' = [frm EXCEPT ![c] = None]
  /\ done' = [done EXCEPT ![c] = @ + 1]
  /\ Goto(c, "idle")
  /\ UNCHANGED <<free, repl, mark, channel, server>>

-----------------------------------------------------------------------------
(* EvictionServer. *)

\* A slot takes its next request from the channel, if there is one.
Refill(i, ch) == [slots EXCEPT ![i] = IF ch = <<>> THEN 0 ELSE Head(ch)]
Rest(ch) == IF ch = <<>> THEN ch ELSE Tail(ch)

NextSlot == IF at = Slots THEN 1 ELSE at + 1

\* Whether the loop ends after its last slot.
Leaves == stop_

\* An empty slot with nothing in the channel is passed; after the last slot the
\* loop ends if stop_ is set.
Take ==
  /\ ~gone /\ slots[at] = 0
  /\ slots' = Refill(at, channel)
  /\ channel' = Rest(channel)
  /\ at' = IF channel = <<>> THEN NextSlot ELSE at
  /\ gone' = (channel = <<>> /\ at = Slots /\ Leaves)
  /\ UNCHANGED <<free, repl, inUse, mark, stop_, pc, frm, done>>

\* Variants: a pinned frame is given away; frames found short of the number are
\* not put on the free list.
EvictableAny == repl

Evictable == repl \ inUse
Evict(s, n) == free \cup s

\* ProcessFunc: the replacer gives up to page_num frames, all there are if they
\* are fewer, and they go to the free list (a frame between the two is out of
\* every other thread's reach, as one in use is); a request that has its number sets the mark and is replaced.
Process ==
  /\ ~gone /\ slots[at] > 0
  /\ LET n == Min({slots[at], Cardinality(Evictable)}) IN
     \E s \in kSubset(n, Evictable) :
       /\ repl' = repl \ s
       /\ free' = Evict(s, slots[at])
       /\ IF n = slots[at]
          THEN /\ mark' = TRUE
               /\ slots' = Refill(at, channel)
               /\ channel' = Rest(channel)
               /\ at' = IF channel = <<>> THEN NextSlot ELSE at
               /\ gone' = (channel = <<>> /\ at = Slots /\ Leaves)
          ELSE /\ slots' = [slots EXCEPT ![at] = @ - n]
               /\ at' = NextSlot
               /\ gone' = (at = Slots /\ Leaves)
               /\ UNCHANGED <<mark, channel>>
  /\ UNCHANGED <<inUse, stop_, pc, frm, done>>

\* ~EvictionServer, once nobody fetches.
Stop ==
  /\ ~stop_ /\ \A c \in Clients : pc[c] = "idle" /\ done[c] = Fetches
  /\ stop_' = TRUE
  /\ UNCHANGED <<free, repl, inUse, mark, channel, slots, at, gone, pc, frm, done>>

Next ==
  \/ \E c \in Clients : Fetch(c) \/ Poll(c) \/ Send(c) \/ Load(c) \/ Unpin(c)
  \/ Take \/ Process
  \/ Stop
  \/ gone /\ UNCHANGED vars

Spec == Init /\ [][Next]_vars

\* The threads run; of a client's steps the one it is at.
FairSpec ==
  /\ Spec
  /\ WF_vars(Take \/ Process) /\ WF_vars(Stop)
  /\ \A c \in Clients : WF_vars(Fetch(c) \/ Poll(c) \/ Send(c) \/ Load(c) \/ Unpin(c))

-----------------------------------------------------------------------------
(* Properties. *)

TypeOK ==
  /\ free \subseteq Frames /\ repl \subseteq Frames /\ inUse \subseteq Frames
  /\ mark \in BOOLEAN /\ stop_ \in BOOLEAN /\ gone \in BOOLEAN
  /\ channel \in Seq(1 .. PageNum) /\ Len(channel) <= ChannelCap
  /\ slots \in [1 .. Slots -> 0 .. PageNum]
  /\ at \in 1 .. Slots
  /\ frm \in [Clients -> Frames \cup {None}]

\* Every frame is on the free list, in the replacer, or carried by one client:
\* the server, working beside the fetches, loses none and gives none twice.
FramesPartitioned ==
  LET carried == {frm[c] : c \in {d \in Clients : pc[d] = "load"}} IN
  /\ free \cup repl \cup carried = Frames
  /\ free \cap repl = {} /\ free \cap carried = {} /\ repl \cap carried = {}

\* A pinned frame stays with its client: it is never on the free list.
PinnedNotFree == \A c \in Clients : pc[c] = "use" => frm[c] \in repl \ free

\* "Only one async request of a replacer may exist": the comment in FetchPageSync.
OneRequest == Len(channel) + Cardinality({i \in 1 .. Slots : slots[i] > 0}) <= 1

\* A fetch that waits for the server ends, as long as the clients release the
\* pages they have: waiting costs latency only, as FetchPageSync notes.
FetchEnds == \A c \in Clients : pc[c] = "poll" ~> pc[c] = "use"

\* The destructor's join returns: the server leaves its loop.
ServerStops == stop_ ~> gone
=============================================================================
