------------------------------ MODULE RWLocks ------------------------------
(***************************************************************************)
(* The three reader-writer locks (rw_lock.h, rwmutex.h), each used through *)
(* the scope guards of rw_lock.h.  Kind says which lock this is:           *)
(*   "spin"  SpinningRWLock: one step for each access to n_readers and     *)
(*           writing, which are atomic variables;                          *)
(*   "cv"    RWLock: one mutex and one condition variable;                 *)
(*   "mutex" RWMutex: one mutex and two condition variables.               *)
(* A section under a std::mutex is one step; waiting puts the thread in    *)
(* the set of the condition variable, and a notified thread tests its      *)
(* condition again.                                                        *)
(***************************************************************************)
EXTENDS Integers, FiniteSets

CONSTANTS
  Threads, Kind,
  MaxReaders,   \* RWMutex: max_readers_, UINT_MAX in the code
  Guards        \* the two guard objects of a thread

\* What the constants have to be; the modules that instantiate this one assume it.
Parameters ==
  /\ Kind \in {"spin", "cv", "mutex"} /\ MaxReaders \in Nat \ {0}
  /\ IsFiniteSet(Threads) /\ \E g, h \in Guards : g # h /\ Guards = {g, h}

\* max_readers_ is UINT_MAX: there are not so many threads.
NeverFull == Cardinality(Threads) < MaxReaders

VARIABLES
  n_readers,   \* n_readers, n_readers_, reader_count_
  writing,     \* writing, writing_, writer_entered_
  readerCv,    \* the threads asleep on cv_ or reader_
  writerCv,    \* the threads asleep on writer_
  pc,          \* thread -> where it is
  locked_      \* thread -> the guards of its that own the lock

vars == <<n_readers, writing, readerCv, writerCv, pc, locked_>>

Init ==
  /\ n_readers = 0 /\ writing = FALSE
  /\ readerCv = {} /\ writerCv = {}
  /\ pc = [t \in Threads |-> "idle"]
  /\ locked_ = [t \in Threads |-> {}]

Goto(t, l) == pc' = [pc EXCEPT ![t] = l]
Awake(t) == t \notin readerCv \union writerCv
First == CHOOSE g \in Guards : TRUE
NoSleep == UNCHANGED <<readerCv, writerCv>>

\* The constructors of the guards call ReadLock and WriteLock.
Begin(t) ==
  /\ pc[t] = "idle"
  /\ Goto(t, "rlock") \/ Goto(t, "wlock")
  /\ UNCHANGED <<n_readers, writing, locked_>> /\ NoSleep

\* The lock is taken and the guard owns it.
Enter(t, l) ==
  /\ Goto(t, l)
  /\ locked_' = [locked_ EXCEPT ![t] = {First}]

-----------------------------------------------------------------------------
(* SpinningRWLock *)

SpinRLock(t) ==
  /\ Kind = "spin" /\ pc[t] = "rlock"
  /\ n_readers' = n_readers + 1
  /\ Goto(t, "rtest")
  /\ UNCHANGED <<writing, locked_>> /\ NoSleep

SpinRTest(t) ==
  /\ Kind = "spin" /\ pc[t] = "rtest"
  /\ \/ ~writing /\ Enter(t, "reading")
     \/ writing /\ Goto(t, "rback") /\ UNCHANGED locked_
  /\ UNCHANGED <<n_readers, writing>> /\ NoSleep

SpinRBack(t) ==
  /\ Kind = "spin" /\ pc[t] = "rback"
  /\ n_readers' = n_readers - 1
  /\ Goto(t, "rspin")
  /\ UNCHANGED <<writing, locked_>> /\ NoSleep

SpinRYield(t) ==
  /\ Kind = "spin" /\ pc[t] = "rspin" /\ ~writing
  /\ Goto(t, "rlock")
  /\ UNCHANGED <<n_readers, writing, locked_>> /\ NoSleep

SpinWLock(t) ==
  /\ Kind = "spin" /\ pc[t] = "wlock" /\ ~writing
  /\ writing' = TRUE
  /\ Goto(t, "wdrain")
  /\ UNCHANGED <<n_readers, locked_>> /\ NoSleep

\* Variant: the writer does not wait for the readers inside.
SpinWDrainSkips(t) ==
  /\ Kind = "spin" /\ pc[t] = "wdrain"
  /\ Enter(t, "writing")
  /\ UNCHANGED <<n_readers, writing>> /\ NoSleep

SpinWDrain(t) ==
  /\ Kind = "spin" /\ pc[t] = "wdrain" /\ n_readers = 0
  /\ Enter(t, "writing")
  /\ UNCHANGED <<n_readers, writing>> /\ NoSleep

-----------------------------------------------------------------------------
(* RWLock *)

CvRLock(t) ==
  /\ Kind = "cv" /\ pc[t] = "rlock" /\ Awake(t)
  /\ \/ /\ ~writing /\ n_readers' = n_readers + 1
        /\ Enter(t, "reading") /\ NoSleep
     \/ /\ writing /\ readerCv' = readerCv \union {t}
        /\ UNCHANGED <<n_readers, pc, locked_, writerCv>>
  /\ UNCHANGED writing

CvWLock(t) ==
  /\ Kind = "cv" /\ pc[t] = "wlock" /\ Awake(t)
  /\ \/ /\ n_readers = 0 /\ ~writing /\ writing' = TRUE
        /\ Enter(t, "writing") /\ NoSleep
     \/ /\ n_readers > 0 \/ writing
        /\ readerCv' = readerCv \union {t}
        /\ UNCHANGED <<writing, pc, locked_, writerCv>>
  /\ UNCHANGED n_readers

-----------------------------------------------------------------------------
(* RWMutex *)

MutexRLock(t) ==
  /\ Kind = "mutex" /\ pc[t] = "rlock" /\ Awake(t)
  /\ \/ /\ ~writing /\ n_readers # MaxReaders /\ n_readers' = n_readers + 1
        /\ Enter(t, "reading") /\ NoSleep
     \/ /\ writing \/ n_readers = MaxReaders
        /\ readerCv' = readerCv \union {t}
        /\ UNCHANGED <<n_readers, pc, locked_, writerCv>>
  /\ UNCHANGED writing

\* The writer shuts the readers out, then waits for those inside on writer_.
MutexWLock(t) ==
  /\ Kind = "mutex" /\ pc[t] = "wlock" /\ Awake(t)
  /\ \/ /\ ~writing /\ n_readers = 0 /\ writing' = TRUE
        /\ Enter(t, "writing") /\ NoSleep
     \/ /\ ~writing /\ n_readers > 0 /\ writing' = TRUE
        /\ Goto(t, "wdrain") /\ writerCv' = writerCv \union {t}
        /\ UNCHANGED <<locked_, readerCv>>
     \/ /\ writing /\ readerCv' = readerCv \union {t}
        /\ UNCHANGED <<writing, pc, locked_, writerCv>>
  /\ UNCHANGED n_readers

MutexWDrain(t) ==
  /\ Kind = "mutex" /\ pc[t] = "wdrain" /\ Awake(t)
  /\ n_readers = 0 /\ Enter(t, "writing")
  /\ UNCHANGED <<n_readers, writing>> /\ NoSleep

-----------------------------------------------------------------------------
(* The unlocks and the guards. *)

OneOf(s) == IF s = {} THEN {{}} ELSE {{t} : t \in s}

\* Variant: RWLock wakes one sleeper only.
ReadUnlockOne(t) ==
  /\ n_readers' = n_readers - 1
  /\ UNCHANGED writing
  /\ \/ Kind = "spin" /\ NoSleep
     \/ /\ Kind = "cv" /\ UNCHANGED writerCv
        /\ \E w \in OneOf(readerCv) : readerCv' = readerCv \ w
     \/ /\ Kind = "mutex"
        /\ IF writing
           THEN /\ \E w \in OneOf(IF n_readers' = 0 THEN writerCv ELSE {}) : writerCv' = writerCv \ w
                /\ UNCHANGED readerCv
           ELSE /\ \E w \in OneOf(IF n_readers' = MaxReaders - 1 THEN readerCv ELSE {}) :
                     readerCv' = readerCv \ w
                /\ UNCHANGED writerCv

\* ReadUnlock, RUnlock: RWMutex wakes the writer that waits for the last reader,
\* or one of those that found the lock full.
ReadUnlock(t) ==
  /\ n_readers' = n_readers - 1
  /\ UNCHANGED writing
  /\ \/ Kind = "spin" /\ NoSleep
     \/ Kind = "cv" /\ readerCv' = {} /\ UNCHANGED writerCv
     \/ /\ Kind = "mutex"
        /\ IF writing
           THEN /\ \E w \in OneOf(IF n_readers' = 0 THEN writerCv ELSE {}) : writerCv' = writerCv \ w
                /\ UNCHANGED readerCv
           ELSE /\ \E w \in OneOf(IF n_readers' = MaxReaders - 1 THEN readerCv ELSE {}) :
                     readerCv' = readerCv \ w
                /\ UNCHANGED writerCv

\* WriteUnlock, WUnlock: everyone asleep on cv_ or reader_ is woken.
WriteUnlock(t) ==
  /\ writing' = FALSE
  /\ readerCv' = {}
  /\ UNCHANGED <<n_readers, writerCv>>

Inside(t) == pc[t] \in {"reading", "writing"}
Unlocks(t) == IF pc[t] = "reading" THEN ReadUnlock(t) ELSE WriteUnlock(t)

\* The move constructor: the new guard owns what the old one owned.
Move(t) ==
  /\ Inside(t) /\ First \in locked_[t]
  /\ locked_' = [locked_ EXCEPT ![t] = Guards \ {First}]
  /\ UNCHANGED <<n_readers, writing, pc>> /\ NoSleep

\* Unlock(), once, by the guard that owns the lock; or a destructor.
Unlock(t) ==
  /\ Inside(t)
  /\ \E g \in locked_[t] :
       /\ locked_' = [locked_ EXCEPT ![t] = @ \ {g}]
       /\ Unlocks(t)
  /\ UNCHANGED pc

\* The guards are gone: a destructor of one that owns nothing does nothing.
Leave(t) ==
  /\ Inside(t) /\ locked_[t] = {}
  /\ Goto(t, "idle")
  /\ UNCHANGED <<n_readers, writing, locked_>> /\ NoSleep

Locks(t) ==
  \/ SpinRLock(t) \/ SpinRTest(t) \/ SpinRBack(t) \/ SpinRYield(t)
  \/ SpinWLock(t) \/ SpinWDrain(t)
  \/ CvRLock(t) \/ CvWLock(t)
  \/ MutexRLock(t) \/ MutexWLock(t) \/ MutexWDrain(t)

Next == \E t \in Threads : Begin(t) \/ Locks(t) \/ Move(t) \/ Unlock(t) \/ Leave(t)

Spec == Init /\ [][Next]_vars

\* A thread that has called an operation goes on with it, and releases the lock
\* after a while.
FairSpec == /\ Spec
            /\ \A t \in Threads : WF_vars(Locks(t)) /\ WF_vars(Unlock(t)) /\ WF_vars(Leave(t))

-----------------------------------------------------------------------------
TypeOK ==
  /\ n_readers \in 0 .. Cardinality(Threads) /\ writing \in BOOLEAN
  /\ readerCv \subseteq Threads /\ writerCv \subseteq Threads
  /\ pc \in [Threads -> {"idle", "rlock", "rtest", "rback", "rspin", "reading",
                         "wlock", "wdrain", "writing"}]
  /\ locked_ \in [Threads -> SUBSET Guards]

\* The threads that n_readers counts, and the one that has set writing.
Counted(t) == pc[t] \in {"rtest", "rback"} \/ (pc[t] = "reading" /\ locked_[t] # {})
Closed(t) == pc[t] = "wdrain" \/ (pc[t] = "writing" /\ locked_[t] # {})

\* What the counter and the flag mean: n_readers is the threads that have counted
\* themselves, writing is set by one thread, and a thread reads only while that one
\* is not in yet.
RWInv ==
  /\ TypeOK
  /\ n_readers = Cardinality({t \in Threads : Counted(t)})
  /\ writing <=> \E t \in Threads : Closed(t)
  /\ \A t, u \in Threads :
       /\ Closed(t) /\ Closed(u) => t = u
       /\ pc[t] = "writing" /\ locked_[t] # {} =>
            ~(pc[u] = "reading" /\ locked_[u] # {})
  /\ \A t \in Threads :
       /\ locked_[t] # {} => Inside(t)
       /\ \A g, h \in locked_[t] : g = h
       /\ pc[t] \in {"rtest", "rback", "rspin"} => Kind = "spin"
       /\ t \in readerCv => pc[t] \in {"rlock", "wlock"} /\ Kind # "spin"
       /\ t \in writerCv => pc[t] = "wdrain" /\ Kind = "mutex"

\* Who the sleepers wait for: a writer or, of RWLock, a reader; and the writer of
\* RWMutex on writer_ waits for a reader.
SleepInv ==
  /\ readerCv # {} => writing \/ (Kind = "cv" /\ n_readers > 0)
  /\ writerCv # {} => n_readers > 0

Holding(l) == {t \in Threads : pc[t] = l /\ locked_[t] # {}}
Promise == INSTANCE ReadersWriters
             WITH readers <- Holding("reading"), writers <- Holding("writing")

\* ReadLock, WriteLock and the guards give the lock to one writer or to readers,
\* and give it back once, whichever guard owns it and however it is released:
\* "Single-writer, multi-reader lock" (rw_lock.h).
IsReadersWriters == Promise!Spec

\* No wake-up is lost: a thread sleeps only while the one that will notify it has
\* the lock, or is on its way out.
SleepersAwaited ==
  /\ readerCv # {} => \E t \in Threads : locked_[t] # {} \/ pc[t] = "wdrain"
  /\ writerCv # {} => \E t \in Threads : pc[t] = "reading" /\ locked_[t] # {}

\* A writer that has shut the readers out gets the lock.
WriterServed ==
  \A t \in Threads : pc[t] = "wdrain" ~> pc[t] = "writing"
=============================================================================
