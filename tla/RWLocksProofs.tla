---------------------------- MODULE RWLocksProofs ----------------------------
(***************************************************************************)
(* The three reader-writer locks implement ReadersWriters for any number   *)
(* of threads: RWInv is inductive, whichever lock Kind names, and with it  *)
(* every acquisition finds the lock as the abstract one demands.           *)
(***************************************************************************)
EXTENDS RWLocks, FiniteSetTheorems, TLAPS

USE DEF Goto, NoSleep

-----------------------------------------------------------------------------
(* Facts about the counter. *)

\* The threads that have counted themselves.
Readers == {t \in Threads : Counted(t)}

\* They are finitely many.
LEMMA ReadersFinite ==
  ASSUME Parameters
  PROVE  /\ IsFiniteSet(Readers)
         /\ Cardinality(Readers) \in Nat
         /\ Cardinality(Readers) <= Cardinality(Threads)
         /\ Cardinality(Threads) \in Nat
BY FS_Subset, FS_CardinalityType DEF Readers, Parameters

\* The same after a step.
LEMMA ReadersFiniteNext ==
  ASSUME Parameters
  PROVE  /\ IsFiniteSet(Readers')
         /\ Cardinality(Readers') \in Nat
         /\ Cardinality(Readers') <= Cardinality(Threads)
BY FS_Subset, FS_CardinalityType DEF Readers, Parameters

\* What RWInv says of the counter.
CountRight ==
  n_readers = Cardinality(Readers) /\ n_readers \in 0 .. Cardinality(Threads)

\* A counter that is zero counts nobody.
LEMMA NoReaders ==
  ASSUME Parameters, CountRight, n_readers = 0
  PROVE  \A t \in Threads : ~Counted(t)
<1>1. Readers = {}
  BY ReadersFinite, FS_EmptySet DEF CountRight
<1> QED BY <1>1 DEF Readers

\* A thread that counts itself adds one.
LEMMA CountUp ==
  ASSUME Parameters, CountRight, NEW t \in Threads, ~Counted(t),
         Readers' = Readers \cup {t}, n_readers' = n_readers + 1
  PROVE  CountRight'
<1>1. t \notin Readers
  BY DEF Readers
<1>2. Cardinality(Readers') = Cardinality(Readers) + 1
  BY <1>1, ReadersFinite, FS_AddElement
<1> QED BY <1>2, ReadersFinite, ReadersFiniteNext DEF CountRight

\* A thread that takes itself back subtracts one.
LEMMA CountDown ==
  ASSUME Parameters, CountRight, NEW t \in Threads, Counted(t),
         Readers' = Readers \ {t}, n_readers' = n_readers - 1
  PROVE  CountRight'
<1>1. t \in Readers
  BY DEF Readers
<1>2. Cardinality(Readers') = Cardinality(Readers) - 1
  BY <1>1, ReadersFinite, FS_RemoveElement
<1> QED BY <1>2, ReadersFinite, ReadersFiniteNext DEF CountRight

\* The other steps leave the counter and the counted threads.
LEMMA CountStays ==
  ASSUME CountRight, Readers' = Readers, n_readers' = n_readers
  PROVE  CountRight'
BY DEF CountRight

\* What RWInv says of the counter is CountRight.
LEMMA RWInvCount == RWInv => CountRight
BY DEF RWInv, CountRight, Readers, TypeOK

-----------------------------------------------------------------------------
(* RWInv is inductive. *)

\* A lock that nobody has used.
LEMMA InitRWInv == Parameters /\ Init => RWInv
<1> SUFFICES ASSUME Parameters, Init PROVE RWInv
  OBVIOUS
<1>1. Readers = {}
  BY DEF Init, Readers, Counted
<1>2. CountRight
  BY <1>1, FS_EmptySet, ReadersFinite DEF Init, CountRight
<1>3. TypeOK
  BY <1>2 DEF Init, TypeOK, CountRight
<1> QED BY <1>2, <1>3 DEF Init, Closed, Inside, RWInv, CountRight, Readers

\* The guard that takes the lock is one of the thread's guards.
LEMMA Guard ==
  ASSUME Parameters
  PROVE  /\ First \in Guards /\ Guards \ {First} # {}
         /\ \A g, h \in Guards \ {First} : g = h
<1>1. PICK g, h \in Guards : g # h /\ Guards = {g, h}
  BY DEF Parameters
<1>2. First \in Guards
  BY <1>1 DEF First
<1> QED BY <1>1, <1>2

\* What a thread does to itself; the others stay.
Steps(t, l, g) ==
  /\ pc' = [pc EXCEPT ![t] = l]
  /\ locked_' = [locked_ EXCEPT ![t] = g]

\* A step that changes neither who is counted nor who has closed the lock, and
\* takes nothing.
LEMMA PlainStep ==
  ASSUME Parameters, RWInv, NEW t \in Threads, NEW l, NEW g,
         Steps(t, l, g), UNCHANGED <<n_readers, writing>>,
         l \in {"idle", "rlock", "rspin", "wlock", "reading", "writing"},
         g \subseteq Guards, \A x, y \in g : x = y,
         g # {} => l = pc[t] /\ locked_[t] # {},
         locked_[t] # {} => g # {},
         l = "rspin" => Kind = "spin",
         ~(pc[t] \in {"rtest", "rback", "wdrain"}),
         readerCv' \subseteq Threads, writerCv' \subseteq writerCv,
         \A u \in readerCv' :
           u \in readerCv \/ (u = t /\ l \in {"rlock", "wlock"} /\ Kind # "spin"),
         t \in readerCv => t \notin readerCv' \/ l = pc[t]
  PROVE  RWInv'
<1>1. /\ pc'[t] = l /\ locked_'[t] = g
      /\ \A u \in Threads \ {t} : pc'[u] = pc[u] /\ locked_'[u] = locked_[u]
  BY DEF Steps, RWInv, TypeOK
<1>2. \A u \in Threads : Counted(u)' <=> Counted(u)
  BY <1>1 DEF Counted, RWInv, Inside
<1>3. \A u \in Threads : Closed(u)' <=> Closed(u)
  BY <1>1 DEF Closed, RWInv, Inside
<1>4. TypeOK'
  BY <1>1 DEF Steps, RWInv, TypeOK
<1>5. CountRight'
  <2>1. Readers' = Readers
    BY <1>2 DEF Readers
  <2> QED BY <2>1, CountStays, RWInvCount
<1>6. \A u, v \in Threads : /\ Closed(u)' /\ Closed(v)' => u = v
                            /\ pc'[u] = "writing" /\ locked_'[u] # {} =>
                                 ~(pc'[v] = "reading" /\ locked_'[v] # {})
  <2>1. \A u \in Threads : locked_'[u] # {} => pc'[u] = pc[u] /\ locked_[u] # {}
    BY <1>1
  <2>2. \A u, v \in Threads : Closed(u) /\ Closed(v) => u = v
    BY DEF RWInv
  <2>3. \A u, v \in Threads : pc[u] = "writing" /\ locked_[u] # {} =>
                               ~(pc[v] = "reading" /\ locked_[v] # {})
    BY DEF RWInv
  <2> QED BY <1>3, <2>1, <2>2, <2>3
<1>7. \A u \in Threads :
         /\ locked_'[u] # {} => Inside(u)'
         /\ \A x, y \in locked_'[u] : x = y
         /\ pc'[u] \in {"rtest", "rback", "rspin"} => Kind = "spin"
         /\ u \in readerCv' => pc'[u] \in {"rlock", "wlock"} /\ Kind # "spin"
         /\ u \in writerCv' => pc'[u] = "wdrain" /\ Kind = "mutex"
  BY <1>1 DEF RWInv, Inside
<1>8. writing' <=> \E u \in Threads : Closed(u)'
  BY <1>3 DEF RWInv
<1> QED BY <1>4, <1>5, <1>6, <1>7, <1>8 DEF RWInv, CountRight, Readers

\* A step of one thread in general: what is left to show of it.
LEMMA LockStep ==
  ASSUME Parameters, RWInv, NEW t \in Threads, NEW l, NEW g, Steps(t, l, g),
         l \in {"idle", "rlock", "rtest", "rback", "rspin", "reading", "wlock",
                "wdrain", "writing"},
         g \subseteq Guards, \A x, y \in g : x = y,
         g # {} => l \in {"reading", "writing"},
         l \in {"rtest", "rback", "rspin"} => Kind = "spin",
         writing' \in BOOLEAN, CountRight',
         writing' <=> \E u \in Threads : Closed(u)',
         Closed(t)' => \A u \in Threads \ {t} : ~Closed(u),
         l = "writing" /\ g # {} => \A u \in Threads \ {t} :
           ~(pc[u] = "reading" /\ locked_[u] # {}),
         l = "reading" /\ g # {} => \A u \in Threads \ {t} :
           ~(pc[u] = "writing" /\ locked_[u] # {}),
         readerCv' \subseteq readerCv \cup {t},
         t \in readerCv' => l \in {"rlock", "wlock"} /\ Kind # "spin",
         writerCv' \subseteq writerCv \cup {t},
         t \in writerCv' => l = "wdrain" /\ Kind = "mutex"
  PROVE  RWInv'
<1>1. /\ pc'[t] = l /\ locked_'[t] = g
      /\ \A u \in Threads \ {t} : pc'[u] = pc[u] /\ locked_'[u] = locked_[u]
  BY DEF Steps, RWInv, TypeOK
<1>2. TypeOK'
  <2>1. n_readers' \in 0 .. Cardinality(Threads)
    BY DEF CountRight
  <2>2. readerCv' \subseteq Threads /\ writerCv' \subseteq Threads
    BY DEF RWInv, TypeOK
  <2> QED BY <2>1, <2>2 DEF Steps, RWInv, TypeOK
<1>3. \A u \in Threads \ {t} : Closed(u)' <=> Closed(u)
  BY <1>1 DEF Closed
<1>4. \A u, v \in Threads : Closed(u)' /\ Closed(v)' => u = v
  BY <1>3 DEF RWInv
<1>5. ASSUME NEW u \in Threads, NEW v \in Threads,
             pc'[u] = "writing", locked_'[u] # {},
             pc'[v] = "reading", locked_'[v] # {}
      PROVE  FALSE
  <2>1. CASE u = t
    BY <1>1, <1>5, <2>1
  <2>2. CASE v = t
    BY <1>1, <1>5, <2>2
  <2>3. CASE u # t /\ v # t
    BY <1>1, <1>5, <2>3 DEF RWInv
  <2> QED BY <2>1, <2>2, <2>3
<1>6. \A u \in Threads :
         /\ locked_'[u] # {} => Inside(u)'
         /\ \A x, y \in locked_'[u] : x = y
         /\ pc'[u] \in {"rtest", "rback", "rspin"} => Kind = "spin"
         /\ u \in readerCv' => pc'[u] \in {"rlock", "wlock"} /\ Kind # "spin"
         /\ u \in writerCv' => pc'[u] = "wdrain" /\ Kind = "mutex"
  BY <1>1 DEF RWInv, Inside
<1> QED BY <1>2, <1>4, <1>5, <1>6 DEF RWInv, CountRight, Readers

\* A thread that is not inside owns no guard.
LEMMA Outside ==
  ASSUME RWInv, NEW t \in Threads, ~Inside(t)
  PROVE  locked_[t] = {} /\ locked_ = [locked_ EXCEPT ![t] = {}]
BY DEF RWInv, TypeOK

\* The steps that neither take nor give back the lock.
LEMMA QuietSteps ==
  ASSUME Parameters, RWInv, NEW t \in Threads,
         \/ Begin(t) \/ SpinRYield(t) \/ Move(t) \/ Leave(t)
  PROVE  RWInv'
<1>0. TypeOK
  BY DEF RWInv
<1>1. CASE Begin(t) \/ SpinRYield(t)
  <2>1. ~Inside(t)
    BY <1>1 DEF Begin, SpinRYield, Inside
  <2>2. PICK l \in {"rlock", "wlock"} : pc' = [pc EXCEPT ![t] = l]
    BY <1>1 DEF Begin, SpinRYield
  <2>3. Steps(t, l, {})
    BY <1>1, <2>1, <2>2, Outside DEF Begin, SpinRYield, Steps
  <2>4. /\ UNCHANGED <<n_readers, writing, readerCv, writerCv>>
        /\ pc[t] \notin {"rtest", "rback", "wdrain", "rlock", "wlock"}
    BY <1>1 DEF Begin, SpinRYield
  <2>5. t \notin readerCv
    BY <2>4 DEF RWInv
  <2> QED BY <1>0, <2>1, <2>3, <2>4, <2>5, Outside, PlainStep DEF TypeOK
<1>2. CASE Leave(t)
  <2>1. /\ Steps(t, "idle", {}) /\ locked_[t] = {}
        /\ UNCHANGED <<n_readers, writing, readerCv, writerCv>>
        /\ pc[t] \in {"reading", "writing"}
    BY <1>0, <1>2 DEF Leave, Steps, Inside, TypeOK
  <2>2. t \notin readerCv
    BY <2>1 DEF RWInv
  <2> QED BY <1>0, <2>1, <2>2, PlainStep DEF TypeOK
<1>3. CASE Move(t)
  <2>1. /\ Steps(t, pc[t], Guards \ {First}) /\ locked_[t] # {}
        /\ UNCHANGED <<n_readers, writing, readerCv, writerCv>>
        /\ pc[t] \in {"reading", "writing"}
    BY <1>0, <1>3 DEF Move, Steps, Inside, TypeOK
  <2>2. t \notin readerCv
    BY <2>1 DEF RWInv
  <2>3. PICK l : l = pc[t]
    OBVIOUS
  <2> QED BY <1>0, <2>1, <2>2, <2>3, Guard, PlainStep DEF TypeOK
<1> QED BY <1>1, <1>2, <1>3

\* A thread that goes to sleep waits where it is.
LEMMA SleepStep ==
  ASSUME Parameters, RWInv, NEW t \in Threads, pc[t] \in {"rlock", "wlock"}, Kind # "spin",
         readerCv' = readerCv \cup {t},
         UNCHANGED <<n_readers, writing, writerCv, pc, locked_>>
  PROVE  RWInv'
<1>1. PICK l : l = pc[t]
  OBVIOUS
<1>2. Steps(t, l, {}) /\ locked_[t] = {}
  BY <1>1, Outside DEF Inside, Steps, RWInv, TypeOK
<1>3. /\ readerCv' \subseteq Threads /\ writerCv' \subseteq writerCv
      /\ UNCHANGED <<n_readers, writing>>
      /\ \A u \in readerCv' : u \in readerCv \/ u = t
  BY DEF RWInv, TypeOK
<1>4. l \in {"rlock", "wlock"} /\ ~(pc[t] \in {"rtest", "rback", "wdrain"})
  BY <1>1
<1> QED BY <1>1, <1>2, <1>3, <1>4, PlainStep

\* A reader that counts itself: SpinningRWLock before it looks at writing, the
\* other two once they have found it clear.
LEMMA CountSteps ==
  ASSUME Parameters, RWInv, NEW t \in Threads, pc[t] = "rlock",
         n_readers' = n_readers + 1, UNCHANGED <<writing, readerCv, writerCv>>,
         \/ Kind = "spin" /\ Goto(t, "rtest") /\ UNCHANGED locked_
         \/ ~writing /\ t \notin readerCv /\ Enter(t, "reading")
  PROVE  RWInv'
<1>1. locked_[t] = {} /\ locked_ = [locked_ EXCEPT ![t] = {}]
  BY Outside DEF Inside
<1>2. PICK l, g : /\ Steps(t, l, g)
                  /\ \/ l = "rtest" /\ g = {} /\ Kind = "spin"
                     \/ l = "reading" /\ g = {First} /\ ~writing /\ t \notin readerCv
  BY <1>1 DEF Enter, Steps
<1>3. /\ pc'[t] = l /\ locked_'[t] = g
      /\ \A u \in Threads \ {t} : pc'[u] = pc[u] /\ locked_'[u] = locked_[u]
  BY <1>2 DEF Steps, RWInv, TypeOK
<1>4. CountRight'
  <2>1. ~Counted(t) /\ Counted(t)'
    BY <1>2, <1>3 DEF Counted
  <2>2. Readers' = Readers \cup {t}
    BY <1>3, <2>1 DEF Readers, Counted
  <2> QED BY <2>1, <2>2, CountUp, RWInvCount
<1>5. \A u \in Threads : Closed(u)' <=> Closed(u)
  BY <1>1, <1>2, <1>3 DEF Closed
<1>6. ~writing => \A u \in Threads : ~Closed(u)
  BY DEF RWInv
<1>7. t \notin readerCv /\ t \notin writerCv
  BY <1>2 DEF RWInv
<1>8. /\ g \subseteq Guards /\ \A x, y \in g : x = y
      /\ g # {} => l = "reading"
      /\ l \in {"rtest", "reading"}
  BY <1>2, Guard
<1>9. writing' \in BOOLEAN /\ (writing' <=> \E u \in Threads : Closed(u)')
  BY <1>5 DEF RWInv, TypeOK
<1>10. l = "reading" => \A u \in Threads \ {t} :
          ~(pc[u] = "writing" /\ locked_[u] # {})
  BY <1>2, <1>6 DEF Closed
<1>11. ~Closed(t)'
  BY <1>3, <1>8 DEF Closed
<1> QED BY <1>2, <1>4, <1>7, <1>8, <1>9, <1>10, <1>11, LockStep

\* SpinningRWLock: a counted reader looks at writing.
LEMMA SpinRTestInv ==
  ASSUME Parameters, RWInv, NEW t \in Threads, SpinRTest(t)
  PROVE  RWInv'
<1>1. locked_[t] = {} /\ locked_ = [locked_ EXCEPT ![t] = {}]
  BY Outside DEF Inside, SpinRTest
<1>2. PICK l, g : /\ Steps(t, l, g)
                  /\ \/ l = "rback" /\ g = {}
                     \/ l = "reading" /\ g = {First} /\ ~writing
  BY <1>1 DEF SpinRTest, Enter, Steps
<1>3. /\ pc'[t] = l /\ locked_'[t] = g
      /\ \A u \in Threads \ {t} : pc'[u] = pc[u] /\ locked_'[u] = locked_[u]
  BY <1>2 DEF Steps, RWInv, TypeOK
<1>4. /\ pc[t] = "rtest" /\ Kind = "spin"
      /\ UNCHANGED <<n_readers, writing, readerCv, writerCv>>
  BY DEF SpinRTest
<1>5. CountRight'
  <2>1. \A u \in Threads : Counted(u)' <=> Counted(u)
    BY <1>2, <1>3, <1>4 DEF Counted
  <2>2. Readers' = Readers
    BY <2>1 DEF Readers
  <2> QED BY <1>4, <2>2, CountStays, RWInvCount
<1>6. \A u \in Threads : Closed(u)' <=> Closed(u)
  BY <1>2, <1>3, <1>4 DEF Closed
<1>7. writing' \in BOOLEAN /\ (writing' <=> \E u \in Threads : Closed(u)')
  BY <1>4, <1>6 DEF RWInv, TypeOK
<1>8. l = "reading" => \A u \in Threads \ {t} :
        ~(pc[u] = "writing" /\ locked_[u] # {})
  BY <1>2 DEF Closed, RWInv
<1>9. /\ g \subseteq Guards /\ \A x, y \in g : x = y
      /\ g # {} => l = "reading"
      /\ l \in {"rback", "reading"}
  BY <1>2, Guard
<1>10. t \notin readerCv /\ t \notin writerCv /\ ~Closed(t)'
  BY <1>3, <1>4, <1>9 DEF RWInv, Closed
<1> QED BY <1>2, <1>4, <1>5, <1>7, <1>8, <1>9, <1>10, LockStep

\* A reader takes itself back: SpinningRWLock when it found writing set, all
\* three at the end.
LEMMA UncountSteps ==
  ASSUME Parameters, RWInv, NEW t \in Threads, NEW l,
         Counted(t), Steps(t, l, {}),
         l \in {"rspin", "reading"}, l = "rspin" => Kind = "spin",
         n_readers' = n_readers - 1, UNCHANGED writing,
         readerCv' \subseteq readerCv, writerCv' \subseteq writerCv
  PROVE  RWInv'
<1>1. /\ pc'[t] = l /\ locked_'[t] = {}
      /\ \A u \in Threads \ {t} : pc'[u] = pc[u] /\ locked_'[u] = locked_[u]
  BY DEF Steps, RWInv, TypeOK
<1>2. CountRight'
  <2>1. ~Counted(t)'
    BY <1>1 DEF Counted
  <2>2. Readers' = Readers \ {t}
    BY <1>1, <2>1 DEF Readers, Counted
  <2> QED BY <2>2, CountDown, RWInvCount
<1>3. \A u \in Threads : Closed(u)' <=> Closed(u)
  BY <1>1 DEF Closed, Counted
<1>4. writing' \in BOOLEAN /\ (writing' <=> \E u \in Threads : Closed(u)')
  BY <1>3 DEF RWInv, TypeOK
<1>5. t \notin readerCv /\ t \notin writerCv /\ ~Closed(t)'
  BY <1>1 DEF RWInv, Counted, Closed
<1> QED BY <1>2, <1>4, <1>5, LockStep

\* A writer sets writing, and waits for the readers if there are any.
LEMMA CloseSteps ==
  ASSUME Parameters, RWInv, NEW t \in Threads, pc[t] = "wlock",
         ~writing, writing' = TRUE, t \notin readerCv,
         UNCHANGED <<n_readers, readerCv>>,
         \/ /\ Goto(t, "wdrain") /\ UNCHANGED locked_
            /\ \/ UNCHANGED writerCv
               \/ Kind = "mutex" /\ writerCv' = writerCv \cup {t}
         \/ Enter(t, "writing") /\ n_readers = 0 /\ UNCHANGED writerCv
  PROVE  RWInv'
<1>1. locked_[t] = {} /\ locked_ = [locked_ EXCEPT ![t] = {}]
  BY Outside DEF Inside
<1>2. PICK l, g : /\ Steps(t, l, g)
                  /\ \/ l = "wdrain" /\ g = {}
                     \/ /\ l = "writing" /\ g = {First} /\ n_readers = 0
                        /\ UNCHANGED writerCv
  BY <1>1 DEF Enter, Steps
<1>3. /\ pc'[t] = l /\ locked_'[t] = g
      /\ \A u \in Threads \ {t} : pc'[u] = pc[u] /\ locked_'[u] = locked_[u]
  BY <1>2 DEF Steps, RWInv, TypeOK
<1>4. CountRight'
  <2>1. \A u \in Threads : Counted(u)' <=> Counted(u)
    BY <1>2, <1>3 DEF Counted
  <2>2. Readers' = Readers
    BY <2>1 DEF Readers
  <2> QED BY <2>2, CountStays, RWInvCount
<1>5. \A u \in Threads : ~Closed(u)
  BY DEF RWInv
<1>6. Closed(t)'
  BY <1>2, <1>3 DEF Closed
<1>7. l = "writing" => \A u \in Threads \ {t} :
        ~(pc[u] = "reading" /\ locked_[u] # {})
  <2>1. n_readers = 0 => \A u \in Threads : ~Counted(u)
    BY NoReaders, RWInvCount
  <2> QED BY <1>2, <2>1 DEF Counted
<1>8. /\ g \subseteq Guards /\ \A x, y \in g : x = y
      /\ g # {} => l = "writing"
      /\ l \in {"wdrain", "writing"}
  BY <1>2, Guard
<1>9. /\ writerCv' \subseteq writerCv \cup {t}
      /\ t \in writerCv' => l = "wdrain" /\ Kind = "mutex"
  <2>1. t \notin writerCv
    BY DEF RWInv
  <2>2. CASE UNCHANGED writerCv
    BY <2>1, <2>2
  <2>3. CASE /\ Goto(t, "wdrain") /\ Kind = "mutex"
             /\ writerCv' = writerCv \cup {t}
    <3>1. pc'[t] = "wdrain"
      BY <2>3 DEF RWInv, TypeOK
    <3> QED BY <1>3, <2>3, <3>1
  <2> QED BY <2>2, <2>3
<1> QED BY <1>2, <1>4, <1>5, <1>6, <1>7, <1>8, <1>9, LockStep

\* The writer that has shut the readers out enters when the last has left.
LEMMA DrainedSteps ==
  ASSUME Parameters, RWInv, NEW t \in Threads, pc[t] = "wdrain",
         n_readers = 0, t \notin writerCv, Enter(t, "writing"),
         UNCHANGED <<n_readers, writing, readerCv, writerCv>>
  PROVE  RWInv'
<1>1. Steps(t, "writing", {First})
  BY DEF Enter, Steps
<1>2. /\ pc'[t] = "writing" /\ locked_'[t] = {First}
      /\ \A u \in Threads \ {t} : pc'[u] = pc[u] /\ locked_'[u] = locked_[u]
  BY <1>1 DEF Steps, RWInv, TypeOK
<1>3. CountRight'
  <2>1. \A u \in Threads : Counted(u)' <=> Counted(u)
    BY <1>2 DEF Counted
  <2>2. Readers' = Readers
    BY <2>1 DEF Readers
  <2> QED BY <2>2, CountStays, RWInvCount
<1>4. \A u \in Threads : Closed(u)' <=> Closed(u)
  BY <1>2 DEF Closed
<1>5. writing' \in BOOLEAN /\ (writing' <=> \E u \in Threads : Closed(u)')
  BY <1>4 DEF RWInv, TypeOK
<1>6. \A u \in Threads \ {t} : ~Closed(u)
  BY DEF RWInv, Closed
<1>7. \A u \in Threads : ~(pc[u] = "reading" /\ locked_[u] # {})
  BY NoReaders, RWInvCount DEF Counted
<1>8. t \notin readerCv
  BY DEF RWInv
<1>9. {First} \subseteq Guards /\ \A x, y \in {First} : x = y
  BY Guard
<1> QED BY <1>1, <1>3, <1>5, <1>6, <1>7, <1>8, <1>9, LockStep

\* Unlock by the guard that owns the lock: it owns nothing afterwards.
LEMMA UnlockSteps ==
  ASSUME RWInv, NEW t \in Threads, Unlock(t)
  PROVE  /\ locked_[t] # {} /\ pc[t] \in {"reading", "writing"}
         /\ Steps(t, pc[t], {})
<1>1. PICK g \in locked_[t] : locked_' = [locked_ EXCEPT ![t] = @ \ {g}]
  BY DEF Unlock
<1>2. locked_[t] \ {g} = {}
  BY <1>1 DEF RWInv
<1>3. locked_' = [locked_ EXCEPT ![t] = {}]
  BY <1>1, <1>2 DEF RWInv, TypeOK
<1> QED BY <1>1, <1>3 DEF Unlock, Inside, Steps, RWInv, TypeOK

\* The writer clears writing.
LEMMA WriteUnlockInv ==
  ASSUME Parameters, RWInv, NEW t \in Threads, Unlock(t), pc[t] = "writing"
  PROVE  RWInv'
<1>1. locked_[t] # {} /\ Steps(t, "writing", {})
  BY UnlockSteps
<1>2. writing' = FALSE /\ readerCv' = {} /\ UNCHANGED <<n_readers, writerCv>>
  BY DEF Unlock, Unlocks, WriteUnlock
<1>3. /\ pc'[t] = "writing" /\ locked_'[t] = {}
      /\ \A u \in Threads \ {t} : pc'[u] = pc[u] /\ locked_'[u] = locked_[u]
  BY <1>1 DEF Steps, RWInv, TypeOK
<1>4. CountRight'
  <2>1. \A u \in Threads : Counted(u)' <=> Counted(u)
    BY <1>3 DEF Counted
  <2>2. Readers' = Readers
    BY <2>1 DEF Readers
  <2> QED BY <1>2, <2>2, CountStays, RWInvCount
<1>5. \A u \in Threads : ~Closed(u)'
  <2>1. \A u \in Threads \ {t} : ~Closed(u)
    BY <1>1 DEF RWInv, Closed
  <2> QED BY <1>3, <2>1 DEF Closed
<1>6. t \notin writerCv
  BY DEF RWInv
<1>7. PICK l, g : l = "writing" /\ g = {}
  OBVIOUS
<1>8. /\ Steps(t, l, g) /\ g \subseteq Guards /\ \A x, y \in g : x = y
      /\ writing' \in BOOLEAN /\ (writing' <=> \E u \in Threads : Closed(u)')
      /\ ~Closed(t)'
      /\ readerCv' \subseteq readerCv \cup {t} /\ t \notin readerCv'
      /\ writerCv' \subseteq writerCv \cup {t} /\ t \notin writerCv'
  BY <1>1, <1>2, <1>5, <1>6, <1>7
<1> QED BY <1>4, <1>7, <1>8, LockStep

\* A reader uncounts itself, and wakes whom it may have to wake.
LEMMA ReadUnlockInv ==
  ASSUME Parameters, RWInv, NEW t \in Threads, Unlock(t), pc[t] = "reading"
  PROVE  RWInv'
<1>1. locked_[t] # {} /\ Steps(t, "reading", {})
  BY UnlockSteps
<1>2. /\ n_readers' = n_readers - 1 /\ UNCHANGED writing
      /\ readerCv' \subseteq readerCv /\ writerCv' \subseteq writerCv
  BY DEF Unlock, Unlocks, ReadUnlock
<1>3. Counted(t)
  BY <1>1 DEF Counted
<1> QED BY <1>1, <1>2, <1>3, UncountSteps

\* Every step of every lock keeps RWInv.
LEMMA NextRWInv ==
  ASSUME Parameters, RWInv, [Next]_vars
  PROVE  RWInv'
<1>1. ASSUME NEW t \in Threads, Begin(t) \/ SpinRYield(t) \/ Move(t) \/ Leave(t)
      PROVE  RWInv'
  BY <1>1, QuietSteps
<1>2. ASSUME NEW t \in Threads, SpinRLock(t) \/ CvRLock(t) \/ MutexRLock(t)
      PROVE  RWInv'
  <2>1. CASE SpinRLock(t)
    BY <2>1, CountSteps DEF SpinRLock
  <2>2. CASE CvRLock(t)
    BY <2>2, CountSteps, SleepStep DEF CvRLock, Awake
  <2>3. CASE MutexRLock(t)
    BY <2>3, CountSteps, SleepStep DEF MutexRLock, Awake
  <2> QED BY <1>2, <2>1, <2>2, <2>3
<1>3. ASSUME NEW t \in Threads, SpinRTest(t) \/ SpinRBack(t) PROVE RWInv'
  <2>1. CASE SpinRBack(t)
    <3>1. Counted(t) /\ Steps(t, "rspin", {})
      BY <2>1, Outside DEF SpinRBack, Counted, Steps, Inside
    <3> QED BY <2>1, <3>1, UncountSteps DEF SpinRBack
  <2> QED BY <1>3, <2>1, SpinRTestInv
<1>4. ASSUME NEW t \in Threads, SpinWLock(t) \/ CvWLock(t) \/ MutexWLock(t)
      PROVE  RWInv'
  <2>1. CASE SpinWLock(t)
    <3>1. t \notin readerCv
      BY <2>1 DEF RWInv, SpinWLock
    <3> QED BY <2>1, <3>1, CloseSteps DEF SpinWLock
  <2>2. CASE CvWLock(t)
    BY <2>2, CloseSteps, SleepStep DEF CvWLock, Awake
  <2>3. CASE MutexWLock(t)
    BY <2>3, CloseSteps, SleepStep DEF MutexWLock, Awake
  <2> QED BY <1>4, <2>1, <2>2, <2>3
<1>5. ASSUME NEW t \in Threads, SpinWDrain(t) \/ MutexWDrain(t) PROVE RWInv'
  <2>1. t \notin writerCv
    BY <1>5 DEF RWInv, SpinWDrain, MutexWDrain, Awake
  <2> QED BY <1>5, <2>1, DrainedSteps DEF SpinWDrain, MutexWDrain
<1>6. ASSUME NEW t \in Threads, Unlock(t) PROVE RWInv'
  BY <1>6, UnlockSteps, ReadUnlockInv, WriteUnlockInv
<1>7. ASSUME UNCHANGED vars PROVE RWInv'
  BY <1>7 DEF vars, RWInv, TypeOK, Counted, Closed, Inside
<1> QED BY <1>1, <1>2, <1>3, <1>4, <1>5, <1>6, <1>7 DEF Next, Locks

\* RWInv holds in every state of a lock of any of the three kinds.
THEOREM LockStateRight == Parameters /\ Spec => []RWInv
<1>1. ASSUME Parameters PROVE Spec => []RWInv
  <2>1. Init => RWInv
    BY <1>1, InitRWInv
  <2>2. RWInv /\ [Next]_vars => RWInv'
    BY <1>1, NextRWInv
  <2> QED BY <2>1, <2>2, PTL DEF Spec
<1> QED BY <1>1

-----------------------------------------------------------------------------
(* The locks implement ReadersWriters. *)

\* A thread that takes the lock to read joins the readers; one that takes it to
\* write finds nobody.
LEMMA EnterRefines ==
  ASSUME Parameters, RWInv, RWInv', NEW t \in Threads, NEW l \in {"reading", "writing"},
         locked_[t] = {}, Enter(t, l),
         l = "reading" => ~writing \/ \A u \in Threads : ~(pc[u] = "writing" /\ locked_[u] # {}),
         l = "writing" => n_readers = 0 /\ \A u \in Threads \ {t} : ~Closed(u)
  PROVE  Promise!Next
<1>1. /\ pc'[t] = l /\ locked_'[t] = {First}
      /\ \A u \in Threads \ {t} : pc'[u] = pc[u] /\ locked_'[u] = locked_[u]
  BY DEF Enter, RWInv, TypeOK
<1>2. t \notin Holding("reading") \cup Holding("writing")
  BY DEF Holding
<1>3. Holding("writing") = {}
  <2>1. ASSUME NEW u \in Threads, pc[u] = "writing", locked_[u] # {}
        PROVE  FALSE
    <3>1. Closed(u) /\ u # t
      BY <2>1 DEF Closed
    <3> QED BY <2>1, <3>1 DEF RWInv
  <2> QED BY <2>1 DEF Holding
<1>4. CASE l = "reading"
  <2>1. Holding("reading")' = Holding("reading") \cup {t}
    BY <1>1, <1>4 DEF Holding
  <2>2. Holding("writing")' = Holding("writing")
    BY <1>1, <1>2, <1>4 DEF Holding
  <2> QED BY <1>2, <1>3, <2>1, <2>2 DEF Promise!Next, Promise!Acquire
<1>5. CASE l = "writing"
  <2>1. \A u \in Threads : ~Counted(u)
    BY <1>5, NoReaders, RWInvCount
  <2>2. Holding("reading") = {}
    BY <2>1 DEF Holding, Counted
  <2>3. Holding("reading")' = Holding("reading")
    BY <1>1, <1>2, <1>5 DEF Holding
  <2>4. Holding("writing")' = {t}
    BY <1>1, <1>3, <1>5 DEF Holding
  <2> QED BY <1>2, <1>3, <2>2, <2>3, <2>4 DEF Promise!Next, Promise!Acquire
<1> QED BY <1>4, <1>5

\* The guard that owns the lock gives it back, once.
LEMMA UnlockRefines ==
  ASSUME RWInv, NEW t \in Threads, Unlock(t)
  PROVE  Promise!Next
<1>1. PICK l : l = pc[t]
  OBVIOUS
<1>2. locked_[t] # {} /\ l \in {"reading", "writing"} /\ Steps(t, l, {})
  BY <1>1, UnlockSteps
<1>3. /\ pc'[t] = l /\ locked_'[t] = {}
      /\ \A u \in Threads \ {t} : pc'[u] = pc[u] /\ locked_'[u] = locked_[u]
  BY <1>2 DEF Steps, RWInv, TypeOK
<1>4. t \in Holding("reading") \cup Holding("writing")
  BY <1>1, <1>2 DEF Holding
<1>5. /\ Holding("reading")' = Holding("reading") \ {t}
      /\ Holding("writing")' = Holding("writing") \ {t}
  BY <1>3 DEF Holding
<1> QED BY <1>4, <1>5 DEF Promise!Next, Promise!Release

\* A step that leaves the guards of a thread as they are, or moves the lock from
\* one guard to the other, changes nothing for the caller.
LEMMA OtherRefines ==
  ASSUME RWInv, NEW t \in Threads, NEW l, NEW g, Steps(t, l, g),
         g # {} <=> locked_[t] # {}, g # {} => l = pc[t]
  PROVE  UNCHANGED Promise!vars
<1>1. /\ pc'[t] = l /\ locked_'[t] = g
      /\ \A u \in Threads \ {t} : pc'[u] = pc[u] /\ locked_'[u] = locked_[u]
  BY DEF Steps, RWInv, TypeOK
<1>2. /\ Holding("reading")' = Holding("reading")
      /\ Holding("writing")' = Holding("writing")
  BY <1>1 DEF Holding
<1> QED BY <1>2 DEF Promise!vars

\* Every step of a lock is a step of ReadersWriters, or none.
LEMMA StepRefines ==
  ASSUME Parameters, RWInv, RWInv', [Next]_vars
  PROVE  [Promise!Next]_Promise!vars
<1>0. TypeOK
  BY DEF RWInv
<1>1. ASSUME NEW t \in Threads, Unlock(t) PROVE Promise!Next
  BY <1>1, UnlockRefines
<1>2. ASSUME NEW t \in Threads, Move(t) PROVE UNCHANGED Promise!vars
  <2>1. PICK l : l = pc[t]
    OBVIOUS
  <2>2. PICK g : g = Guards \ {First}
    OBVIOUS
  <2>3. Steps(t, l, g) /\ g # {} /\ locked_[t] # {}
    BY <1>0, <1>2, <2>1, <2>2, Guard DEF Move, Steps, TypeOK
  <2> QED BY <2>1, <2>3, OtherRefines
<1>3. ASSUME NEW t \in Threads, Leave(t) PROVE UNCHANGED Promise!vars
  <2>1. Steps(t, "idle", {}) /\ locked_[t] = {}
    BY <1>0, <1>3 DEF Leave, Steps, TypeOK
  <2> QED BY <2>1, OtherRefines
<1>4. ASSUME NEW t \in Threads, ~Inside(t), UNCHANGED locked_,
             UNCHANGED pc \/ \E l \in {"rlock", "rtest", "rback", "rspin", "wlock", "wdrain"} : Goto(t, l)
      PROVE  UNCHANGED Promise!vars
  <2>1. PICK l : pc' = [pc EXCEPT ![t] = l]
    <3>1. CASE UNCHANGED pc
      <4>1. pc' = [pc EXCEPT ![t] = pc[t]]
        BY <1>0, <3>1 DEF TypeOK
      <4> QED BY <4>1
    <3> QED BY <1>4, <3>1
  <2>2. Steps(t, l, {}) /\ locked_[t] = {}
    BY <1>4, <2>1, Outside DEF Steps
  <2> QED BY <2>2, OtherRefines
<1>5. ASSUME NEW t \in Threads, Begin(t) PROVE UNCHANGED Promise!vars
  BY <1>4, <1>5 DEF Begin, Inside
<1>6. ASSUME NEW t \in Threads,
             SpinRLock(t) \/ SpinRBack(t) \/ SpinRYield(t) \/ SpinWLock(t)
      PROVE  UNCHANGED Promise!vars
  BY <1>4, <1>6 DEF SpinRLock, SpinRBack, SpinRYield, SpinWLock, Inside
<1>7. ASSUME NEW t \in Threads, SpinRTest(t) \/ CvRLock(t) \/ MutexRLock(t)
      PROVE  [Promise!Next]_Promise!vars
  <2>1. ~Inside(t)
    BY <1>7 DEF SpinRTest, CvRLock, MutexRLock, Inside
  <2>2. CASE ~writing /\ Enter(t, "reading")
    BY <2>1, <2>2, Outside, EnterRefines
  <2>3. CASE UNCHANGED locked_ /\ (UNCHANGED pc \/ Goto(t, "rback"))
    BY <1>4, <2>1, <2>3
  <2> QED BY <1>7, <2>2, <2>3 DEF SpinRTest, CvRLock, MutexRLock
<1>8. ASSUME NEW t \in Threads,
             SpinWDrain(t) \/ CvWLock(t) \/ MutexWLock(t) \/ MutexWDrain(t)
      PROVE  [Promise!Next]_Promise!vars
  <2>1. ~Inside(t)
    BY <1>8 DEF SpinWDrain, CvWLock, MutexWLock, MutexWDrain, Inside
  <2>2. CASE n_readers = 0 /\ (~writing \/ pc[t] = "wdrain") /\ Enter(t, "writing")
    <3>1. \A u \in Threads \ {t} : ~Closed(u)
      BY <2>2 DEF RWInv, Closed
    <3> QED BY <2>1, <2>2, <3>1, Outside, EnterRefines
  <2>3. CASE UNCHANGED locked_ /\ (UNCHANGED pc \/ Goto(t, "wdrain"))
    BY <1>4, <2>1, <2>3
  <2> QED BY <1>8, <2>2, <2>3 DEF SpinWDrain, CvWLock, MutexWLock, MutexWDrain
<1>9. ASSUME UNCHANGED vars PROVE UNCHANGED Promise!vars
  BY <1>9 DEF vars, Promise!vars, Holding
<1> QED BY <1>1, <1>2, <1>3, <1>5, <1>6, <1>7, <1>8, <1>9 DEF Next, Locks

\* ReadLock, WriteLock and the guards of SpinningRWLock, RWLock and RWMutex give
\* the lock to one writer or to readers and take it back once, for any number of
\* threads and whichever guard releases it.
THEOREM LocksAreReadersWriters == Parameters /\ Spec => IsReadersWriters
<1>1. ASSUME Parameters PROVE Spec => IsReadersWriters
  <2>1. Init => Promise!Init
    BY DEF Init, Promise!Init, Holding
  <2>2. RWInv /\ RWInv' /\ [Next]_vars => [Promise!Next]_Promise!vars
    BY <1>1, StepRefines
  <2>3. Spec => []RWInv
    BY <1>1, LockStateRight
  <2> QED BY <2>1, <2>2, <2>3, PTL DEF Spec, IsReadersWriters, Promise!Spec
<1> QED BY <1>1

-----------------------------------------------------------------------------
(* No wake-up is lost. *)

\* RWMutex never meets max_readers_.
LEMMA RoomForReaders ==
  ASSUME Parameters, NeverFull, RWInv
  PROVE  n_readers \in Nat /\ n_readers < MaxReaders
BY ReadersFinite DEF NeverFull, RWInv, TypeOK, Parameters

\* A thread goes to sleep only when somebody will wake it, and whoever stops being
\* that one wakes it.
LEMMA NextSleepInv ==
  ASSUME Parameters, NeverFull, RWInv, SleepInv, [Next]_vars
  PROVE  SleepInv'
<1>0. n_readers \in Nat /\ n_readers < MaxReaders
  BY RoomForReaders
<1>1. ASSUME UNCHANGED <<n_readers, writing, readerCv, writerCv>> PROVE SleepInv'
  BY <1>1 DEF SleepInv
<1>2. ASSUME NEW t \in Threads,
             Begin(t) \/ SpinRTest(t) \/ SpinRYield(t) \/ SpinWDrain(t) \/ MutexWDrain(t)
               \/ Move(t) \/ Leave(t)
      PROVE  SleepInv'
  BY <1>1, <1>2 DEF Begin, SpinRTest, SpinRYield, SpinWDrain, MutexWDrain, Move, Leave
<1>3. ASSUME NEW t \in Threads, SpinRLock(t) \/ SpinRBack(t) \/ SpinWLock(t)
      PROVE  SleepInv'
  <2>1. readerCv = {} /\ writerCv = {} /\ NoSleep
    BY <1>3 DEF SpinRLock, SpinRBack, SpinWLock, RWInv, TypeOK
  <2> QED BY <2>1 DEF SleepInv
<1>4. ASSUME NEW t \in Threads, CvRLock(t) \/ CvWLock(t) PROVE SleepInv'
  <2>1. writerCv = {} /\ UNCHANGED writerCv
    BY <1>4 DEF CvRLock, CvWLock, RWInv, TypeOK
  <2> QED BY <1>0, <1>4, <2>1 DEF CvRLock, CvWLock, SleepInv
<1>5. ASSUME NEW t \in Threads, MutexRLock(t) \/ MutexWLock(t) PROVE SleepInv'
  BY <1>0, <1>5 DEF MutexRLock, MutexWLock, SleepInv
<1>6. ASSUME NEW t \in Threads, Unlock(t) PROVE SleepInv'
  <2>1. CASE pc[t] = "writing"
    <3>1. writerCv = {}
      <4>1. Closed(t) /\ \A u \in writerCv : u \in Threads /\ Closed(u) /\ u # t
        BY <1>6, <2>1, UnlockSteps DEF RWInv, TypeOK, Closed
      <4> QED BY <4>1 DEF RWInv
    <3>2. readerCv' = {} /\ UNCHANGED writerCv
      BY <1>6, <2>1 DEF Unlock, Unlocks, WriteUnlock
    <3> QED BY <3>1, <3>2 DEF SleepInv
  <2>2. CASE pc[t] = "reading"
    <3>0. ReadUnlock(t)
      BY <1>6, <2>2 DEF Unlock, Unlocks
    <3>1. CASE Kind = "spin"
      <4>1. readerCv = {} /\ writerCv = {} /\ NoSleep
        BY <3>0, <3>1 DEF ReadUnlock, RWInv, TypeOK
      <4> QED BY <4>1 DEF SleepInv
    <3>2. CASE Kind = "cv"
      <4>1. readerCv' = {} /\ writerCv = {} /\ UNCHANGED writerCv
        BY <3>0, <3>2 DEF ReadUnlock, RWInv, TypeOK
      <4> QED BY <4>1 DEF SleepInv
    <3>3. CASE Kind = "mutex"
      <4>1. n_readers' = n_readers - 1 /\ UNCHANGED writing
        BY <3>0 DEF ReadUnlock
      <4>2. CASE ~writing
        <5>1. readerCv = {} /\ writerCv = {}
          BY <3>3, <4>2 DEF SleepInv, RWInv, TypeOK, Closed
        <5>2. readerCv' = {} /\ writerCv' = {}
          BY <3>0, <3>3, <4>2, <5>1 DEF ReadUnlock, OneOf
        <5> QED BY <5>2 DEF SleepInv
      <4>3. CASE writing
        <5>1. UNCHANGED readerCv /\ writerCv' \subseteq writerCv
          BY <3>0, <3>3, <4>3 DEF ReadUnlock
        <5>2. n_readers' = 0 => writerCv' = {}
          <6>1. \A u, v \in writerCv : u = v
            BY DEF RWInv, TypeOK, Closed
          <6>2. n_readers' = 0 => \E w \in OneOf(writerCv) : writerCv' = writerCv \ w
            BY <3>0, <3>3, <4>3 DEF ReadUnlock
          <6>3. ASSUME NEW w \in OneOf(writerCv) PROVE writerCv \ w = {}
            BY <6>1, <6>3 DEF OneOf
          <6> QED BY <6>2, <6>3
        <5>3. n_readers' \in Nat
          BY NextRWInv DEF RWInv, TypeOK
        <5>4. writing'
          BY <4>1, <4>3
        <5>5. writerCv' # {} => n_readers' > 0
          BY <5>2, <5>3
        <5> QED BY <5>4, <5>5 DEF SleepInv
      <4> QED BY <4>2, <4>3
    <3> QED BY <3>1, <3>2, <3>3 DEF Parameters
  <2> QED BY <1>6, <2>1, <2>2, UnlockSteps
<1>7. ASSUME UNCHANGED vars PROVE SleepInv'
  BY <1>1, <1>7 DEF vars
<1> QED BY <1>2, <1>3, <1>4, <1>5, <1>6, <1>7 DEF Next, Locks

\* A lock that somebody is counted in, or closed, has that somebody.
LEMMA SomebodyInside ==
  ASSUME Parameters, RWInv, n_readers > 0
  PROVE  \E t \in Threads : Counted(t)
<1>1. Readers # {}
  BY RWInvCount, FS_EmptySet DEF CountRight
<1> QED BY <1>1 DEF Readers

\* RWLock and RWMutex lose no wake-up: whoever sleeps is waited for by a thread
\* that has the lock or closes it, and that notifies it on its way out.
THEOREM NoWakeUpLost == Parameters /\ NeverFull /\ Spec => []SleepersAwaited
<1>1. ASSUME Parameters, NeverFull PROVE Spec => []SleepersAwaited
  <2>1. Init => SleepInv
    BY DEF Init, SleepInv
  <2>2. RWInv /\ SleepInv /\ [Next]_vars => SleepInv'
    BY <1>1, NextSleepInv
  <2>3. RWInv /\ SleepInv => SleepersAwaited
    <3> SUFFICES ASSUME RWInv, SleepInv PROVE SleepersAwaited
      OBVIOUS
    <3>1. ASSUME readerCv # {}
          PROVE  \E t \in Threads : locked_[t] # {} \/ pc[t] = "wdrain"
      <4>1. Kind # "spin"
        BY <3>1 DEF RWInv, TypeOK
      <4>2. CASE writing
        BY <4>2 DEF RWInv, Closed
      <4>3. CASE n_readers > 0
        BY <1>1, <4>1, <4>3, SomebodyInside DEF Counted, RWInv
      <4> QED BY <3>1, <4>2, <4>3 DEF SleepInv
    <3>2. ASSUME writerCv # {}
          PROVE  \E t \in Threads : pc[t] = "reading" /\ locked_[t] # {}
      <4>1. Kind # "spin"
        BY <3>2 DEF RWInv, TypeOK
      <4>2. n_readers > 0
        BY <3>2 DEF SleepInv
      <4> QED BY <1>1, <4>1, <4>2, SomebodyInside DEF Counted, RWInv
    <3> QED BY <3>1, <3>2 DEF SleepersAwaited
  <2>4. Spec => []RWInv
    BY <1>1, LockStateRight
  <2> QED BY <2>1, <2>2, <2>3, <2>4, PTL DEF Spec
<1> QED BY <1>1
=============================================================================
