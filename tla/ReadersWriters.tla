--------------------------- MODULE ReadersWriters ---------------------------
(* What every reader-writer lock of the repository promises: one writer, or *)
(* any number of readers.                                                   *)
EXTENDS Integers

CONSTANT Threads

VARIABLES readers, writers

Init == readers = {} /\ writers = {}

Acquire(t) ==
  /\ t \notin readers \union writers /\ writers = {}
  /\ \/ readers' = readers \union {t} /\ UNCHANGED writers
     \/ readers = {} /\ writers' = {t} /\ UNCHANGED readers

Release(t) ==
  /\ t \in readers \union writers
  /\ readers' = readers \ {t} /\ writers' = writers \ {t}

Next == \E t \in Threads : Acquire(t) \/ Release(t)

vars == <<readers, writers>>
Step == [Next]_vars
Spec == Init /\ [][Next]_vars
=============================================================================
