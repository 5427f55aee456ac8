----------------------------- MODULE SieveQueue -----------------------------
(***************************************************************************)
(* What the replacer promises: a queue of frames, newest first, and a hand *)
(* that stays on a frame of the queue or rests (None).  A frame enters at  *)
(* the front; any frame may be evicted, and the hand moves to the frame    *)
(* that was inserted just after it.                                        *)
(***************************************************************************)
EXTENDS Integers, Sequences, SequencesExt

CONSTANTS Frames, None

VARIABLES queue, hand

Init == queue = <<>> /\ hand = None

Insert(f) ==
  /\ ~Contains(queue, f)
  /\ queue' = Cons(f, queue)
  /\ UNCHANGED hand

Evict(i) ==
  /\ queue' = RemoveAt(queue, i)
  /\ hand' = IF i = 1 THEN None ELSE queue[i - 1]

Next == \/ \E f \in Frames : Insert(f)
        \/ \E i \in DOMAIN queue : Evict(i)

Spec == Init /\ [][Next]_<<queue, hand>>
=============================================================================
