---------------------------- MODULE BoundedQueue ----------------------------
(***************************************************************************)
(* What LockFreeQueue promises: a first-in first-out queue of bounded      *)
(* size; a push into a full queue and a pop of an empty one change         *)
(* nothing.                                                                *)
(***************************************************************************)
EXTENDS Naturals, Sequences

CONSTANTS Room, Items

VARIABLES
  queue,   \* Seq(Items)
  given    \* the items that have been popped, in order

Init == queue = <<>> /\ given = <<>>
Push(v) == Len(queue) < Room /\ queue' = Append(queue, v) /\ UNCHANGED given
Pop == /\ queue # <<>> /\ queue' = Tail(queue)
       /\ given' = Append(given, Head(queue))

Next == Pop \/ \E v \in Items : Push(v)

vars == <<queue, given>>
Step == [Next]_vars
Spec == Init /\ [][Next]_vars
=============================================================================
