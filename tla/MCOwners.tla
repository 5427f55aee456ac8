------------------------------ MODULE MCOwners ------------------------------
(***************************************************************************)
(* Who owns the pins and the memory of blocks and objects that are copied,  *)
(* moved and destroyed, one part at a time. The variables of the other      *)
(* parts are Off.                                                           *)
(***************************************************************************)
EXTENDS Integers, FiniteSets, TLC

CONSTANTS s1, s2, s3, u1, u2, p1, p2, q

VARIABLES
  part,   \* the part that runs
  \* the variables of the parts:
  impl, live, blk, refs, cached, heap, bad, obj, ptr, fault

vars == <<part, impl, live, blk, refs, cached, heap, bad, obj, ptr, fault>>

\* BufferBlockImp5 to Imp8: three blocks of up to two pages.
Life == INSTANCE BlockLife WITH
  Impls <- {5, 6, 7, 8}, Slots <- {s1, s2, s3}, Pages <- {p1, p2}, MaxPages <- 2, MaxAddr <- 7

\* BufferBlockImp9, whose pages the direct cache may lend.
Marks == INSTANCE BlockLife WITH
  Impls <- {9}, Slots <- {u1, u2}, Pages <- {p1, p2}, MaxPages <- 2, MaxAddr <- 7

\* Objects that are assigned to only while they own nothing.
Objects == INSTANCE BufferObjects WITH
  Impls <- {0, 2, 3, 4}, Slots <- {s1, s2, s3}, Handles <- {s1, s2, s3}, Pages <- {q},
  MaxSize <- 2, MaxAddr <- 4, MaxPins <- 3, AssignOver <- FALSE

\* Objects that are assigned to at any time.
Over == INSTANCE BufferObjects WITH
  Impls <- {0, 2, 3, 4}, Slots <- {u1, u2}, Handles <- {u1, u2}, Pages <- {q},
  MaxSize <- 2, MaxAddr <- 4, MaxPins <- 3, AssignOver <- TRUE

ASSUME /\ Life!Parameters /\ Marks!Parameters /\ Objects!Parameters /\ Over!Parameters

Off == "off"   \* of a variable that the part does not have

NotLife == <<obj, ptr, fault>>
NotObjects == <<blk, cached, bad>>

Init ==
  \/ /\ part = "life" /\ Life!Init
     /\ obj = Off /\ ptr = Off /\ fault = Off
  \/ /\ part = "marks" /\ Marks!Init
     /\ obj = Off /\ ptr = Off /\ fault = Off
  \/ /\ part = "objects" /\ Objects!Init
     /\ blk = Off /\ cached = Off /\ bad = Off
  \/ /\ part = "over" /\ Over!Init
     /\ blk = Off /\ cached = Off /\ bad = Off

Next ==
  /\ part' = part
  /\ \/ part = "life" /\ Life!Next /\ UNCHANGED NotLife
     \/ part = "marks" /\ Marks!Next /\ UNCHANGED NotLife
     \/ part = "objects" /\ Objects!Next /\ UNCHANGED NotObjects
     \/ part = "over" /\ Over!Next /\ UNCHANGED NotObjects

Spec == Init /\ [][Next]_vars

-----------------------------------------------------------------------------
Symmetric == Permutations({s1, s2, s3}) \cup Permutations({p1, p2})

(* Properties. *)

\* The variables of the part that runs have their types; nothing is freed that is not
\* allocated, and no pin is given back that was not taken.
TypeOK ==
  CASE part = "life" -> Life!TypeOK
    [] part = "marks" -> Marks!TypeOK
    [] part = "objects" -> Objects!TypeOK
    [] part = "over" -> Over!TypeOK

\* Every pin of a page and everything that is allocated belongs to exactly one block or
\* object, which gives it back: copies, assignments, chains of moves and moves to oneself
\* neither lose nor double it.  Left out: the memory of BufferBlockImp9, which leaks, and
\* what is lost, though not freed twice, when objects are assigned over what they own.
OwnedOnce ==
  /\ TypeOK
  /\ part = "life" => Life!PinsExact /\ Life!HeapExact
  /\ part = "marks" => Marks!PinsExact
  /\ part = "objects" => Objects!PinsExact /\ Objects!HeapExact
  /\ part = "over" => Over!OwnersExclusive
=============================================================================
