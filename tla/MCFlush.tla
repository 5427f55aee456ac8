------------------------------ MODULE MCFlush -------------------------------
(***************************************************************************)
(* FlushPage among the fetches, one part at a time: "keep" leaves the page  *)
(* in memory, in a pool of two frames for three pages, and "delete" gives   *)
(* the frame back, in a pool so large that no fetch looks for a victim.     *)
(***************************************************************************)
EXTENDS Integers, FiniteSets, TLC

CONSTANTS c1, c2, a1, a2, a3, b1, b2, None, Empty, Busy

VARIABLES
  part,   \* the part that runs
  \* the variables of the parts:
  mapping, pte, free, list, latch, tries, mem, disk, pc, op, want, frm, snap, lfr

vars == <<part, mapping, pte, free, list, latch, tries, mem, disk, pc, op, want,
          frm, snap, lfr>>

\* FlushPage(page, false).
Keep == INSTANCE BufferPoolInv WITH
  Clients <- {c1, c2}, Pages <- {a1, a2, a3}, Frames <- {b1, b2}, FlushModes <- {"keep"},
  MaxVersion <- 1, RefMax <- 2

\* FlushPage(page, true).
Delete == INSTANCE BufferPoolInv WITH
  Clients <- {c1, c2}, Pages <- {b1, b2}, Frames <- {a1, a2, a3}, FlushModes <- {"delete"},
  MaxVersion <- 1, RefMax <- 2

Init ==
  \/ part = "keep" /\ Keep!Init
  \/ part = "delete" /\ Delete!Init

Next ==
  /\ part' = part
  /\ \/ part = "keep" /\ Keep!Next
     \/ part = "delete" /\ Delete!Next

Spec == Init /\ [][Next]_vars

-----------------------------------------------------------------------------
Symmetric ==
  Permutations({c1, c2}) \cup Permutations({a1, a2, a3}) \cup Permutations({b1, b2})

(* Properties. *)

\* FlushPage without delete_from_memory, among fetches and evictions, keeps the
\* inductive invariant of the proofs (it does leave the page locked when it returns).
\* With it, no page is left locked, and the frame that goes back through free_list_,
\* while the replacer still lists it, is never in use for two pages as long as no fetch
\* looks for a victim.
FlushSound ==
  /\ part = "keep" => Keep!FullInv
  /\ part = "delete" => Delete!NoAliasing /\ Delete!LockHasOwner

\* FlushPage loses no content in either mode: the pool still implements the store.
ImplementsPageStore ==
  /\ part = "keep" => Keep!Store!StoreInit
  /\ part = "delete" => Delete!Store!StoreInit
  /\ [][/\ part = "keep" => Keep!Store!StoreStep
        /\ part = "delete" => Delete!Store!StoreStep]_vars
=============================================================================
