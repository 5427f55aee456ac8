---------------------------- MODULE MCBufferPool ----------------------------
(* Model values and symmetry for TLC's runs of BufferPool. *)
EXTENDS BufferPoolInv, TLC

CONSTANTS c1, c2, c3, p1, p2, p3, f1, f2, f3

TwoClients == {c1, c2}
ThreeClients == {c1, c2, c3}
TwoPages == {p1, p2}
ThreePages == {p1, p2, p3}
TwoFrames == {f1, f2}

Symmetry == Permutations(Clients) \cup Permutations(Pages)
              \cup Permutations(Frames)
=============================================================================
