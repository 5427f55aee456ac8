-------------------------- MODULE MCSieveReplacer --------------------------
(* Two clients of a replacer for three frames. *)
EXTENDS SieveReplacer, TLC

CONSTANTS c1, c2

TwoClients == {c1, c2}
Symmetry == Permutations(TwoClients)
=============================================================================
