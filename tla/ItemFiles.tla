------------------------------ MODULE ItemFiles ------------------------------
(***************************************************************************)
(* What mmap_array promises: a file is a sequence of items of equal size   *)
(* under one or more names.  A write changes one item or a part of one, a  *)
(* resize keeps the items that remain, a copy starts with the items of     *)
(* its source, and a dump gives a file one more name.                      *)
(***************************************************************************)
EXTENDS Integers, Sequences

CONSTANTS Names, Parts, None

VARIABLES
  named,   \* [Names -> Names \union {None}]: the file behind a name
  wrote,   \* the write that was asked for last: file, items and parts, value
  items    \* [Names -> Seq([Parts -> value])]: the items of a file

Cut(s, n) == SubSeq(s, 1, n)

Write(f, S, v) ==
  /\ S \subseteq (DOMAIN items[f]) \X Parts
  /\ items' = [items EXCEPT ![f] = [i \in DOMAIN @ |->
                 [k \in Parts |-> IF <<i, k>> \in S THEN v ELSE @[i][k]]]]
  /\ wrote' = <<f, S, v>> /\ UNCHANGED named

\* New items have any content.
Resize(f) ==
  /\ \A g \in Names \ {f} : items'[g] = items[g]
  /\ LET n == Len(items'[f]) IN IF n <= Len(items[f]) THEN items'[f] = Cut(items[f], n)
                                ELSE Cut(items'[f], Len(items[f])) = items[f]
  /\ UNCHANGED named

Create(n) ==
  named[n] = None /\ named' = [named EXCEPT ![n] = n] /\ items' = [items EXCEPT ![n] = <<>>]
Link(n, f) == named[n] = None /\ named' = [named EXCEPT ![n] = f] /\ UNCHANGED items
Copy(f, n) ==
  /\ named' = IF named[n] = None THEN [named EXCEPT ![n] = n] ELSE named
  /\ LET g == named'[n]
     IN items' = [items EXCEPT ![g] = items[f] \o SubSeq(@, Len(items[f]) + 1, Len(@))]

Init == named \in [Names -> Names \union {None}]

Next ==
  \/ \E f \in Names, v \in {0, 1} : wrote' # <<>> /\ Write(f, wrote'[2], v)
  \/ /\ wrote' = <<>>
     /\ \E f \in Names : \/ Resize(f) \/ Create(f)
                          \/ \E g \in Names : Link(f, g) \/ Copy(g, f)

vars == <<named, wrote, items>>
Step == [Next]_vars
Spec == Init /\ [][Next]_vars
==============================================================================
