------------------------------ MODULE ByteFiles ------------------------------
(***************************************************************************)
(* What the files of the buffer pool promise: a file is a sequence of      *)
(* bytes that a write changes at one place and a resize cuts or extends    *)
(* with zeros.  Opening, closing, caching, evicting, flushing and shutting *)
(* down are invisible.                                                     *)
(***************************************************************************)
EXTENDS Integers, Sequences

CONSTANTS Names, Bytes, MaxSize

VARIABLE content   \* [Names -> Seq(Bytes)]

Resized(s, n) == [i \in 1 .. n |-> IF i <= Len(s) THEN s[i] ELSE 0]

Init == content \in [Names -> UNION {[1 .. n -> Bytes] : n \in 0 .. MaxSize}]

Write(f, i, b) == i \in DOMAIN content[f] /\ content' = [content EXCEPT ![f][i] = b]
Resize(f, n) == content' = [content EXCEPT ![f] = Resized(@, n)]

Next ==
  \E f \in Names :
    \/ \E i \in DOMAIN content[f], b \in Bytes : Write(f, i, b)
    \/ \E n \in 0 .. MaxSize : Resize(f, n)

Step == [Next]_content
Spec == Init /\ [][Next]_content
==============================================================================
