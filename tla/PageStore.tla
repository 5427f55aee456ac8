------------------------------ MODULE PageStore ------------------------------
(***************************************************************************)
(* What a buffer pool promises: a store of pages in which a client gets    *)
(* hold of a page, may change it while it holds it, and lets go of it.     *)
(* Memory, disk, replacement and locking do not show.                      *)
(***************************************************************************)
EXTENDS Naturals

CONSTANTS Clients, Pages, None, MaxVersion

VARIABLES
  val,      \* page -> version of its content
  holder    \* client -> the page it holds, or None

StoreInit ==
  /\ val = [p \in Pages |-> 0]
  /\ holder = [t \in Clients |-> None]

\* FetchPageSync returns.
Acquire(t, p) ==
  /\ holder[t] = None
  /\ holder' = [holder EXCEPT ![t] = p]
  /\ UNCHANGED val

\* The holder changes the content.
Update(t) ==
  /\ holder[t] # None
  /\ val[holder[t]] < MaxVersion
  /\ val' = [val EXCEPT ![holder[t]] = @ + 1]
  /\ UNCHANGED holder

\* DecRefCount.
Release(t) ==
  /\ holder[t] # None
  /\ holder' = [holder EXCEPT ![t] = None]
  /\ UNCHANGED val

StoreNext == \E t \in Clients : \/ \E p \in Pages : Acquire(t, p)
                                \/ Update(t)
                                \/ Release(t)

\* A step of the store, or a stutter.
StoreStep == [StoreNext]_<<val, holder>>

Spec == StoreInit /\ [][StoreStep]_<<val, holder>>
=============================================================================
