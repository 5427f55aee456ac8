--------------------------- MODULE IOServerProofs ---------------------------
(***************************************************************************)
(* Proofs about the I/O server: IOInv is an invariant for every number of  *)
(* clients, pages and slots and every size of the channel and of the ring. *)
(* The first part says what Members and IsInjective make of the sequences  *)
(* the server builds; the second has one lemma per action; the theorems    *)
(* are last.                                                               *)
(***************************************************************************)
EXTENDS IOServer, FiniteSetTheorems, SequenceTheorems, TLAPS

-----------------------------------------------------------------------------
(* Sequences as sets. *)

\* An empty sequence has no members.
LEMMA EmptyMembers ==
  /\ Members(<<>>) = {}
  /\ IsInjective(<<>>)
BY DEF Members, IsInjective

\* The members of a sequence, by its indices.
LEMMA MembersOf ==
  ASSUME NEW S, NEW s \in Seq(S)
  PROVE  /\ Members(s) \subseteq S
         /\ \A x : x \in Members(s) <=> \E i \in 1 .. Len(s) : s[i] = x
         /\ IsInjective(s) <=> \A a, b \in 1 .. Len(s) : s[a] = s[b] => a = b
<1>1. DOMAIN s = 1 .. Len(s) /\ \A i \in 1 .. Len(s) : s[i] \in S
  BY LenProperties, ElementOfSeq
<1> QED BY <1>1 DEF Members, IsInjective

\* push of the channel and of the ring: one member more.
LEMMA AppendMembers ==
  ASSUME NEW S, NEW s \in Seq(S), NEW e \in S
  PROVE  /\ Append(s, e) \in Seq(S) /\ Len(Append(s, e)) = Len(s) + 1
         /\ Members(Append(s, e)) = Members(s) \union {e}
         /\ IsInjective(s) /\ e \notin Members(s) => IsInjective(Append(s, e))
<1> DEFINE t == Append(s, e)
<1>1. /\ t \in Seq(S) /\ Len(t) = Len(s) + 1 /\ Len(s) \in Nat
      /\ \A i \in 1 .. Len(s) : t[i] = s[i]
      /\ t[Len(s) + 1] = e
  BY AppendProperties, LenProperties
<1> HIDE DEF t
<1>2. ASSUME NEW x PROVE x \in Members(t) <=> x \in Members(s) \union {e}
  <2>1. x \in Members(t) <=> \E i \in 1 .. Len(t) : t[i] = x
    BY <1>1, MembersOf
  <2>2. x \in Members(s) <=> \E i \in 1 .. Len(s) : s[i] = x
    BY MembersOf
  <2>3. \A i \in 1 .. Len(t) : i \in 1 .. Len(s) \/ i = Len(s) + 1
    BY <1>1
  <2>4. Len(s) + 1 \in 1 .. Len(t) /\ \A i \in 1 .. Len(s) : i \in 1 .. Len(t)
    BY <1>1
  <2> QED BY <2>1, <2>2, <2>3, <2>4, <1>1
<1>3. IsInjective(s) /\ e \notin Members(s) => IsInjective(t)
  <2> SUFFICES ASSUME IsInjective(s), e \notin Members(s),
                      NEW a \in 1 .. Len(t), NEW b \in 1 .. Len(t), t[a] = t[b]
               PROVE  a = b
    BY <1>1, MembersOf
  <2>1. \A i \in 1 .. Len(s) : s[i] # e
    BY MembersOf
  <2>2. \A i, j \in 1 .. Len(s) : s[i] = s[j] => i = j
    BY MembersOf
  <2>3. /\ a \in 1 .. Len(s) \/ a = Len(s) + 1
        /\ b \in 1 .. Len(s) \/ b = Len(s) + 1
    BY <1>1
  <2> QED BY <2>1, <2>2, <2>3, <1>1
<1> QED BY <1>1, <1>2, <1>3 DEF t

\* pop of the channel: the head leaves, and is in no place behind it.
LEMMA TailMembers ==
  ASSUME NEW S, NEW s \in Seq(S), s # <<>>, IsInjective(s)
  PROVE  /\ Head(s) \in S /\ Tail(s) \in Seq(S) /\ Len(Tail(s)) = Len(s) - 1
         /\ Members(Tail(s)) = Members(s) \ {Head(s)}
         /\ Head(s) \in Members(s)
         /\ IsInjective(Tail(s))
<1> DEFINE t == Tail(s)  h == Head(s)
<1>1. /\ h \in S /\ t \in Seq(S) /\ Len(t) = Len(s) - 1
      /\ Len(s) \in Nat \ {0} /\ h = s[1]
      /\ \A i \in 1 .. Len(t) : t[i] = s[i + 1]
  BY HeadTailProperties, EmptySeq, LenProperties
<1> HIDE DEF t, h
<1>2. \A i, j \in 1 .. Len(s) : s[i] = s[j] => i = j
  BY MembersOf
<1>3. ASSUME NEW x PROVE x \in Members(t) <=> x \in Members(s) \ {h}
  <2>1. x \in Members(t) <=> \E i \in 1 .. Len(t) : t[i] = x
    BY <1>1, MembersOf
  <2>2. x \in Members(s) <=> \E i \in 1 .. Len(s) : s[i] = x
    BY MembersOf
  <2>3. ASSUME NEW i \in 1 .. Len(t), t[i] = x PROVE x \in Members(s) \ {h}
    <3>1. i + 1 \in 1 .. Len(s) /\ 1 \in 1 .. Len(s) /\ i + 1 # 1
      BY <1>1
    <3> QED BY <3>1, <2>2, <2>3, <1>1, <1>2
  <2>4. ASSUME NEW i \in 1 .. Len(s), s[i] = x, x # h PROVE x \in Members(t)
    <3>1. i - 1 \in 1 .. Len(t) /\ (i - 1) + 1 = i
      BY <1>1, <2>4
    <3>2. t[i - 1] = s[(i - 1) + 1]
      BY <3>1, <1>1
    <3> QED BY <3>1, <3>2, <2>1, <2>4
  <2> QED BY <2>1, <2>2, <2>3, <2>4
<1>4. h \in Members(s)
  <2>1. 1 \in 1 .. Len(s)
    BY <1>1
  <2> QED BY <2>1, <1>1, MembersOf
<1>5. ASSUME NEW a \in 1 .. Len(t), NEW b \in 1 .. Len(t), t[a] = t[b] PROVE a = b
  <2>1. a + 1 \in 1 .. Len(s) /\ b + 1 \in 1 .. Len(s)
    BY <1>1
  <2>2. s[a + 1] = s[b + 1]
    BY <1>1, <1>5
  <2>3. a + 1 = b + 1
    BY <2>1, <2>2, <1>2
  <2> QED BY <2>3
<1>6. IsInjective(t)
  BY <1>1, <1>5, MembersOf
<1> QED BY <1>1, <1>3, <1>4, <1>6 DEF t, h

\* io_uring_submit takes a prefix: what it takes and what stays are apart, and it
\* takes as many requests as it says.
LEMMA SubmitMembers ==
  ASSUME NEW S, NEW s \in Seq(S), IsInjective(s), NEW k \in 0 .. Len(s)
  PROVE  LET a == SubSeq(s, 1, k)
             b == SubSeq(s, k + 1, Len(s))
         IN  /\ b \in Seq(S) /\ Len(b) = Len(s) - k
             /\ Members(s) = Members(a) \union Members(b)
             /\ Members(a) \cap Members(b) = {}
             /\ IsInjective(b)
             /\ IsFiniteSet(Members(a)) /\ Cardinality(Members(a)) = k
<1> DEFINE a == SubSeq(s, 1, k)  b == SubSeq(s, k + 1, Len(s))
<1>0. Len(s) \in Nat /\ k \in Nat /\ k <= Len(s) /\ \A i \in 1 .. Len(s) : s[i] \in S
  BY LenProperties, ElementOfSeq
<1>1. /\ a \in Seq(S) /\ Len(a) = k
      /\ \A i \in 1 .. k : a[i] = s[i]
  <2>1. \A i \in 1 .. k : s[i] \in S
    BY <1>0
  <2>2. /\ SubSeq(s, 1, k) \in Seq(S)
        /\ Len(SubSeq(s, 1, k)) = IF 1 <= k THEN k - 1 + 1 ELSE 0
        /\ \A i \in 1 .. k - 1 + 1 : SubSeq(s, 1, k)[i] = s[1 + i - 1]
    BY <2>1, <1>0, SubSeqProperties
  <2>3. k - 1 + 1 = k /\ \A i \in 1 .. k : 1 + i - 1 = i
    BY <1>0
  <2> QED BY <2>2, <2>3, <1>0
<1>2. /\ b \in Seq(S) /\ Len(b) = Len(s) - k
      /\ \A i \in 1 .. Len(s) - k : b[i] = s[i + k]
  <2>1. \A i \in k + 1 .. Len(s) : s[i] \in S
    BY <1>0
  <2>2. /\ SubSeq(s, k + 1, Len(s)) \in Seq(S)
        /\ Len(SubSeq(s, k + 1, Len(s))) =
             IF k + 1 <= Len(s) THEN Len(s) - (k + 1) + 1 ELSE 0
        /\ \A i \in 1 .. Len(s) - (k + 1) + 1 :
             SubSeq(s, k + 1, Len(s))[i] = s[(k + 1) + i - 1]
    BY <2>1, <1>0, SubSeqProperties
  <2>3. /\ Len(s) - (k + 1) + 1 = Len(s) - k
        /\ \A i \in 1 .. Len(s) - k : (k + 1) + i - 1 = i + k
    BY <1>0
  <2>4. Len(b) = Len(s) - k
    <3>1. Len(b) = IF k + 1 <= Len(s) THEN Len(s) - (k + 1) + 1 ELSE 0
      BY <2>2
    <3> HIDE DEF b
    <3> QED BY <3>1, <1>0
  <2>5. \A i \in 1 .. Len(s) - k : b[i] = s[(k + 1) + i - 1]
    BY <2>2, <2>3
  <2>6. b \in Seq(S)
    BY <2>2
  <2> HIDE DEF b
  <2> QED BY <2>3, <2>4, <2>5, <2>6
<1> HIDE DEF a, b
<1>3. \A i, j \in 1 .. Len(s) : s[i] = s[j] => i = j
  BY MembersOf
<1>4. /\ \A x : x \in Members(a) <=> \E i \in 1 .. k : s[i] = x
      /\ \A x : x \in Members(b) <=> \E i \in k + 1 .. Len(s) : s[i] = x
      /\ \A x : x \in Members(s) <=> \E i \in 1 .. Len(s) : s[i] = x
  <2>1. \A x : x \in Members(a) <=> \E i \in 1 .. k : a[i] = x
    BY <1>1, MembersOf
  <2>2. \A x : x \in Members(b) <=> \E i \in 1 .. Len(s) - k : b[i] = x
    BY <1>2, MembersOf
  <2>3. ASSUME NEW x PROVE x \in Members(b) <=> \E i \in k + 1 .. Len(s) : s[i] = x
    <3>1. ASSUME NEW i \in 1 .. Len(s) - k, b[i] = x PROVE \E j \in k + 1 .. Len(s) : s[j] = x
      <4>1. i + k \in k + 1 .. Len(s)
        BY <1>0
      <4> QED BY <4>1, <3>1, <1>2
    <3>2. ASSUME NEW j \in k + 1 .. Len(s), s[j] = x PROVE \E i \in 1 .. Len(s) - k : b[i] = x
      <4>1. j - k \in 1 .. Len(s) - k /\ (j - k) + k = j
        BY <1>0
      <4>2. b[j - k] = s[(j - k) + k]
        BY <4>1, <1>2
      <4> QED BY <4>1, <4>2, <3>2
    <3> QED BY <3>1, <3>2, <2>2
  <2> QED BY <2>1, <2>3, <1>1, MembersOf
<1>5. Members(s) = Members(a) \union Members(b)
  <2>1. \A i \in 1 .. Len(s) : i \in 1 .. k \/ i \in k + 1 .. Len(s)
    BY <1>0
  <2>2. /\ \A i \in 1 .. k : i \in 1 .. Len(s)
        /\ \A i \in k + 1 .. Len(s) : i \in 1 .. Len(s)
    BY <1>0
  <2>3. ASSUME NEW x PROVE x \in Members(s) <=> x \in Members(a) \union Members(b)
    BY <2>1, <2>2, <1>4
  <2> QED BY <2>3
<1>6. Members(a) \cap Members(b) = {}
  <2> SUFFICES ASSUME NEW x \in Members(a), x \in Members(b) PROVE FALSE
    OBVIOUS
  <2>1. PICK i \in 1 .. k : s[i] = x
    BY <1>4
  <2>2. PICK j \in k + 1 .. Len(s) : s[j] = x
    BY <1>4
  <2>3. i \in 1 .. Len(s) /\ j \in 1 .. Len(s) /\ i # j
    BY <1>0
  <2> QED BY <2>1, <2>2, <2>3, <1>3
<1>7. IsInjective(b)
  <2> SUFFICES ASSUME NEW i \in 1 .. Len(s) - k, NEW j \in 1 .. Len(s) - k, b[i] = b[j]
               PROVE  i = j
    BY <1>2, MembersOf
  <2>1. i + k \in 1 .. Len(s) /\ j + k \in 1 .. Len(s)
    BY <1>0
  <2>2. i + k = j + k
    BY <2>1, <1>2, <1>3
  <2> QED BY <2>2, <1>0
<1>8. IsFiniteSet(Members(a)) /\ Cardinality(Members(a)) = k
  <2>1. IsFiniteSet(1 .. k) /\ Cardinality(1 .. k) = k
    BY <1>0, FS_Interval
  <2> DEFINE f == [i \in 1 .. k |-> s[i]]
  <2>2. f \in [1 .. k -> Members(a)]
    BY <1>4
  <2>3. \A x \in Members(a) : \E i \in 1 .. k : f[i] = x
    BY <1>4
  <2>4. f \in Surjection(1 .. k, Members(a))
    BY <2>2, <2>3 DEF Surjection
  <2>5. \A i, j \in 1 .. k : f[i] = f[j] => i = j
    <3>1. \A i \in 1 .. k : i \in 1 .. Len(s)
      BY <1>0
    <3> QED BY <3>1, <1>3
  <2>6. f \in Injection(1 .. k, Members(a))
    BY <2>2, <2>5 DEF Injection, IsInjective
  <2> HIDE DEF f
  <2> QED BY <2>1, <2>4, <2>6, FS_Surjection
<1> QED BY <1>2, <1>5, <1>6, <1>7, <1>8 DEF a, b

-----------------------------------------------------------------------------
(* What the invariant says of one client, in the form the actions use. *)

\* A request in the ring is held by a slot, and its client waits for it.
LEMMA RequestIsWaited ==
  ASSUME IOInv, NEW c \in Clients
  PROVE  /\ InRing(c) => Held(c)
         /\ Queued(c) \/ Held(c) => pc[c] = "wait" /\ mesg[c] = "unset"
         /\ pc[c] = "wait" /\ mesg[c] = "unset" => Queued(c) \/ Held(c)
         /\ ~(Queued(c) /\ Held(c))
         /\ mesg[c] = "set" => pc[c] = "wait"
         /\ InRing(c) <=> c \in Members(sq) \/ c \in flight \/ c \in Members(cq)
<1>1. InRing(c) => Held(c)
  BY DEF IOInv, StateInv
<1>2. /\ Queued(c) \/ Held(c) <=> Waits(c)
      /\ ~(Queued(c) /\ Held(c))
  BY DEF IOInv, PlaceInv
<1>3. mesg[c] = "set" => pc[c] = "wait"
  <2>1. pc[c] \in {"idle", "push", "wait"}
    BY DEF IOInv, TypeOK
  <2> QED BY <2>1 DEF IOInv, ClientInv
<1> QED BY <1>1, <1>2, <1>3 DEF Waits, InRing

\* The request the server is at is held by that slot, unless it has been answered.
LEMMA CurIsHeld ==
  ASSUME IOInv, spc # "slot", spc # "next"
  PROVE  /\ Cur \in Clients /\ Holds(at, Cur) /\ Held(Cur)
         /\ at \in 1 .. Slots /\ slot[at] = Cur
BY DEF IOInv, TypeOK, PlaceInv, Cur, Holds, Held

\* Steps that leave the channel and the slots alone, other than the one that answers
\* and the one that follows it, leave every request where it is.
LEMMA PlacesKept ==
  ASSUME UNCHANGED <<channel, slot>>,
         \/ UNCHANGED <<at, spc>>
         \/ spc # "next" /\ spc' # "next"
  PROVE  /\ \A i \in 1 .. Slots, c \in Clients : Holds(i, c)' <=> Holds(i, c)
         /\ \A c \in Clients : /\ Held(c)' <=> Held(c)
                               /\ Queued(c)' <=> Queued(c)
<1>1. \A i \in 1 .. Slots, c \in Clients : Holds(i, c)' <=> Holds(i, c)
  BY DEF Holds
<1>2. \A c \in Clients : Queued(c)' <=> Queued(c)
  BY DEF Queued
<1> QED BY <1>1, <1>2 DEF Held

\* The same, for the whole of PlaceInv.
LEMMA PlaceInvKept ==
  ASSUME PlaceInv, UNCHANGED <<channel, slot>>,
         \/ UNCHANGED <<at, spc>>
         \/ spc # "next" /\ spc' # "next",
         \A c \in Clients : Waits(c)' <=> Waits(c),
         spc' # "slot" => Cur' # None
  PROVE  PlaceInv'
<1>1. /\ \A i \in 1 .. Slots, c \in Clients : Holds(i, c)' <=> Holds(i, c)
      /\ \A c \in Clients : /\ Held(c)' <=> Held(c)
                            /\ Queued(c)' <=> Queued(c)
  BY PlacesKept
<1> QED BY <1>1 DEF PlaceInv

\* NextSlot, after which a slot is looked at anew.
LEMMA NextSlotType ==
  ASSUME Parameters, TypeOK, NextSlot
  PROVE  at' \in 1 .. Slots /\ spc' = "slot" /\ gone' \in BOOLEAN
<1>1. at \in 1 .. Slots /\ Slots \in Nat \ {0} /\ stop_ \in BOOLEAN /\ gone \in BOOLEAN
  BY DEF Parameters, TypeOK
<1>2. CASE at < Slots
  BY <1>1, <1>2 DEF NextSlot
<1>3. CASE ~(at < Slots)
  BY <1>1, <1>3 DEF NextSlot
<1> QED BY <1>2, <1>3

-----------------------------------------------------------------------------
(* The clients' steps. *)

LEMMA AskStep ==
  ASSUME Parameters, IOInv,
         NEW c \in Clients, NEW p \in Pages, NEW read \in BOOLEAN, Ask(c, p, read)
  PROVE  IOInv'
<1>1. TypeOK'
  <2>1. /\ pc' \in [Clients -> {"idle", "push", "wait"}]
        /\ mesg' \in [Clients -> {"none", "unset", "set"}]
    BY DEF IOInv, TypeOK, Ask
  <2>2. version' \in 0 .. MaxVersion
    BY DEF IOInv, TypeOK, Ask, Parameters
  <2>3. (IF read THEN Junk ELSE version + 1) \in 0 .. Junk
    BY DEF IOInv, TypeOK, Ask, Parameters, Junk
  <2>4. buf' \in [Clients -> 0 .. Junk]
    BY <2>3 DEF IOInv, TypeOK, Ask
  <2>5. req' \in [Clients -> [page : Pages, read : BOOLEAN] \union {None}]
    <3>1. [page |-> p, read |-> read] \in [page : Pages, read : BOOLEAN]
      OBVIOUS
    <3> QED BY <3>1 DEF IOInv, TypeOK, Ask
  <2> QED BY <2>1, <2>2, <2>4, <2>5 DEF IOInv, TypeOK, Ask, ringVars, stopVars
<1>2. \A d \in Clients : /\ pc'[d] = IF d = c THEN "push" ELSE pc[d]
                         /\ mesg'[d] = IF d = c THEN "unset" ELSE mesg[d]
                         /\ req'[d] = IF d = c THEN [page |-> p, read |-> read] ELSE req[d]
                         /\ d # c => buf'[d] = buf[d]
  BY DEF IOInv, TypeOK, Ask
<1>3. pc[c] = "idle" /\ mesg[c] = "none"
  BY DEF IOInv, ClientInv, Ask
<1>4. ClientInv'
  <2>1. ASSUME NEW d \in Clients
        PROVE  /\ pc'[d] = "idle" => mesg'[d] = "none"
               /\ pc'[d] = "push" => mesg'[d] = "unset"
               /\ pc'[d] = "wait" => mesg'[d] # "none"
               /\ pc'[d] # "idle" => req'[d] \in [page : Pages, read : BOOLEAN]
    <3>1. CASE d = c
      BY <3>1, <1>2
    <3>2. CASE d # c
      BY <3>2, <1>2 DEF IOInv, ClientInv
    <3> QED BY <3>1, <3>2
  <2>2. ASSUME NEW d \in Clients, pc'[d] # "idle", ~req'[d].read PROVE buf'[d] # Junk
    <3>1. CASE d = c
      <4>1. ~read
        BY <3>1, <2>2, <1>2
      <4>2. version < MaxVersion /\ buf'[c] = version + 1
        BY <4>1 DEF Ask, IOInv, TypeOK
      <4> QED BY <4>2, <3>1 DEF Junk, Parameters, IOInv, TypeOK
    <3>2. CASE d # c
      BY <3>2, <2>2, <1>2 DEF IOInv, ClientInv
    <3> QED BY <3>1, <3>2
  <2>3. ASSUME NEW d \in Clients, NEW e \in Clients,
               pc'[d] # "idle", pc'[e] # "idle", req'[d].page = req'[e].page
        PROVE  d = e
    <3>1. \A x \in Clients : pc[x] # "idle" => req[x].page # p
      BY DEF Ask
    <3>2. \A x \in Clients : req'[x].page = IF x = c THEN p ELSE req[x].page
      BY <1>2
    <3> QED BY <2>3, <3>1, <3>2, <1>2 DEF IOInv, ClientInv
  <2> QED BY <2>1, <2>2, <2>3 DEF ClientInv
<1>5. PlaceInv'
  <2>1. \A d \in Clients : Waits(d)' <=> Waits(d)
    BY <1>2, <1>3 DEF Waits
  <2>2. UNCHANGED <<channel, slot, at, spc, Cur>>
    BY DEF Ask, Cur
  <2>3. PlaceInv
    BY DEF IOInv
  <2>4. spc' # "slot" => Cur' # None
    BY <2>2, <2>3 DEF PlaceInv
  <2> QED BY <2>1, <2>2, <2>3, <2>4, PlaceInvKept
<1>6. StateInv' /\ RingInv'
  <2>1. UNCHANGED <<channel, slot, state, finish, at, spc, sq, flight, cq,
                    num_preparing_, num_processing_>>
    BY DEF Ask, ringVars
  <2>2. \A d \in Clients : /\ Held(d)' <=> Held(d)
                           /\ Queued(d)' <=> Queued(d)
                           /\ InRing(d)' <=> InRing(d)
    BY <2>1, PlacesKept DEF InRing
  <2> QED BY <2>1, <2>2 DEF IOInv, StateInv, RingInv, RingCounts, Cur
<1>7. ~MayFail => DataInv'
  <2> SUFFICES ASSUME ~MayFail, NEW d \in Clients,
                      (d \in Members(cq) \/ (Held(d) /\ finish[d]) \/ mesg[d] = "set")'
               PROVE  buf'[d] = disk'[req'[d].page]
    BY DEF DataInv
  <2>1. UNCHANGED <<channel, slot, finish, at, spc, cq, disk>>
    BY DEF Ask, ringVars
  <2>2. Held(d)' <=> Held(d)
    BY <2>1, PlacesKept
  <2>3. d # c
    BY <2>1, <2>2, <1>2, <1>3, RequestIsWaited
  <2>4. d \in Members(cq) \/ (Held(d) /\ finish[d]) \/ mesg[d] = "set"
    BY <2>1, <2>2, <2>3, <1>2
  <2> QED BY <2>1, <2>3, <2>4, <1>2 DEF IOInv, DataInv
<1> QED BY <1>1, <1>4, <1>5, <1>6, <1>7 DEF IOInv

LEMMA SendRequestStep ==
  ASSUME Parameters, IOInv, NEW c \in Clients, SendRequest(c)
  PROVE  IOInv'
<1>0. UNCHANGED <<req, buf, mesg, slot, at, spc, sq, flight, cq, num_preparing_,
                  num_processing_, disk, version, stop_, gone>>
  BY DEF SendRequest, ringVars, diskVars, stopVars
<1>1. \A d \in Clients : /\ pc'[d] = IF d = c THEN "wait" ELSE pc[d]
                         /\ state'[d] = IF d = c THEN "Commit" ELSE state[d]
                         /\ finish'[d] = IF d = c THEN FALSE ELSE finish[d]
  BY DEF IOInv, TypeOK, SendRequest
<1>2. /\ pc[c] = "push" /\ mesg[c] = "unset" /\ ~Queued(c) /\ ~Held(c) /\ ~InRing(c)
  <2>1. pc[c] = "push" /\ mesg[c] = "unset"
    BY DEF SendRequest, IOInv, ClientInv
  <2> QED BY <2>1, RequestIsWaited
<1>3. /\ channel' \in Seq(Clients) /\ Len(channel') = Len(channel) + 1
      /\ Members(channel') = Members(channel) \union {c}
      /\ IsInjective(channel')
  <2>1. channel \in Seq(Clients) /\ IsInjective(channel) /\ c \notin Members(channel)
    BY <1>2 DEF IOInv, TypeOK, PlaceInv, Queued
  <2>2. channel' = Append(channel, c)
    BY DEF SendRequest
  <2> QED BY <2>1, <2>2, AppendMembers
<1>4. TypeOK'
  <2>1. Len(channel') <= ChannelCap
    <3>1. Len(channel) \in Nat /\ Len(channel) < ChannelCap /\ ChannelCap \in Nat
      BY LenProperties DEF SendRequest, IOInv, TypeOK, Parameters
    <3> QED BY <3>1, <1>3
  <2>2. /\ pc' \in [Clients -> {"idle", "push", "wait"}]
        /\ state' \in [Clients -> {"Commit", "Poll", "End"}]
        /\ finish' \in [Clients -> BOOLEAN]
    BY DEF SendRequest, IOInv, TypeOK
  <2> QED BY <2>1, <2>2, <1>0, <1>3 DEF IOInv, TypeOK
<1>5. ClientInv'
  BY <1>0, <1>1, <1>2 DEF IOInv, ClientInv
<1>6. /\ \A i \in 1 .. Slots, d \in Clients : Holds(i, d)' <=> Holds(i, d)
      /\ \A d \in Clients : /\ Held(d)' <=> Held(d)
                            /\ Queued(d)' <=> Queued(d) \/ d = c
                            /\ InRing(d)' <=> InRing(d)
                            /\ Waits(d)' <=> Waits(d) \/ d = c
  <2>1. \A i \in 1 .. Slots, d \in Clients : Holds(i, d)' <=> Holds(i, d)
    BY <1>0 DEF Holds
  <2>2. \A d \in Clients : Queued(d)' <=> Queued(d) \/ d = c
    BY <1>3 DEF Queued
  <2>3. \A d \in Clients : Waits(d)' <=> Waits(d) \/ d = c
    BY <1>0, <1>1, <1>2 DEF Waits
  <2> QED BY <2>1, <2>2, <2>3, <1>0 DEF Held, InRing
<1>7. PlaceInv'
  BY <1>0, <1>2, <1>3, <1>6 DEF IOInv, PlaceInv, Cur
<1>8. StateInv'
  <2>1. UNCHANGED Cur
    BY <1>0 DEF Cur
  <2>2. ASSUME NEW d \in Clients
        PROVE /\ Queued(d)' => state'[d] = "Commit"
              /\ (Queued(d) \/ (Held(d) /\ state[d] = "Commit"))' => ~finish'[d]
              /\ (Held(d) /\ state[d] = "Poll")' => InRing(d)' \/ finish'[d]
              /\ (Held(d) /\ state[d] = "End")' => finish'[d] /\ spc' = "post" /\ Cur' = d
              /\ InRing(d)' => /\ Held(d)' /\ ~finish'[d]
                               /\ \/ state'[d] = "Poll"
                                  \/ state'[d] = "Commit" /\ Cur' = d /\ spc' \in {"submit", "reap"}
    BY <2>1, <1>0, <1>1, <1>2, <1>6 DEF IOInv, StateInv
  <2>3. spc' = "post" => state'[Cur'] = "End"
    <3>1. spc = "post" => Cur \in Clients /\ Held(Cur)
      BY CurIsHeld
    <3> QED BY <3>1, <2>1, <1>0, <1>1, <1>2 DEF IOInv, StateInv
  <2> QED BY <2>2, <2>3 DEF StateInv
<1>9. RingInv'
  BY <1>0 DEF IOInv, RingInv, RingCounts
<1>10. ~MayFail => DataInv'
  BY <1>0, <1>1, <1>2, <1>6 DEF IOInv, DataInv
<1> QED BY <1>4, <1>5, <1>7, <1>8, <1>9, <1>10 DEF IOInv

LEMMA AwaitStep ==
  ASSUME Parameters, IOInv, NEW c \in Clients, Await(c)
  PROVE  IOInv'
<1>0. UNCHANGED <<req, buf, channel, slot, state, finish, at, spc, sq, flight, cq,
                  num_preparing_, num_processing_, disk, version, stop_, gone>>
  BY DEF Await, ringVars, diskVars, stopVars
<1>1. /\ pc[c] = "wait" /\ mesg[c] = "set"
      /\ \A d \in Clients : /\ pc'[d] = IF d = c THEN "idle" ELSE pc[d]
                            /\ mesg'[d] = IF d = c THEN "none" ELSE mesg[d]
  BY DEF IOInv, TypeOK, Await
<1>2. TypeOK'
  <2>1. /\ pc' \in [Clients -> {"idle", "push", "wait"}]
        /\ mesg' \in [Clients -> {"none", "unset", "set"}]
    BY DEF Await, IOInv, TypeOK
  <2> QED BY <2>1, <1>0 DEF IOInv, TypeOK
<1>3. ClientInv'
  BY <1>0, <1>1 DEF IOInv, ClientInv
<1>4. UNCHANGED Cur
  BY <1>0 DEF Cur
<1>5. PlaceInv'
  <2>1. \A d \in Clients : Waits(d)' <=> Waits(d)
    BY <1>1 DEF Waits
  <2>2. PlaceInv /\ (spc' # "slot" => Cur' # None)
    BY <1>0, <1>4 DEF IOInv, PlaceInv
  <2> QED BY <2>1, <2>2, <1>0, PlaceInvKept
<1>6. \A d \in Clients : /\ Held(d)' <=> Held(d)
                         /\ Queued(d)' <=> Queued(d)
                         /\ InRing(d)' <=> InRing(d)
  BY <1>0, PlacesKept DEF InRing
<1>7. StateInv' /\ RingInv'
  BY <1>0, <1>4, <1>6 DEF IOInv, StateInv, RingInv, RingCounts
<1>8. ~MayFail => DataInv'
  BY <1>0, <1>1, <1>6 DEF IOInv, DataInv
<1> QED BY <1>2, <1>3, <1>5, <1>7, <1>8 DEF IOInv

-----------------------------------------------------------------------------
(* The kernel. *)

LEMMA CompleteStep ==
  ASSUME Parameters, IOInv, NEW c \in Clients, Complete(c)
  PROVE  IOInv'
<1>0. UNCHANGED <<pc, req, mesg, channel, slot, state, finish, at, spc, sq,
                  num_preparing_, num_processing_, version, stop_, gone>>
  BY DEF Complete, stopVars
<1>1. c \in flight /\ InRing(c) /\ pc[c] = "wait" /\ mesg[c] = "unset" /\ Held(c)
  BY RequestIsWaited DEF Complete, InRing
<1>2. req[c] \in [page : Pages, read : BOOLEAN] /\ (~req[c].read => buf[c] # Junk)
  BY <1>1 DEF IOInv, ClientInv
<1> DEFINE p == req[c].page
<1>3. p \in Pages /\ req[c].read \in BOOLEAN
  BY <1>2
<1>4. /\ buf \in [Clients -> 0 .. Junk] /\ disk \in [Pages -> 0 .. MaxVersion]
      /\ disk[p] \in 0 .. MaxVersion /\ disk[p] \in 0 .. Junk
      /\ MaxVersion \in Nat
  BY <1>3 DEF IOInv, TypeOK, Parameters, Junk
<1>5. \/ req[c].read /\ buf' = [buf EXCEPT ![c] = disk[p]] /\ disk' = disk
      \/ ~req[c].read /\ buf' = buf /\ disk' = [disk EXCEPT ![p] = buf[c]]
      \/ MayFail /\ buf' = buf /\ disk' = disk
  BY DEF Complete
<1>6. /\ buf' \in [Clients -> 0 .. Junk] /\ disk' \in [Pages -> 0 .. MaxVersion]
      /\ \A d \in Clients : d # c => buf'[d] = buf[d]
      /\ \A q \in Pages : q # p => disk'[q] = disk[q]
      /\ ~req[c].read => buf'[c] = buf[c]
      /\ ~MayFail => buf'[c] = disk'[p]
  <2>1. CASE req[c].read /\ buf' = [buf EXCEPT ![c] = disk[p]] /\ disk' = disk
    BY <2>1, <1>4
  <2>2. CASE ~req[c].read /\ buf' = buf /\ disk' = [disk EXCEPT ![p] = buf[c]]
    <3>1. buf[c] \in 0 .. MaxVersion
      BY <2>2, <1>2, <1>4 DEF Junk
    <3> QED BY <3>1, <2>2, <1>3, <1>4
  <2>3. CASE MayFail /\ buf' = buf /\ disk' = disk
    BY <2>3, <1>4
  <2> QED BY <1>5, <2>1, <2>2, <2>3
<1> HIDE DEF p
<1>7. c \notin Members(cq) /\ c \notin Members(sq)
  BY <1>1 DEF IOInv, RingInv
<1>8. /\ cq \in Seq(Clients) /\ IsInjective(cq) /\ flight \subseteq Clients
      /\ IsFiniteSet(flight) /\ Len(cq) \in Nat
  <2>1. IsFiniteSet(flight)
    <3>1. flight \in SUBSET Clients /\ IsFiniteSet(Clients)
      BY DEF IOInv, TypeOK, Parameters
    <3> QED BY <3>1, FS_Subset
  <2>2. cq \in Seq(Clients)
    BY DEF IOInv, TypeOK
  <2> QED BY <2>1, <2>2, LenProperties DEF IOInv, RingInv, TypeOK
<1>9. /\ cq' \in Seq(Clients) /\ Len(cq') = Len(cq) + 1
      /\ Members(cq') = Members(cq) \union {c}
      /\ IsInjective(cq')
  <2>1. cq' = Append(cq, c)
    BY DEF Complete
  <2> QED BY <2>1, <1>7, <1>8, AppendMembers
<1>10. /\ flight' = flight \ {c}
       /\ Cardinality(flight') = Cardinality(flight) - 1 /\ Cardinality(flight) \in Nat
  <2>1. flight' = flight \ {c}
    BY DEF Complete
  <2> QED BY <2>1, <1>1, <1>8, FS_RemoveElement, FS_CardinalityType
<1>11. TypeOK'
  BY <1>0, <1>6, <1>9, <1>10 DEF IOInv, TypeOK
<1>12. ClientInv'
  <2>1. ASSUME NEW d \in Clients, pc[d] # "idle", ~req[d].read PROVE buf'[d] # Junk
    <3>1. buf[d] # Junk
      BY <2>1 DEF IOInv, ClientInv
    <3> QED BY <3>1, <2>1, <1>6
  <2> QED BY <2>1, <1>0 DEF IOInv, ClientInv
<1>13. UNCHANGED Cur
  BY <1>0 DEF Cur
<1>14. PlaceInv'
  <2>1. \A d \in Clients : Waits(d)' <=> Waits(d)
    BY <1>0 DEF Waits
  <2>2. PlaceInv /\ (spc' # "slot" => Cur' # None)
    BY <1>0, <1>13 DEF IOInv, PlaceInv
  <2> QED BY <2>1, <2>2, <1>0, PlaceInvKept
<1>15. \A d \in Clients : /\ Held(d)' <=> Held(d)
                          /\ Queued(d)' <=> Queued(d)
                          /\ InRing(d)' <=> InRing(d)
  <2>1. \A d \in Clients : InRing(d)' <=> InRing(d)
    BY <1>0, <1>1, <1>9, <1>10 DEF InRing
  <2> QED BY <2>1, <1>0, PlacesKept
<1>16. StateInv'
  BY <1>0, <1>13, <1>15 DEF IOInv, StateInv
<1>17. RingInv'
  <2>1. /\ Members(sq') \cap flight' = {} /\ Members(sq') \cap Members(cq') = {}
        /\ flight' \cap Members(cq') = {}
    BY <1>0, <1>7, <1>9, <1>10 DEF IOInv, RingInv
  <2>2. RingCounts'
    BY <1>0, <1>8, <1>9, <1>10 DEF IOInv, RingInv, RingCounts
  <2> QED BY <2>1, <2>2, <1>0, <1>9 DEF IOInv, RingInv
<1>18. ~MayFail => DataInv'
  <2> SUFFICES ASSUME ~MayFail, NEW d \in Clients,
                      (d \in Members(cq) \/ (Held(d) /\ finish[d]) \/ mesg[d] = "set")'
               PROVE  buf'[d] = disk'[req'[d].page]
    BY DEF DataInv
  <2>1. CASE d = c
    BY <2>1, <1>0, <1>6 DEF p
  <2>2. CASE d # c
    <3>1. d \in Members(cq) \/ (Held(d) /\ finish[d]) \/ mesg[d] = "set"
      BY <2>2, <1>0, <1>9, <1>15
    <3>2. pc[d] = "wait"
      BY <3>1, RequestIsWaited
    <3>3. buf[d] = disk[req[d].page]
      BY <3>1 DEF IOInv, DataInv
    <3>4. req[d].page \in Pages /\ req[d].page # p
      BY <3>2, <2>2, <1>1 DEF IOInv, ClientInv, p
    <3> QED BY <3>3, <3>4, <2>2, <1>0, <1>6
  <2> QED BY <2>1, <2>2
<1> QED BY <1>11, <1>12, <1>14, <1>16, <1>17, <1>18 DEF IOInv

-----------------------------------------------------------------------------
(* The server's thread. *)

\* A slot that holds nothing takes the first request of the channel.
LEMMA SlotTakes ==
  ASSUME Parameters, IOInv, spc \in {"slot", "next"},
         \A d \in Clients : ~Holds(at, d), channel # <<>>,
         slot' = [slot EXCEPT ![at] = Head(channel)], channel' = Tail(channel),
         at' \in 1 .. Slots, gone' \in BOOLEAN,
         spc' = "slot" \/ (spc' = "process" /\ at' = at),
         UNCHANGED <<pc, req, buf, mesg, state, finish, sq, flight, cq, num_preparing_,
                     num_processing_, disk, version, stop_>>
  PROVE  IOInv'
<1> DEFINE h == Head(channel)
<1>1. ClientInv' /\ RingInv'
  BY DEF IOInv, ClientInv, RingInv, RingCounts
<1>2. \A d \in Clients : /\ Waits(d)' <=> Waits(d)
                         /\ InRing(d)' <=> InRing(d)
  BY DEF Waits, InRing
<1>3. channel \in Seq(Clients) /\ IsInjective(channel) /\ Len(channel) \in Nat
  BY LenProperties DEF IOInv, TypeOK, PlaceInv
<1>4. /\ h \in Clients /\ channel' \in Seq(Clients) /\ Len(channel') = Len(channel) - 1
      /\ Members(channel') = Members(channel) \ {h}
      /\ h \in Members(channel) /\ IsInjective(channel')
  BY <1>3, TailMembers
<1> HIDE DEF h
<1>5. /\ slot \in [1 .. Slots -> Clients \union {None}]
      /\ slot' \in [1 .. Slots -> Clients \union {None}]
      /\ at \in 1 .. Slots
      /\ \A i \in 1 .. Slots : slot'[i] = IF i = at THEN h ELSE slot[i]
  BY <1>4 DEF IOInv, TypeOK, h
<1>6. TypeOK'
  <2>1. Len(channel') <= ChannelCap
    BY <1>3, <1>4 DEF IOInv, TypeOK, Parameters
  <2> QED BY <2>1, <1>4, <1>5 DEF IOInv, TypeOK
<1>7. /\ Queued(h) /\ ~Held(h)
      /\ \A d \in Clients : Queued(d)' <=> (Queued(d) /\ d # h)
  BY <1>4, RequestIsWaited DEF Queued
<1>8. \A i \in 1 .. Slots, d \in Clients : Holds(i, d)' <=> (Holds(i, d) \/ (i = at /\ d = h))
  BY <1>5 DEF Holds
<1>9. \A d \in Clients : Held(d)' <=> (Held(d) \/ d = h)
  BY <1>5, <1>8 DEF Held
<1>10. PlaceInv'
  <2>1. ASSUME NEW i \in 1 .. Slots, NEW j \in 1 .. Slots, NEW d \in Clients,
               Holds(i, d)', Holds(j, d)'
        PROVE  i = j
    <3>1. CASE d = h
      BY <3>1, <2>1, <1>7, <1>8 DEF Held
    <3>2. CASE d # h
      BY <3>2, <2>1, <1>8 DEF IOInv, PlaceInv
    <3> QED BY <3>1, <3>2
  <2>2. \A d \in Clients : /\ Waits(d)' <=> (Queued(d)' \/ Held(d)')
                           /\ ~(Queued(d)' /\ Held(d)')
    BY <1>2, <1>7, <1>9 DEF IOInv, PlaceInv
  <2>3. spc' # "slot" => Cur' # None
    BY <1>4, <1>5 DEF Cur, Parameters
  <2> QED BY <2>1, <2>2, <2>3, <1>4 DEF PlaceInv
<1>11. StateInv'
  <2>1. state[h] = "Commit" /\ ~finish[h] /\ ~InRing(h)
    BY <1>4, <1>7, RequestIsWaited DEF IOInv, StateInv
  <2> QED BY <2>1, <1>2, <1>4, <1>7, <1>9 DEF IOInv, StateInv
<1>12. ~MayFail => DataInv'
  <2>1. ~finish[h]
    BY <1>4, <1>7 DEF IOInv, StateInv
  <2> QED BY <2>1, <1>9 DEF IOInv, DataInv
<1> QED BY <1>1, <1>6, <1>10, <1>11, <1>12 DEF IOInv

\* A slot is looked at, and whatever it holds it keeps.
LEMMA SlotKeeps ==
  ASSUME Parameters, IOInv, spc \in {"slot", "next"},
         \A i \in 1 .. Slots, d \in Clients : Holds(i, d)' <=> Holds(i, d),
         slot' \in [1 .. Slots -> Clients \union {None}],
         at' \in 1 .. Slots, gone' \in BOOLEAN,
         spc' = "slot" \/ (spc' = "process" /\ Cur' # None),
         UNCHANGED <<pc, req, buf, mesg, channel, state, finish, sq, flight, cq,
                     num_preparing_, num_processing_, disk, version, stop_>>
  PROVE  IOInv'
<1>1. TypeOK' /\ ClientInv' /\ RingInv'
  BY DEF IOInv, TypeOK, ClientInv, RingInv, RingCounts
<1>2. \A d \in Clients : /\ Waits(d)' <=> Waits(d)
                         /\ InRing(d)' <=> InRing(d)
                         /\ Queued(d)' <=> Queued(d)
                         /\ Held(d)' <=> Held(d)
  BY DEF Waits, InRing, Queued, Held
<1>3. PlaceInv' /\ StateInv'
  BY <1>2 DEF IOInv, PlaceInv, StateInv
<1>4. ~MayFail => DataInv'
  BY <1>2 DEF IOInv, DataInv
<1> QED BY <1>1, <1>3, <1>4 DEF IOInv

LEMMA TakeStep ==
  ASSUME Parameters, IOInv, Take
  PROVE  IOInv'
<1>0. UNCHANGED <<pc, req, buf, mesg, state, finish, sq, flight, cq, num_preparing_,
                  num_processing_, disk, version, stop_>>
  BY DEF Take, clientVars, ringVars, diskVars
<1>1. /\ spc = "slot" /\ at \in 1 .. Slots /\ Cur = slot[at] /\ TypeOK /\ gone \in BOOLEAN
      /\ slot \in [1 .. Slots -> Clients \union {None}]
  BY DEF Take, Server, Cur, IOInv, TypeOK
<1>2. CASE Cur # None /\ spc' = "process" /\ UNCHANGED <<channel, slot, at, gone>>
  <2>1. Cur' # None /\ \A i \in 1 .. Slots, d \in Clients : Holds(i, d)' <=> Holds(i, d)
    BY <1>1, <1>2 DEF Cur, Holds
  <2> QED BY <2>1, <1>0, <1>1, <1>2, SlotKeeps
<1>3. CASE Cur = None /\ channel = <<>> /\ NextSlot /\ UNCHANGED <<channel, slot>>
  <2>1. at' \in 1 .. Slots /\ spc' = "slot" /\ gone' \in BOOLEAN
    BY <1>1, <1>3, NextSlotType
  <2>2. \A i \in 1 .. Slots, d \in Clients : Holds(i, d)' <=> Holds(i, d)
    BY <2>1, <1>1, <1>3 DEF Holds
  <2> QED BY <2>1, <2>2, <1>0, <1>1, <1>3, SlotKeeps
<1>4. CASE /\ Cur = None /\ channel # <<>>
           /\ slot' = [slot EXCEPT ![at] = Head(channel)]
           /\ channel' = Tail(channel)
           /\ spc' = "process" /\ UNCHANGED <<at, gone>>
  <2>1. \A d \in Clients : ~Holds(at, d)
    BY <1>1, <1>4 DEF Holds, Parameters
  <2> QED BY <2>1, <1>0, <1>1, <1>4, SlotTakes
<1> QED BY <1>2, <1>3, <1>4 DEF Take

LEMMA ProcessStep ==
  ASSUME Parameters, IOInv, Process
  PROVE  IOInv'
<1>0. UNCHANGED <<pc, req, buf, mesg, channel, slot, state, finish, at, flight, cq,
                  num_processing_, disk, version, stop_, gone>>
  BY DEF Process, clientVars, diskVars, stopVars
<1>1. /\ spc = "process" /\ spc' \in {"submit", "post"}
      /\ spc' = "post" <=> state[Cur] = "End"
  BY DEF Process, Server
<1>2. /\ Cur \in Clients /\ Held(Cur) /\ Cur # None /\ Cur' = Cur
      /\ state[Cur] \in {"Commit", "Poll"}
  <2>1. Cur \in Clients /\ Held(Cur) /\ Cur' = Cur
    BY <1>0, <1>1, CurIsHeld DEF Cur
  <2>2. state[Cur] # "End"
    BY <2>1, <1>1 DEF IOInv, StateInv
  <2> QED BY <2>1, <2>2 DEF IOInv, TypeOK, Parameters
<1>3. spc' = "submit"
  BY <1>1, <1>2
<1>4. ClientInv'
  BY <1>0 DEF IOInv, ClientInv
<1>5. PlaceInv'
  <2>1. \A d \in Clients : Waits(d)' <=> Waits(d)
    BY <1>0 DEF Waits
  <2>2. PlaceInv
    BY DEF IOInv
  <2> QED BY <2>1, <2>2, <1>0, <1>1, <1>2, PlaceInvKept
<1>6. \A d \in Clients : /\ Held(d)' <=> Held(d)
                         /\ Queued(d)' <=> Queued(d)
  BY <1>0, <1>1, PlacesKept
<1>7. ~MayFail => DataInv'
  BY <1>0, <1>6 DEF IOInv, DataInv
\* Nothing is prepared.
<1>8. CASE UNCHANGED <<sq, num_preparing_>>
  <2>1. TypeOK' /\ RingInv'
    BY <1>0, <1>3, <1>8 DEF IOInv, TypeOK, RingInv, RingCounts
  <2>2. \A d \in Clients : InRing(d)' <=> InRing(d)
    BY <1>0, <1>8 DEF InRing
  <2>3. StateInv'
    BY <2>2, <1>0, <1>1, <1>2, <1>3, <1>6 DEF IOInv, StateInv
  <2> QED BY <2>1, <2>3, <1>4, <1>5, <1>7 DEF IOInv
\* The request the server is at goes into the ring.
<1>9. CASE state[Cur] = "Commit" /\ Prepare(Cur)
  <2> DEFINE c == Cur
  <2>0. c \in Clients /\ Held(c) /\ Cur' = c /\ state[c] = "Commit" /\ Cur = c
    BY <1>2, <1>9
  <2>1. Len(sq) < Depth /\ sq' = Append(sq, c) /\ num_preparing_' = num_preparing_ + 1
    BY <1>9 DEF Prepare
  <2> HIDE DEF c
  <2>2. ~InRing(c) /\ ~finish[c]
    BY <2>0, <1>1 DEF IOInv, StateInv
  <2>3. sq \in Seq(Clients) /\ IsInjective(sq) /\ Len(sq) \in Nat /\ num_preparing_ = Len(sq)
    BY LenProperties DEF IOInv, TypeOK, RingInv, RingCounts
  <2>4. /\ sq' \in Seq(Clients) /\ Len(sq') = Len(sq) + 1
        /\ Members(sq') = Members(sq) \union {c} /\ IsInjective(sq')
    BY <2>0, <2>1, <2>2, <2>3, AppendMembers DEF InRing
  <2>5. TypeOK'
    <3>1. Len(sq') <= Depth /\ num_preparing_' \in Nat
      BY <2>1, <2>3, <2>4 DEF Parameters
    <3> QED BY <3>1, <2>4, <1>0, <1>3 DEF IOInv, TypeOK
  <2>6. RingInv'
    BY <2>1, <2>2, <2>3, <2>4, <1>0 DEF IOInv, RingInv, RingCounts, InRing
  <2>7. \A d \in Clients : InRing(d)' <=> (InRing(d) \/ d = c)
    BY <2>4, <1>0 DEF InRing
  <2>8. StateInv'
    BY <2>0, <2>2, <2>7, <1>0, <1>1, <1>3, <1>6 DEF IOInv, StateInv
  <2> QED BY <2>5, <2>6, <2>8, <1>4, <1>5, <1>7 DEF IOInv
<1> QED BY <1>8, <1>9 DEF Process

LEMMA ProgressSubmitStep ==
  ASSUME Parameters, IOInv, ProgressSubmit
  PROVE  IOInv'
<1>0. UNCHANGED <<pc, req, buf, mesg, channel, slot, state, finish, at, cq,
                  disk, version, stop_, gone>>
  BY DEF ProgressSubmit, clientVars, diskVars, stopVars
<1>1. spc = "submit" /\ spc' = "reap"
  BY DEF ProgressSubmit, Server
<1>2. Cur \in Clients /\ Cur # None /\ Cur' = Cur
  BY <1>0, <1>1, CurIsHeld DEF Cur, Parameters
<1>3. ClientInv'
  BY <1>0 DEF IOInv, ClientInv
<1>4. PlaceInv'
  <2>1. \A d \in Clients : Waits(d)' <=> Waits(d)
    BY <1>0 DEF Waits
  <2>2. PlaceInv
    BY DEF IOInv
  <2> QED BY <2>1, <2>2, <1>0, <1>1, <1>2, PlaceInvKept
<1>5. \A d \in Clients : /\ Held(d)' <=> Held(d)
                         /\ Queued(d)' <=> Queued(d)
  BY <1>0, <1>1, PlacesKept
<1>6. ~MayFail => DataInv'
  BY <1>0, <1>5 DEF IOInv, DataInv
\* The ring, in which entries only move from the queue to the kernel.
<1>7. /\ sq' \in Seq(Clients) /\ Len(sq') <= Depth /\ flight' \subseteq Clients
      /\ num_preparing_' \in Nat /\ num_processing_' \in Nat
      /\ IsInjective(sq') /\ Members(sq') \cap flight' = {}
      /\ Members(sq') \union flight' = Members(sq) \union flight
      /\ num_preparing_' = Len(sq')
      /\ num_processing_' = Cardinality(flight') + Len(cq)
  <2>1. /\ sq \in Seq(Clients) /\ IsInjective(sq) /\ Len(sq) \in Nat /\ Len(sq) <= Depth
        /\ flight \subseteq Clients /\ Members(sq) \cap flight = {}
        /\ num_preparing_ = Len(sq) /\ num_processing_ = Cardinality(flight) + Len(cq)
        /\ num_processing_ \in Nat /\ Depth \in Nat /\ Len(cq) \in Nat
    BY LenProperties DEF IOInv, TypeOK, RingInv, RingCounts, Parameters
  <2>2. PICK k \in 0 .. Len(sq) :
          IF num_preparing_ > 0 THEN Submit(k)
          ELSE UNCHANGED <<sq, flight, num_preparing_, num_processing_>>
    BY DEF ProgressSubmit
  <2>3. CASE UNCHANGED <<sq, flight, num_preparing_, num_processing_>>
    BY <2>1, <2>3
  <2>4. CASE Submit(k)
    <3> DEFINE a == Members(SubSeq(sq, 1, k))
    <3>1. /\ sq' \in Seq(Clients) /\ Len(sq') = Len(sq) - k
          /\ Members(sq) = a \union Members(sq') /\ a \cap Members(sq') = {}
          /\ IsInjective(sq') /\ IsFiniteSet(a) /\ Cardinality(a) = k
      <4>1. sq' = SubSeq(sq, k + 1, Len(sq))
        BY <2>4 DEF Submit
      <4> QED BY <4>1, <2>1, SubmitMembers
    <3>2. /\ flight' = flight \union a
          /\ num_processing_' = num_processing_ + k
          /\ num_preparing_' = num_preparing_ - k
      BY <2>4 DEF Submit
    <3> HIDE DEF a
    <3>3. Members(sq) \subseteq Clients
      BY <2>1, MembersOf
    <3>4. IsFiniteSet(flight) /\ Cardinality(flight) \in Nat
      <4>1. flight \in SUBSET Clients /\ IsFiniteSet(Clients)
        BY <2>1 DEF Parameters
      <4> QED BY <4>1, FS_Subset, FS_CardinalityType
    <3>5. flight \cap a = {}
      BY <3>1, <2>1
    <3>6. Cardinality(flight') = Cardinality(flight) + k
      <4>1. Cardinality(flight \union a) =
              Cardinality(flight) + Cardinality(a) - Cardinality(flight \cap a)
        BY <3>1, <3>4, FS_Union
      <4>2. Cardinality(flight \cap a) = 0
        BY <3>5, FS_EmptySet
      <4> QED BY <4>1, <4>2, <3>1, <3>2, <3>4
    <3>7. /\ flight' \subseteq Clients /\ Members(sq') \cap flight' = {}
          /\ Members(sq') \union flight' = Members(sq) \union flight
      BY <3>1, <3>2, <3>3, <2>1
    <3>8. /\ Len(sq') <= Depth /\ num_preparing_' \in Nat /\ num_processing_' \in Nat
          /\ num_preparing_' = Len(sq')
          /\ num_processing_' = Cardinality(flight') + Len(cq)
      BY <3>1, <3>2, <3>4, <3>6, <2>1
    <3> QED BY <3>1, <3>7, <3>8
  <2> QED BY <2>2, <2>3, <2>4
<1>8. TypeOK'
  BY <1>0, <1>1, <1>7 DEF IOInv, TypeOK
<1>9. RingInv'
  BY <1>0, <1>7 DEF IOInv, RingInv, RingCounts
<1>10. \A d \in Clients : InRing(d)' <=> InRing(d)
  BY <1>0, <1>7 DEF InRing
<1>11. StateInv'
  BY <1>0, <1>1, <1>2, <1>5, <1>10 DEF IOInv, StateInv
<1> QED BY <1>3, <1>4, <1>6, <1>8, <1>9, <1>11 DEF IOInv

LEMMA ProgressReapStep ==
  ASSUME Parameters, IOInv, ProgressReap
  PROVE  IOInv'
<1>0. UNCHANGED <<pc, req, buf, mesg, channel, slot, sq, flight, num_preparing_,
                  disk, version, stop_>>
  BY DEF ProgressReap, clientVars, diskVars
<1>1. spc = "reap" /\ Cur \in Clients /\ Held(Cur) /\ Cur # None /\ gone \in BOOLEAN
  BY CurIsHeld DEF ProgressReap, Server, Parameters, IOInv, TypeOK
<1> DEFINE c == Cur
<1>2. /\ finish' \in [Clients -> BOOLEAN]
      /\ \A d \in Clients : finish'[d] <=> (finish[d] \/ d \in Members(cq))
      /\ cq' = <<>> /\ num_processing_' = num_processing_ - Len(cq)
  BY DEF ProgressReap, Reap, IOInv, TypeOK
\* What the request at the slot becomes, and where the server goes.
<1>3. /\ state' \in [Clients -> {"Commit", "Poll", "End"}]
      /\ at' \in 1 .. Slots /\ gone' \in BOOLEAN
      /\ \A d \in Clients : d # c => state'[d] = state[d]
      /\ \/ /\ state[c] = "Commit" /\ ~InRing(c) /\ state'[c] = "Commit"
            /\ spc' = "process" /\ at' = at
         \/ state[c] = "Commit" /\ InRing(c) /\ state'[c] = "Poll" /\ spc' = "slot"
         \/ /\ state[c] = "Poll" /\ finish'[c] /\ state'[c] = "End"
            /\ spc' = "post" /\ at' = at
         \/ state[c] = "Poll" /\ ~finish'[c] /\ state'[c] = "Poll" /\ spc' = "slot"
  <2>1. /\ state \in [Clients -> {"Commit", "Poll", "End"}] /\ at \in 1 .. Slots
        /\ c \in Clients /\ TypeOK
    BY <1>1 DEF IOInv, TypeOK
  <2>2. CASE /\ state[Cur] = "Commit" /\ ~InRing(Cur)
             /\ spc' = "process" /\ UNCHANGED <<state, at, gone>>
    BY <2>1, <2>2, <1>1
  <2>3. CASE /\ state[Cur] = "Commit" /\ InRing(Cur)
             /\ state' = [state EXCEPT ![Cur] = "Poll"] /\ NextSlot
    <3>1. at' \in 1 .. Slots /\ spc' = "slot" /\ gone' \in BOOLEAN
      BY <2>1, <2>3, NextSlotType
    <3> QED BY <3>1, <2>1, <2>3
  <2>4. CASE /\ state[Cur] = "Poll" /\ finish'[Cur]
             /\ state' = [state EXCEPT ![Cur] = "End"]
             /\ spc' = "post" /\ UNCHANGED <<at, gone>>
    BY <2>1, <2>4, <1>1
  <2>5. CASE /\ state[Cur] = "Poll" /\ ~finish'[Cur]
             /\ NextSlot /\ UNCHANGED state
    <3>1. at' \in 1 .. Slots /\ spc' = "slot" /\ gone' \in BOOLEAN
      BY <2>1, <2>5, NextSlotType
    <3> QED BY <3>1, <2>1, <2>5
  <2> QED BY <2>2, <2>3, <2>4, <2>5 DEF ProgressReap
<1>4. at' = at => Cur' = c
  BY <1>0 DEF Cur
<1>5. c \in Clients /\ Held(c) /\ c # None /\ Cur = c
  BY <1>1
<1> HIDE DEF c
<1>6. cq' \in Seq(Clients) /\ Len(cq') = 0 /\ Members(cq') = {} /\ IsInjective(cq')
  BY <1>2, EmptyMembers, EmptySeq
<1>7. /\ Len(cq) \in Nat /\ Cardinality(flight) \in Nat
      /\ num_processing_ = Cardinality(flight) + Len(cq)
  <2>1. flight \in SUBSET Clients /\ IsFiniteSet(Clients) /\ cq \in Seq(Clients)
    BY DEF IOInv, TypeOK, Parameters
  <2> QED BY <2>1, FS_Subset, FS_CardinalityType, LenProperties DEF IOInv, RingInv, RingCounts
<1>8. num_processing_' = Cardinality(flight) /\ num_processing_' \in Nat
  BY <1>2, <1>7
<1>9. TypeOK'
  BY <1>0, <1>2, <1>3, <1>6, <1>8 DEF IOInv, TypeOK
<1>10. ClientInv'
  BY <1>0 DEF IOInv, ClientInv
<1>11. PlaceInv'
  <2>1. \A d \in Clients : Waits(d)' <=> Waits(d)
    BY <1>0 DEF Waits
  <2>2. PlaceInv /\ spc # "next" /\ spc' # "next" /\ (spc' # "slot" => Cur' # None)
    BY <1>1, <1>3, <1>4, <1>5 DEF IOInv
  <2> QED BY <2>1, <2>2, <1>0, PlaceInvKept
<1>12. RingInv'
  BY <1>0, <1>6, <1>7, <1>8 DEF IOInv, RingInv, RingCounts
<1>13. \A d \in Clients : /\ Held(d)' <=> Held(d)
                          /\ Queued(d)' <=> Queued(d)
                          /\ InRing(d)' <=> (InRing(d) /\ d \notin Members(cq))
                          /\ d \in Members(cq) => InRing(d)
  <2>1. \A d \in Clients : /\ Held(d)' <=> Held(d)
                           /\ Queued(d)' <=> Queued(d)
    BY <1>0, <1>1, <1>3, PlacesKept
  <2>2. \A d \in Clients : InRing(d)' <=> (InRing(d) /\ d \notin Members(cq))
    BY <1>0, <1>6 DEF InRing, IOInv, RingInv
  <2> QED BY <2>1, <2>2 DEF InRing
<1>14. StateInv'
  <2>1. ASSUME NEW d \in Clients
        PROVE /\ Queued(d)' => state'[d] = "Commit"
              /\ (Queued(d) \/ (Held(d) /\ state[d] = "Commit"))' => ~finish'[d]
              /\ (Held(d) /\ state[d] = "Poll")' => InRing(d)' \/ finish'[d]
              /\ (Held(d) /\ state[d] = "End")' => finish'[d] /\ spc' = "post" /\ Cur' = d
              /\ InRing(d)' => /\ Held(d)' /\ ~finish'[d]
                               /\ \/ state'[d] = "Poll"
                                  \/ state'[d] = "Commit" /\ Cur' = d /\ spc' \in {"submit", "reap"}
    <3>1. /\ Queued(d) => state[d] = "Commit" /\ ~finish[d] /\ ~Held(d)
          /\ Held(d) /\ state[d] = "Commit" => ~finish[d]
          /\ Held(d) /\ state[d] = "Poll" => InRing(d) \/ finish[d]
          /\ Held(d) => state[d] # "End"
          /\ InRing(d) => /\ Held(d) /\ ~finish[d]
                          /\ state[d] = "Poll" \/ (state[d] = "Commit" /\ c = d)
      BY <1>1, <1>5, RequestIsWaited DEF IOInv, StateInv
    <3>2. CASE d = c
      BY <3>1, <3>2, <1>2, <1>3, <1>4, <1>5, <1>13
    <3>3. CASE d # c
      BY <3>1, <3>3, <1>2, <1>3, <1>5, <1>13
    <3> QED BY <3>2, <3>3
  <2>2. spc' = "post" => state'[Cur'] = "End"
    BY <1>3, <1>4
  <2> QED BY <2>1, <2>2 DEF StateInv
<1>15. ~MayFail => DataInv'
  BY <1>0, <1>2, <1>6, <1>13 DEF IOInv, DataInv
<1> QED BY <1>9, <1>10, <1>11, <1>12, <1>14, <1>15 DEF IOInv

LEMMA PostStep ==
  ASSUME Parameters, IOInv, Post
  PROVE  IOInv'
<1>0. UNCHANGED <<pc, req, buf, channel, slot, state, finish, at, sq, flight, cq,
                  num_preparing_, num_processing_, disk, version, stop_, gone>>
  BY DEF Post, ringVars, diskVars, stopVars
<1> DEFINE c == Cur
<1>1. /\ spc = "post" /\ spc' = "next" /\ c \in Clients /\ Holds(at, c) /\ Held(c)
      /\ at \in 1 .. Slots /\ c # None /\ Cur' = c /\ Cur = c
  BY <1>0, CurIsHeld DEF Post, Server, Cur, Parameters
<1>2. pc[c] = "wait" /\ mesg[c] = "unset" /\ ~Queued(c)
  BY <1>1, RequestIsWaited
<1>3. /\ mesg' \in [Clients -> {"none", "unset", "set"}]
      /\ \A d \in Clients : mesg'[d] = IF d = c THEN "set" ELSE mesg[d]
  BY <1>1, <1>2 DEF Post, IOInv, TypeOK
<1> HIDE DEF c
<1>4. state[c] = "End" /\ finish[c] /\ ~InRing(c)
  BY <1>1 DEF IOInv, StateInv
<1>5. TypeOK' /\ ClientInv' /\ RingInv'
  BY <1>0, <1>1, <1>2, <1>3 DEF IOInv, TypeOK, ClientInv, RingInv, RingCounts
<1>6. \A i \in 1 .. Slots, d \in Clients : Holds(i, d)' <=> (Holds(i, d) /\ i # at)
  BY <1>0, <1>1 DEF Holds
<1>7. \A d \in Clients : /\ Held(d)' <=> (Held(d) /\ d # c)
                         /\ Queued(d)' <=> Queued(d)
                         /\ InRing(d)' <=> InRing(d)
                         /\ Waits(d)' <=> (Waits(d) /\ d # c)
  <2>1. ASSUME NEW d \in Clients PROVE Held(d)' <=> (Held(d) /\ d # c)
    <3>1. \A i \in 1 .. Slots : Holds(i, c) => i = at
      BY <1>1 DEF IOInv, PlaceInv
    <3>2. d # c => ~Holds(at, d)
      BY <1>1 DEF Holds
    <3> QED BY <3>1, <3>2, <1>6 DEF Held
  <2>2. \A d \in Clients : Waits(d)' <=> (Waits(d) /\ d # c)
    BY <1>0, <1>3 DEF Waits
  <2> QED BY <2>1, <2>2, <1>0 DEF Queued, InRing
<1>8. PlaceInv'
  BY <1>0, <1>1, <1>2, <1>6, <1>7 DEF IOInv, PlaceInv
<1>9. StateInv'
  BY <1>0, <1>1, <1>4, <1>7 DEF IOInv, StateInv
<1>10. ~MayFail => DataInv'
  BY <1>0, <1>1, <1>3, <1>4, <1>7 DEF IOInv, DataInv
<1> QED BY <1>5, <1>8, <1>9, <1>10 DEF IOInv

LEMMA PopNextStep ==
  ASSUME Parameters, IOInv, PopNext
  PROVE  IOInv'
<1>0. UNCHANGED <<pc, req, buf, mesg, state, finish, sq, flight, cq, num_preparing_,
                  num_processing_, disk, version, stop_>>
  BY DEF PopNext, clientVars, ringVars, diskVars
<1>1. /\ spc = "next" /\ at \in 1 .. Slots /\ TypeOK
      /\ slot \in [1 .. Slots -> Clients \union {None}]
  BY DEF PopNext, Server, IOInv, TypeOK
<1>2. at' \in 1 .. Slots /\ spc' = "slot" /\ gone' \in BOOLEAN
  BY <1>1, NextSlotType DEF PopNext
<1>3. CASE channel # <<>> /\ slot' = [slot EXCEPT ![at] = Head(channel)] /\ channel' = Tail(channel)
  <2>1. \A d \in Clients : ~Holds(at, d)
    BY <1>1 DEF Holds
  <2> QED BY <2>1, <1>0, <1>1, <1>2, <1>3, SlotTakes
<1>4. CASE channel = <<>> /\ slot' = [slot EXCEPT ![at] = None] /\ UNCHANGED channel
  <2>1. /\ slot' \in [1 .. Slots -> Clients \union {None}]
        /\ \A i \in 1 .. Slots : slot'[i] = IF i = at THEN None ELSE slot[i]
    BY <1>1, <1>4
  <2>2. \A i \in 1 .. Slots, d \in Clients : Holds(i, d)' <=> Holds(i, d)
    BY <2>1, <1>1, <1>2 DEF Holds, Parameters
  <2> QED BY <2>1, <2>2, <1>0, <1>1, <1>2, <1>4, SlotKeeps
<1> QED BY <1>3, <1>4 DEF PopNext

\* Steps that change at most stop_.
LEMMA OnlyStopChanges ==
  ASSUME IOInv, stop_' \in BOOLEAN,
         UNCHANGED <<pc, req, buf, mesg, channel, slot, state, finish, at, spc, sq, flight,
                     cq, num_preparing_, num_processing_, disk, version, gone>>
  PROVE  IOInv'
<1>1. TypeOK' /\ ClientInv' /\ RingInv'
  BY DEF IOInv, TypeOK, ClientInv, RingInv, RingCounts
<1>2. /\ UNCHANGED Cur
      /\ \A d \in Clients : Waits(d)' <=> Waits(d)
      /\ \A d \in Clients : InRing(d)' <=> InRing(d)
  BY DEF Cur, Waits, InRing
<1>3. PlaceInv'
  BY <1>2, PlaceInvKept DEF IOInv, PlaceInv
<1>4. \A d \in Clients : /\ Held(d)' <=> Held(d)
                         /\ Queued(d)' <=> Queued(d)
  BY PlacesKept
<1>5. StateInv' /\ (~MayFail => DataInv')
  BY <1>2, <1>4 DEF IOInv, StateInv, DataInv
<1> QED BY <1>1, <1>3, <1>5 DEF IOInv

-----------------------------------------------------------------------------
(* The invariant. *)

LEMMA IOInvInit ==
  ASSUME Parameters, Init
  PROVE  IOInv
<1>1. TypeOK
  <2>1. <<>> \in Seq(Clients) /\ Len(<<>>) = 0
    BY EmptySeq
  <2>2. /\ pc \in [Clients -> {"idle", "push", "wait"}]
        /\ req \in [Clients -> [page : Pages, read : BOOLEAN] \union {None}]
        /\ mesg \in [Clients -> {"none", "unset", "set"}]
        /\ slot \in [1 .. Slots -> Clients \union {None}]
        /\ state \in [Clients -> {"Commit", "Poll", "End"}]
        /\ finish \in [Clients -> BOOLEAN]
    BY DEF Init
  <2>3. buf \in [Clients -> 0 .. Junk] /\ disk \in [Pages -> 0 .. MaxVersion]
    BY DEF Init, Parameters, Junk
  <2>4. /\ channel \in Seq(Clients) /\ Len(channel) <= ChannelCap
        /\ sq \in Seq(Clients) /\ Len(sq) <= Depth /\ cq \in Seq(Clients)
    BY <2>1 DEF Init, Parameters
  <2>5. /\ at \in 1 .. Slots /\ version \in 0 .. MaxVersion
        /\ num_preparing_ \in Nat /\ num_processing_ \in Nat
    BY DEF Init, Parameters
  <2>6. /\ spc \in {"slot", "process", "submit", "reap", "post", "next"}
        /\ flight \subseteq Clients /\ stop_ \in BOOLEAN /\ gone \in BOOLEAN
    BY DEF Init
  <2> QED BY <2>2, <2>3, <2>4, <2>5, <2>6 DEF TypeOK
<1>2. ClientInv
  BY DEF Init, ClientInv
<1>3. \A c \in Clients : ~Queued(c) /\ ~Held(c) /\ ~InRing(c) /\ ~Waits(c)
  BY EmptyMembers DEF Init, Queued, Held, Holds, InRing, Waits, Parameters
<1>4. PlaceInv /\ StateInv /\ DataInv
  <2>1. IsInjective(channel) /\ Members(cq) = {}
    BY EmptyMembers DEF Init
  <2>2. \A i \in 1 .. Slots, c \in Clients : ~Holds(i, c)
    BY <1>3 DEF Held
  <2>3. PlaceInv
    BY <1>3, <2>1, <2>2 DEF Init, PlaceInv
  <2>4. StateInv
    BY <1>3 DEF Init, StateInv
  <2>5. DataInv
    BY <1>3, <2>1 DEF Init, DataInv
  <2> QED BY <2>3, <2>4, <2>5
<1>5. RingInv
  <2>1. Members(<<>>) = {} /\ IsInjective(<<>>) /\ Len(<<>>) = 0 /\ Cardinality({}) = 0
    BY EmptyMembers, EmptySeq, FS_EmptySet
  <2> QED BY <2>1 DEF Init, RingInv, RingCounts
<1> QED BY <1>1, <1>2, <1>4, <1>5 DEF IOInv

LEMMA IOInvStep ==
  ASSUME Parameters, IOInv, [Next]_vars
  PROVE  IOInv'
<1>1. ASSUME NEW c \in Clients, NEW p \in Pages, NEW read \in BOOLEAN, Ask(c, p, read)
      PROVE  IOInv'
  BY <1>1, AskStep
<1>2. ASSUME NEW c \in Clients, SendRequest(c) \/ Await(c) \/ Complete(c)
      PROVE  IOInv'
  BY <1>2, SendRequestStep, AwaitStep, CompleteStep
<1>3. CASE Run
  BY <1>3, TakeStep, ProcessStep, ProgressSubmitStep, ProgressReapStep, PostStep, PopNextStep
     DEF Run
<1>4. CASE Stop
  BY <1>4, OnlyStopChanges DEF Stop, clientVars, ringVars, diskVars
<1>5. CASE UNCHANGED vars
  <2>1. stop_' \in BOOLEAN
    BY <1>5 DEF vars, IOInv, TypeOK
  <2> QED BY <2>1, <1>5, OnlyStopChanges DEF vars
<1>6. CASE Ended
  BY <1>5, <1>6 DEF Ended
<1> QED BY <1>1, <1>2, <1>3, <1>4, <1>5, <1>6 DEF Next

\* Every state of the server satisfies the inductive invariant: each request that is
\* waited for is in one place, as far as its state says, and the ring's counters count
\* its entries.
THEOREM IOInvariance == Parameters /\ Spec => []IOInv
<1>1. ASSUME Parameters PROVE Spec => []IOInv
  <2>1. Init => IOInv
    BY <1>1, IOInvInit
  <2>2. IOInv /\ [Next]_vars => IOInv'
    BY <1>1, IOInvStep
  <2> QED BY <2>1, <2>2, PTL DEF Spec
<1> QED BY <1>1

\* Run and ProcessFunc answer a request only after the kernel has completed it, if no
\* completion carries an error: whoever finds its message set has the page in its
\* buffer, or its buffer in the file.
THEOREM AnswersAreDone == Parameters /\ ~MayFail /\ Spec => []AnswerMeansDone
<1>1. ASSUME ~MayFail PROVE IOInv => AnswerMeansDone
  BY <1>1 DEF IOInv, DataInv, AnswerMeansDone
<1>2. ASSUME Parameters, ~MayFail PROVE Spec => []AnswerMeansDone
  <2>1. Spec => []IOInv
    BY <1>2, IOInvariance
  <2>2. IOInv => AnswerMeansDone
    BY <1>1, <1>2
  <2> QED BY <2>1, <2>2, PTL
<1> QED BY <1>2

\* Run posts the message of a client that still waits for it: no request is answered
\* twice, and no message is written after its client has deleted it.
THEOREM MessagesAreAlive == Parameters /\ Spec => []MessageAlive
<1>1. ASSUME IOInv PROVE MessageAlive
  <2> SUFFICES ASSUME Server("post") PROVE pc[Cur] = "wait" /\ mesg[Cur] = "unset"
    BY DEF MessageAlive
  <2>1. Cur \in Clients /\ Held(Cur)
    BY <1>1, CurIsHeld DEF Server
  <2> QED BY <2>1, <1>1, RequestIsWaited
<1>2. ASSUME Parameters PROVE Spec => []MessageAlive
  <2>1. Spec => []IOInv
    BY <1>2, IOInvariance
  <2> QED BY <2>1, <1>1, PTL
<1> QED BY <1>2

\* A request that is waited for is in the channel once or in one slot, and in no other
\* place; one that has been answered is in none.
THEOREM RequestsInOnePlace == Parameters /\ Spec => []OnePlace
<1>1. ASSUME Parameters, IOInv PROVE OnePlace
  <2> SUFFICES ASSUME NEW c \in Clients
               PROVE  Cardinality({i \in 1 .. Len(channel) : channel[i] = c}) +
                      Cardinality({i \in 1 .. Slots : slot[i] = c /\ ~(i = at /\ spc = "next")}) =
                      IF pc[c] = "wait" /\ mesg[c] = "unset" THEN 1 ELSE 0
    BY DEF OnePlace
  <2> DEFINE P == {i \in 1 .. Len(channel) : channel[i] = c}
             S == {i \in 1 .. Slots : slot[i] = c /\ ~(i = at /\ spc = "next")}
  <2>1. channel \in Seq(Clients) /\ IsInjective(channel)
    BY <1>1 DEF IOInv, TypeOK, PlaceInv
  <2>2. /\ Queued(c) <=> \E i \in 1 .. Len(channel) : channel[i] = c
        /\ \A i, j \in 1 .. Len(channel) : channel[i] = channel[j] => i = j
    BY <2>1, MembersOf DEF Queued
  <2>3. (Queued(c) => Cardinality(P) = 1) /\ (~Queued(c) => Cardinality(P) = 0)
    <3>1. ASSUME Queued(c) PROVE \E i : P = {i}
      <4>1. PICK i \in 1 .. Len(channel) : channel[i] = c
        BY <2>2, <3>1
      <4>2. P = {i}
        BY <4>1, <2>2
      <4> QED BY <4>2
    <3>2. ~Queued(c) => P = {}
      BY <2>2
    <3> HIDE DEF P
    <3> QED BY <3>1, <3>2, FS_Singleton, FS_EmptySet
  <2>4. (Held(c) => Cardinality(S) = 1) /\ (~Held(c) => Cardinality(S) = 0)
    <3>1. \A i, j \in 1 .. Slots : Holds(i, c) /\ Holds(j, c) => i = j
      BY <1>1 DEF IOInv, PlaceInv
    <3>2. S = {i \in 1 .. Slots : Holds(i, c)}
      BY DEF Holds
    <3>3. ASSUME Held(c) PROVE \E i : S = {i}
      BY <3>1, <3>2, <3>3 DEF Held
    <3>4. ~Held(c) => S = {}
      BY <3>2 DEF Held
    <3> HIDE DEF S
    <3> QED BY <3>3, <3>4, FS_Singleton, FS_EmptySet
  <2>5. /\ (pc[c] = "wait" /\ mesg[c] = "unset") <=> (Queued(c) \/ Held(c))
        /\ ~(Queued(c) /\ Held(c))
    BY <1>1, RequestIsWaited
  <2> HIDE DEF P, S
  <2>6. Cardinality(P) + Cardinality(S) = IF pc[c] = "wait" /\ mesg[c] = "unset" THEN 1 ELSE 0
    BY <2>3, <2>4, <2>5
  <2> QED BY <2>6 DEF P, S
<1>2. ASSUME Parameters PROVE Spec => []OnePlace
  <2>1. Spec => []IOInv
    BY <1>2, IOInvariance
  <2>2. IOInv => OnePlace
    BY <1>1, <1>2
  <2> QED BY <2>1, <2>2, PTL
<1> QED BY <1>2

\* Progress counts every entry that is prepared and every one that the kernel has: it
\* never skips io_uring_submit while entries wait, and num_processing_ does not wrap.
THEOREM RingCountsRight == Parameters /\ Spec => []RingCounts
<1>1. IOInv => RingCounts
  BY DEF IOInv, RingInv
<1>2. ASSUME Parameters PROVE Spec => []RingCounts
  <2>1. Spec => []IOInv
    BY <1>2, IOInvariance
  <2> QED BY <2>1, <1>1, PTL
<1> QED BY <1>2
=============================================================================
