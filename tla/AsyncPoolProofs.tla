--------------------------- MODULE AsyncPoolProofs ---------------------------
(***************************************************************************)
(* Proofs about the asynchronous path: AsyncInv is an invariant for any    *)
(* clients, pages and frames, any lists of pages that are asked for, and   *)
(* any size of the channels and of the arrays of the two servers.  From it *)
(* follow BlockCurrent, PinsExact and OneRequestPerFuture.                 *)
(***************************************************************************)
EXTENDS AsyncPool, FiniteSetTheorems, SequenceTheorems, TLAPS

-----------------------------------------------------------------------------
(* What the parts of the state are. *)

\* A queue is shifted by taking its head.
LEMMA HeadTail ==
  ASSUME NEW S, NEW s \in Seq(S), s # <<>>
  PROVE  /\ Len(s) \in Nat \ {0} /\ Head(s) \in S /\ Head(s) = s[1]
         /\ Tail(s) \in Seq(S) /\ Len(Tail(s)) = Len(s) - 1
         /\ \A n \in 1 .. Len(Tail(s)) : Tail(s)[n] = s[n + 1] /\ n + 1 \in 1 .. Len(s)
         /\ \A n \in 1 .. Len(s) : n = 1 \/ (n - 1 \in 1 .. Len(Tail(s)) /\ Tail(s)[n - 1] = s[n])
<1>1. /\ Len(s) \in Nat \ {0} /\ Head(s) \in S /\ Head(s) = s[1]
      /\ Tail(s) \in Seq(S) /\ Len(Tail(s)) = Len(s) - 1
      /\ \A n \in 1 .. Len(Tail(s)) : Tail(s)[n] = s[n + 1]
  BY HeadTailProperties, EmptySeq, LenProperties
<1> DEFINE t == Tail(s)
<1>2. /\ Len(t) = Len(s) - 1 /\ Len(s) \in Nat \ {0}
      /\ \A n \in 1 .. Len(t) : t[n] = s[n + 1]
  BY <1>1
<1> HIDE DEF t
<1>3. \A n \in 1 .. Len(t) : n + 1 \in 1 .. Len(s)
  BY <1>2
<1>4. ASSUME NEW n \in 1 .. Len(s), n # 1 PROVE n - 1 \in 1 .. Len(t) /\ t[n - 1] = s[n]
  <2>1. n - 1 \in 1 .. Len(t) /\ (n - 1) + 1 = n
    BY <1>2, <1>4
  <2>2. t[n - 1] = s[(n - 1) + 1]
    BY <2>1, <1>2
  <2> QED BY <2>1, <2>2
<1> QED BY <1>1, <1>3, <1>4 DEF t

\* The fields of a request.
LEMMA RequestFields ==
  ASSUME NEW r \in Req
  PROVE  /\ r.page \in Pages /\ r.to \in Clients \X Nat
         /\ r.to[1] \in Clients /\ r.to[2] \in Nat /\ r.to = <<r.to[1], r.to[2]>>
         /\ r.frame \in Frames \cup {None} /\ r.io \in {"none", "sent", "done"}
         /\ r.phase \in {"Begin", "Initing", "Evicting", "EvictingFinish", "Loading",
                         "LoadingFinish", "End", "exhausted"}
BY DEF Req

\* A place that is not empty has a request.
LEMMA PlaceHasRequest ==
  ASSUME TypeOK, NEW k \in InPlaces
  PROVE  k \in 1 .. Places /\ place[k] \in Req
BY DEF TypeOK, InPlaces

\* The pages of a call.
LEMMA CallTypes ==
  ASSUME TypeOK, NEW c \in Clients
  PROVE  /\ Count(c) \in Nat /\ Count(c) = Len(pages[c])
         /\ \A k \in 1 .. Count(c) : /\ pages[c][k] \in Pages
                                     /\ fut[c][k] \in Frames \cup {"none", "pending"}
                                     /\ blk[c][k] \in Frames \cup {None}
<1>1. pages[c] \in Seq(Pages)
  BY DEF TypeOK
<1>2. Len(pages[c]) \in Nat /\ \A k \in 1 .. Len(pages[c]) : pages[c][k] \in Pages
  BY <1>1, LenProperties, ElementOfSeq
<1> QED BY <1>2 DEF TypeOK, Count

\* The futures of the calls are finite in number.
LEMMA FuturesFinite ==
  ASSUME Parameters, TypeOK
  PROVE  /\ IsFiniteSet(Futures)
         /\ \A x : x \in Futures <=> \E c \in Clients : \E k \in 1 .. Count(c) : x = <<c, k>>
         /\ \A f : IsFiniteSet(Refs(f))
<1>1. \A x : x \in Futures <=> \E c \in Clients : \E k \in 1 .. Count(c) : x = <<c, k>>
  BY DEF Futures
<1> DEFINE F(c) == {c} \X (1 .. Count(c))
<1>2. \A c \in Clients : IsFiniteSet(F(c))
  <2> TAKE c \in Clients
  <2>1. Count(c) \in Nat
    BY CallTypes
  <2>2. IsFiniteSet(1 .. Count(c))
    BY <2>1, FS_Interval
  <2>3. IsFiniteSet({c})
    BY FS_Singleton
  <2> QED BY <2>2, <2>3, FS_Product
<1> DEFINE All == {F(c) : c \in Clients}
<1>3. IsFiniteSet(All)
  <2>1. IsFiniteSet(Clients)
    BY DEF Parameters
  <2> DEFINE g == [c \in Clients |-> F(c)]
  <2>2. g \in Surjection(Clients, All)
    BY DEF Surjection
  <2> HIDE DEF g, All
  <2> QED BY <2>1, <2>2, FS_Surjection
<1>4. \A T \in All : IsFiniteSet(T)
  BY <1>2
<1>5. IsFiniteSet(UNION All)
  <2> HIDE DEF All
  <2> QED BY <1>3, <1>4, FS_UNION
<1>6. Futures = UNION All
  BY DEF Futures
<1>7. IsFiniteSet(Futures)
  BY <1>5, <1>6
<1>8. ASSUME NEW f PROVE IsFiniteSet(Refs(f))
  <2>1. Refs(f) \in SUBSET Futures
    BY DEF Refs
  <2> QED BY <2>1, <1>7, FS_Subset
<1> QED BY <1>1, <1>7, <1>8

\* A future by the call and the page.
LEMMA RefsOf ==
  ASSUME NEW f, NEW c \in Clients, NEW k \in 1 .. Count(c)
  PROVE  <<c, k>> \in Refs(f) <=> Refers(c, k, f)
BY DEF Refs, Futures

\* The futures that refer to a frame do not change if none of them does.
LEMMA RefsKept ==
  ASSUME UNCHANGED pages, NEW f,
         \A c \in Clients : \A k \in 1 .. Count(c) : Refers(c, k, f)' <=> Refers(c, k, f)
  PROVE  Refs(f)' = Refs(f)
<1>1. Futures' = Futures /\ \A c \in Clients : Count(c)' = Count(c)
  BY DEF Futures, Count
<1>2. ASSUME NEW x \in Futures
      PROVE  Refers(x[1], x[2], f)' <=> Refers(x[1], x[2], f)
  <2>1. PICK c \in Clients : x \in {c} \X (1 .. Count(c))
    BY DEF Futures
  <2>2. x[1] = c /\ x[2] \in 1 .. Count(c)
    BY <2>1
  <2> QED BY <2>2
<1> QED BY <1>1, <1>2 DEF Refs

\* A frame that is referred to has a count, and its page is in it.
LEMMA ReferredCounts ==
  ASSUME Parameters, AsyncInv, NEW f \in Frames,
         NEW c \in Clients, NEW k \in 1 .. Count(c), Refers(c, k, f)
  PROVE  pte[f].ref # 0 /\ mapping[pages[c][k]] = f /\ f \in repl /\ pte[f].page = pages[c][k]
<1>1. mapping[pages[c][k]] = f /\ pages[c][k] \in Pages
  BY CallTypes DEF AsyncInv, RefInv
<1>2. <<c, k>> \in Refs(f) /\ IsFiniteSet(Refs(f))
  BY RefsOf, FuturesFinite DEF AsyncInv
<1>3. Cardinality(Refs(f)) # 0
  BY <1>2, FS_EmptySet
<1> QED BY <1>1, <1>3 DEF AsyncInv, RefInv, TableInv

\* A page whose future is pending has no frame in the block.
LEMMA PendingIsEmpty ==
  ASSUME Parameters, AsyncInv, NEW c \in Clients, NEW k \in 1 .. Count(c),
         fut[c][k] = "pending", pc[c] # "held"
  PROVE  blk[c][k] = None /\ pc[c] \in {"begin", "check", "wait"} /\ Asked(c, k)
         /\ (pc[c] = "begin" => k \notin i[c] .. Count(c))
<1>1. Count(c) # 0 /\ Count(c) \in Nat
  BY CallTypes DEF AsyncInv
<1>2. pc[c] \in {"begin", "check", "wait"}
  BY <1>1 DEF AsyncInv, CallInv, TypeOK
<1>3. CASE pc[c] = "begin"
  <2>1. i[c] \in 1 .. Count(c)
    BY <1>3 DEF AsyncInv, CallInv
  <2>2. k \notin i[c] .. Count(c)
    BY <1>3 DEF AsyncInv, CallInv
  <2>3. k \in 1 .. i[c] - 1
    BY <1>1, <2>1, <2>2
  <2>4. Asked(c, k)
    BY <2>3, <1>3 DEF AsyncInv, CallInv
  <2> QED BY <1>2, <2>2, <2>4 DEF Asked
<1>4. CASE pc[c] \in {"check", "wait"}
  <2>1. Asked(c, k)
    BY <1>4 DEF AsyncInv, CallInv
  <2> QED BY <1>4, <2>1 DEF Asked
<1> QED BY <1>2, <1>3, <1>4

\* The future of a request that is not done refers to nothing yet.
LEMMA PendingRefersNothing ==
  ASSUME Parameters, AsyncInv, NEW r \in Req, Wanted(r),
         \A j \in InPlaces : place[j].to = r.to => place[j].phase # "End"
  PROVE  \A f \in Frames : ~Refers(r.to[1], r.to[2], f)
<1>1. PICK c \in Clients, k \in Nat : r.to = <<c, k>> /\ r.to[1] = c /\ r.to[2] = k
  BY RequestFields
<1>2. k \in 1 .. Count(c) /\ fut[c][k] = "pending" /\ pc[c] # "held"
  BY <1>1 DEF Wanted
<1>3. blk[c][k] = None
  BY <1>2, PendingIsEmpty
<1> QED BY <1>1, <1>2, <1>3 DEF Refers, IsFor, Parameters

-----------------------------------------------------------------------------
(* Steps that leave parts of the state alone. *)

\* The server of the pool changes the request in one place.
LEMMA PlaceChange ==
  ASSUME Parameters, TypeOK, NEW k \in InPlaces, NEW r \in Req,
         place' = [place EXCEPT ![k] = r]
  PROVE  /\ InPlaces' = InPlaces /\ place' \in [1 .. Places -> Req \cup {None}]
         /\ k \in 1 .. Places /\ place'[k] = r
         /\ \A S : Phase(k, S)' <=> r.phase \in S
         /\ \A j \in 1 .. Places : j # k => /\ place'[j] = place[j]
                                            /\ \A S : Phase(j, S)' <=> Phase(j, S)
<1>1. k \in 1 .. Places /\ place \in [1 .. Places -> Req \cup {None}] /\ r # None
  BY PlaceHasRequest DEF Parameters, TypeOK
<1>2. /\ place'[k] = r /\ \A j \in 1 .. Places : j # k => place'[j] = place[j]
      /\ place' \in [1 .. Places -> Req \cup {None}]
  BY <1>1
<1>3. InPlaces' = InPlaces
  BY <1>1, <1>2 DEF InPlaces
<1> QED BY <1>1, <1>2, <1>3 DEF Phase

\* The request keeps its page and its future: no call notices.
LEMMA CallsKept ==
  ASSUME Parameters, AsyncInv, NEW k \in InPlaces, NEW r \in Req,
         place' = [place EXCEPT ![k] = r],
         r.page = place[k].page, r.to = place[k].to,
         UNCHANGED <<chan, mchan, mplace, mat, pc, pages, i, fut, blk, left>>
  PROVE  CallInv' /\ ManagerInv' /\ RequestInv'
<1>1. /\ InPlaces' = InPlaces
      /\ \A j \in InPlaces : place'[j].to = place[j].to /\ place'[j].page = place[j].page
  <2>1. \A j \in InPlaces : j \in 1 .. Places
    BY DEF InPlaces
  <2> QED BY <2>1, PlaceChange DEF AsyncInv
<1>2. \A c \in Clients : Count(c)' = Count(c)
  BY DEF Count
<1>3. CallInv'
  BY <1>2 DEF AsyncInv, CallInv, Asked
<1>4. ManagerInv'
  BY DEF AsyncInv, ManagerInv, Count
<1>5. RequestInv'
  <2>1. \A j \in InPlaces : Wanted(place[j])'
    BY <1>1 DEF AsyncInv, RequestInv, Wanted, Count
  <2>2. \A n \in 1 .. Len(chan) : Wanted(chan[n])'
    BY DEF AsyncInv, RequestInv, Wanted, Count
  <2>3. chan' = chan /\ RequestInv
    BY DEF AsyncInv
  <2>4. /\ \A j, n \in InPlaces : place'[j].to = place'[n].to => j = n
        /\ \A n \in 1 .. Len(chan), j \in InPlaces : chan[n].to # place'[j].to
    BY <2>3, <1>1 DEF RequestInv
  <2>5. \A c \in Clients : \A n \in 1 .. Count(c) : fut[c][n] = "pending" /\ pc[c] # "held" =>
          \/ \E m \in 1 .. Len(chan) : IsFor(chan[m], c, n)
          \/ \E j \in InPlaces : IsFor(place'[j], c, n)
    <3>1. \A j \in InPlaces : \A c, n : IsFor(place[j], c, n) <=> IsFor(place'[j], c, n)
      BY <1>1 DEF IsFor
    <3> QED BY <2>3, <3>1 DEF RequestInv
  <2>6. \A n \in 1 .. Len(chan) : chan[n].phase = "Begin" /\ chan[n].io = "none"
    BY <2>3 DEF RequestInv
  <2>7. \A m, n \in 1 .. Len(chan) : chan[m].to = chan[n].to => m = n
    BY <2>3 DEF RequestInv
  <2>8. UNCHANGED <<chan, pc, fut>>
    OBVIOUS
  <2>9. \A n \in 1 .. Len(chan)' : /\ Wanted(chan[n])'
                                   /\ chan'[n].phase = "Begin" /\ chan'[n].io = "none"
    BY <2>2, <2>6, <2>8
  <2>10. \A c \in Clients : \A n \in 1 .. Count(c)' :
           fut'[c][n] = "pending" /\ pc'[c] # "held" =>
             \/ \E m \in 1 .. Len(chan)' : IsFor(chan'[m], c, n)
             \/ \E j \in InPlaces' : IsFor(place'[j], c, n)
    BY <2>5, <2>8, <1>1, <1>2
  <2>11. /\ \A j, n \in InPlaces' : place'[j].to = place'[n].to => j = n
         /\ \A n \in 1 .. Len(chan)', j \in InPlaces' : chan'[n].to # place'[j].to
         /\ \A m, n \in 1 .. Len(chan)' : chan'[m].to = chan'[n].to => m = n
    BY <2>4, <2>7, <2>8, <1>1
  <2>12. \A j \in InPlaces' : Wanted(place[j])'
    BY <2>1, <1>1
  <2> QED BY <2>9, <2>10, <2>11, <2>12 DEF RequestInv
<1> QED BY <1>3, <1>4, <1>5

\* A request that is not done before and after the step refers to nothing.
LEMMA RefersKept ==
  ASSUME Parameters, AsyncInv, NEW k \in InPlaces, NEW r \in Req,
         place' = [place EXCEPT ![k] = r],
         (place[k].phase # "End" /\ r.phase # "End") \/ r = place[k],
         UNCHANGED <<pc, fut, blk>>
  PROVE  \A c, n, f : Refers(c, n, f)' <=> Refers(c, n, f)
<1>1. /\ InPlaces' = InPlaces /\ place'[k] = r
      /\ \A j \in InPlaces : j # k => place'[j] = place[j]
  <2>1. \A j \in InPlaces : j \in 1 .. Places
    BY DEF InPlaces
  <2> QED BY <2>1, PlaceChange DEF AsyncInv
<1> QED BY <1>1 DEF Refers

\* The place the server is at, if it has a request.
LEMMA AtPlace ==
  ASSUME AsyncInv, NEW l, In(l)
  PROVE  \E k \in InPlaces, r \in Req : k = at /\ r = Cur /\ place[k] = r /\ r.phase = l
<1>1. at \in InPlaces /\ Cur.phase = l /\ Cur = place[at]
  BY DEF In, Cur, InPlaces, AsyncInv, TypeOK
<1>2. place[at] \in Req
  BY <1>1, PlaceHasRequest DEF AsyncInv
<1> QED BY <1>1, <1>2

\* Going to the next place.
LEMMA FollowingType ==
  ASSUME Parameters, NEW k \in 1 .. Places
  PROVE  Following(k) \in 1 .. Places
BY DEF Parameters, Following

\* Steps of the server that end with Go or False.
LEMMA GoOrFalse ==
  ASSUME Parameters, AsyncInv, NEW k \in InPlaces, k = at, NEW r \in Req, Go(r) \/ False(r)
  PROVE  /\ place' = [place EXCEPT ![k] = r]
         /\ at' \in 1 .. Places /\ again' \in BOOLEAN
<1>1. at \in 1 .. Places /\ again \in BOOLEAN
  BY DEF AsyncInv, TypeOK
<1> QED BY <1>1, FollowingType DEF Go, False

\* What the requests have after such a change.
LEMMA PhasesAfter ==
  ASSUME Parameters, TypeOK, NEW k \in InPlaces, NEW r \in Req,
         place' = [place EXCEPT ![k] = r]
  PROVE  /\ Locks(k)' <=> r.phase \in {"Initing", "Evicting", "EvictingFinish", "Loading",
                                       "LoadingFinish", "exhausted"}
         /\ Carries(k)' <=> r.phase \in {"Evicting", "EvictingFinish", "Loading", "LoadingFinish"}
         /\ Evicts(k)' <=> r.phase \in {"Evicting", "EvictingFinish"}
         /\ Locks(k) <=> place[k].phase \in {"Initing", "Evicting", "EvictingFinish", "Loading",
                                       "LoadingFinish", "exhausted"}
         /\ Carries(k) <=> place[k].phase \in {"Evicting", "EvictingFinish", "Loading", "LoadingFinish"}
         /\ Evicts(k) <=> place[k].phase \in {"Evicting", "EvictingFinish"}
         /\ \A j \in 1 .. Places : j # k =>
              /\ Locks(j)' <=> Locks(j)
              /\ Carries(j)' <=> Carries(j)
              /\ Evicts(j)' <=> Evicts(j)
<1>1. k \in InPlaces /\ k \in 1 .. Places
  BY DEF InPlaces
<1>2. InPlaces' = InPlaces /\ place'[k] = r /\ \A j \in 1 .. Places : j # k => place'[j] = place[j]
  BY PlaceChange
<1>3. \A j \in 1 .. Places : j # k =>
        /\ Locks(j)' <=> Locks(j)
        /\ Carries(j)' <=> Carries(j)
        /\ Evicts(j)' <=> Evicts(j)
  BY <1>2 DEF Locks, Carries, Evicts, Phase
<1> QED BY <1>1, <1>2, <1>3 DEF Locks, Carries, Evicts, Phase

\* What PhaseInv says of one place, and of two.
OnePhase(j) ==
  /\ Locks(j) => mapping[place[j].page] = Busy
  /\ Carries(j) => place[j].frame \in Frames \ (free \cup repl)
  /\ Evicts(j) => Old(j) \in Pages /\ mapping[Old(j)] = Busy
  /\ Phase(j, {"End"}) => place[j].frame \in Frames /\ mapping[place[j].page] = place[j].frame
  /\ j \in InPlaces /\ place[j].io = "sent" => Phase(j, {"EvictingFinish", "LoadingFinish"})
  /\ Phase(j, {"Begin", "Initing", "Evicting"}) => place[j].io = "none"
  /\ Evicts(j) => place[j].page # Old(j)
TwoPhases(j, k) ==
  /\ Locks(j) /\ Locks(k) => place[j].page # place[k].page
  /\ Carries(j) /\ Carries(k) => place[j].frame # place[k].frame
  /\ Locks(j) /\ Evicts(k) => place[j].page # Old(k)
  /\ Evicts(j) /\ Evicts(k) => Old(j) # Old(k)

LEMMA PhaseParts ==
  PhaseInv <=> /\ \A j \in 1 .. Places : OnePhase(j)
               /\ \A j, k \in 1 .. Places : j # k => TwoPhases(j, k)
BY DEF PhaseInv, OnePhase, TwoPhases

\* A step that changes the request of one place leaves to the others what they have.
LEMMA PhaseStep ==
  ASSUME Parameters, AsyncInv, NEW k \in InPlaces, NEW r \in Req,
         place' = [place EXCEPT ![k] = r],
         \A j \in 1 .. Places : j # k =>
           /\ Locks(j) => mapping'[place[j].page] = Busy
           /\ Carries(j) => place[j].frame \notin free' \cup repl'
           /\ Evicts(j) => mapping'[Old(j)] = Busy /\ pte'[place[j].frame].page = Old(j)
           /\ Phase(j, {"End"}) => mapping'[place[j].page] = place[j].frame,
         OnePhase(k)',
         \A j \in 1 .. Places : j # k => TwoPhases(j, k)' /\ TwoPhases(k, j)'
  PROVE  PhaseInv'
<1>1. /\ \A j \in 1 .. Places : OnePhase(j)
      /\ \A j, n \in 1 .. Places : j # n => TwoPhases(j, n)
  BY PhaseParts DEF AsyncInv
<1>2. /\ InPlaces' = InPlaces /\ k \in 1 .. Places
      /\ \A j \in 1 .. Places : j # k => /\ place'[j] = place[j]
                                         /\ \A S : Phase(j, S)' <=> Phase(j, S)
  BY PlaceChange DEF AsyncInv
<1>3. \A j \in 1 .. Places : j # k =>
        /\ Locks(j)' <=> Locks(j)
        /\ Carries(j)' <=> Carries(j)
        /\ Evicts(j)' <=> Evicts(j)
  BY PhasesAfter DEF AsyncInv
<1>4. \A j \in 1 .. Places : j # k /\ Evicts(j) => Old(j)' = Old(j)
  BY <1>2 DEF Old
<1>5. ASSUME NEW j \in 1 .. Places, j # k PROVE OnePhase(j)'
  <2>1. place'[j] = place[j] /\ InPlaces' = InPlaces /\ OnePhase(j)
    BY <1>1, <1>2, <1>5
  <2>2. /\ Phase(j, {"End"})' <=> Phase(j, {"End"})
        /\ Phase(j, {"EvictingFinish", "LoadingFinish"})' <=> Phase(j, {"EvictingFinish", "LoadingFinish"})
        /\ Phase(j, {"Begin", "Initing", "Evicting"})' <=> Phase(j, {"Begin", "Initing", "Evicting"})
    BY <2>1 DEF Phase
  <2>3. /\ Locks(j)' <=> Locks(j)
        /\ Carries(j)' <=> Carries(j)
        /\ Evicts(j)' <=> Evicts(j)
        /\ Evicts(j) => Old(j)' = Old(j)
    BY <1>3, <1>4, <1>5
  <2> QED BY <2>1, <2>2, <2>3, <1>5 DEF OnePhase
<1>6. ASSUME NEW j \in 1 .. Places, NEW n \in 1 .. Places, j # k, n # k, j # n PROVE TwoPhases(j, n)'
  <2>1. place'[j] = place[j] /\ place'[n] = place[n] /\ TwoPhases(j, n)
    BY <1>1, <1>2, <1>6
  <2> QED BY <2>1, <1>3, <1>4, <1>6 DEF TwoPhases
<1>7. \A j \in 1 .. Places : OnePhase(j)'
  BY <1>5
<1>8. \A j, n \in 1 .. Places : j # n => TwoPhases(j, n)'
  BY <1>6
<1> QED BY <1>7, <1>8 DEF PhaseInv, OnePhase, TwoPhases

\* A step of the server, or of the ring, for the request in one place.
LEMMA ServerStep ==
  ASSUME Parameters, AsyncInv, NEW k \in InPlaces, NEW r \in Req,
         place' = [place EXCEPT ![k] = r],
         r.page = place[k].page, r.to = place[k].to,
         UNCHANGED <<chan, manager, client, written>>,
         at' \in 1 .. Places, again' \in BOOLEAN,
         mapping' \in [Pages -> Frames \cup {Empty, Busy}],
         pte' \in [Frames -> [page : Pages \cup {None}, ref : Nat, dirty : BOOLEAN]],
         free' \subseteq Frames, repl' \subseteq Frames,
         mem' \in [Frames -> Nat], disk' \in [Pages -> Nat]
  PROVE  TypeOK' /\ CallInv' /\ ManagerInv' /\ RequestInv'
<1>1. UNCHANGED <<chan, mchan, mplace, mat, pc, pages, i, fut, blk, left, written>>
  BY DEF manager, client
<1>2. CallInv' /\ ManagerInv' /\ RequestInv'
  BY <1>1, CallsKept
<1>3. place' \in [1 .. Places -> Req \cup {None}]
  BY PlaceChange DEF AsyncInv
<1>4. \A c \in Clients : Count(c)' = Count(c)
  BY <1>1 DEF Count
<1>5. TypeOK'
  BY <1>1, <1>3, <1>4 DEF AsyncInv, TypeOK
<1> QED BY <1>2, <1>5

\* The references stay what they are if only frames that have none lose their page.
LEMMA RefsStep ==
  ASSUME Parameters, AsyncInv, UNCHANGED pages,
         \A c \in Clients, f \in Frames : \A n \in 1 .. Count(c) : Refers(c, n, f)' <=> Refers(c, n, f),
         \A f \in Frames : pte'[f].ref = pte[f].ref,
         \A p \in Pages : mapping[p] \in Frames =>
           mapping'[p] = mapping[p] \/ pte[mapping[p]].ref = 0
  PROVE  RefInv'
<1>1. \A c \in Clients : Count(c)' = Count(c)
  BY DEF Count
<1>2. \A f \in Frames : Refs(f)' = Refs(f)
  BY RefsKept
<1>3. ASSUME NEW f \in Frames, NEW c \in Clients, NEW n \in 1 .. Count(c), Refers(c, n, f)
      PROVE  mapping'[pages[c][n]] = f
  <2>1. pte[f].ref # 0 /\ mapping[pages[c][n]] = f
    BY <1>3, ReferredCounts
  <2>2. pages[c][n] \in Pages
    BY CallTypes DEF AsyncInv
  <2> QED BY <2>1, <2>2
<1>4. \A f \in Frames, c \in Clients : \A n \in 1 .. Count(c)' :
        Refers(c, n, f)' => mapping'[pages'[c][n]] = f
  BY <1>1, <1>3
<1>5. \A f \in Frames : pte'[f].ref = Cardinality(Refs(f)')
  BY <1>2 DEF AsyncInv, RefInv
<1> QED BY <1>4, <1>5 DEF RefInv

-----------------------------------------------------------------------------
(* The steps of the server of the pool. *)

\* The request goes on, and the table stays as it is.
LEMMA PhaseOnly ==
  ASSUME Parameters, AsyncInv, NEW k \in InPlaces, NEW r \in Req, NEW s \in Req, place[k] = r,
         place' = [place EXCEPT ![k] = s], at' \in 1 .. Places, again' \in BOOLEAN,
         s.page = r.page, s.to = r.to, s.frame = r.frame,
         \/ r.phase = "Initing" /\ s.phase = "exhausted" /\ s.io = r.io
         \/ r.phase = "Evicting" /\ s.phase = "EvictingFinish" /\ s.io = "sent"
         \/ r.phase = "Loading" /\ s.phase = "LoadingFinish" /\ s.io = "sent",
         UNCHANGED <<table, mem, disk, chan, manager, client, written>>
  PROVE  AsyncInv'
<1>5. /\ UNCHANGED <<mapping, pte, free, repl, mem, disk, chan, manager, client, written>>
      /\ UNCHANGED <<pc, fut, blk, pages>>
  BY DEF table, client
<1>6. TypeOK' /\ CallInv' /\ ManagerInv' /\ RequestInv'
  <2>1. /\ mapping' \in [Pages -> Frames \cup {Empty, Busy}]
        /\ pte' \in [Frames -> [page : Pages \cup {None}, ref : Nat, dirty : BOOLEAN]]
        /\ free' \subseteq Frames /\ repl' \subseteq Frames
        /\ mem' \in [Frames -> Nat] /\ disk' \in [Pages -> Nat]
    BY <1>5 DEF AsyncInv, TypeOK
  <2> QED BY <1>5, <2>1, ServerStep
<1>7. RefInv'
  <2>1. \A c, n, f : Refers(c, n, f)' <=> Refers(c, n, f)
    BY <1>5, RefersKept
  <2> QED BY <1>5, <2>1, RefsStep
<1>8. TableInv'
  BY <1>5 DEF AsyncInv, TableInv
<1>9. /\ InPlaces' = InPlaces /\ k \in 1 .. Places /\ place'[k] = s
      /\ \A j \in 1 .. Places : j # k => place'[j] = place[j]
  BY PlaceChange DEF AsyncInv
<1>10. /\ Locks(k)' /\ Locks(k)
       /\ Carries(k)' <=> Carries(k)
       /\ Evicts(k)' <=> Evicts(k)
       /\ Evicts(k) <=> r.phase = "Evicting"
       /\ \A j \in 1 .. Places : j # k =>
            /\ Locks(j)' <=> Locks(j)
            /\ Carries(j)' <=> Carries(j)
            /\ Evicts(j)' <=> Evicts(j)
  BY PhasesAfter DEF AsyncInv
<1>11. PhaseInv'
  <2>1. /\ \A j \in 1 .. Places : OnePhase(j)
        /\ \A j, n \in 1 .. Places : j # n => TwoPhases(j, n)
    BY PhaseParts DEF AsyncInv
  <2>2. OnePhase(k)'
    BY <2>1, <1>5, <1>9, <1>10 DEF OnePhase, Phase, Old
  <2>3. ASSUME NEW j \in 1 .. Places, j # k PROVE TwoPhases(j, k)' /\ TwoPhases(k, j)'
    BY <2>1, <2>3, <1>5, <1>9, <1>10 DEF TwoPhases, Old
  <2>4. \A j \in 1 .. Places : j # k =>
          /\ Locks(j) => mapping'[place[j].page] = Busy
          /\ Carries(j) => place[j].frame \notin free' \cup repl'
          /\ Evicts(j) => mapping'[Old(j)] = Busy /\ pte'[place[j].frame].page = Old(j)
          /\ Phase(j, {"End"}) => mapping'[place[j].page] = place[j].frame
    BY <2>1, <1>5 DEF OnePhase, Old
  <2> QED BY <2>2, <2>3, <2>4, PhaseStep
<1>12. DataInv'
  BY <1>5, <1>9, <1>10 DEF AsyncInv, DataInv, Old, InPlaces
<1> QED BY <1>6, <1>7, <1>8, <1>11, <1>12 DEF AsyncInv

\* The request keeps its frame, whose old page gets no frame in the page table.
LEMMA UnmapStep ==
  ASSUME Parameters, AsyncInv, NEW k \in InPlaces, NEW r \in Req, NEW s \in Req, place[k] = r,
         place' = [place EXCEPT ![k] = s], at' \in 1 .. Places, again' \in BOOLEAN,
         s.page = r.page, s.to = r.to, s.frame = r.frame, s.phase = "Loading", s.io # "sent",
         r.phase \in {"Evicting", "EvictingFinish"}, disk[Old(k)] = written[Old(k)],
         mapping' = [mapping EXCEPT ![Old(k)] = Empty],
         UNCHANGED <<pte, free, repl, mem, disk, chan, manager, client, written>>
  PROVE  AsyncInv'
<1>1. UNCHANGED <<pte, free, repl, mem, disk, chan, manager, client, written, pc, fut, blk, pages>>
  BY DEF client
<1>2. /\ InPlaces' = InPlaces /\ k \in 1 .. Places /\ place'[k] = s
      /\ \A j \in 1 .. Places : j # k => place'[j] = place[j]
  BY PlaceChange DEF AsyncInv
<1>3. /\ Locks(k)' /\ Locks(k) /\ Carries(k)' /\ Carries(k) /\ ~Evicts(k)' /\ Evicts(k)
       /\ \A j \in 1 .. Places : j # k =>
            /\ Locks(j)' <=> Locks(j)
            /\ Carries(j)' <=> Carries(j)
            /\ Evicts(j)' <=> Evicts(j)
  BY PhasesAfter DEF AsyncInv
<1>4. /\ \A j \in 1 .. Places : OnePhase(j)
      /\ \A j, n \in 1 .. Places : j # n => TwoPhases(j, n)
  BY PhaseParts DEF AsyncInv
<1>5. /\ Old(k) \in Pages /\ mapping[Old(k)] = Busy /\ mapping'[Old(k)] = Empty
      /\ mapping \in [Pages -> Frames \cup {Empty, Busy}]
      /\ \A p \in Pages : p # Old(k) => mapping'[p] = mapping[p]
      /\ Empty \notin Frames /\ Busy \notin Frames /\ Empty # Busy
  BY <1>4, <1>2, <1>3 DEF OnePhase, AsyncInv, TypeOK, Parameters
<1>6. TypeOK' /\ CallInv' /\ ManagerInv' /\ RequestInv'
  <2>1. /\ mapping' \in [Pages -> Frames \cup {Empty, Busy}]
        /\ pte' \in [Frames -> [page : Pages \cup {None}, ref : Nat, dirty : BOOLEAN]]
        /\ free' \subseteq Frames /\ repl' \subseteq Frames
        /\ mem' \in [Frames -> Nat] /\ disk' \in [Pages -> Nat]
    BY <1>5, <1>1 DEF AsyncInv, TypeOK
  <2> QED BY <1>1, <2>1, ServerStep
<1>7. RefInv'
  <2>1. \A c, n, f : Refers(c, n, f)' <=> Refers(c, n, f)
    BY <1>1, RefersKept
  <2> QED BY <1>5, <1>1, <2>1, RefsStep
<1>8. TableInv'
  <2>1. repl \subseteq Frames
    BY DEF AsyncInv, TypeOK
  <2> QED BY <2>1, <1>5, <1>1 DEF AsyncInv, TableInv
<1>9. PhaseInv'
  <2>1. OnePhase(k)'
    BY <1>4, <1>5, <1>1, <1>2, <1>3 DEF OnePhase, Phase, AsyncInv, TypeOK, Req
  <2>2. ASSUME NEW j \in 1 .. Places, j # k PROVE TwoPhases(j, k)' /\ TwoPhases(k, j)'
    BY <1>4, <2>2, <1>1, <1>2, <1>3 DEF TwoPhases, Old
  <2>3. \A j \in InPlaces : place[j].page \in Pages
    BY PlaceHasRequest, RequestFields DEF AsyncInv
  <2>4. ASSUME NEW j \in 1 .. Places, j # k
        PROVE  /\ Locks(j) => mapping'[place[j].page] = Busy
               /\ Carries(j) => place[j].frame \notin free' \cup repl'
               /\ Evicts(j) => mapping'[Old(j)] = Busy /\ pte'[place[j].frame].page = Old(j)
               /\ Phase(j, {"End"}) => mapping'[place[j].page] = place[j].frame
    <3>1. OnePhase(j) /\ TwoPhases(j, k)
      BY <1>4, <1>2, <2>4
    <3>2. Locks(j) => j \in InPlaces /\ place[j].page # Old(k)
      BY <3>1, <1>3 DEF TwoPhases, Locks, Phase
    <3>3. Evicts(j) => Old(j) # Old(k)
      BY <3>1, <1>3 DEF TwoPhases
    <3>4. Phase(j, {"End"}) => j \in InPlaces
      BY DEF Phase
    <3> QED BY <3>1, <3>2, <3>3, <3>4, <2>3, <1>5, <1>1 DEF OnePhase, Old
  <2> QED BY <2>1, <2>2, <2>4, PhaseStep
<1>10. DataInv'
  <2>1. \A p \in Pages : LET f == mapping'[p] IN
          /\ f \in Frames => mem[f] = written[p] /\ (pte[f].dirty \/ disk[p] = written[p])
          /\ f = Empty => disk[p] = written[p]
    BY <1>5 DEF AsyncInv, DataInv
  <2>2. \A j \in InPlaces : LET q == place'[j] IN
       /\ Locks(j)' => disk[q.page] = written[q.page]
       /\ Evicts(j)' => /\ mem[q.frame] = written[Old(j)']
                       /\ \/ disk[Old(j)'] = written[Old(j)']
                          \/ q.phase = "Evicting" /\ pte[q.frame].dirty
                          \/ q.phase = "EvictingFinish" /\ q.io # "done"
       /\ q.phase = "LoadingFinish" /\ q.io = "done" => mem[q.frame] = disk[q.page]
    BY <1>1, <1>2, <1>3 DEF AsyncInv, DataInv, Old, InPlaces
  <2> QED BY <2>1, <2>2, <1>1, <1>2 DEF DataInv
<1> QED BY <1>6, <1>7, <1>8, <1>9, <1>10 DEF AsyncInv

\* The request locks the page, which has no frame.
LEMMA MissStep ==
  ASSUME Parameters, AsyncInv, NEW k \in InPlaces, NEW r \in Req, NEW s \in Req, place[k] = r,
         place' = [place EXCEPT ![k] = s], at' \in 1 .. Places, again' \in BOOLEAN,
         s.page = r.page, s.to = r.to, s.io = r.io, r.phase = "Begin", s.phase = "Initing",
         mapping[r.page] = Empty, mapping' = [mapping EXCEPT ![r.page] = Busy],
         UNCHANGED <<pte, free, repl, mem, disk, chan, manager, client, written>>
  PROVE  AsyncInv'
<1>1. UNCHANGED <<pte, free, repl, mem, disk, chan, manager, client, written, pc, fut, blk, pages>>
  BY DEF client
<1>2. /\ InPlaces' = InPlaces /\ k \in 1 .. Places /\ place'[k] = s
      /\ \A j \in 1 .. Places : j # k => place'[j] = place[j]
  BY PlaceChange DEF AsyncInv
<1>3. /\ Locks(k)' /\ ~Carries(k)' /\ ~Evicts(k)'
      /\ \A j \in 1 .. Places : j # k =>
            /\ Locks(j)' <=> Locks(j)
            /\ Carries(j)' <=> Carries(j)
            /\ Evicts(j)' <=> Evicts(j)
  BY PhasesAfter DEF AsyncInv
<1>4. /\ \A j \in 1 .. Places : OnePhase(j)
      /\ \A j, n \in 1 .. Places : j # n => TwoPhases(j, n)
  BY PhaseParts DEF AsyncInv
<1>5. /\ r.page \in Pages /\ mapping'[r.page] = Busy
      /\ mapping \in [Pages -> Frames \cup {Empty, Busy}]
      /\ \A p \in Pages : p # r.page => mapping'[p] = mapping[p]
      /\ Empty \notin Frames /\ Busy \notin Frames /\ Empty # Busy
  BY RequestFields DEF AsyncInv, TypeOK, Parameters
<1>6. TypeOK' /\ CallInv' /\ ManagerInv' /\ RequestInv'
  <2>1. /\ mapping' \in [Pages -> Frames \cup {Empty, Busy}]
        /\ pte' \in [Frames -> [page : Pages \cup {None}, ref : Nat, dirty : BOOLEAN]]
        /\ free' \subseteq Frames /\ repl' \subseteq Frames
        /\ mem' \in [Frames -> Nat] /\ disk' \in [Pages -> Nat]
    BY <1>1, <1>5 DEF AsyncInv, TypeOK
  <2> QED BY <1>1, <2>1, ServerStep
<1>7. RefInv'
  <2>1. \A c, n, f : Refers(c, n, f)' <=> Refers(c, n, f)
    BY <1>1, RefersKept
  <2> QED BY <1>1, <1>5, <2>1, RefsStep
<1>8. TableInv'
  <2>1. repl \subseteq Frames
    BY DEF AsyncInv, TypeOK
  <2> QED BY <2>1, <1>1, <1>5 DEF AsyncInv, TableInv
<1>9. ASSUME NEW j \in 1 .. Places, j # k
      PROVE  /\ Locks(j) => mapping'[place[j].page] = Busy /\ place[j].page # r.page
             /\ Carries(j) => place[j].frame \notin free' \cup repl'
             /\ Evicts(j) => mapping'[Old(j)] = Busy /\ pte'[place[j].frame].page = Old(j)
                             /\ Old(j) # r.page
             /\ Phase(j, {"End"}) => mapping'[place[j].page] = place[j].frame
  <2>1. \A n \in InPlaces : place[n].page \in Pages
    BY PlaceHasRequest, RequestFields DEF AsyncInv
  <2>2. OnePhase(j)
    BY <1>4
  <2>3. (Locks(j) => j \in InPlaces) /\ (Phase(j, {"End"}) => j \in InPlaces)
    BY DEF Locks, Phase
  <2> QED BY <2>1, <2>2, <2>3, <1>1, <1>5 DEF OnePhase, Old
<1>10. PhaseInv'
  <2>1. OnePhase(k)'
    BY <1>1, <1>2, <1>3, <1>4, <1>5 DEF OnePhase, Phase
  <2>2. ASSUME NEW j \in 1 .. Places, j # k PROVE TwoPhases(j, k)' /\ TwoPhases(k, j)'
    <3>1. /\ Locks(j)' => place'[j].page # r.page
          /\ Evicts(j)' => Old(j)' # r.page
      BY <2>2, <1>1, <1>2, <1>3, <1>9 DEF Old
    <3> QED BY <3>1, <2>2, <1>2, <1>3 DEF TwoPhases
  <2> QED BY <2>1, <2>2, <1>9, PhaseStep
<1>11. DataInv'
  <2>1. \A p \in Pages : LET f == mapping'[p] IN
          /\ f \in Frames => mem[f] = written[p] /\ (pte[f].dirty \/ disk[p] = written[p])
          /\ f = Empty => disk[p] = written[p]
    BY <1>5 DEF AsyncInv, DataInv
  <2>2. \A j \in InPlaces : LET q == place'[j] IN
       /\ Locks(j)' => disk[q.page] = written[q.page]
       /\ Evicts(j)' => /\ mem[q.frame] = written[Old(j)']
                       /\ \/ disk[Old(j)'] = written[Old(j)']
                          \/ q.phase = "Evicting" /\ pte[q.frame].dirty
                          \/ q.phase = "EvictingFinish" /\ q.io # "done"
       /\ q.phase = "LoadingFinish" /\ q.io = "done" => mem[q.frame] = disk[q.page]
    BY <1>1, <1>2, <1>3, <1>5 DEF AsyncInv, DataInv, Old, InPlaces
  <2> QED BY <2>1, <2>2, <1>1, <1>2 DEF DataInv
<1> QED BY <1>6, <1>7, <1>8, <1>10, <1>11 DEF AsyncInv

\* The request takes a free frame.
LEMMA FreeStep ==
  ASSUME Parameters, AsyncInv, NEW k \in InPlaces, NEW r \in Req, NEW s \in Req, place[k] = r,
         place' = [place EXCEPT ![k] = s], at' \in 1 .. Places, again' \in BOOLEAN,
         s.page = r.page, s.to = r.to, s.io = r.io, r.phase = "Initing", s.phase = "Loading",
         s.frame \in free, free' = free \ {s.frame},
         UNCHANGED <<mapping, pte, repl, mem, disk, chan, manager, client, written>>
  PROVE  AsyncInv'
<1>1. UNCHANGED <<mapping, pte, repl, mem, disk, chan, manager, client, written, pc, fut, blk, pages>>
  BY DEF client
<1>2. /\ InPlaces' = InPlaces /\ k \in 1 .. Places /\ place'[k] = s
      /\ \A j \in 1 .. Places : j # k => place'[j] = place[j]
  BY PlaceChange DEF AsyncInv
<1>3. /\ Locks(k)' /\ Locks(k) /\ Carries(k)' /\ ~Evicts(k)'
      /\ \A j \in 1 .. Places : j # k =>
            /\ Locks(j)' <=> Locks(j)
            /\ Carries(j)' <=> Carries(j)
            /\ Evicts(j)' <=> Evicts(j)
  BY PhasesAfter DEF AsyncInv
<1>4. /\ \A j \in 1 .. Places : OnePhase(j)
      /\ \A j, n \in 1 .. Places : j # n => TwoPhases(j, n)
  BY PhaseParts DEF AsyncInv
<1>5. s.frame \in Frames /\ s.frame \notin repl /\ free \cap repl = {}
  BY DEF AsyncInv, TypeOK, TableInv
<1>6. TypeOK' /\ CallInv' /\ ManagerInv' /\ RequestInv'
  <2>1. /\ mapping' \in [Pages -> Frames \cup {Empty, Busy}]
        /\ pte' \in [Frames -> [page : Pages \cup {None}, ref : Nat, dirty : BOOLEAN]]
        /\ free' \subseteq Frames /\ repl' \subseteq Frames
        /\ mem' \in [Frames -> Nat] /\ disk' \in [Pages -> Nat]
    BY <1>1 DEF AsyncInv, TypeOK
  <2> QED BY <1>1, <2>1, ServerStep
<1>7. RefInv'
  <2>1. \A c, n, f : Refers(c, n, f)' <=> Refers(c, n, f)
    BY <1>1, RefersKept
  <2> QED BY <1>1, <2>1, RefsStep
<1>8. TableInv'
  BY <1>1, <1>5 DEF AsyncInv, TableInv
<1>9. ASSUME NEW j \in 1 .. Places, j # k
      PROVE  /\ Locks(j) => mapping'[place[j].page] = Busy
             /\ Carries(j) => place[j].frame \notin free' \cup repl' /\ place[j].frame # s.frame
             /\ Evicts(j) => mapping'[Old(j)] = Busy /\ pte'[place[j].frame].page = Old(j)
             /\ Phase(j, {"End"}) => mapping'[place[j].page] = place[j].frame
  BY <1>1, <1>4 DEF OnePhase, Old
<1>10. PhaseInv'
  <2>1. OnePhase(k)'
    BY <1>1, <1>2, <1>3, <1>4, <1>5 DEF OnePhase, Phase
  <2>2. ASSUME NEW j \in 1 .. Places, j # k PROVE TwoPhases(j, k)' /\ TwoPhases(k, j)'
    BY <2>2, <1>1, <1>2, <1>3, <1>4, <1>9 DEF TwoPhases, Old
  <2> QED BY <2>1, <2>2, <1>9, PhaseStep
<1>11. DataInv'
  BY <1>1, <1>2, <1>3 DEF AsyncInv, DataInv, Old, InPlaces
<1> QED BY <1>6, <1>7, <1>8, <1>10, <1>11 DEF AsyncInv

\* A request that is done counts as a reference to its frame.
LEMMA DoneIsReferred ==
  ASSUME Parameters, AsyncInv, NEW j \in 1 .. Places, Phase(j, {"End"})
  PROVE  place[j].frame \in Frames /\ pte[place[j].frame].ref # 0
<1>1. j \in InPlaces /\ place[j].phase = "End"
  BY DEF Phase
<1>2. PICK r \in Req : r = place[j]
  BY <1>1, PlaceHasRequest DEF AsyncInv
<1>3. PICK c \in Clients, n \in Nat : r.to = <<c, n>> /\ r.to[1] = c /\ r.to[2] = n
  BY RequestFields
<1>4. n \in 1 .. Count(c)
  BY <1>1, <1>2, <1>3 DEF AsyncInv, RequestInv, Wanted
<1>5. r.frame \in Frames
  BY <1>2 DEF AsyncInv, PhaseInv
<1>6. Refers(c, n, r.frame)
  BY <1>1, <1>2, <1>3 DEF Refers, IsFor
<1> QED BY <1>2, <1>4, <1>5, <1>6, ReferredCounts

\* The request takes a victim of the replacer, and locks the page that is in it.
LEMMA VictimStep ==
  ASSUME Parameters, AsyncInv, NEW k \in InPlaces, NEW r \in Req, NEW s \in Req, place[k] = r,
         place' = [place EXCEPT ![k] = s], at' \in 1 .. Places, again' \in BOOLEAN,
         s.page = r.page, s.to = r.to, s.io = r.io, r.phase = "Initing", s.phase = "Evicting",
         s.frame \in Victims, repl' = repl \ {s.frame},
         mapping' = [mapping EXCEPT ![pte[s.frame].page] = Busy],
         UNCHANGED <<pte, free, mem, disk, chan, manager, client, written>>
  PROVE  AsyncInv'
<1> DEFINE f == s.frame  q == pte[f].page
<1>1. UNCHANGED <<pte, free, mem, disk, chan, manager, client, written, pc, fut, blk, pages>>
  BY DEF client
<1>2. /\ InPlaces' = InPlaces /\ k \in 1 .. Places /\ place'[k] = s
      /\ \A j \in 1 .. Places : j # k => place'[j] = place[j]
  BY PlaceChange DEF AsyncInv
<1>3. /\ Locks(k)' /\ Locks(k) /\ Carries(k)' /\ Evicts(k)'
      /\ \A j \in 1 .. Places : j # k =>
            /\ Locks(j)' <=> Locks(j)
            /\ Carries(j)' <=> Carries(j)
            /\ Evicts(j)' <=> Evicts(j)
  BY PhasesAfter DEF AsyncInv
<1>4. /\ \A j \in 1 .. Places : OnePhase(j)
      /\ \A j, n \in 1 .. Places : j # n => TwoPhases(j, n)
  BY PhaseParts DEF AsyncInv
<1>5. /\ f \in repl /\ f \in Frames /\ f \notin free /\ pte[f].ref = 0
      /\ q \in Pages /\ mapping[q] = f
      /\ repl \subseteq Frames
  BY DEF Victims, AsyncInv, TypeOK, TableInv
<1>6. /\ mapping \in [Pages -> Frames \cup {Empty, Busy}]
      /\ mapping' \in [Pages -> Frames \cup {Empty, Busy}]
      /\ mapping'[q] = Busy /\ \A p \in Pages : p # q => mapping'[p] = mapping[p]
      /\ Empty \notin Frames /\ Busy \notin Frames /\ Empty # Busy
  BY <1>5 DEF AsyncInv, TypeOK, Parameters
<1>7. Old(k)' = q /\ mapping[r.page] = Busy /\ r.page # q /\ r.page \in Pages
  <2>1. Old(k)' = q
    BY <1>1, <1>2 DEF Old
  <2>2. mapping[r.page] = Busy
    BY <1>2, <1>3, <1>4 DEF OnePhase
  <2> QED BY <2>1, <2>2, <1>5, <1>6, RequestFields
<1>8. TypeOK' /\ CallInv' /\ ManagerInv' /\ RequestInv'
  <2>1. /\ pte' \in [Frames -> [page : Pages \cup {None}, ref : Nat, dirty : BOOLEAN]]
        /\ free' \subseteq Frames /\ repl' \subseteq Frames
        /\ mem' \in [Frames -> Nat] /\ disk' \in [Pages -> Nat]
    BY <1>1 DEF AsyncInv, TypeOK
  <2> QED BY <1>1, <1>6, <2>1, ServerStep
<1> HIDE DEF f, q
<1>9. RefInv'
  <2>1. \A c, n, g : Refers(c, n, g)' <=> Refers(c, n, g)
    BY <1>1, RefersKept
  <2> QED BY <1>1, <1>5, <1>6, <2>1, RefsStep
<1>10. TableInv'
  <2>1. repl' = repl \ {f}
    BY DEF f
  <2>2. \A p \in Pages : mapping'[p] \in Frames => mapping[p] = mapping'[p] /\ mapping[p] # f
    <3>1. \A p \in Pages : mapping[p] = f => p = q
      BY <1>5 DEF AsyncInv, TableInv, q
    <3> QED BY <3>1, <1>5, <1>6
  <2>3. \A g \in repl' : pte[g].page \in Pages /\ mapping'[pte[g].page] = g
    <3>1. \A g \in repl : pte[g].page \in Pages /\ mapping[pte[g].page] = g
      BY DEF AsyncInv, TableInv
    <3> QED BY <3>1, <2>1, <1>5, <1>6
  <2> QED BY <2>1, <2>2, <2>3, <1>1 DEF AsyncInv, TableInv
<1>11. ASSUME NEW j \in 1 .. Places, j # k
       PROVE  /\ Locks(j) => mapping'[place[j].page] = Busy /\ place[j].page # q
              /\ Carries(j) => place[j].frame \notin free' \cup repl' /\ place[j].frame # f
              /\ Evicts(j) => /\ mapping'[Old(j)] = Busy /\ pte'[place[j].frame].page = Old(j)
                              /\ Old(j) # q
              /\ Phase(j, {"End"}) => mapping'[place[j].page] = place[j].frame
  <2>1. \A n \in InPlaces : place[n].page \in Pages
    BY PlaceHasRequest, RequestFields DEF AsyncInv
  <2>2. OnePhase(j)
    BY <1>4
  <2>3. (Locks(j) => j \in InPlaces) /\ (Phase(j, {"End"}) => j \in InPlaces)
    BY DEF Locks, Phase
  <2>4. Phase(j, {"End"}) => place[j].frame # f
    BY <1>5, DoneIsReferred
  <2>5. repl' = repl \ {f}
    BY DEF f
  <2> QED BY <2>1, <2>2, <2>3, <2>4, <2>5, <1>1, <1>5, <1>6 DEF OnePhase, Old
<1>12. PhaseInv'
  <2>1. OnePhase(k)'
    <3>1. f = s.frame /\ repl' = repl \ {f} /\ r.io = "none"
      BY <1>2, <1>4 DEF f, OnePhase, Phase
    <3>2. mapping'[s.page] = Busy
      BY <1>6, <1>7
    <3> QED BY <3>1, <3>2, <1>1, <1>2, <1>5, <1>6, <1>7 DEF OnePhase, Phase
  <2>2. ASSUME NEW j \in 1 .. Places, j # k PROVE TwoPhases(j, k)' /\ TwoPhases(k, j)'
    <3>1. /\ Locks(j)' => place'[j].page # q
          /\ Carries(j)' => place'[j].frame # f
          /\ Evicts(j)' => Old(j)' # q /\ Old(j)' = Old(j)
      BY <2>2, <1>1, <1>2, <1>3, <1>11 DEF Old
    <3>2. TwoPhases(j, k) /\ TwoPhases(k, j)
      BY <1>2, <1>4, <2>2
    <3>3. place'[j] = place[j] /\ place'[k] = s /\ s.frame = f
      BY <1>2, <2>2 DEF f
    <3> QED BY <3>1, <3>2, <3>3, <2>2, <1>3, <1>7 DEF TwoPhases
  <2> QED BY <2>1, <2>2, <1>11, PhaseStep
<1>13. DataInv'
  <2>1. \A p \in Pages : LET g == mapping'[p] IN
          /\ g \in Frames => mem[g] = written[p] /\ (pte[g].dirty \/ disk[p] = written[p])
          /\ g = Empty => disk[p] = written[p]
    BY <1>6 DEF AsyncInv, DataInv
  <2>2. mem[f] = written[q] /\ (pte[f].dirty \/ disk[q] = written[q])
    BY <1>5 DEF AsyncInv, DataInv
  <2>3. ASSUME NEW j \in InPlaces
        PROVE LET z == place'[j] IN
              /\ Locks(j)' => disk[z.page] = written[z.page]
              /\ Evicts(j)' => /\ mem[z.frame] = written[Old(j)']
                               /\ \/ disk[Old(j)'] = written[Old(j)']
                                  \/ z.phase = "Evicting" /\ pte[z.frame].dirty
                                  \/ z.phase = "EvictingFinish" /\ z.io # "done"
              /\ z.phase = "LoadingFinish" /\ z.io = "done" => mem[z.frame] = disk[z.page]
    <3>1. CASE j = k
      <4>1. place'[j] = s /\ s.frame = f /\ s.page = r.page /\ s.phase = "Evicting"
        BY <3>1, <1>2 DEF f
      <4>2. disk[r.page] = written[r.page]
        BY <1>3, <3>1 DEF AsyncInv, DataInv
      <4> QED BY <4>1, <4>2, <2>2, <1>7, <3>1
    <3>2. CASE j # k
      BY <3>2, <1>1, <1>2, <1>3 DEF AsyncInv, DataInv, Old, InPlaces
    <3> QED BY <3>1, <3>2
  <2> QED BY <2>1, <2>3, <1>1, <1>2 DEF DataInv
<1> QED BY <1>8, <1>9, <1>10, <1>12, <1>13 DEF AsyncInv

\* A request that gets done adds one reference, its own.
LEMMA BecomesDone ==
  ASSUME Parameters, AsyncInv, NEW k \in InPlaces, NEW r \in Req, NEW s \in Req, place[k] = r,
         place' = [place EXCEPT ![k] = s], s.to = r.to, s.frame \in Frames,
         r.phase # "End", s.phase = "End", UNCHANGED <<pc, pages, fut, blk>>
  PROVE  /\ \A g \in Frames : g # s.frame => Refs(g)' = Refs(g)
         /\ Cardinality(Refs(s.frame)') = Cardinality(Refs(s.frame)) + 1
         /\ \A g \in Frames, c \in Clients : \A n :
              Refers(c, n, g)' => Refers(c, n, g) \/ (g = s.frame /\ IsFor(s, c, n))
         /\ \A c \in Clients : Count(c)' = Count(c)
<1>1. /\ InPlaces' = InPlaces /\ place'[k] = s
      /\ \A j \in InPlaces : j # k => place'[j] = place[j]
  <2>1. \A j \in InPlaces : j \in 1 .. Places
    BY DEF InPlaces
  <2> QED BY <2>1, PlaceChange DEF AsyncInv
<1>2. \A c, n, g : Refers(c, n, g)' <=> Refers(c, n, g) \/ (g = s.frame /\ IsFor(s, c, n))
  BY <1>1 DEF Refers
<1>3. \A c \in Clients : Count(c)' = Count(c)
  BY DEF Count
<1>4. PICK c \in Clients, n \in Nat : r.to = <<c, n>> /\ r.to[1] = c /\ r.to[2] = n
  BY RequestFields
<1>5. n \in 1 .. Count(c) /\ Wanted(r)
  BY <1>4 DEF AsyncInv, RequestInv, Wanted
<1>6. \A g \in Frames : ~Refers(c, n, g)
  <2>1. \A j \in InPlaces : place[j].to = r.to => place[j].phase # "End"
    BY DEF AsyncInv, RequestInv
  <2> QED BY <2>1, <1>4, <1>5, PendingRefersNothing
<1>7. \A b \in Clients : \A m : IsFor(s, b, m) <=> b = c /\ m = n
  BY <1>4 DEF IsFor
<1>8. ASSUME NEW g \in Frames, g # s.frame PROVE Refs(g)' = Refs(g)
  <2>1. \A b, m : Refers(b, m, g)' <=> Refers(b, m, g)
    BY <1>2, <1>8
  <2> QED BY <2>1, RefsKept
<1> DEFINE x == <<c, n>>  A == Refs(s.frame)
<1>9. Refs(s.frame)' = A \cup {x}
  <2>1. Futures' = Futures
    BY <1>3 DEF Futures
  <2>2. x \in Futures
    BY <1>5 DEF Futures
  <2>3. ASSUME NEW y \in Futures
        PROVE  Refers(y[1], y[2], s.frame)' <=> Refers(y[1], y[2], s.frame) \/ y = x
    <3>1. PICK b \in Clients : y \in {b} \X (1 .. Count(b))
      BY DEF Futures
    <3>2. PICK m \in 1 .. Count(b) : y = <<b, m>> /\ y[1] = b /\ y[2] = m
      BY <3>1
    <3>3. Refers(b, m, s.frame)' <=> Refers(b, m, s.frame) \/ (b = c /\ m = n)
      BY <1>2, <1>7
    <3> QED BY <3>2, <3>3
  <2> QED BY <2>1, <2>2, <2>3 DEF Refs
<1>10. x \notin A /\ IsFiniteSet(A)
  BY <1>5, <1>6, RefsOf, FuturesFinite DEF AsyncInv
<1>11. Cardinality(A \cup {x}) = Cardinality(A) + 1
  BY <1>10, FS_AddElement
<1> QED BY <1>2, <1>3, <1>8, <1>9, <1>11

\* Pinning a frame counts one reference more.
LEMMA PinnedFrame ==
  ASSUME TypeOK, NEW f \in Frames, pte' = Pinned(f)
  PROVE  /\ pte' \in [Frames -> [page : Pages \cup {None}, ref : Nat, dirty : BOOLEAN]]
         /\ \A g \in Frames : /\ pte'[g].page = pte[g].page
                              /\ pte'[g].dirty = pte[g].dirty
                              /\ g # f => pte'[g].ref = pte[g].ref
         /\ pte'[f].ref = pte[f].ref + 1
<1> DEFINE E == [page : Pages \cup {None}, ref : Nat, dirty : BOOLEAN]
           e == [pte[f] EXCEPT !.ref = @ + 1]
<1>1. pte \in [Frames -> E]
  BY DEF TypeOK
<1>2. pte[f] \in E
  BY <1>1
<1>3. e \in E /\ e.page = pte[f].page /\ e.dirty = pte[f].dirty /\ e.ref = pte[f].ref + 1
  BY <1>2
<1>4. pte' = [pte EXCEPT ![f] = e]
  BY DEF Pinned
<1> HIDE DEF E, e
<1>5. pte' \in [Frames -> E] /\ pte'[f] = e /\ \A g \in Frames : g # f => pte'[g] = pte[g]
  BY <1>1, <1>3, <1>4
<1> QED BY <1>3, <1>5 DEF E

\* The page is in memory: the request refers to its frame.
LEMMA HitStep ==
  ASSUME Parameters, AsyncInv, NEW k \in InPlaces, NEW r \in Req, NEW s \in Req, place[k] = r,
         place' = [place EXCEPT ![k] = s], at' \in 1 .. Places, again' \in BOOLEAN,
         s.page = r.page, s.to = r.to, s.io = r.io, r.phase = "Begin", s.phase = "End",
         s.frame \in Frames, mapping[r.page] = s.frame, pte' = Pinned(s.frame),
         UNCHANGED <<mapping, free, repl, mem, disk, chan, manager, client, written>>
  PROVE  AsyncInv'
<1>1. UNCHANGED <<mapping, free, repl, mem, disk, chan, manager, client, written, pc, fut, blk, pages>>
  BY DEF client
<1>2. /\ InPlaces' = InPlaces /\ k \in 1 .. Places /\ place'[k] = s
      /\ \A j \in 1 .. Places : j # k => place'[j] = place[j]
  BY PlaceChange DEF AsyncInv
<1>3. /\ ~Locks(k)' /\ ~Carries(k)' /\ ~Evicts(k)'
      /\ \A j \in 1 .. Places : j # k =>
            /\ Locks(j)' <=> Locks(j)
            /\ Carries(j)' <=> Carries(j)
            /\ Evicts(j)' <=> Evicts(j)
  BY PhasesAfter DEF AsyncInv
<1>4. /\ \A j \in 1 .. Places : OnePhase(j)
      /\ \A j, n \in 1 .. Places : j # n => TwoPhases(j, n)
  BY PhaseParts DEF AsyncInv
<1>5. /\ pte' \in [Frames -> [page : Pages \cup {None}, ref : Nat, dirty : BOOLEAN]]
      /\ \A g \in Frames : /\ pte'[g].page = pte[g].page
                           /\ pte'[g].dirty = pte[g].dirty
                           /\ g # s.frame => pte'[g].ref = pte[g].ref
      /\ pte'[s.frame].ref = pte[s.frame].ref + 1
  BY PinnedFrame DEF AsyncInv
<1>6. TypeOK' /\ CallInv' /\ ManagerInv' /\ RequestInv'
  <2>1. /\ mapping' \in [Pages -> Frames \cup {Empty, Busy}]
        /\ free' \subseteq Frames /\ repl' \subseteq Frames
        /\ mem' \in [Frames -> Nat] /\ disk' \in [Pages -> Nat]
    BY <1>1 DEF AsyncInv, TypeOK
  <2> QED BY <1>1, <1>5, <2>1, ServerStep
<1>7. RefInv'
  <2>1. /\ \A g \in Frames : g # s.frame => Refs(g)' = Refs(g)
        /\ Cardinality(Refs(s.frame)') = Cardinality(Refs(s.frame)) + 1
        /\ \A g \in Frames, c \in Clients : \A n :
             Refers(c, n, g)' => Refers(c, n, g) \/ (g = s.frame /\ IsFor(s, c, n))
        /\ \A c \in Clients : Count(c)' = Count(c)
    BY <1>1, BecomesDone
  <2>2. \A g \in Frames : pte'[g].ref = Cardinality(Refs(g)')
    BY <2>1, <1>5 DEF AsyncInv, RefInv
  <2>3. ASSUME NEW g \in Frames, NEW c \in Clients, NEW n \in 1 .. Count(c), Refers(c, n, g)'
        PROVE  mapping[pages[c][n]] = g
    <3>1. CASE Refers(c, n, g)
      BY <3>1 DEF AsyncInv, RefInv
    <3>2. CASE g = s.frame /\ IsFor(s, c, n)
      <4>1. r.to[1] = c /\ r.to[2] = n
        BY <3>2 DEF IsFor
      <4>2. r.page = pages[c][n]
        BY <4>1 DEF AsyncInv, RequestInv, Wanted
      <4> QED BY <3>2, <4>2
    <3> QED BY <2>1, <2>3, <3>1, <3>2
  <2> QED BY <2>1, <2>2, <2>3, <1>1 DEF RefInv
<1>8. TableInv'
  <2>1. repl \subseteq Frames
    BY DEF AsyncInv, TypeOK
  <2> QED BY <2>1, <1>1, <1>5 DEF AsyncInv, TableInv
<1>9. ASSUME NEW j \in 1 .. Places, j # k
      PROVE  /\ Locks(j) => mapping'[place[j].page] = Busy
             /\ Carries(j) => place[j].frame \notin free' \cup repl'
             /\ Evicts(j) => mapping'[Old(j)] = Busy /\ pte'[place[j].frame].page = Old(j)
             /\ Phase(j, {"End"}) => mapping'[place[j].page] = place[j].frame
  <2>1. Evicts(j) => place[j].frame \in Frames
    BY <1>4 DEF OnePhase, Evicts, Carries, Phase
  <2> QED BY <2>1, <1>1, <1>4, <1>5 DEF OnePhase, Old
<1>10. PhaseInv'
  <2>1. OnePhase(k)'
    BY <1>1, <1>2, <1>3, <1>4, <1>5 DEF OnePhase, Phase
  <2>2. ASSUME NEW j \in 1 .. Places, j # k PROVE TwoPhases(j, k)' /\ TwoPhases(k, j)'
    BY <1>3 DEF TwoPhases
  <2> QED BY <2>1, <2>2, <1>9, PhaseStep
<1>11. DataInv'
  <2>1. \A p \in Pages : LET f == mapping[p] IN
          /\ f \in Frames => mem[f] = written[p] /\ (pte'[f].dirty \/ disk[p] = written[p])
          /\ f = Empty => disk[p] = written[p]
    BY <1>5 DEF AsyncInv, DataInv
  <2>2. ASSUME NEW j \in InPlaces, j # k
        PROVE  Evicts(j) => place[j].frame \in Frames /\ Old(j)' = Old(j)
    <3>1. j \in 1 .. Places /\ (Evicts(j) => Carries(j))
      BY DEF InPlaces, Evicts, Carries, Phase
    <3> QED BY <3>1, <2>2, <1>2, <1>4, <1>5 DEF OnePhase, Old
  <2>3. ASSUME NEW j \in InPlaces
        PROVE LET z == place'[j] IN
              /\ Locks(j)' => disk[z.page] = written[z.page]
              /\ Evicts(j)' => /\ mem[z.frame] = written[Old(j)']
                               /\ \/ disk[Old(j)'] = written[Old(j)']
                                  \/ z.phase = "Evicting" /\ pte'[z.frame].dirty
                                  \/ z.phase = "EvictingFinish" /\ z.io # "done"
              /\ z.phase = "LoadingFinish" /\ z.io = "done" => mem[z.frame] = disk[z.page]
    <3>1. CASE j = k
      BY <3>1, <1>2, <1>3
    <3>2. CASE j # k
      <4>1. /\ place'[j] = place[j]
            /\ Locks(j)' <=> Locks(j)
            /\ Evicts(j)' <=> Evicts(j)
        BY <3>2, <1>2, <1>3 DEF InPlaces
      <4> QED BY <3>2, <4>1, <2>2, <1>5 DEF AsyncInv, DataInv
    <3> QED BY <3>1, <3>2
  <2> QED BY <2>1, <2>3, <1>1, <1>2 DEF DataInv
<1> QED BY <1>6, <1>7, <1>8, <1>10, <1>11 DEF AsyncInv

\* The page has been read: its frame gets into the page table, with one reference.
LEMMA PublishStep ==
  ASSUME Parameters, AsyncInv, NEW k \in InPlaces, NEW r \in Req, NEW s \in Req, place[k] = r,
         place' = [place EXCEPT ![k] = s], at' \in 1 .. Places, again' \in BOOLEAN,
         s.page = r.page, s.to = r.to, s.io = r.io, s.frame = r.frame,
         r.phase = "LoadingFinish", r.io = "done", s.phase = "End", Publish(r),
         UNCHANGED <<mem, disk, chan, manager, client, written>>
  PROVE  AsyncInv'
<1> DEFINE f == r.frame  p == r.page
<1>1. UNCHANGED <<free, mem, disk, chan, manager, client, written, pc, fut, blk, pages>>
  BY DEF client, Publish
<1>2. /\ InPlaces' = InPlaces /\ k \in 1 .. Places /\ place'[k] = s
      /\ \A j \in 1 .. Places : j # k => place'[j] = place[j]
  BY PlaceChange DEF AsyncInv
<1>3. /\ ~Locks(k)' /\ ~Carries(k)' /\ ~Evicts(k)' /\ Locks(k) /\ Carries(k)
      /\ \A j \in 1 .. Places : j # k =>
            /\ Locks(j)' <=> Locks(j)
            /\ Carries(j)' <=> Carries(j)
            /\ Evicts(j)' <=> Evicts(j)
  BY PhasesAfter DEF AsyncInv
<1>4. /\ \A j \in 1 .. Places : OnePhase(j)
      /\ \A j, n \in 1 .. Places : j # n => TwoPhases(j, n)
  BY PhaseParts DEF AsyncInv
<1>5. /\ f \in Frames /\ f \notin free /\ f \notin repl
      /\ p \in Pages /\ mapping[p] = Busy /\ Empty \notin Frames /\ Busy \notin Frames
      /\ Empty # Busy /\ repl \subseteq Frames
  BY <1>2, <1>3, <1>4, RequestFields DEF OnePhase, AsyncInv, TypeOK, Parameters
<1>6. /\ pte' \in [Frames -> [page : Pages \cup {None}, ref : Nat, dirty : BOOLEAN]]
      /\ \A g \in Frames : g # f => pte'[g] = pte[g]
      /\ pte'[f].page = p /\ pte'[f].ref = 1
      /\ mapping' \in [Pages -> Frames \cup {Empty, Busy}]
      /\ mapping'[p] = f /\ \A q \in Pages : q # p => mapping'[q] = mapping[q]
      /\ repl' = repl \cup {f}
  BY <1>5 DEF Publish, AsyncInv, TypeOK
<1>7. TypeOK' /\ CallInv' /\ ManagerInv' /\ RequestInv'
  <2>1. /\ free' \subseteq Frames /\ repl' \subseteq Frames
        /\ mem' \in [Frames -> Nat] /\ disk' \in [Pages -> Nat]
    BY <1>1, <1>5, <1>6 DEF AsyncInv, TypeOK
  <2> QED BY <1>1, <1>6, <2>1, ServerStep
<1>8. disk[p] = written[p] /\ mem[f] = disk[p]
  BY <1>3 DEF AsyncInv, DataInv
<1>9. RefInv'
  <2>1. /\ \A g \in Frames : g # f => Refs(g)' = Refs(g)
        /\ Cardinality(Refs(f)') = Cardinality(Refs(f)) + 1
        /\ \A g \in Frames, c \in Clients : \A n :
             Refers(c, n, g)' => Refers(c, n, g) \/ (g = f /\ IsFor(s, c, n))
        /\ \A c \in Clients : Count(c)' = Count(c)
    <3>1. s.frame \in Frames /\ s.frame = f /\ r.phase # "End"
      BY <1>5
    <3>2. /\ \A g \in Frames : g # s.frame => Refs(g)' = Refs(g)
          /\ Cardinality(Refs(s.frame)') = Cardinality(Refs(s.frame)) + 1
          /\ \A g \in Frames, c \in Clients : \A n :
               Refers(c, n, g)' => Refers(c, n, g) \/ (g = s.frame /\ IsFor(s, c, n))
          /\ \A c \in Clients : Count(c)' = Count(c)
      BY <3>1, <1>1, BecomesDone
    <3> QED BY <3>1, <3>2
  <2>2. Cardinality(Refs(f)) = 0
    <3>1. \A c \in Clients : \A n \in 1 .. Count(c) : ~Refers(c, n, f)
      BY <1>5, ReferredCounts
    <3>2. Refs(f) = {}
      <4>1. ASSUME NEW x \in Refs(f) PROVE FALSE
        <5>1. PICK c \in Clients : x \in {c} \X (1 .. Count(c)) /\ Refers(x[1], x[2], f)
          BY DEF Refs, Futures
        <5> QED BY <3>1, <5>1
      <4> QED BY <4>1
    <3> QED BY <3>2, FS_EmptySet
  <2>3. \A g \in Frames : pte'[g].ref = Cardinality(Refs(g)')
    BY <2>1, <2>2, <1>6 DEF AsyncInv, RefInv
  <2>4. ASSUME NEW g \in Frames, NEW c \in Clients, NEW n \in 1 .. Count(c), Refers(c, n, g)'
        PROVE  mapping'[pages[c][n]] = g
    <3>1. CASE Refers(c, n, g)
      <4>1. mapping[pages[c][n]] = g /\ pages[c][n] \in Pages
        BY <3>1, CallTypes DEF AsyncInv, RefInv
      <4> QED BY <4>1, <1>5, <1>6
    <3>2. CASE g = f /\ IsFor(s, c, n)
      <4>1. r.to[1] = c /\ r.to[2] = n
        BY <3>2 DEF IsFor
      <4>2. r.page = pages[c][n]
        BY <4>1 DEF AsyncInv, RequestInv, Wanted
      <4> QED BY <3>2, <4>2, <1>6
    <3> QED BY <2>1, <2>4, <3>1, <3>2
  <2> QED BY <2>1, <2>3, <2>4, <1>1 DEF RefInv
<1> HIDE DEF f, p
<1>10. TableInv'
  <2>1. free' \cap repl' = {}
    BY <1>1, <1>5, <1>6 DEF AsyncInv, TableInv
  <2>2. ASSUME NEW q \in Pages, mapping'[q] \in Frames
        PROVE  mapping'[q] \in repl' /\ pte'[mapping'[q]].page = q
    <3>1. CASE q = p
      BY <3>1, <1>6
    <3>2. CASE q # p
      <4>1. mapping'[q] = mapping[q] /\ mapping[q] \in repl /\ pte[mapping[q]].page = q
        BY <3>2, <2>2, <1>6 DEF AsyncInv, TableInv
      <4> QED BY <4>1, <2>2, <1>5, <1>6
    <3> QED BY <3>1, <3>2
  <2>3. ASSUME NEW g \in repl' PROVE pte'[g].page \in Pages /\ mapping'[pte'[g].page] = g
    <3>1. CASE g = f
      BY <3>1, <1>5, <1>6
    <3>2. CASE g # f
      <4>1. g \in repl /\ g \in Frames /\ pte[g].page \in Pages /\ mapping[pte[g].page] = g
        BY <3>2, <1>5, <1>6 DEF AsyncInv, TableInv
      <4> QED BY <4>1, <3>2, <1>5, <1>6
    <3> QED BY <3>1, <3>2
  <2> QED BY <2>1, <2>2, <2>3 DEF TableInv
<1>11. ASSUME NEW j \in 1 .. Places, j # k
       PROVE  /\ Locks(j) => mapping'[place[j].page] = Busy
              /\ Carries(j) => place[j].frame \notin free' \cup repl'
              /\ Evicts(j) => /\ mapping'[Old(j)] = Busy /\ pte'[place[j].frame].page = Old(j)
                              /\ pte'[place[j].frame] = pte[place[j].frame]
              /\ Phase(j, {"End"}) => mapping'[place[j].page] = place[j].frame
  <2>1. \A n \in InPlaces : place[n].page \in Pages
    BY PlaceHasRequest, RequestFields DEF AsyncInv
  <2>2. OnePhase(j) /\ TwoPhases(j, k) /\ TwoPhases(k, j)
    BY <1>2, <1>4, <1>11
  <2>3. /\ Locks(j) => j \in InPlaces
        /\ Phase(j, {"End"}) => j \in InPlaces
        /\ Evicts(j) => Carries(j)
    BY DEF Locks, Phase, Evicts, Carries
  <2>4. /\ Locks(j) => place[j].page # p
        /\ Carries(j) => place[j].frame # f /\ place[j].frame \in Frames
        /\ Evicts(j) => Old(j) # p /\ Old(j) \in Pages
    BY <2>2, <2>3, <1>3 DEF TwoPhases, OnePhase, f, p
  <2> QED BY <2>1, <2>2, <2>3, <2>4, <1>1, <1>5, <1>6 DEF OnePhase, Old
<1>12. PhaseInv'
  <2>1. OnePhase(k)'
    <3>1. s.frame = f /\ s.page = p
      BY DEF f, p
    <3> QED BY <3>1, <1>2, <1>3, <1>5, <1>6 DEF OnePhase, Phase
  <2>2. ASSUME NEW j \in 1 .. Places, j # k PROVE TwoPhases(j, k)' /\ TwoPhases(k, j)'
    BY <1>3 DEF TwoPhases
  <2> QED BY <2>1, <2>2, <1>11, PhaseStep
<1>13. DataInv'
  <2>1. ASSUME NEW q \in Pages
        PROVE  LET g == mapping'[q] IN
          /\ g \in Frames => mem[g] = written[q] /\ (pte'[g].dirty \/ disk[q] = written[q])
          /\ g = Empty => disk[q] = written[q]
    <3>1. CASE q = p
      BY <3>1, <1>5, <1>6, <1>8
    <3>2. CASE q # p
      <4>1. mapping'[q] = mapping[q] /\ (mapping[q] \in Frames => mapping[q] # f)
        BY <3>2, <1>5, <1>6 DEF AsyncInv, TableInv
      <4> QED BY <4>1, <1>6 DEF AsyncInv, DataInv
    <3> QED BY <3>1, <3>2
  <2>2. ASSUME NEW j \in InPlaces
        PROVE LET z == place'[j] IN
              /\ Locks(j)' => disk[z.page] = written[z.page]
              /\ Evicts(j)' => /\ mem[z.frame] = written[Old(j)']
                               /\ \/ disk[Old(j)'] = written[Old(j)']
                                  \/ z.phase = "Evicting" /\ pte'[z.frame].dirty
                                  \/ z.phase = "EvictingFinish" /\ z.io # "done"
              /\ z.phase = "LoadingFinish" /\ z.io = "done" => mem[z.frame] = disk[z.page]
    <3>1. CASE j = k
      BY <3>1, <1>2, <1>3
    <3>2. CASE j # k
      <4>1. /\ place'[j] = place[j]
            /\ Locks(j)' <=> Locks(j)
            /\ Evicts(j)' <=> Evicts(j)
            /\ Evicts(j) => Old(j)' = Old(j) /\ pte'[place[j].frame] = pte[place[j].frame]
        BY <3>2, <1>2, <1>3, <1>11 DEF InPlaces, Old
      <4> QED BY <3>2, <4>1 DEF AsyncInv, DataInv
    <3> QED BY <3>1, <3>2
  <2> QED BY <2>1, <2>2, <1>1, <1>2 DEF DataInv
<1> QED BY <1>7, <1>9, <1>10, <1>12, <1>13 DEF AsyncInv

\* A read or a write is done.
LEMMA IODoneStep ==
  ASSUME Parameters, AsyncInv, NEW k \in InPlaces, IODone(k)
  PROVE  AsyncInv'
<1> DEFINE r == place[k]  s == [r EXCEPT !.io = "done"]  f == r.frame
<1>1. r \in Req /\ k \in 1 .. Places
  BY PlaceHasRequest DEF AsyncInv
<1>2. s \in Req /\ s.page = r.page /\ s.to = r.to /\ s.frame = f /\ s.phase = r.phase /\ s.io = "done"
  BY <1>1 DEF Req
<1>3. place' = [place EXCEPT ![k] = s] /\ r.io = "sent"
  BY DEF IODone
<1>4. /\ UNCHANGED <<mapping, pte, free, repl, chan, at, again, manager, client, written>>
      /\ UNCHANGED <<pc, fut, blk, pages>>
  BY DEF IODone, table, client
<1>5. \/ /\ r.phase = "EvictingFinish" /\ UNCHANGED mem
         /\ disk' = [disk EXCEPT ![Old(k)] = mem[f]]
      \/ /\ r.phase # "EvictingFinish" /\ UNCHANGED disk
         /\ mem' = [mem EXCEPT ![f] = disk[r.page]]
  BY DEF IODone, Old
<1> HIDE DEF r, s, f
<1>6. r = place[k] /\ f = r.frame
  BY DEF r, f
<1>7. /\ InPlaces' = InPlaces /\ place'[k] = s
      /\ \A j \in 1 .. Places : j # k => place'[j] = place[j]
  BY <1>2, <1>3, PlaceChange DEF AsyncInv
<1>8. /\ \A j \in 1 .. Places : OnePhase(j)
      /\ \A j, n \in 1 .. Places : j # n => TwoPhases(j, n)
  BY PhaseParts DEF AsyncInv
<1>9. r.phase \in {"EvictingFinish", "LoadingFinish"}
  BY <1>1, <1>3, <1>6, <1>8 DEF OnePhase, Phase
<1>10. \A j \in 1 .. Places :
         /\ Locks(j)' <=> Locks(j)
         /\ Carries(j)' <=> Carries(j)
         /\ Evicts(j)' <=> Evicts(j)
         /\ Old(j)' = Old(j)
         /\ place'[j].page = place[j].page /\ place'[j].frame = place[j].frame
         /\ place'[j].phase = place[j].phase
  <2>1. ASSUME NEW j \in 1 .. Places
        PROVE  /\ place'[j].page = place[j].page /\ place'[j].frame = place[j].frame
               /\ place'[j].phase = place[j].phase
    BY <1>2, <1>6, <1>7
  <2> QED BY <2>1, <1>4, <1>7 DEF Locks, Carries, Evicts, Phase, Old
<1>11. /\ Locks(k) /\ Carries(k) /\ f \in Frames \ (free \cup repl) /\ r.page \in Pages
       /\ Evicts(k) <=> r.phase = "EvictingFinish"
       /\ Evicts(k) => Old(k) \in Pages /\ mem[f] = written[Old(k)]
  <2>1. Locks(k) /\ Carries(k) /\ (Evicts(k) <=> r.phase = "EvictingFinish")
    BY <1>6, <1>9 DEF Locks, Carries, Evicts, Phase
  <2>2. Evicts(k) => Old(k) \in Pages /\ mem[f] = written[Old(k)]
    BY <1>1, <1>6, <1>8 DEF OnePhase, AsyncInv, DataInv
  <2> QED BY <2>1, <2>2, <1>1, <1>6, <1>8, RequestFields DEF OnePhase
<1>12. /\ mem \in [Frames -> Nat] /\ disk \in [Pages -> Nat] /\ at \in 1 .. Places /\ again \in BOOLEAN
       /\ mapping \in [Pages -> Frames \cup {Empty, Busy}] /\ repl \subseteq Frames
       /\ pte \in [Frames -> [page : Pages \cup {None}, ref : Nat, dirty : BOOLEAN]]
       /\ free \subseteq Frames
  BY DEF AsyncInv, TypeOK
<1>13. TypeOK' /\ CallInv' /\ ManagerInv' /\ RequestInv'
  <2>1. mem' \in [Frames -> Nat] /\ disk' \in [Pages -> Nat]
    BY <1>5, <1>11, <1>12
  <2> QED BY <1>2, <1>3, <1>4, <1>6, <1>12, <2>1, ServerStep
<1>14. RefInv'
  <2>1. \A c, n, g : Refers(c, n, g)' <=> Refers(c, n, g)
    BY <1>2, <1>3, <1>4, <1>6, <1>9, RefersKept
  <2> QED BY <1>4, <2>1, RefsStep
<1>15. TableInv'
  BY <1>4 DEF AsyncInv, TableInv
<1>16. PhaseInv'
  <2>1. OnePhase(k)'
    BY <1>1, <1>2, <1>4, <1>7, <1>8, <1>9, <1>10, <1>11 DEF OnePhase, Phase
  <2>2. ASSUME NEW j \in 1 .. Places, j # k PROVE TwoPhases(j, k)' /\ TwoPhases(k, j)'
    <3>1. TwoPhases(j, k) /\ TwoPhases(k, j)
      BY <2>2, <1>1, <1>8
    <3> QED BY <3>1, <1>1, <1>10 DEF TwoPhases
  <2>3. \A j \in 1 .. Places : j # k =>
          /\ Locks(j) => mapping'[place[j].page] = Busy
          /\ Carries(j) => place[j].frame \notin free' \cup repl'
          /\ Evicts(j) => mapping'[Old(j)] = Busy /\ pte'[place[j].frame].page = Old(j)
          /\ Phase(j, {"End"}) => mapping'[place[j].page] = place[j].frame
    BY <1>4, <1>8 DEF OnePhase, Old
  <2> QED BY <2>1, <2>2, <2>3, <1>2, <1>3, PhaseStep
<1>17. DataInv'
  <2>1. CASE r.phase = "EvictingFinish"
    <3>1. /\ mem' = mem /\ disk'[Old(k)] = written[Old(k)] /\ Old(k) \in Pages
          /\ \A p \in Pages : p # Old(k) => disk'[p] = disk[p]
      BY <2>1, <1>5, <1>11, <1>12
    <3>2. \A p \in Pages : disk[p] = written[p] => disk'[p] = written[p]
      BY <3>1
    <3>3. \A p \in Pages : LET g == mapping[p] IN
            /\ g \in Frames => mem[g] = written[p] /\ (pte[g].dirty \/ disk'[p] = written[p])
            /\ g = Empty => disk'[p] = written[p]
      BY <3>2 DEF AsyncInv, DataInv
    <3>4. ASSUME NEW j \in InPlaces
          PROVE LET z == place'[j] IN
                /\ Locks(j) => disk'[z.page] = written[z.page]
                /\ Evicts(j) => /\ mem[z.frame] = written[Old(j)]
                                /\ \/ disk'[Old(j)] = written[Old(j)]
                                   \/ z.phase = "Evicting" /\ pte[z.frame].dirty
                                   \/ z.phase = "EvictingFinish" /\ z.io # "done"
                /\ z.phase = "LoadingFinish" /\ z.io = "done" => mem[z.frame] = disk'[z.page]
      <4>1. j \in 1 .. Places /\ place[j] \in Req /\ place[j].page \in Pages
        BY PlaceHasRequest, RequestFields DEF AsyncInv
      <4>2. Locks(j) => disk'[place[j].page] = written[place[j].page]
        BY <3>2, <4>1 DEF AsyncInv, DataInv
      <4>3. CASE j = k
        BY <4>1, <4>2, <4>3, <3>1, <2>1, <1>2, <1>6, <1>7, <1>11
      <4>4. CASE j # k
        <5>1. place'[j] = place[j] /\ OnePhase(j) /\ TwoPhases(j, k)
          BY <4>1, <4>4, <1>1, <1>7, <1>8
        <5>2. Evicts(j) => Old(j) \in Pages
          BY <5>1 DEF OnePhase
        <5>3. place[j].phase = "LoadingFinish" => Locks(j)
          BY DEF Locks, Phase
        <5>4. Locks(j) => place[j].page # Old(k)
          BY <5>1, <2>1, <1>11 DEF TwoPhases
        <5> QED BY <5>1, <5>2, <5>3, <5>4, <4>1, <4>2, <3>1, <3>2 DEF AsyncInv, DataInv
      <4> QED BY <4>3, <4>4
    <3>5. \A j \in InPlaces : j \in 1 .. Places
      BY DEF InPlaces
    <3> QED BY <3>1, <3>3, <3>4, <3>5, <1>4, <1>7, <1>10 DEF DataInv
  <2>2. CASE r.phase = "LoadingFinish"
    <3>1. /\ disk' = disk /\ mem'[f] = disk[r.page]
          /\ \A g \in Frames : g # f => mem'[g] = mem[g]
      BY <2>2, <1>5, <1>11, <1>12
    <3>2. \A p \in Pages : LET g == mapping[p] IN
            /\ g \in Frames => mem'[g] = written[p] /\ (pte[g].dirty \/ disk[p] = written[p])
            /\ g = Empty => disk[p] = written[p]
      <4>1. \A p \in Pages : mapping[p] \in Frames => mapping[p] # f
        BY <1>11 DEF AsyncInv, TableInv
      <4> QED BY <4>1, <3>1 DEF AsyncInv, DataInv
    <3>3. ASSUME NEW j \in InPlaces
          PROVE LET z == place'[j] IN
                /\ Locks(j) => disk[z.page] = written[z.page]
                /\ Evicts(j) => /\ mem'[z.frame] = written[Old(j)]
                                /\ \/ disk[Old(j)] = written[Old(j)]
                                   \/ z.phase = "Evicting" /\ pte[z.frame].dirty
                                   \/ z.phase = "EvictingFinish" /\ z.io # "done"
                /\ z.phase = "LoadingFinish" /\ z.io = "done" => mem'[z.frame] = disk[z.page]
      <4>1. j \in 1 .. Places /\ (Locks(j) => disk[place[j].page] = written[place[j].page])
        BY DEF AsyncInv, DataInv, InPlaces
      <4>3. CASE j = k
        BY <4>1, <4>3, <3>1, <2>2, <1>2, <1>6, <1>7, <1>11
      <4>4. CASE j # k
        <5>1. place'[j] = place[j] /\ OnePhase(j) /\ TwoPhases(j, k)
          BY <4>1, <4>4, <1>1, <1>7, <1>8
        <5>2. (Evicts(j) => Carries(j)) /\ (place[j].phase = "LoadingFinish" => Carries(j))
          BY DEF Carries, Evicts, Phase
        <5>3. Carries(j) => place[j].frame \in Frames /\ place[j].frame # f
          BY <5>1, <1>6, <1>11 DEF TwoPhases, OnePhase
        <5> QED BY <5>1, <5>2, <5>3, <3>1 DEF AsyncInv, DataInv
      <4> QED BY <4>3, <4>4
    <3>4. \A j \in InPlaces : j \in 1 .. Places
      BY DEF InPlaces
    <3> QED BY <3>1, <3>2, <3>3, <3>4, <1>4, <1>7, <1>10 DEF DataInv
  <2> QED BY <2>1, <2>2, <1>9
<1> QED BY <1>13, <1>14, <1>15, <1>16, <1>17 DEF AsyncInv

\* A server goes to the next place.
LEMMA NextPlace ==
  ASSUME Parameters, AsyncInv, at' \in 1 .. Places, again' \in BOOLEAN, mat' \in 1 .. Places,
         UNCHANGED <<mapping, pte, free, repl, mem, disk, chan, place, mchan, mplace, client, written>>
  PROVE  AsyncInv'
<1>1. UNCHANGED <<mapping, pte, free, repl, mem, disk, chan, place, mchan, mplace,
                  pc, pages, i, fut, blk, left, written>>
  BY DEF client
<1>2. InPlaces' = InPlaces
  BY <1>1 DEF InPlaces
<1>3. TypeOK'
  BY <1>1 DEF AsyncInv, TypeOK, Count
<1>4. CallInv'
  BY <1>1 DEF AsyncInv, CallInv, Count, Asked
<1>5. ManagerInv'
  BY <1>1 DEF AsyncInv, ManagerInv, Count
<1>6. RequestInv'
  BY <1>1, <1>2 DEF AsyncInv, RequestInv, Wanted, Count
<1>7. PhaseInv'
  BY <1>1, <1>2 DEF AsyncInv, PhaseInv, Locks, Carries, Evicts, Phase, Old
<1>8. TableInv'
  BY <1>1 DEF AsyncInv, TableInv
<1>9. RefInv'
  BY <1>1, <1>2 DEF AsyncInv, RefInv, Refs, Refers, Futures, Count
<1>10. DataInv'
  BY <1>1, <1>2 DEF AsyncInv, DataInv, Locks, Evicts, Phase, Old
<1> QED BY <1>3, <1>4, <1>5, <1>6, <1>7, <1>8, <1>9, <1>10 DEF AsyncInv

\* The phases of FetchPageAsyncInner.
LEMMA FetchStep ==
  ASSUME Parameters, AsyncInv,
         BeginFetch \/ Initing \/ Evicting \/ EvictingFinish \/ Loading \/ LoadingFinish
  PROVE  AsyncInv'
<1>1. ASSUME NEW k \in InPlaces, k = at, Go(place[k]) \/ False(place[k])
      PROVE  UNCHANGED place /\ at' \in 1 .. Places /\ again' \in BOOLEAN
  <2>1. place[k] \in Req /\ k \in 1 .. Places
    BY PlaceHasRequest DEF AsyncInv
  <2>2. place' = [place EXCEPT ![k] = place[k]] /\ at' \in 1 .. Places /\ again' \in BOOLEAN
    BY <1>1, <2>1, GoOrFalse
  <2>3. place' = place
    BY <2>1, <2>2 DEF AsyncInv, TypeOK
  <2> QED BY <2>2, <2>3
<1>2. CASE BeginFetch
  <2>1. PICK k \in InPlaces, r \in Req : k = at /\ r = Cur /\ place[k] = r /\ r.phase = "Begin"
    BY <1>2, AtPlace DEF BeginFetch
  <2>2. CASE mapping[r.page] = Empty /\ BeginFetch /\ ~(mapping[r.page] \in Frames)
    <3> DEFINE s == [r EXCEPT !.phase = "Initing"]
    <3>1. s \in Req /\ s.phase = "Initing" /\ s.io = r.io /\ s.page = r.page /\ s.to = r.to
      BY DEF Req
    <3>2. /\ Go(s) /\ mapping' = [mapping EXCEPT ![r.page] = Busy]
          /\ UNCHANGED <<pte, free, repl, mem, disk, chan, manager, client, written>>
      BY <2>1, <2>2 DEF BeginFetch, Parameters
    <3> HIDE DEF s
    <3>3. place' = [place EXCEPT ![k] = s] /\ at' \in 1 .. Places /\ again' \in BOOLEAN
      BY <2>1, <3>1, <3>2, GoOrFalse
    <3> QED BY <2>1, <2>2, <3>1, <3>2, <3>3, MissStep
  <2>3. CASE mapping[r.page] \in Frames
    <3> DEFINE m == mapping[r.page]
               s == [r EXCEPT !.phase = "End", !.frame = m]
    <3>1. /\ s \in Req /\ s.phase = "End" /\ s.io = r.io /\ s.page = r.page /\ s.to = r.to
          /\ s.frame = m
      BY <2>3 DEF Req
    <3>2. m # Empty /\ m # Busy
      BY <2>3 DEF Parameters
    <3>3. /\ Go(s) \/ False(s)
          /\ pte' = Pinned(m)
          /\ UNCHANGED <<mapping, free, repl, mem, disk, chan, manager, client, written>>
      BY <1>2, <2>1, <3>2 DEF BeginFetch
    <3>4. m \in Frames /\ mapping[r.page] = m
      BY <2>3
    <3> HIDE DEF s, m
    <3>5. place' = [place EXCEPT ![k] = s] /\ at' \in 1 .. Places /\ again' \in BOOLEAN
      BY <2>1, <3>1, <3>3, GoOrFalse
    <3>6. s.frame \in Frames /\ mapping[r.page] = s.frame /\ pte' = Pinned(s.frame)
      BY <3>1, <3>3, <3>4
    <3> QED BY <2>1, <3>1, <3>3, <3>5, <3>6, HitStep
  <2>4. CASE mapping[r.page] = Busy /\ ~(mapping[r.page] \in Frames)
    <3>1. /\ False(place[k])
          /\ UNCHANGED <<table, mem, disk, chan, manager, client, written>>
      BY <1>2, <2>1, <2>4 DEF BeginFetch, table, Parameters
    <3>2. UNCHANGED place /\ at' \in 1 .. Places /\ again' \in BOOLEAN
      BY <1>1, <2>1, <3>1
    <3>3. UNCHANGED <<mchan, mplace>> /\ mat' \in 1 .. Places
      BY <3>1 DEF manager, AsyncInv, TypeOK
    <3> QED BY <3>1, <3>2, <3>3, NextPlace DEF table
  <2>5. \/ mapping[r.page] \in Frames
        \/ mapping[r.page] \in {Empty, Busy} /\ ~(mapping[r.page] \in Frames)
    BY <1>2, <2>1 DEF BeginFetch, Parameters
  <2> QED BY <1>2, <2>2, <2>3, <2>4, <2>5
<1>3. CASE Initing
  <2>1. PICK k \in InPlaces, r \in Req : k = at /\ r = Cur /\ place[k] = r /\ r.phase = "Initing"
    BY <1>3, AtPlace DEF Initing
  <2>2. UNCHANGED <<pte, mem, disk, chan, manager, client, written>>
    BY <1>3 DEF Initing
  <2>3. ASSUME NEW f \in free, free' = free \ {f}, UNCHANGED <<mapping, repl>>,
               Go([Cur EXCEPT !.phase = "Loading", !.frame = f])
        PROVE  AsyncInv'
    <3> DEFINE s == [r EXCEPT !.phase = "Loading", !.frame = f]
    <3>1. f \in Frames
      BY DEF AsyncInv, TypeOK
    <3>2. /\ s \in Req /\ s.phase = "Loading" /\ s.io = r.io /\ s.page = r.page /\ s.to = r.to
          /\ s.frame = f
      BY <3>1 DEF Req
    <3>3. Go(s)
      BY <2>1, <2>3
    <3> HIDE DEF s
    <3>4. place' = [place EXCEPT ![k] = s] /\ at' \in 1 .. Places /\ again' \in BOOLEAN
      BY <2>1, <3>2, <3>3, GoOrFalse
    <3>5. /\ s.frame \in free /\ free' = free \ {s.frame}
          /\ UNCHANGED <<mapping, pte, repl, mem, disk, chan, manager, client, written>>
      BY <2>2, <2>3, <3>2
    <3> QED BY <2>1, <3>2, <3>4, <3>5, FreeStep
  <2>4. ASSUME NEW f \in Victims, repl' = repl \ {f}, UNCHANGED free,
               mapping' = [mapping EXCEPT ![pte[f].page] = Busy],
               Go([Cur EXCEPT !.phase = "Evicting", !.frame = f])
        PROVE  AsyncInv'
    <3> DEFINE s == [r EXCEPT !.phase = "Evicting", !.frame = f]
    <3>1. f \in Frames
      BY DEF AsyncInv, TypeOK, Victims
    <3>2. /\ s \in Req /\ s.phase = "Evicting" /\ s.io = r.io /\ s.page = r.page /\ s.to = r.to
          /\ s.frame = f
      BY <3>1 DEF Req
    <3>3. Go(s)
      BY <2>1, <2>4
    <3> HIDE DEF s
    <3>4. place' = [place EXCEPT ![k] = s] /\ at' \in 1 .. Places /\ again' \in BOOLEAN
      BY <2>1, <3>2, <3>3, GoOrFalse
    <3>5. /\ s.frame \in Victims /\ repl' = repl \ {s.frame}
          /\ mapping' = [mapping EXCEPT ![pte[s.frame].page] = Busy]
          /\ UNCHANGED <<pte, free, mem, disk, chan, manager, client, written>>
      BY <2>2, <2>4, <3>2
    <3> QED BY <2>1, <3>2, <3>4, <3>5, VictimStep
  <2>5. ASSUME Go([Cur EXCEPT !.phase = "exhausted"]), UNCHANGED <<mapping, free, repl>>
        PROVE  AsyncInv'
    <3> DEFINE s == [r EXCEPT !.phase = "exhausted"]
    <3>1. /\ s \in Req /\ s.phase = "exhausted" /\ s.io = r.io /\ s.page = r.page /\ s.to = r.to
          /\ s.frame = r.frame
      BY DEF Req
    <3>2. Go(s)
      BY <2>1, <2>5
    <3> HIDE DEF s
    <3>3. place' = [place EXCEPT ![k] = s] /\ at' \in 1 .. Places /\ again' \in BOOLEAN
      BY <2>1, <3>1, <3>2, GoOrFalse
    <3>4. UNCHANGED <<table, mem, disk, chan, manager, client, written>>
      BY <2>2, <2>5 DEF table
    <3> QED BY <2>1, <3>1, <3>3, <3>4, PhaseOnly
  <2> QED BY <1>3, <2>3, <2>4, <2>5 DEF Initing
<1>4. CASE Evicting
  <2>1. PICK k \in InPlaces, r \in Req : k = at /\ r = Cur /\ place[k] = r /\ r.phase = "Evicting"
    BY <1>4, AtPlace DEF Evicting
  <2>2. UNCHANGED <<pte, free, repl, mem, disk, chan, manager, client, written>>
    BY <1>4 DEF Evicting
  <2>3. CASE pte[r.frame].dirty
    <3> DEFINE s == [r EXCEPT !.phase = "EvictingFinish", !.io = "sent"]
    <3>1. /\ s \in Req /\ s.phase = "EvictingFinish" /\ s.io = "sent" /\ s.page = r.page
          /\ s.to = r.to /\ s.frame = r.frame
      BY DEF Req
    <3>2. False(s) /\ UNCHANGED mapping
      BY <1>4, <2>1, <2>3 DEF Evicting
    <3> HIDE DEF s
    <3>3. place' = [place EXCEPT ![k] = s] /\ at' \in 1 .. Places /\ again' \in BOOLEAN
      BY <2>1, <3>1, <3>2, GoOrFalse
    <3>4. UNCHANGED <<table, mem, disk, chan, manager, client, written>>
      BY <2>2, <3>2 DEF table
    <3> QED BY <2>1, <3>1, <3>3, <3>4, PhaseOnly
  <2>4. CASE ~pte[r.frame].dirty
    <3> DEFINE s == [r EXCEPT !.phase = "Loading"]
    <3>1. /\ s \in Req /\ s.phase = "Loading" /\ s.io = r.io /\ s.page = r.page
          /\ s.to = r.to /\ s.frame = r.frame
      BY DEF Req
    <3>2. Go(s) /\ mapping' = [mapping EXCEPT ![Old(k)] = Empty]
      BY <1>4, <2>1, <2>4 DEF Evicting, Unmap, Old
    <3> HIDE DEF s
    <3>3. place' = [place EXCEPT ![k] = s] /\ at' \in 1 .. Places /\ again' \in BOOLEAN
      BY <2>1, <3>1, <3>2, GoOrFalse
    <3>4. r.io = "none" /\ disk[Old(k)] = written[Old(k)]
      <4>1. k \in 1 .. Places /\ Evicts(k) /\ Phase(k, {"Begin", "Initing", "Evicting"})
        BY <2>1 DEF Evicts, Phase, InPlaces
      <4> QED BY <4>1, <2>1, <2>4 DEF AsyncInv, PhaseInv, DataInv
    <3>5. s.io # "sent" /\ r.phase \in {"Evicting", "EvictingFinish"}
      BY <2>1, <3>1, <3>4
    <3> QED BY <2>1, <2>2, <3>1, <3>2, <3>3, <3>4, <3>5, UnmapStep
  <2> QED BY <2>3, <2>4
<1>5. CASE EvictingFinish
  <2>1. PICK k \in InPlaces, r \in Req :
          k = at /\ r = Cur /\ place[k] = r /\ r.phase = "EvictingFinish"
    BY <1>5, AtPlace DEF EvictingFinish
  <2>2. UNCHANGED <<pte, free, repl, mem, disk, chan, manager, client, written>>
    BY <1>5 DEF EvictingFinish
  <2>3. CASE r.io = "done"
    <3> DEFINE s == [r EXCEPT !.phase = "Loading"]
    <3>1. /\ s \in Req /\ s.phase = "Loading" /\ s.io = r.io /\ s.page = r.page
          /\ s.to = r.to /\ s.frame = r.frame
      BY DEF Req
    <3>2. Go(s) /\ mapping' = [mapping EXCEPT ![Old(k)] = Empty]
      BY <1>5, <2>1, <2>3 DEF EvictingFinish, Unmap, Old
    <3> HIDE DEF s
    <3>3. place' = [place EXCEPT ![k] = s] /\ at' \in 1 .. Places /\ again' \in BOOLEAN
      BY <2>1, <3>1, <3>2, GoOrFalse
    <3>4. disk[Old(k)] = written[Old(k)]
      <4>1. Evicts(k)
        BY <2>1 DEF Evicts, Phase
      <4> QED BY <4>1, <2>1, <2>3 DEF AsyncInv, DataInv
    <3>5. s.io # "sent" /\ r.phase \in {"Evicting", "EvictingFinish"}
      BY <2>1, <2>3, <3>1
    <3> QED BY <2>1, <2>2, <3>1, <3>2, <3>3, <3>4, <3>5, UnmapStep
  <2>4. CASE r.io # "done"
    <3>1. False(place[k]) /\ UNCHANGED mapping
      BY <1>5, <2>1, <2>4 DEF EvictingFinish
    <3>2. UNCHANGED place /\ at' \in 1 .. Places /\ again' \in BOOLEAN
      BY <1>1, <2>1, <3>1
    <3>3. UNCHANGED <<mchan, mplace>> /\ mat' \in 1 .. Places
      BY <2>2 DEF manager, AsyncInv, TypeOK
    <3> QED BY <2>2, <3>1, <3>2, <3>3, NextPlace
  <2> QED BY <2>3, <2>4
<1>6. CASE Loading
  <2>1. PICK k \in InPlaces, r \in Req : k = at /\ r = Cur /\ place[k] = r /\ r.phase = "Loading"
    BY <1>6, AtPlace DEF Loading
  <2> DEFINE s == [r EXCEPT !.phase = "LoadingFinish", !.io = "sent"]
  <2>2. /\ s \in Req /\ s.phase = "LoadingFinish" /\ s.io = "sent" /\ s.page = r.page
        /\ s.to = r.to /\ s.frame = r.frame
    BY DEF Req
  <2>3. False(s) /\ UNCHANGED <<table, mem, disk, chan, manager, client, written>>
    BY <1>6, <2>1 DEF Loading
  <2> HIDE DEF s
  <2>4. place' = [place EXCEPT ![k] = s] /\ at' \in 1 .. Places /\ again' \in BOOLEAN
    BY <2>1, <2>2, <2>3, GoOrFalse
  <2> QED BY <2>1, <2>2, <2>3, <2>4, PhaseOnly
<1>7. CASE LoadingFinish
  <2>1. PICK k \in InPlaces, r \in Req :
          k = at /\ r = Cur /\ place[k] = r /\ r.phase = "LoadingFinish"
    BY <1>7, AtPlace DEF LoadingFinish
  <2>2. UNCHANGED <<mem, disk, chan, manager, client, written>>
    BY <1>7 DEF LoadingFinish
  <2>3. CASE r.io = "done"
    <3> DEFINE s == [r EXCEPT !.phase = "End"]
    <3>1. /\ s \in Req /\ s.phase = "End" /\ s.io = r.io /\ s.page = r.page
          /\ s.to = r.to /\ s.frame = r.frame
      BY DEF Req
    <3>2. Go(s) /\ Publish(r)
      BY <1>7, <2>1, <2>3 DEF LoadingFinish
    <3> HIDE DEF s
    <3>3. place' = [place EXCEPT ![k] = s] /\ at' \in 1 .. Places /\ again' \in BOOLEAN
      BY <2>1, <3>1, <3>2, GoOrFalse
    <3> QED BY <2>1, <2>2, <2>3, <3>1, <3>2, <3>3, PublishStep
  <2>4. CASE r.io # "done"
    <3>1. False(place[k]) /\ UNCHANGED <<mapping, pte, free, repl>>
      BY <1>7, <2>1, <2>4 DEF LoadingFinish, table
    <3>2. UNCHANGED place /\ at' \in 1 .. Places /\ again' \in BOOLEAN
      BY <1>1, <2>1, <3>1
    <3>3. UNCHANGED <<mchan, mplace>> /\ mat' \in 1 .. Places
      BY <2>2 DEF manager, AsyncInv, TypeOK
    <3> QED BY <2>2, <3>1, <3>2, <3>3, NextPlace
  <2> QED BY <2>3, <2>4
<1> QED BY <1>2, <1>3, <1>4, <1>5, <1>6, <1>7

-----------------------------------------------------------------------------
(* The server takes the next request of the channel. *)

\* A place that is empty, or whose request is done, gets the head of the channel, if
\* there is one.
LEMMA ChannelStep ==
  ASSUME Parameters, AsyncInv, NEW k \in 1 .. Places, NEW z,
         place[k] = None \/ Phase(k, {"End"}),
         place' = [place EXCEPT ![k] = z],
         \/ chan = <<>> /\ z = None /\ chan' = chan
         \/ chan # <<>> /\ z = Head(chan) /\ chan' = Tail(chan),
         UNCHANGED <<mapping, pte, free, repl, mem, disk, written>>
  PROVE  /\ place' \in [1 .. Places -> Req \cup {None}]
         /\ chan' \in Seq(Req) /\ Len(chan') <= Channel
         /\ PhaseInv' /\ TableInv' /\ DataInv'
         /\ \A n \in 1 .. Len(chan') : \E m \in 1 .. Len(chan) : chan'[n] = chan[m]
         /\ \A j \in InPlaces' : \/ j # k /\ j \in InPlaces /\ place'[j] = place[j]
                                 \/ j = k /\ \E m \in 1 .. Len(chan) : place'[j] = chan[m]
         /\ \A j \in InPlaces : j # k => j \in InPlaces' /\ place'[j] = place[j]
         /\ \A m \in 1 .. Len(chan) : \/ \E n \in 1 .. Len(chan') : chan'[n] = chan[m]
                                      \/ k \in InPlaces' /\ place'[k] = chan[m]
         /\ \A m, n \in 1 .. Len(chan') : chan'[m].to = chan'[n].to => m = n
         /\ \A j, n \in InPlaces' : place'[j].to = place'[n].to => j = n
         /\ \A n \in 1 .. Len(chan'), j \in InPlaces' : chan'[n].to # place'[j].to
<1>1. /\ chan \in Seq(Req) /\ Len(chan) \in Nat /\ Len(chan) <= Channel
      /\ place \in [1 .. Places -> Req \cup {None}] /\ None \notin Req /\ Channel \in Nat
  BY LenProperties DEF AsyncInv, TypeOK, Parameters
<1>2. \/ chan = <<>> /\ z = None /\ chan' = chan
      \/ /\ chan # <<>> /\ z = chan[1] /\ z \in Req /\ z # None /\ 1 \in 1 .. Len(chan)
         /\ chan' \in Seq(Req) /\ Len(chan') = Len(chan) - 1
         /\ \A n \in 1 .. Len(chan') : chan'[n] = chan[n + 1] /\ n + 1 \in 1 .. Len(chan)
         /\ \A n \in 1 .. Len(chan) : n = 1 \/ (n - 1 \in 1 .. Len(chan') /\ chan'[n - 1] = chan[n])
  <2>1. CASE chan = <<>>
    BY <2>1
  <2>2. CASE chan # <<>>
    <3>1. z = Head(chan) /\ chan' = Tail(chan)
      BY <2>2
    <3>2. /\ Len(chan) \in Nat \ {0} /\ Head(chan) \in Req /\ Head(chan) = chan[1]
          /\ Tail(chan) \in Seq(Req) /\ Len(Tail(chan)) = Len(chan) - 1
          /\ \A n \in 1 .. Len(Tail(chan)) : Tail(chan)[n] = chan[n + 1] /\ n + 1 \in 1 .. Len(chan)
          /\ \A n \in 1 .. Len(chan) :
               n = 1 \/ (n - 1 \in 1 .. Len(Tail(chan)) /\ Tail(chan)[n - 1] = chan[n])
      BY <1>1, <2>2, HeadTail
    <3>3. 1 \in 1 .. Len(chan)
      BY <3>2
    <3> QED BY <1>1, <2>2, <3>1, <3>2, <3>3
  <2> QED BY <2>1, <2>2
<1>3. /\ place' \in [1 .. Places -> Req \cup {None}] /\ place'[k] = z
      /\ \A j \in 1 .. Places : j # k => place'[j] = place[j]
      /\ z \in Req \cup {None}
  BY <1>1, <1>2
<1>4. chan' \in Seq(Req) /\ Len(chan') <= Channel /\ Len(chan') \in Nat
  <2>1. CASE chan = <<>> /\ z = None /\ chan' = chan
    BY <2>1, <1>1
  <2>2. CASE chan' \in Seq(Req) /\ Len(chan') = Len(chan) - 1
    BY <2>2, <1>1, LenProperties
  <2> QED BY <2>1, <2>2, <1>2
<1>5. /\ \A j \in 1 .. Places : j # k => (j \in InPlaces' <=> j \in InPlaces)
      /\ k \in InPlaces' <=> z # None
      /\ InPlaces \subseteq 1 .. Places /\ InPlaces' \subseteq 1 .. Places
  BY <1>3 DEF InPlaces
<1>6. z # None => z.phase = "Begin" /\ z.io = "none"
  BY <1>2 DEF AsyncInv, RequestInv
<1>7. /\ ~Locks(k)' /\ ~Carries(k)' /\ ~Evicts(k)' /\ ~Phase(k, {"End"})'
      /\ \A j \in 1 .. Places : j # k =>
            /\ Locks(j)' <=> Locks(j)
            /\ Carries(j)' <=> Carries(j)
            /\ Evicts(j)' <=> Evicts(j)
            /\ Old(j)' = Old(j)
  BY <1>3, <1>5, <1>6 DEF Locks, Carries, Evicts, Phase, Old
<1>8. PhaseInv'
  <2>1. /\ \A j \in 1 .. Places : OnePhase(j)
        /\ \A j, n \in 1 .. Places : j # n => TwoPhases(j, n)
    BY PhaseParts DEF AsyncInv
  <2>2. OnePhase(k)'
    BY <1>3, <1>5, <1>6, <1>7 DEF OnePhase, Phase
  <2>3. ASSUME NEW j \in 1 .. Places, j # k PROVE OnePhase(j)'
    <3>1. place'[j] = place[j] /\ (j \in InPlaces' <=> j \in InPlaces) /\ OnePhase(j)
      BY <1>3, <1>5, <2>1, <2>3
    <3>2. /\ Phase(j, {"End"})' <=> Phase(j, {"End"})
          /\ Phase(j, {"EvictingFinish", "LoadingFinish"})' <=> Phase(j, {"EvictingFinish", "LoadingFinish"})
          /\ Phase(j, {"Begin", "Initing", "Evicting"})' <=> Phase(j, {"Begin", "Initing", "Evicting"})
      BY <3>1 DEF Phase
    <3> QED BY <3>1, <3>2, <2>3, <1>7 DEF OnePhase
  <2>4. ASSUME NEW j \in 1 .. Places, NEW n \in 1 .. Places, j # n PROVE TwoPhases(j, n)'
    <3>1. TwoPhases(j, n)
      BY <2>1, <2>4
    <3> QED BY <3>1, <2>4, <1>3, <1>7 DEF TwoPhases
  <2>5. \A j \in 1 .. Places : OnePhase(j)'
    BY <2>2, <2>3
  <2>6. \A j, n \in 1 .. Places : j # n => TwoPhases(j, n)'
    BY <2>4
  <2> QED BY <2>5, <2>6 DEF PhaseInv, OnePhase, TwoPhases
<1>9. TableInv'
  BY DEF AsyncInv, TableInv
<1>10. DataInv'
  <2>1. \A j \in InPlaces' : LET q == place'[j] IN
       /\ Locks(j)' => disk[q.page] = written[q.page]
       /\ Evicts(j)' => /\ mem[q.frame] = written[Old(j)']
                       /\ \/ disk[Old(j)'] = written[Old(j)']
                          \/ q.phase = "Evicting" /\ pte[q.frame].dirty
                          \/ q.phase = "EvictingFinish" /\ q.io # "done"
       /\ q.phase = "LoadingFinish" /\ q.io = "done" => mem[q.frame] = disk[q.page]
    BY <1>3, <1>5, <1>6, <1>7 DEF AsyncInv, DataInv
  <2> QED BY <2>1 DEF AsyncInv, DataInv
<1>11. \A n \in 1 .. Len(chan') : \E m \in 1 .. Len(chan) : chan'[n] = chan[m]
  BY <1>1, <1>2
<1>12. \A j \in InPlaces' : \/ j # k /\ j \in InPlaces /\ place'[j] = place[j]
                            \/ j = k /\ \E m \in 1 .. Len(chan) : place'[j] = chan[m]
  BY <1>2, <1>3, <1>5
<1>13. \A j \in InPlaces : j # k => j \in InPlaces' /\ place'[j] = place[j]
  BY <1>3, <1>5
<1>14. \A m \in 1 .. Len(chan) : \/ \E n \in 1 .. Len(chan') : chan'[n] = chan[m]
                                 \/ k \in InPlaces' /\ place'[k] = chan[m]
  BY <1>1, <1>2, <1>3, <1>5
<1>15. /\ \A m, n \in 1 .. Len(chan) : chan[m].to = chan[n].to => m = n
       /\ \A j, n \in InPlaces : place[j].to = place[n].to => j = n
       /\ \A n \in 1 .. Len(chan), j \in InPlaces : chan[n].to # place[j].to
  BY DEF AsyncInv, RequestInv
<1>16. \A m, n \in 1 .. Len(chan') : chan'[m].to = chan'[n].to => m = n
  BY <1>1, <1>2, <1>4, <1>15
<1>17. \A j, n \in InPlaces' : place'[j].to = place'[n].to => j = n
  BY <1>12, <1>15
<1>18. \A n \in 1 .. Len(chan'), j \in InPlaces' : chan'[n].to # place'[j].to
  <2> TAKE n \in 1 .. Len(chan'), j \in InPlaces'
  <2>1. CASE j = k
    <3>1. chan'[n] = chan[n + 1] /\ place'[j] = chan[1] /\ n + 1 \in 1 .. Len(chan) /\ 1 \in 1 .. Len(chan)
      BY <2>1, <1>2, <1>3, <1>5
    <3>2. n \in Nat /\ n >= 1
      BY <1>4
    <3>3. n + 1 # 1
      BY <3>2
    <3> QED BY <3>1, <3>3, <1>15
  <2>2. CASE j # k
    BY <2>2, <1>11, <1>12, <1>15
  <2> QED BY <2>1, <2>2
<1> QED BY <1>3, <1>4, <1>8, <1>9, <1>10, <1>11, <1>12, <1>13, <1>14, <1>16, <1>17, <1>18

\* The requests that are left are wanted as they were, and none that is wanted is lost.
LEMMA ChannelRequests ==
  ASSUME Parameters, AsyncInv, NEW k \in 1 .. Places, NEW z,
         place[k] = None \/ Phase(k, {"End"}),
         place' = [place EXCEPT ![k] = z],
         \/ chan = <<>> /\ z = None /\ chan' = chan
         \/ chan # <<>> /\ z = Head(chan) /\ chan' = Tail(chan),
         UNCHANGED <<mapping, pte, free, repl, mem, disk, written, pages>>,
         \A r \in Req : Wanted(r) /\ (place[k] # None => r.to # place[k].to) => Wanted(r)',
         \A c \in Clients : \A n \in 1 .. Count(c) : fut'[c][n] = "pending" /\ pc'[c] # "held" =>
           /\ fut[c][n] = "pending" /\ pc[c] # "held"
           /\ place[k] # None => ~IsFor(place[k], c, n)
  PROVE  RequestInv'
<1>1. /\ \A n \in 1 .. Len(chan') : \E m \in 1 .. Len(chan) : chan'[n] = chan[m]
      /\ \A j \in InPlaces' : \/ j # k /\ j \in InPlaces /\ place'[j] = place[j]
                              \/ j = k /\ \E m \in 1 .. Len(chan) : place'[j] = chan[m]
      /\ \A j \in InPlaces : j # k => j \in InPlaces' /\ place'[j] = place[j]
      /\ \A m \in 1 .. Len(chan) : \/ \E n \in 1 .. Len(chan') : chan'[n] = chan[m]
                                   \/ k \in InPlaces' /\ place'[k] = chan[m]
      /\ \A m, n \in 1 .. Len(chan') : chan'[m].to = chan'[n].to => m = n
      /\ \A j, n \in InPlaces' : place'[j].to = place'[n].to => j = n
      /\ \A n \in 1 .. Len(chan'), j \in InPlaces' : chan'[n].to # place'[j].to
  BY ChannelStep
<1>2. k \in InPlaces <=> place[k] # None
  BY DEF InPlaces
<1>3. ASSUME NEW r \in Req, Wanted(r), place[k] # None => r.to # place[k].to PROVE Wanted(r)'
  BY <1>3
<1>4. ASSUME NEW m \in 1 .. Len(chan)
      PROVE  \E r \in Req : chan[m] = r /\ Wanted(r)' /\ r.phase = "Begin" /\ r.io = "none"
  <2>1. chan[m] \in Req
    BY ElementOfSeq DEF AsyncInv, TypeOK
  <2>2. PICK r \in Req : r = chan[m]
    BY <2>1
  <2>3. Wanted(r) /\ (place[k] # None => r.to # place[k].to) /\ r.phase = "Begin" /\ r.io = "none"
    BY <1>2, <2>2 DEF AsyncInv, RequestInv
  <2> QED BY <2>2, <2>3, <1>3
<1>5. ASSUME NEW j \in InPlaces, j # k PROVE \E r \in Req : place[j] = r /\ Wanted(r)'
  <2>1. PICK r \in Req : r = place[j]
    BY PlaceHasRequest DEF AsyncInv
  <2>2. Wanted(r) /\ (place[k] # None => r.to # place[k].to)
    BY <1>2, <1>5, <2>1 DEF AsyncInv, RequestInv
  <2> QED BY <2>1, <2>2, <1>3
<1>6. \A n \in 1 .. Len(chan') : Wanted(chan[n])' /\ chan'[n].phase = "Begin" /\ chan'[n].io = "none"
  <2> TAKE n \in 1 .. Len(chan')
  <2>1. PICK m \in 1 .. Len(chan) : chan'[n] = chan[m]
    BY <1>1
  <2>2. PICK r \in Req : chan[m] = r /\ Wanted(r)' /\ r.phase = "Begin" /\ r.io = "none"
    BY <1>4
  <2> QED BY <2>1, <2>2 DEF Wanted
<1>7. \A j \in InPlaces' : Wanted(place[j])'
  <2> TAKE j \in InPlaces'
  <2>1. PICK r \in Req : place'[j] = r /\ Wanted(r)'
    BY <1>1, <1>4, <1>5
  <2> QED BY <2>1 DEF Wanted
<1>8. ASSUME NEW c \in Clients, NEW n \in 1 .. Count(c), fut'[c][n] = "pending", pc'[c] # "held"
      PROVE  \/ \E m \in 1 .. Len(chan') : IsFor(chan'[m], c, n)
             \/ \E j \in InPlaces' : IsFor(place'[j], c, n)
  <2>1. fut[c][n] = "pending" /\ pc[c] # "held" /\ (place[k] # None => ~IsFor(place[k], c, n))
    BY <1>8
  <2>2. \/ \E m \in 1 .. Len(chan) : IsFor(chan[m], c, n)
        \/ \E j \in InPlaces : IsFor(place[j], c, n)
    BY <2>1 DEF AsyncInv, RequestInv
  <2>3. CASE \E m \in 1 .. Len(chan) : IsFor(chan[m], c, n)
    BY <2>3, <1>1
  <2>4. CASE \E j \in InPlaces : IsFor(place[j], c, n)
    BY <2>1, <2>4, <1>1, <1>2
  <2> QED BY <2>2, <2>3, <2>4
<1>9. \A c \in Clients : Count(c)' = Count(c)
  BY DEF Count
<1> QED BY <1>1, <1>6, <1>7, <1>8, <1>9 DEF RequestInv

\* What the answers on the way refer to, after such a step.
LEMMA ChannelAnswers ==
  ASSUME Parameters, AsyncInv, NEW k \in 1 .. Places, NEW z,
         place[k] = None \/ Phase(k, {"End"}),
         place' = [place EXCEPT ![k] = z],
         \/ chan = <<>> /\ z = None /\ chan' = chan
         \/ chan # <<>> /\ z = Head(chan) /\ chan' = Tail(chan),
         UNCHANGED <<mapping, pte, free, repl, mem, disk, written>>,
         NEW c, NEW n, NEW f, place[k] # None => ~IsFor(place[k], c, n),
         blk'[c][n] = blk[c][n], fut'[c][n] = fut[c][n], pc'[c] = pc[c]
  PROVE  Refers(c, n, f)' <=> Refers(c, n, f)
<1>1. /\ \A j \in InPlaces' : \/ j # k /\ j \in InPlaces /\ place'[j] = place[j]
                              \/ j = k /\ \E m \in 1 .. Len(chan) : place'[j] = chan[m]
      /\ \A j \in InPlaces : j # k => j \in InPlaces' /\ place'[j] = place[j]
  BY ChannelStep
<1>2. k \in InPlaces => place[k] # None
  BY DEF InPlaces
<1>3. \A m \in 1 .. Len(chan) : chan[m].phase = "Begin"
  BY DEF AsyncInv, RequestInv
<1>4. (\E j \in InPlaces : place[j].phase = "End" /\ place[j].frame = f /\ IsFor(place[j], c, n))
        <=> (\E j \in InPlaces' : place'[j].phase = "End" /\ place'[j].frame = f /\ IsFor(place'[j], c, n))
  BY <1>1, <1>2, <1>3
<1> QED BY <1>4 DEF Refers

\* The server takes a request for an empty place, or goes on to the next place.
LEMMA PopStep ==
  ASSUME Parameters, AsyncInv, Pop
  PROVE  AsyncInv'
<1>1. UNCHANGED <<mapping, pte, free, repl, mem, disk, mchan, mplace, mat, pc, pages, i, fut,
                  blk, left, written, client, manager>>
  BY DEF Pop, table, manager, client
<1>2. at \in 1 .. Places /\ again \in BOOLEAN /\ mat \in 1 .. Places /\ place[at] = None
  BY DEF AsyncInv, TypeOK, Pop, Cur
<1>3. CASE chan # <<>> /\ Go(Head(chan)) /\ chan' = Tail(chan)
  <2>1. PICK j \in 1 .. Places : j = at
    BY <1>2
  <2>2. PICK z \in Req : z = Head(chan)
    BY <1>3, HeadTail DEF AsyncInv, TypeOK
  <2>3. /\ place' = [place EXCEPT ![j] = z] /\ UNCHANGED <<at, again>>
        /\ place[j] = None \/ Phase(j, {"End"})
        /\ \/ chan = <<>> /\ z = None /\ chan' = chan
           \/ chan # <<>> /\ z = Head(chan) /\ chan' = Tail(chan)
        /\ place[j] = None
    BY <1>2, <1>3, <2>1, <2>2 DEF Go
  <2>4. /\ place' \in [1 .. Places -> Req \cup {None}]
        /\ chan' \in Seq(Req) /\ Len(chan') <= Channel
        /\ PhaseInv' /\ TableInv' /\ DataInv'
    BY <1>1, <2>3, ChannelStep
  <2>5. \A c \in Clients : Count(c)' = Count(c)
    BY <1>1 DEF Count
  <2>6. TypeOK'
    BY <1>1, <2>3, <2>4, <2>5 DEF AsyncInv, TypeOK
  <2>7. CallInv' /\ ManagerInv'
    BY <1>1, <2>5 DEF AsyncInv, CallInv, ManagerInv, Asked, Count
  <2>8. RequestInv'
    <3>1. \A r \in Req : Wanted(r) => Wanted(r)'
      BY <1>1 DEF Wanted, Count
    <3> QED BY <1>1, <2>3, <3>1, ChannelRequests
  <2>9. RefInv'
    <3>1. ASSUME NEW c \in Clients, NEW f \in Frames, NEW n \in 1 .. Count(c)
          PROVE  Refers(c, n, f)' <=> Refers(c, n, f)
      BY <1>1, <2>3, ChannelAnswers
    <3> QED BY <1>1, <3>1, RefsStep
  <2> QED BY <2>4, <2>6, <2>7, <2>8, <2>9 DEF AsyncInv
<1>4. CASE at' = Following(at) /\ UNCHANGED <<chan, place, again>>
  <2>1. at' \in 1 .. Places
    BY <1>2, <1>4, FollowingType
  <2> QED BY <1>1, <1>2, <1>4, <2>1, NextPlace
<1> QED BY <1>3, <1>4 DEF Pop

\* A request that is done sets its promise, and the next one takes its place.
LEMMA PromiseStep ==
  ASSUME Parameters, AsyncInv, NEW k \in InPlaces, NEW r \in Req, NEW z,
         place[k] = r, r.phase = "End", Promise(r),
         place' = [place EXCEPT ![k] = z],
         \/ chan = <<>> /\ z = None /\ chan' = chan
         \/ chan # <<>> /\ z = Head(chan) /\ chan' = Tail(chan),
         at' \in 1 .. Places, again' \in BOOLEAN,
         UNCHANGED <<mapping, pte, free, repl, mem, disk, mchan, mplace, mat, pages, i, left, written>>
  PROVE  AsyncInv'
<1>1. /\ k \in 1 .. Places /\ place[k] # None /\ Phase(k, {"End"})
      /\ place[k] = None \/ Phase(k, {"End"})
  BY DEF InPlaces, Phase
<1>2. PICK c \in Clients, n \in Nat : r.to = <<c, n>> /\ r.to[1] = c /\ r.to[2] = n
  BY RequestFields
<1> DEFINE f == r.frame
<1>3. /\ n \in 1 .. Count(c) /\ r.page = pages[c][n] /\ fut[c][n] = "pending" /\ pc[c] # "held"
      /\ f \in Frames /\ mapping[r.page] = f
  BY <1>1, <1>2 DEF AsyncInv, RequestInv, Wanted, PhaseInv
<1>4. blk[c][n] = None /\ pc[c] \in {"begin", "check", "wait"} /\ Asked(c, n)
      /\ (pc[c] = "begin" => n \notin i[c] .. Count(c))
  BY <1>3, PendingIsEmpty
<1>5. f \in Frames /\ f # "none" /\ f # "pending" /\ None \notin Frames
  BY <1>3 DEF Parameters
<1>6. \/ /\ Count(c) = 1 /\ n = 1
         /\ blk' = [blk EXCEPT ![c][1] = f] /\ pc' = [pc EXCEPT ![c] = "held"] /\ fut' = fut
      \/ /\ Count(c) # 1
         /\ fut' = [fut EXCEPT ![c][n] = f] /\ blk' = blk /\ pc' = pc
  BY <1>2, <1>3 DEF Promise
<1> HIDE DEF f
<1>7. \A b \in Clients : Count(b)' = Count(b) /\ Count(b) \in Nat
  BY CallTypes DEF AsyncInv, Count
<1>8. /\ DOMAIN fut = Clients /\ DOMAIN blk = Clients
      /\ pc \in [Clients -> {"idle", "begin", "check", "wait", "held"}]
      /\ \A b \in Clients : /\ fut[b] \in [1 .. Count(b) -> Frames \cup {"none", "pending"}]
                            /\ blk[b] \in [1 .. Count(b) -> Frames \cup {None}]
  BY DEF AsyncInv, TypeOK
<1>9. /\ DOMAIN fut' = Clients /\ DOMAIN blk' = Clients
      /\ pc' \in [Clients -> {"idle", "begin", "check", "wait", "held"}]
      /\ \A b \in Clients : b # c => fut'[b] = fut[b] /\ blk'[b] = blk[b] /\ pc'[b] = pc[b]
      /\ \A m \in 1 .. Count(c) : m # n => fut'[c][m] = fut[c][m] /\ blk'[c][m] = blk[c][m]
      /\ fut'[c] \in [1 .. Count(c) -> Frames \cup {"none", "pending"}]
      /\ blk'[c] \in [1 .. Count(c) -> Frames \cup {None}]
  <2>1. CASE Count(c) = 1 /\ n = 1 /\ blk' = [blk EXCEPT ![c][1] = f]
             /\ pc' = [pc EXCEPT ![c] = "held"] /\ fut' = fut
    <3>1. /\ DOMAIN blk' = Clients /\ \A b \in Clients : b # c => blk'[b] = blk[b]
          /\ blk'[c] = [blk[c] EXCEPT ![1] = f]
      BY <2>1, <1>8
    <3>2. blk'[c] \in [1 .. Count(c) -> Frames \cup {None}]
      <4>1. blk'[c] = [blk[c] EXCEPT ![n] = f]
        BY <2>1, <3>1
      <4>2. blk[c] \in [1 .. Count(c) -> Frames \cup {None}] /\ f \in Frames \cup {None}
        BY <1>5, <1>8
      <4> QED BY <4>1, <4>2
    <3>3. \A m \in 1 .. Count(c) : m = n
      BY <2>1
    <3>4. pc' \in [Clients -> {"idle", "begin", "check", "wait", "held"}]
          /\ \A b \in Clients : b # c => pc'[b] = pc[b]
      BY <2>1, <1>8
    <3>5. /\ DOMAIN fut' = Clients /\ \A b \in Clients : fut'[b] = fut[b]
          /\ fut'[c] \in [1 .. Count(c) -> Frames \cup {"none", "pending"}]
      BY <2>1, <1>8
    <3>6. \A m \in 1 .. Count(c) : m # n => fut'[c][m] = fut[c][m] /\ blk'[c][m] = blk[c][m]
      BY <3>3
    <3> QED BY <3>1, <3>2, <3>4, <3>5, <3>6
  <2>2. CASE Count(c) # 1 /\ fut' = [fut EXCEPT ![c][n] = f] /\ blk' = blk /\ pc' = pc
    <3>1. /\ DOMAIN fut' = Clients /\ \A b \in Clients : b # c => fut'[b] = fut[b]
          /\ fut'[c] = [fut[c] EXCEPT ![n] = f]
      BY <2>2, <1>8
    <3>2. /\ fut'[c] \in [1 .. Count(c) -> Frames \cup {"none", "pending"}]
          /\ \A m \in 1 .. Count(c) : m # n => fut'[c][m] = fut[c][m]
      BY <3>1, <1>3, <1>5, <1>8
    <3> QED BY <2>2, <3>1, <3>2, <1>8
  <2> QED BY <1>6, <2>1, <2>2
<1>10. \/ Count(c) = 1 /\ n = 1 /\ blk'[c][n] = f /\ fut'[c][n] = "pending" /\ pc'[c] = "held"
       \/ Count(c) # 1 /\ blk'[c][n] = None /\ fut'[c][n] = f /\ pc'[c] = pc[c]
  <2>1. CASE Count(c) = 1 /\ n = 1 /\ blk' = [blk EXCEPT ![c][1] = f]
             /\ pc' = [pc EXCEPT ![c] = "held"] /\ fut' = fut
    <3>1. blk'[c] = [blk[c] EXCEPT ![1] = f] /\ pc'[c] = "held"
      BY <2>1, <1>8
    <3>2. blk'[c][1] = f
      BY <2>1, <3>1, <1>3, <1>8
    <3> QED BY <2>1, <3>1, <3>2, <1>3
  <2>2. CASE Count(c) # 1 /\ fut' = [fut EXCEPT ![c][n] = f] /\ blk' = blk /\ pc' = pc
    <3>1. fut'[c] = [fut[c] EXCEPT ![n] = f]
      BY <2>2, <1>8
    <3>2. fut'[c][n] = f
      BY <3>1, <1>3, <1>8
    <3> QED BY <2>2, <3>2, <1>4
  <2> QED BY <1>6, <2>1, <2>2
<1>11. /\ place' \in [1 .. Places -> Req \cup {None}]
       /\ chan' \in Seq(Req) /\ Len(chan') <= Channel
       /\ PhaseInv' /\ TableInv' /\ DataInv'
       /\ \A j \in InPlaces' : \/ j # k /\ j \in InPlaces /\ place'[j] = place[j]
                               \/ j = k /\ \E m \in 1 .. Len(chan) : place'[j] = chan[m]
  BY <1>1, ChannelStep
<1>12. TypeOK'
  <2>1. \A b \in Clients : /\ fut'[b] \in [1 .. Count(b)' -> Frames \cup {"none", "pending"}]
                           /\ blk'[b] \in [1 .. Count(b)' -> Frames \cup {None}]
    BY <1>7, <1>8, <1>9
  <2> QED BY <2>1, <1>9, <1>11 DEF AsyncInv, TypeOK
<1>13. CallInv'
  <2>1. CallInv
    BY DEF AsyncInv
  <2>2. ASSUME NEW b \in Clients
        PROVE  /\ pc'[b] = "idle" <=> Count(b) = 0
               /\ pc'[b] = "begin" =>
                    /\ i[b] \in 1 .. Count(b)
                    /\ \A m \in 1 .. i[b] - 1 : Asked(b, m)'
                    /\ \A m \in i[b] .. Count(b) : fut'[b][m] = "none" /\ blk'[b][m] = None
               /\ pc'[b] \in {"check", "wait"} => \A m \in 1 .. Count(b) : Asked(b, m)'
               /\ pc'[b] = "check" => Count(b) > 1
               /\ pc'[b] = "held" => \A m \in 1 .. Count(b) : blk'[b][m] \in Frames
    <3>1. CASE b # c
      <4>1. pc'[b] = pc[b] /\ \A m : (Asked(b, m)' <=> Asked(b, m))
        BY <3>1, <1>9 DEF Asked
      <4> QED BY <4>1, <3>1, <2>1, <1>9 DEF CallInv
    <3>2. CASE b = c /\ Count(c) = 1
      <4>1. pc'[c] = "held" /\ Count(c) # 0 /\ \A m \in 1 .. Count(c) : blk'[c][m] \in Frames
        BY <3>2, <1>5, <1>10
      <4> QED BY <3>2, <4>1
    <3>3. CASE b = c /\ Count(c) # 1
      <4>1. pc'[c] = pc[c] /\ pc[c] # "held" /\ blk'[c][n] = None /\ fut'[c][n] = f
        BY <3>3, <1>3, <1>10
      <4>2. \A m \in 1 .. Count(c) : Asked(c, m) => Asked(c, m)'
        BY <4>1, <1>5, <1>9 DEF Asked
      <4>3. pc[c] = "begin" => /\ i[c] \in 1 .. Count(c) /\ n \notin i[c] .. Count(c)
                               /\ \A m \in 1 .. i[c] - 1 : m \in 1 .. Count(c)
                               /\ \A m \in i[c] .. Count(c) : m \in 1 .. Count(c)
        BY <1>4, <1>7, <2>1 DEF CallInv
      <4>4. pc[c] = "begin" => /\ \A m \in 1 .. i[c] - 1 : Asked(c, m)'
                               /\ \A m \in i[c] .. Count(c) : fut'[c][m] = "none" /\ blk'[c][m] = None
        BY <2>1, <4>2, <4>3, <1>9 DEF CallInv
      <4>5. pc[c] \in {"check", "wait"} => \A m \in 1 .. Count(c) : Asked(c, m)'
        BY <2>1, <4>2 DEF CallInv
      <4> QED BY <3>3, <2>1, <4>1, <4>3, <4>4, <4>5 DEF CallInv
    <3> QED BY <3>1, <3>2, <3>3
  <2> QED BY <2>2, <1>7 DEF CallInv
<1>14. ManagerInv'
  <2>1. ASSUME NEW b \in Clients, pc[b] = "wait", Count(b) > 1
        PROVE  pc'[b] = "wait" /\ Count(b)' > 1
    BY <2>1, <1>7, <1>9, <1>10
  <2>2. /\ \A m \in 1 .. Len(mchan) : mchan[m] \in Clients
        /\ \A m \in 1 .. Places : mplace[m] # None => mplace[m] \in Clients
    BY ElementOfSeq DEF AsyncInv, TypeOK
  <2>3. ManagerInv
    BY DEF AsyncInv
  <2>4. \A m \in 1 .. Len(mchan) : pc'[mchan[m]] = "wait" /\ Count(mchan[m])' > 1
    BY <2>1, <2>2, <2>3 DEF ManagerInv
  <2>5. \A m \in 1 .. Places : mplace[m] # None => pc'[mplace[m]] = "wait" /\ Count(mplace[m])' > 1
    BY <2>1, <2>2, <2>3 DEF ManagerInv
  <2> QED BY <2>3, <2>4, <2>5 DEF ManagerInv, Count
<1>15. RequestInv'
  <2>1. ASSUME NEW q \in Req, Wanted(q), q.to # r.to PROVE Wanted(q)'
    <3>1. PICK b \in Clients, m \in Nat : q.to = <<b, m>> /\ q.to[1] = b /\ q.to[2] = m
      BY RequestFields
    <3>2. b # c \/ m # n
      BY <2>1, <3>1, <1>2
    <3>3. m \in 1 .. Count(b) /\ q.page = pages[b][m] /\ fut[b][m] = "pending" /\ pc[b] # "held"
      BY <2>1, <3>1 DEF Wanted
    <3>4. fut'[b][m] = "pending" /\ pc'[b] # "held"
      <4>1. CASE b # c
        BY <4>1, <3>3, <1>9
      <4>2. CASE b = c
        <5>1. m # n /\ Count(c) # 1
          BY <4>2, <3>2, <3>3, <1>10
        <5> QED BY <4>2, <5>1, <3>3, <1>9, <1>10
      <4> QED BY <4>1, <4>2
    <3> QED BY <3>1, <3>3, <3>4, <1>7 DEF Wanted
  <2>2. ASSUME NEW b \in Clients, NEW m \in 1 .. Count(b), fut'[b][m] = "pending", pc'[b] # "held"
        PROVE  /\ fut[b][m] = "pending" /\ pc[b] # "held"
               /\ place[k] # None => ~IsFor(place[k], b, m)
    <3>1. b # c \/ m # n
      BY <2>2, <1>5, <1>10
    <3>2. ~IsFor(r, b, m)
      BY <3>1, <1>2 DEF IsFor
    <3>3. fut[b][m] = "pending" /\ pc[b] # "held"
      BY <2>2, <3>1, <1>3, <1>9
    <3> QED BY <3>2, <3>3
  <2> QED BY <2>1, <2>2, <1>1, ChannelRequests
<1>16. RefInv'
  <2>1. ASSUME NEW b \in Clients, NEW g \in Frames, NEW m \in 1 .. Count(b)
        PROVE  Refers(b, m, g)' <=> Refers(b, m, g)
    <3>1. CASE b # c \/ m # n
      <4>1. ~IsFor(r, b, m)
        BY <3>1, <1>2 DEF IsFor
      <4>2. CASE b # c \/ Count(c) # 1
        <5>1. blk'[b][m] = blk[b][m] /\ fut'[b][m] = fut[b][m] /\ pc'[b] = pc[b]
          BY <3>1, <4>2, <1>9, <1>10
        <5> QED BY <4>1, <5>1, <1>1, ChannelAnswers
      <4>3. CASE b = c /\ Count(c) = 1
        BY <3>1, <4>3, <1>10
      <4> QED BY <4>2, <4>3
    <3>2. CASE b = c /\ m = n
      <4>1. Refers(c, n, f)
        BY <1>2 DEF Refers, IsFor, f
      <4>2. Refers(c, n, g) => g = f
        BY <1>3, ReferredCounts
      <4>3. ~\E j \in InPlaces' : place'[j].phase = "End" /\ place'[j].frame = g /\ IsFor(place'[j], c, n)
        <5>1. \A j \in InPlaces : j # k => ~IsFor(place[j], c, n)
          BY <1>2 DEF AsyncInv, RequestInv, IsFor
        <5>2. \A j \in 1 .. Len(chan) : chan[j].phase = "Begin"
          BY DEF AsyncInv, RequestInv
        <5> QED BY <5>1, <5>2, <1>11
      <4>4. Refers(c, n, g)' <=> g = f
        BY <4>3, <1>3, <1>5, <1>10 DEF Refers
      <4> QED BY <3>2, <4>1, <4>2, <4>4
    <3> QED BY <3>1, <3>2
  <2> QED BY <2>1, RefsStep
<1> QED BY <1>11, <1>12, <1>13, <1>14, <1>15, <1>16 DEF AsyncInv

\* A request that is done is deleted, unless its answer was not looked at.
LEMMA EndStep ==
  ASSUME Parameters, AsyncInv, End
  PROVE  AsyncInv'
<1>1. PICK k \in InPlaces, r \in Req : k = at /\ r = Cur /\ place[k] = r /\ r.phase = "End"
  BY AtPlace DEF End
<1>2. /\ UNCHANGED <<mapping, pte, free, repl, mem, disk, mchan, mplace, mat, pages, i, left, written>>
      /\ k \in 1 .. Places /\ at \in 1 .. Places /\ again \in BOOLEAN /\ mat \in 1 .. Places
      /\ place \in [1 .. Places -> Req \cup {None}]
  BY DEF End, table, manager, AsyncInv, TypeOK, InPlaces
<1>3. CASE again
  <2>1. False(r) /\ UNCHANGED <<chan, pc, fut, blk>>
    BY <1>1, <1>3 DEF End
  <2>2. place' = [place EXCEPT ![k] = place[k]] /\ at' \in 1 .. Places /\ again' \in BOOLEAN
    BY <1>1, <2>1, GoOrFalse
  <2>3. UNCHANGED <<place, client>>
    BY <1>2, <2>1, <2>2 DEF client
  <2> QED BY <1>2, <2>1, <2>2, <2>3, NextPlace
<1>4. CASE ~again /\ chan # <<>>
  <2> DEFINE z == Head(chan)
  <2>1. /\ Promise(r) /\ place' = [place EXCEPT ![k] = z] /\ chan' = Tail(chan)
        /\ at' \in 1 .. Places /\ again' \in BOOLEAN
    BY <1>1, <1>2, <1>4 DEF End
  <2> QED BY <1>1, <1>2, <1>4, <2>1, PromiseStep
<1>5. CASE ~again /\ chan = <<>>
  <2>1. Promise(r) /\ False(None) /\ chan' = chan
    BY <1>1, <1>5 DEF End
  <2>2. at' \in 1 .. Places
    BY <1>1, <1>2, <2>1, FollowingType DEF False
  <2>3. place' = [place EXCEPT ![k] = None] /\ again' \in BOOLEAN
    BY <1>1, <2>1 DEF False
  <2> QED BY <1>1, <1>2, <1>5, <2>1, <2>2, <2>3, PromiseStep
<1> QED BY <1>2, <1>3, <1>4, <1>5

-----------------------------------------------------------------------------
(* The steps of the clients. *)

\* The page table and the requests notice no change of the counts.
LEMMA TableKept ==
  ASSUME Parameters, AsyncInv,
         UNCHANGED <<mapping, free, repl, mem, disk, place, written>>,
         \A f \in Frames : pte'[f].page = pte[f].page /\ pte'[f].dirty = pte[f].dirty
  PROVE  PhaseInv' /\ TableInv' /\ DataInv' /\ InPlaces' = InPlaces
<1>1. InPlaces' = InPlaces /\ InPlaces \subseteq 1 .. Places
  BY DEF InPlaces
<1>2. \A j \in 1 .. Places : /\ Locks(j)' <=> Locks(j)
                             /\ Carries(j)' <=> Carries(j)
                             /\ Evicts(j)' <=> Evicts(j)
                             /\ \A S : Phase(j, S)' <=> Phase(j, S)
  BY <1>1 DEF Locks, Carries, Evicts, Phase
<1>3. /\ \A j \in 1 .. Places : OnePhase(j)
      /\ \A j, n \in 1 .. Places : j # n => TwoPhases(j, n)
  BY PhaseParts DEF AsyncInv
<1>4. ASSUME NEW j \in 1 .. Places, Evicts(j) PROVE Old(j)' = Old(j) /\ place[j].frame \in Frames
  <2>1. place[j].frame \in Frames
    BY <1>3, <1>4 DEF OnePhase, Evicts, Carries, Phase
  <2> QED BY <2>1 DEF Old
<1>5. PhaseInv'
  <2>1. ASSUME NEW j \in 1 .. Places PROVE OnePhase(j)'
    <3>1. /\ Phase(j, {"End"})' <=> Phase(j, {"End"})
          /\ Phase(j, {"EvictingFinish", "LoadingFinish"})' <=> Phase(j, {"EvictingFinish", "LoadingFinish"})
          /\ Phase(j, {"Begin", "Initing", "Evicting"})' <=> Phase(j, {"Begin", "Initing", "Evicting"})
      BY <1>2
    <3> QED BY <3>1, <1>1, <1>2, <1>3, <1>4 DEF OnePhase
  <2>2. ASSUME NEW j \in 1 .. Places, NEW n \in 1 .. Places, j # n PROVE TwoPhases(j, n)'
    <3>1. TwoPhases(j, n)
      BY <1>3, <2>2
    <3> QED BY <3>1, <1>2, <1>4 DEF TwoPhases
  <2>3. \A j \in 1 .. Places : OnePhase(j)'
    BY <2>1
  <2>4. \A j, n \in 1 .. Places : j # n => TwoPhases(j, n)'
    BY <2>2
  <2> QED BY <2>3, <2>4 DEF PhaseInv, OnePhase, TwoPhases
<1>6. TableInv'
  <2>1. repl \subseteq Frames
    BY DEF AsyncInv, TypeOK
  <2> QED BY <2>1 DEF AsyncInv, TableInv
<1>7. DataInv'
  <2>1. \A p \in Pages : LET g == mapping[p] IN
          /\ g \in Frames => mem[g] = written[p] /\ (pte'[g].dirty \/ disk[p] = written[p])
          /\ g = Empty => disk[p] = written[p]
    BY DEF AsyncInv, DataInv
  <2>2. ASSUME NEW j \in InPlaces
        PROVE LET z == place[j] IN
              /\ Locks(j)' => disk[z.page] = written[z.page]
              /\ Evicts(j)' => /\ mem[z.frame] = written[Old(j)']
                               /\ \/ disk[Old(j)'] = written[Old(j)']
                                  \/ z.phase = "Evicting" /\ pte'[z.frame].dirty
                                  \/ z.phase = "EvictingFinish" /\ z.io # "done"
              /\ z.phase = "LoadingFinish" /\ z.io = "done" => mem[z.frame] = disk[z.page]
    <3>1. j \in 1 .. Places
      BY <1>1
    <3> QED BY <3>1, <1>2, <1>4 DEF AsyncInv, DataInv
  <2> QED BY <2>1, <2>2, <1>1 DEF DataInv
<1> QED BY <1>1, <1>5, <1>6, <1>7

\* A write makes a frame dirty that is in the page table.
LEMMA WriteStep ==
  ASSUME Parameters, AsyncInv, NEW c \in Clients, NEW k \in 1 .. Count(c), Write(c, k)
  PROVE  AsyncInv'
<1> DEFINE f == blk[c][k]  p == pages[c][k]
<1>1. /\ pc[c] = "held" /\ mem' = [mem EXCEPT ![f] = @ + 1] /\ pte' = [pte EXCEPT ![f].dirty = TRUE]
      /\ written' = [written EXCEPT ![p] = @ + 1]
      /\ UNCHANGED <<mapping, free, repl, disk, chan, place, at, again, mchan, mplace, mat,
                     pc, pages, i, fut, blk, left>>
  BY DEF Write, pool, manager, client
<1>2. f \in Frames /\ p \in Pages
  BY <1>1, CallTypes DEF AsyncInv, CallInv
<1>3. f \in repl /\ mapping[p] = f /\ pte[f].page = p
  <2>1. Refers(c, k, f)
    BY DEF Refers
  <2> QED BY <2>1, <1>2, ReferredCounts
<1>4. /\ mem \in [Frames -> Nat] /\ written \in [Pages -> Nat]
      /\ pte \in [Frames -> [page : Pages \cup {None}, ref : Nat, dirty : BOOLEAN]]
      /\ repl \subseteq Frames /\ Busy \notin Frames /\ Empty \notin Frames
  BY DEF AsyncInv, TypeOK, Parameters
<1> HIDE DEF f, p
<1>5. /\ mem' \in [Frames -> Nat] /\ mem'[f] = mem[f] + 1
      /\ \A g \in Frames : g # f => mem'[g] = mem[g]
      /\ written' \in [Pages -> Nat] /\ written'[p] = written[p] + 1
      /\ \A q \in Pages : q # p => written'[q] = written[q]
  BY <1>1, <1>2, <1>4
<1>6. /\ pte' \in [Frames -> [page : Pages \cup {None}, ref : Nat, dirty : BOOLEAN]]
      /\ \A g \in Frames : /\ pte'[g].page = pte[g].page /\ pte'[g].ref = pte[g].ref
                           /\ g # f => pte'[g] = pte[g]
      /\ pte'[f].dirty
  BY <1>1, <1>2, <1>4
<1>7. InPlaces' = InPlaces /\ InPlaces \subseteq 1 .. Places
      /\ \A b \in Clients : Count(b)' = Count(b)
  BY <1>1 DEF InPlaces, Count
<1>8. TypeOK'
  BY <1>1, <1>5, <1>6, <1>7 DEF AsyncInv, TypeOK
<1>9. CallInv' /\ ManagerInv'
  BY <1>1, <1>7 DEF AsyncInv, CallInv, ManagerInv, Asked, Count
<1>10. RequestInv'
  BY <1>1, <1>7 DEF AsyncInv, RequestInv, Wanted, Count
<1>11. RefInv'
  <2>1. \A b, m, g : Refers(b, m, g)' <=> Refers(b, m, g)
    BY <1>1, <1>7 DEF Refers
  <2> QED BY <2>1, <1>1, <1>6, RefsStep
<1>12. TableInv'
  BY <1>1, <1>4, <1>6 DEF AsyncInv, TableInv
<1>13. \A j \in 1 .. Places : /\ Locks(j)' <=> Locks(j)
                              /\ Carries(j)' <=> Carries(j)
                              /\ Evicts(j)' <=> Evicts(j)
                              /\ \A S : Phase(j, S)' <=> Phase(j, S)
  BY <1>1, <1>7 DEF Locks, Carries, Evicts, Phase
<1>14. /\ \A j \in 1 .. Places : OnePhase(j)
       /\ \A j, n \in 1 .. Places : j # n => TwoPhases(j, n)
  BY PhaseParts DEF AsyncInv
<1>15. ASSUME NEW j \in 1 .. Places
       PROVE  /\ Carries(j) => place[j].frame \in Frames /\ place[j].frame # f
              /\ Evicts(j) => /\ Old(j)' = Old(j) /\ Old(j) \in Pages /\ Old(j) # p
                              /\ place[j].frame \in Frames /\ place[j].frame # f
              /\ Locks(j) => place[j].page # p
              /\ Locks(j) => place[j].page \in Pages
  <2>1. OnePhase(j) /\ (Evicts(j) => Carries(j)) /\ (Locks(j) => j \in InPlaces)
    BY <1>14 DEF Evicts, Carries, Locks, Phase
  <2>2. j \in InPlaces => place[j].page \in Pages
    BY PlaceHasRequest, RequestFields DEF AsyncInv
  <2>3. Carries(j) => place[j].frame \in Frames /\ place[j].frame # f
    BY <2>1, <1>3 DEF OnePhase
  <2>4. Evicts(j) => Old(j)' = Old(j)
    BY <2>1, <2>3, <1>1, <1>6 DEF Old
  <2> QED BY <2>1, <2>2, <2>3, <2>4, <1>3, <1>4 DEF OnePhase
<1>16. PhaseInv'
  <2>1. ASSUME NEW j \in 1 .. Places PROVE OnePhase(j)'
    <3>1. /\ Phase(j, {"End"})' <=> Phase(j, {"End"})
          /\ Phase(j, {"EvictingFinish", "LoadingFinish"})' <=> Phase(j, {"EvictingFinish", "LoadingFinish"})
          /\ Phase(j, {"Begin", "Initing", "Evicting"})' <=> Phase(j, {"Begin", "Initing", "Evicting"})
      BY <1>13
    <3> QED BY <3>1, <1>1, <1>7, <1>13, <1>14, <1>15 DEF OnePhase
  <2>2. ASSUME NEW j \in 1 .. Places, NEW n \in 1 .. Places, j # n PROVE TwoPhases(j, n)'
    <3>1. TwoPhases(j, n)
      BY <1>14, <2>2
    <3> QED BY <3>1, <1>1, <1>13, <1>15 DEF TwoPhases
  <2>3. \A j \in 1 .. Places : OnePhase(j)'
    BY <2>1
  <2>4. \A j, n \in 1 .. Places : j # n => TwoPhases(j, n)'
    BY <2>2
  <2> QED BY <2>3, <2>4 DEF PhaseInv, OnePhase, TwoPhases
<1>17. DataInv'
  <2>1. ASSUME NEW q \in Pages
        PROVE  LET g == mapping[q] IN
          /\ g \in Frames => mem'[g] = written'[q] /\ (pte'[g].dirty \/ disk[q] = written'[q])
          /\ g = Empty => disk[q] = written'[q]
    <3>1. CASE q = p
      BY <3>1, <1>3, <1>4, <1>5, <1>6 DEF AsyncInv, DataInv
    <3>2. CASE q # p
      <4>1. mapping[q] \in Frames => mapping[q] # f
        BY <3>2, <1>3 DEF AsyncInv, TableInv
      <4> QED BY <3>2, <4>1, <1>5, <1>6 DEF AsyncInv, DataInv
    <3> QED BY <3>1, <3>2
  <2>2. ASSUME NEW j \in InPlaces
        PROVE LET z == place[j] IN
              /\ Locks(j)' => disk[z.page] = written'[z.page]
              /\ Evicts(j)' => /\ mem'[z.frame] = written'[Old(j)']
                               /\ \/ disk[Old(j)'] = written'[Old(j)']
                                  \/ z.phase = "Evicting" /\ pte'[z.frame].dirty
                                  \/ z.phase = "EvictingFinish" /\ z.io # "done"
              /\ z.phase = "LoadingFinish" /\ z.io = "done" => mem'[z.frame] = disk[z.page]
    <3>1. j \in 1 .. Places /\ (place[j].phase = "LoadingFinish" => Carries(j))
      BY <1>7 DEF Carries, Phase
    <3> QED BY <3>1, <1>5, <1>6, <1>13, <1>15 DEF AsyncInv, DataInv
  <2> QED BY <2>1, <2>2, <1>1, <1>7 DEF DataInv
<1> QED BY <1>8, <1>9, <1>10, <1>11, <1>12, <1>16, <1>17 DEF AsyncInv

\* A call that has not begun, or whose block was handed out, has no request.
LEMMA NoRequests ==
  ASSUME AsyncInv, NEW c \in Clients, Count(c) = 0 \/ pc[c] = "held"
  PROVE  /\ \A n \in 1 .. Len(chan) : chan[n].to[1] # c
         /\ \A j \in InPlaces : place[j].to[1] # c
         /\ \A j \in InPlaces : \A n : ~IsFor(place[j], c, n)
         /\ \A j \in 1 .. Len(mchan) : mchan[j] # c
         /\ \A j \in 1 .. Places : mplace[j] # None => mplace[j] # c
<1>1. ASSUME NEW r, Wanted(r), r.to[1] = c PROVE FALSE
  <2>1. r.to[2] \in 1 .. Count(c) /\ pc[c] # "held"
    BY <1>1 DEF Wanted
  <2> QED BY <2>1
<1>2. /\ \A n \in 1 .. Len(chan) : chan[n].to[1] # c
      /\ \A j \in InPlaces : place[j].to[1] # c
  BY <1>1 DEF AsyncInv, RequestInv
<1>3. \A j \in InPlaces : \A n : ~IsFor(place[j], c, n)
  BY <1>2 DEF IsFor
<1>4. /\ \A j \in 1 .. Len(mchan) : mchan[j] # c
      /\ \A j \in 1 .. Places : mplace[j] # None => mplace[j] # c
  BY DEF AsyncInv, ManagerInv
<1> QED BY <1>2, <1>3, <1>4

\* A step of one client keeps what the requests of the others say.
LEMMA OtherRequests ==
  ASSUME Parameters, AsyncInv, NEW c \in Clients,
         \A n \in 1 .. Len(chan) : chan[n].to[1] # c,
         \A j \in InPlaces : place[j].to[1] # c,
         \A k \in 1 .. Count(c)' : fut'[c][k] # "pending" \/ pc'[c] = "held",
         \A b \in Clients : b # c => /\ pages'[b] = pages[b] /\ fut'[b] = fut[b]
                                     /\ pc'[b] = pc[b],
         UNCHANGED <<chan, place>>
  PROVE  RequestInv'
<1>1. InPlaces' = InPlaces /\ \A b \in Clients : b # c => Count(b)' = Count(b)
  BY DEF InPlaces, Count
<1>2. \A n \in 1 .. Len(chan) : chan[n].to[1] \in Clients
  <2>1. \A n \in 1 .. Len(chan) : chan[n] \in Req
    BY ElementOfSeq DEF AsyncInv, TypeOK
  <2> QED BY <2>1, RequestFields
<1>3. \A j \in InPlaces : place[j].to[1] \in Clients
  BY PlaceHasRequest, RequestFields DEF AsyncInv
<1>4. \A n \in 1 .. Len(chan) : Wanted(chan[n])'
  <2> TAKE n \in 1 .. Len(chan)
  <2>1. Wanted(chan[n]) /\ chan[n].to[1] \in Clients /\ chan[n].to[1] # c
    BY <1>2 DEF AsyncInv, RequestInv
  <2> QED BY <2>1, <1>1 DEF Wanted
<1>5. \A j \in InPlaces : Wanted(place[j])'
  <2> TAKE j \in InPlaces
  <2>1. Wanted(place[j]) /\ place[j].to[1] \in Clients /\ place[j].to[1] # c
    BY <1>3 DEF AsyncInv, RequestInv
  <2> QED BY <2>1, <1>1 DEF Wanted
<1>6. ASSUME NEW b \in Clients, NEW k \in 1 .. Count(b)', fut'[b][k] = "pending", pc'[b] # "held"
      PROVE  \/ \E n \in 1 .. Len(chan) : IsFor(chan[n], b, k)
             \/ \E j \in InPlaces : IsFor(place[j], b, k)
  <2>1. b # c
    BY <1>6
  <2>2. k \in 1 .. Count(b) /\ fut[b][k] = "pending" /\ pc[b] # "held"
    BY <1>1, <1>6, <2>1
  <2> QED BY <2>2 DEF AsyncInv, RequestInv
<1>7. RequestInv
  BY DEF AsyncInv
<1>8. /\ \A m, n \in 1 .. Len(chan) : chan[m].to = chan[n].to => m = n
      /\ \A j, k \in InPlaces : place[j].to = place[k].to => j = k
      /\ \A n \in 1 .. Len(chan), k \in InPlaces : chan[n].to # place[k].to
      /\ \A n \in 1 .. Len(chan) : chan[n].phase = "Begin" /\ chan[n].io = "none"
  BY <1>7 DEF RequestInv
<1>9. \A b \in Clients : \A k \in 1 .. Count(b)' :
         fut'[b][k] = "pending" /\ pc'[b] # "held" =>
           \/ \E n \in 1 .. Len(chan) : IsFor(chan[n], b, k)
           \/ \E j \in InPlaces : IsFor(place[j], b, k)
  BY <1>6
<1> QED BY <1>1, <1>4, <1>5, <1>8, <1>9 DEF RequestInv

\* A call begins.
LEMMA AskStep ==
  ASSUME Parameters, AsyncInv, NEW c \in Clients, NEW ps \in Asks[c], Ask(c, ps)
  PROVE  AsyncInv'
<1>1. /\ pc[c] = "idle" /\ left[c] > 0 /\ left' = [left EXCEPT ![c] = @ - 1]
      /\ pages' = [pages EXCEPT ![c] = ps] /\ i' = [i EXCEPT ![c] = 1]
      /\ fut' = [fut EXCEPT ![c] = [k \in 1 .. Len(ps) |-> "none"]]
      /\ blk' = [blk EXCEPT ![c] = [k \in 1 .. Len(ps) |-> None]]
      /\ pc' = [pc EXCEPT ![c] = "begin"]
      /\ UNCHANGED <<mapping, pte, free, repl, mem, disk, chan, place, at, again, mchan, mplace,
                     mat, written>>
  BY DEF Ask, table, pool, manager
<1>2. ps \in Seq(Pages) /\ Len(ps) \in Nat \ {0}
  BY EmptySeq, LenProperties DEF Parameters
<1>3. Count(c) = 0
  BY <1>1 DEF AsyncInv, CallInv
<1>4. /\ DOMAIN fut = Clients /\ DOMAIN blk = Clients
      /\ pages \in [Clients -> Seq(Pages)] /\ i \in [Clients -> Nat] /\ left \in [Clients -> Nat]
      /\ pc \in [Clients -> {"idle", "begin", "check", "wait", "held"}]
  BY DEF AsyncInv, TypeOK
<1>5. /\ pages' \in [Clients -> Seq(Pages)] /\ i' \in [Clients -> Nat] /\ left' \in [Clients -> Nat]
      /\ pc' \in [Clients -> {"idle", "begin", "check", "wait", "held"}]
      /\ DOMAIN fut' = Clients /\ DOMAIN blk' = Clients
      /\ Count(c)' = Len(ps) /\ i'[c] = 1 /\ pc'[c] = "begin"
      /\ fut'[c] = [k \in 1 .. Len(ps) |-> "none"] /\ blk'[c] = [k \in 1 .. Len(ps) |-> None]
      /\ \A b \in Clients : b # c =>
           /\ pages'[b] = pages[b] /\ i'[b] = i[b] /\ fut'[b] = fut[b] /\ blk'[b] = blk[b]
           /\ pc'[b] = pc[b] /\ Count(b)' = Count(b)
  BY <1>1, <1>2, <1>4 DEF Count
<1>6. PhaseInv' /\ TableInv' /\ DataInv' /\ InPlaces' = InPlaces
  BY <1>1, TableKept
<1>7. TypeOK'
  <2>1. ASSUME NEW b \in Clients
        PROVE  /\ fut'[b] \in [1 .. Count(b)' -> Frames \cup {"none", "pending"}]
               /\ blk'[b] \in [1 .. Count(b)' -> Frames \cup {None}]
    <3>1. CASE b = c
      <4> DEFINE n == Len(ps)
      <4>1. Count(c)' = n /\ fut'[c] = [k \in 1 .. n |-> "none"] /\ blk'[c] = [k \in 1 .. n |-> None]
        BY <1>5
      <4> HIDE DEF n
      <4> QED BY <3>1, <4>1
    <3>2. CASE b # c
      <4>1. /\ fut[b] \in [1 .. Count(b) -> Frames \cup {"none", "pending"}]
            /\ blk[b] \in [1 .. Count(b) -> Frames \cup {None}]
        BY DEF AsyncInv, TypeOK
      <4>2. fut'[b] = fut[b] /\ blk'[b] = blk[b] /\ Count(b)' = Count(b)
        BY <3>2, <1>5
      <4> QED BY <4>1, <4>2
    <3> QED BY <3>1, <3>2
  <2> QED BY <2>1, <1>1, <1>5 DEF AsyncInv, TypeOK
<1>8. CallInv'
  <2>1. ASSUME NEW b \in Clients
        PROVE  /\ pc'[b] = "idle" <=> Count(b)' = 0
               /\ pc'[b] = "begin" =>
                    /\ i'[b] \in 1 .. Count(b)'
                    /\ \A m \in 1 .. i'[b] - 1 : Asked(b, m)'
                    /\ \A m \in i'[b] .. Count(b)' : fut'[b][m] = "none" /\ blk'[b][m] = None
               /\ pc'[b] \in {"check", "wait"} => \A m \in 1 .. Count(b)' : Asked(b, m)'
               /\ pc'[b] = "check" => Count(b)' > 1
               /\ pc'[b] = "held" => \A m \in 1 .. Count(b)' : blk'[b][m] \in Frames
    <3>1. CASE b = c
      <4> DEFINE n == Len(ps)
      <4>1. /\ Count(c)' = n /\ n \in Nat \ {0} /\ i'[c] = 1 /\ pc'[c] = "begin"
            /\ \A k \in 1 .. n : fut'[c][k] = "none" /\ blk'[c][k] = None
        BY <1>2, <1>5
      <4> HIDE DEF n
      <4>2. \A m \in 1 .. i'[c] - 1 : FALSE
        BY <4>1
      <4> QED BY <3>1, <4>1, <4>2
    <3>2. CASE b # c
      <4>1. \A m : Asked(b, m)' <=> Asked(b, m)
        BY <3>2, <1>5 DEF Asked
      <4>2. /\ pc'[b] = pc[b] /\ i'[b] = i[b] /\ Count(b)' = Count(b)
            /\ fut'[b] = fut[b] /\ blk'[b] = blk[b]
        BY <3>2, <1>5
      <4>3. CallInv
        BY DEF AsyncInv
      <4> QED BY <4>1, <4>2, <4>3 DEF CallInv
    <3> QED BY <3>1, <3>2
  <2> QED BY <2>1 DEF CallInv
<1>9. ManagerInv'
  <2>1. /\ \A j \in 1 .. Len(mchan) : mchan[j] \in Clients /\ mchan[j] # c
        /\ \A j \in 1 .. Places : mplace[j] # None => mplace[j] \in Clients /\ mplace[j] # c
    <3>1. /\ \A j \in 1 .. Len(mchan) : mchan[j] # c
          /\ \A j \in 1 .. Places : mplace[j] # None => mplace[j] # c
      BY <1>3, NoRequests
    <3>2. mchan \in Seq(Clients) /\ mplace \in [1 .. Places -> Clients \cup {None}]
      BY DEF AsyncInv, TypeOK
    <3>3. \A j \in 1 .. Len(mchan) : mchan[j] \in Clients
      BY <3>2, ElementOfSeq
    <3> QED BY <3>1, <3>2, <3>3
  <2>2. \A b \in Clients : b # c /\ pc[b] = "wait" /\ Len(pages[b]) > 1 =>
          pc'[b] = "wait" /\ Len(pages'[b]) > 1
    BY <1>5
  <2>3. ManagerInv
    BY DEF AsyncInv
  <2>4. /\ \A j \in 1 .. Len(mchan) : pc[mchan[j]] = "wait" /\ Len(pages[mchan[j]]) > 1
        /\ \A j \in 1 .. Places : mplace[j] # None => pc[mplace[j]] = "wait" /\ Len(pages[mplace[j]]) > 1
    BY <2>3 DEF ManagerInv, Count
  <2>5. /\ \A j \in 1 .. Len(mchan) : pc'[mchan[j]] = "wait" /\ Len(pages'[mchan[j]]) > 1
        /\ \A j \in 1 .. Places : mplace[j] # None => pc'[mplace[j]] = "wait" /\ Len(pages'[mplace[j]]) > 1
    BY <2>1, <2>2, <2>4
  <2>6. UNCHANGED <<mchan, mplace>>
    BY <1>1
  <2> QED BY <2>3, <2>5, <2>6 DEF ManagerInv, Count
<1>10. RequestInv'
  <2>1. \A k \in 1 .. Count(c)' : fut'[c][k] # "pending"
    BY <1>5
  <2>2. /\ \A n \in 1 .. Len(chan) : chan[n].to[1] # c
        /\ \A j \in InPlaces : place[j].to[1] # c
    BY <1>3, NoRequests
  <2> QED BY <2>1, <2>2, <1>1, <1>5, OtherRequests
<1>11. ASSUME NEW f \in Frames, NEW b \in Clients, NEW n
       PROVE  /\ b # c => (Refers(b, n, f)' <=> Refers(b, n, f))
              /\ b = c /\ n \in 1 .. Count(c)' => ~Refers(b, n, f)'
  <2>1. CASE b # c
    BY <2>1, <1>1, <1>5, <1>6 DEF Refers
  <2>2. CASE b = c /\ n \in 1 .. Count(c)'
    <3>1. \A j \in InPlaces : ~IsFor(place[j], c, n)
      BY <1>3, NoRequests
    <3>2. blk'[c][n] = None /\ fut'[c][n] = "none"
      BY <2>2, <1>5
    <3> QED BY <3>1, <3>2, <2>2, <1>1, <1>6 DEF Refers, Parameters
  <2> QED BY <2>1, <2>2
<1>12. RefInv'
  <2>1. ASSUME NEW f \in Frames PROVE Refs(f)' = Refs(f)
    <3>1. ASSUME NEW x PROVE x \in Refs(f)' <=> x \in Refs(f)
      <4>1. x \in Refs(f)' <=> \E b \in Clients : b # c /\ x \in {b} \X (1 .. Count(b)) /\ Refers(x[1], x[2], f)'
        BY <1>5, <1>11 DEF Refs, Futures
      <4>2. x \in Refs(f) <=> \E b \in Clients : b # c /\ x \in {b} \X (1 .. Count(b)) /\ Refers(x[1], x[2], f)
        BY <1>3 DEF Refs, Futures
      <4>3. \A b \in Clients : b # c /\ x \in {b} \X (1 .. Count(b)) =>
              (Refers(x[1], x[2], f)' <=> Refers(x[1], x[2], f))
        BY <1>11
      <4> QED BY <4>1, <4>2, <4>3
    <3> QED BY <3>1
  <2>2. \A f \in Frames : pte'[f].ref = Cardinality(Refs(f)')
    BY <2>1, <1>1 DEF AsyncInv, RefInv
  <2>3. ASSUME NEW f \in Frames, NEW b \in Clients, NEW n \in 1 .. Count(b)', Refers(b, n, f)'
        PROVE  mapping'[pages'[b][n]] = f
    <3>1. b # c
      BY <2>3, <1>11
    <3>2. Refers(b, n, f) /\ n \in 1 .. Count(b) /\ pages'[b] = pages[b]
      BY <2>3, <3>1, <1>5, <1>11
    <3> QED BY <3>2, <1>1 DEF AsyncInv, RefInv
  <2> QED BY <2>2, <2>3 DEF RefInv
<1> QED BY <1>6, <1>7, <1>8, <1>9, <1>10, <1>12 DEF AsyncInv

\* The pages that were fetched go into the block, which is handed out.
LEMMA FinishStep ==
  ASSUME Parameters, AsyncInv, NEW c \in Clients, pc[c] \in {"check", "wait"}, Ready(c),
         blk' = [blk EXCEPT ![c] = FinishWaiting(c)], pc' = [pc EXCEPT ![c] = "held"],
         mchan' \in Seq(Clients), Len(mchan') <= Channel,
         mplace' \in [1 .. Places -> Clients \cup {None}], mat' \in 1 .. Places,
         UNCHANGED <<mapping, pte, free, repl, mem, disk, chan, place, at, again, pages, i, fut,
                     left, written>>
  PROVE  /\ TypeOK' /\ CallInv' /\ RequestInv' /\ PhaseInv' /\ TableInv' /\ RefInv' /\ DataInv'
         /\ pc'[c] = "held" /\ \A b \in Clients : b # c => pc'[b] = pc[b]
<1> DEFINE n == Count(c)  F == FinishWaiting(c)
<1>1. /\ n \in Nat /\ \A b \in Clients : Count(b)' = Count(b)
      /\ \A k \in 1 .. n : /\ fut[c][k] \in Frames \cup {"none", "pending"}
                           /\ blk[c][k] \in Frames \cup {None}
  BY CallTypes DEF AsyncInv, Count
<1>2. \A k \in 1 .. n : fut[c][k] # "pending" /\ Asked(c, k)
  BY DEF Ready, AsyncInv, CallInv
<1>3. F = [k \in 1 .. n |-> IF fut[c][k] = "none" THEN blk[c][k] ELSE fut[c][k]]
  BY DEF FinishWaiting
<1> HIDE DEF n, F
<1>4. \A k \in 1 .. n : F[k] \in Frames /\ F[k] = IF fut[c][k] = "none" THEN blk[c][k] ELSE fut[c][k]
  BY <1>1, <1>2, <1>3 DEF Asked
<1>5. F \in [1 .. n -> Frames]
  BY <1>3, <1>4
<1>6. /\ DOMAIN blk = Clients /\ DOMAIN fut = Clients
      /\ pc \in [Clients -> {"idle", "begin", "check", "wait", "held"}]
  BY DEF AsyncInv, TypeOK
<1>7. /\ DOMAIN blk' = Clients /\ blk'[c] = F /\ pc'[c] = "held"
      /\ \A b \in Clients : b # c => blk'[b] = blk[b] /\ pc'[b] = pc[b]
      /\ pc' \in [Clients -> {"idle", "begin", "check", "wait", "held"}]
  BY <1>6 DEF F
<1>8. PhaseInv' /\ TableInv' /\ DataInv' /\ InPlaces' = InPlaces
  BY TableKept
<1>9. TypeOK'
  <2>1. ASSUME NEW b \in Clients
        PROVE  /\ fut'[b] \in [1 .. Count(b)' -> Frames \cup {"none", "pending"}]
               /\ blk'[b] \in [1 .. Count(b)' -> Frames \cup {None}]
    <3>1. /\ fut[b] \in [1 .. Count(b) -> Frames \cup {"none", "pending"}]
          /\ blk[b] \in [1 .. Count(b) -> Frames \cup {None}]
      BY DEF AsyncInv, TypeOK
    <3>2. CASE b = c
      BY <3>1, <3>2, <1>1, <1>5, <1>7 DEF n
    <3>3. CASE b # c
      BY <3>1, <3>3, <1>1, <1>7
    <3> QED BY <3>2, <3>3
  <2> QED BY <2>1, <1>7 DEF AsyncInv, TypeOK
<1>10. CallInv'
  <2>1. ASSUME NEW b \in Clients
        PROVE  /\ pc'[b] = "idle" <=> Count(b)' = 0
               /\ pc'[b] = "begin" =>
                    /\ i'[b] \in 1 .. Count(b)'
                    /\ \A m \in 1 .. i'[b] - 1 : Asked(b, m)'
                    /\ \A m \in i'[b] .. Count(b)' : fut'[b][m] = "none" /\ blk'[b][m] = None
               /\ pc'[b] \in {"check", "wait"} => \A m \in 1 .. Count(b)' : Asked(b, m)'
               /\ pc'[b] = "check" => Count(b)' > 1
               /\ pc'[b] = "held" => \A m \in 1 .. Count(b)' : blk'[b][m] \in Frames
    <3>1. CASE b = c
      <4>1. Count(c)' = n /\ Count(c) # 0
        BY <1>1 DEF AsyncInv, CallInv, n
      <4> QED BY <3>1, <4>1, <1>4, <1>7 DEF n
    <3>2. CASE b # c
      <4>1. \A m : Asked(b, m)' <=> Asked(b, m)
        BY <3>2, <1>7 DEF Asked
      <4>2. pc'[b] = pc[b] /\ i'[b] = i[b] /\ Count(b)' = Count(b) /\ fut'[b] = fut[b] /\ blk'[b] = blk[b]
        BY <3>2, <1>1, <1>7
      <4>3. CallInv
        BY DEF AsyncInv
      <4> QED BY <4>1, <4>2, <4>3 DEF CallInv
    <3> QED BY <3>1, <3>2
  <2> QED BY <2>1 DEF CallInv
<1>11. \A r \in Req : Wanted(r) => r.to[1] # c
  BY <1>2 DEF Wanted, n
<1>12. RequestInv'
  <2>1. \A j \in 1 .. Len(chan) : chan[j].to[1] # c
    <3>1. \A j \in 1 .. Len(chan) : chan[j] \in Req
      BY ElementOfSeq DEF AsyncInv, TypeOK
    <3> QED BY <3>1, <1>11 DEF AsyncInv, RequestInv
  <2>2. \A j \in InPlaces : place[j].to[1] # c
    BY <1>11, PlaceHasRequest DEF AsyncInv, RequestInv
  <2> QED BY <2>1, <2>2, <1>7, OtherRequests
<1>13. RefInv'
  <2>1. ASSUME NEW b \in Clients, NEW g \in Frames, NEW m \in 1 .. Count(b)
        PROVE  Refers(b, m, g)' <=> Refers(b, m, g)
    <3>1. CASE b # c
      BY <3>1, <1>7, <1>8 DEF Refers
    <3>2. CASE b = c
      <4>1. m \in 1 .. n /\ pc[c] # "held" /\ Asked(c, m)
        BY <3>2, <1>2 DEF n
      <4>2. (blk[c][m] = g \/ fut[c][m] = g) <=> F[m] = g
        BY <4>1, <1>4 DEF Asked, Parameters
      <4> QED BY <3>2, <4>1, <4>2, <1>7, <1>8 DEF Refers
    <3> QED BY <3>1, <3>2
  <2> QED BY <2>1, RefsStep
<1> QED BY <1>7, <1>8, <1>9, <1>10, <1>12, <1>13

\* The client looks at its request, or leaves it to the manager.
LEMMA CheckStep ==
  ASSUME Parameters, AsyncInv, NEW c \in Clients, Check(c)
  PROVE  AsyncInv'
<1>1. /\ pc[c] = "check"
      /\ UNCHANGED <<mapping, pte, free, repl, mem, disk, chan, place, at, again, mplace, mat,
                     pages, i, fut, left, written>>
  BY DEF Check, table, pool
<1>2. /\ mchan \in Seq(Clients) /\ Len(mchan) \in Nat /\ Len(mchan) <= Channel
      /\ mplace \in [1 .. Places -> Clients \cup {None}] /\ mat \in 1 .. Places
      /\ pc \in [Clients -> {"idle", "begin", "check", "wait", "held"}]
      /\ \A n \in 1 .. Len(mchan) : mchan[n] \in Clients
  BY LenProperties, ElementOfSeq DEF AsyncInv, TypeOK
<1>3. ManagerInv
  BY DEF AsyncInv
<1>4. /\ \A n \in 1 .. Len(mchan) : mchan[n] # c
      /\ \A k \in 1 .. Places : mplace[k] # None => mplace[k] # c
  BY <1>1, <1>3 DEF ManagerInv
<1>5. /\ \A n \in 1 .. Len(mchan) : pc[mchan[n]] = "wait" /\ Len(pages[mchan[n]]) > 1
      /\ \A k \in 1 .. Places : mplace[k] # None => pc[mplace[k]] = "wait" /\ Len(pages[mplace[k]]) > 1
  BY <1>3 DEF ManagerInv, Count
<1>6. CASE Ready(c) /\ blk' = [blk EXCEPT ![c] = FinishWaiting(c)]
           /\ pc' = [pc EXCEPT ![c] = "held"] /\ UNCHANGED mchan
  <2>1. /\ TypeOK' /\ CallInv' /\ RequestInv' /\ PhaseInv' /\ TableInv' /\ RefInv' /\ DataInv'
        /\ \A b \in Clients : b # c => pc'[b] = pc[b]
    BY <1>1, <1>2, <1>6, FinishStep
  <2>2. /\ \A n \in 1 .. Len(mchan) : pc'[mchan[n]] = "wait"
        /\ \A k \in 1 .. Places : mplace[k] # None => pc'[mplace[k]] = "wait"
    BY <2>1, <1>2, <1>4, <1>5
  <2>3. ManagerInv'
    BY <2>2, <1>1, <1>3, <1>5, <1>6 DEF ManagerInv, Count
  <2> QED BY <2>1, <2>3 DEF AsyncInv
<1>7. CASE Len(mchan) < Channel /\ mchan' = Append(mchan, c) /\ pc' = [pc EXCEPT ![c] = "wait"]
           /\ UNCHANGED blk
  <2> DEFINE l == Len(mchan)  q == mchan'
  <2>1. /\ q \in Seq(Clients) /\ Len(q) = l + 1 /\ l \in Nat /\ q[l + 1] = c
        /\ \A n \in 1 .. l : q[n] = mchan[n]
    BY <1>2, <1>7, AppendProperties
  <2>2. PhaseInv' /\ TableInv' /\ DataInv' /\ InPlaces' = InPlaces
    BY <1>1, TableKept
  <2>3. \A b \in Clients : Count(b)' = Count(b)
    BY <1>1 DEF Count
  <2>4. /\ pc'[c] = "wait" /\ \A b \in Clients : b # c => pc'[b] = pc[b]
        /\ pc' \in [Clients -> {"idle", "begin", "check", "wait", "held"}]
    BY <1>2, <1>7
  <2>5. Len(q) <= Channel
    BY <2>1, <1>7 DEF Parameters
  <2>6. TypeOK'
    BY <1>1, <1>7, <2>1, <2>3, <2>4, <2>5 DEF AsyncInv, TypeOK
  <2>7. CallInv'
    <3>1. \A b, m : Asked(b, m)' <=> Asked(b, m)
      BY <1>1, <1>7 DEF Asked
    <3>2. UNCHANGED <<i, fut, blk>>
      BY <1>1, <1>7
    <3>3. CallInv
      BY DEF AsyncInv
    <3>4. ASSUME NEW b \in Clients
        PROVE  /\ pc'[b] = "idle" <=> Count(b) = 0
               /\ pc'[b] = "begin" =>
                    /\ i[b] \in 1 .. Count(b)
                    /\ \A m \in 1 .. i[b] - 1 : Asked(b, m)
                    /\ \A m \in i[b] .. Count(b) : fut[b][m] = "none" /\ blk[b][m] = None
               /\ pc'[b] \in {"check", "wait"} => \A m \in 1 .. Count(b) : Asked(b, m)
               /\ pc'[b] = "check" => Count(b) > 1
               /\ pc'[b] = "held" => \A m \in 1 .. Count(b) : blk[b][m] \in Frames
      <4>1. CASE b = c
        BY <4>1, <3>3, <2>4, <1>1 DEF CallInv
      <4>2. CASE b # c
        BY <4>2, <3>3, <2>4 DEF CallInv
      <4> QED BY <4>1, <4>2
    <3> QED BY <3>1, <3>2, <3>4, <2>3 DEF CallInv
  <2>8. RequestInv'
    <3>1. \A b \in Clients : pc'[b] # "held" <=> pc[b] # "held"
      BY <1>1, <2>4
    <3>2. \A r \in Req : Wanted(r) => Wanted(r)'
      <4> TAKE r \in Req
      <4>1. r.to[1] \in Clients
        BY RequestFields
      <4> QED BY <3>1, <4>1, <2>3, <1>1 DEF Wanted
    <3>3. /\ \A n \in 1 .. Len(chan) : \E r \in Req : r = chan[n] /\ Wanted(r)'
          /\ \A j \in InPlaces : \E r \in Req : r = place[j] /\ Wanted(r)'
      <4>1. \A n \in 1 .. Len(chan) : chan[n] \in Req
        BY ElementOfSeq DEF AsyncInv, TypeOK
      <4> QED BY <3>2, <4>1, PlaceHasRequest DEF AsyncInv, RequestInv
    <3>4. UNCHANGED <<chan, place, pages, fut>> /\ RequestInv
      BY <1>1 DEF AsyncInv
    <3>5. /\ \A n \in 1 .. Len(chan) : Wanted(chan[n])'
          /\ \A j \in InPlaces : Wanted(place[j])'
      BY <3>3, <3>4 DEF Wanted
    <3> QED BY <3>1, <3>4, <3>5, <2>2, <2>3 DEF RequestInv
  <2>9. RefInv'
    <3>1. ASSUME NEW b \in Clients, NEW g \in Frames, NEW m \in 1 .. Count(b)
          PROVE  Refers(b, m, g)' <=> Refers(b, m, g)
      BY <1>1, <1>7, <2>2, <2>4 DEF Refers
    <3> QED BY <3>1, <1>1, RefsStep
  <2>10. ManagerInv'
    <3>1. \A n \in 1 .. Len(q) : n = l + 1 \/ n \in 1 .. l
      BY <2>1
    <3>2. /\ \A n \in 1 .. l : q[n] # c /\ q[n] \in Clients /\ pc[q[n]] = "wait" /\ Len(pages[q[n]]) > 1
          /\ \A m, n \in 1 .. l : q[m] = q[n] => m = n
          /\ \A n \in 1 .. l, k \in 1 .. Places : q[n] # mplace[k]
      <4>1. /\ \A n \in 1 .. Len(mchan) : mchan[n] # c /\ mchan[n] \in Clients
            /\ \A n \in 1 .. Len(mchan) : pc[mchan[n]] = "wait" /\ Len(pages[mchan[n]]) > 1
        BY <1>2, <1>4, <1>5
      <4>2. /\ \A m, n \in 1 .. Len(mchan) : mchan[m] = mchan[n] => m = n
            /\ \A n \in 1 .. Len(mchan), k \in 1 .. Places : mchan[n] # mplace[k]
        BY <1>3 DEF ManagerInv
      <4>3. \A n \in 1 .. Len(mchan) : q[n] = mchan[n]
        BY <2>1
      <4> HIDE DEF q
      <4> QED BY <4>1, <4>2, <4>3
    <3>3. /\ \A m, n \in 1 .. Len(q) : q[m] = q[n] => m = n
          /\ \A n \in 1 .. Len(q), k \in 1 .. Places : q[n] # mplace[k]
      <4>1. c # None
        BY DEF Parameters
      <4>2. \A k \in 1 .. Places : mplace[k] # c
        BY <4>1, <1>4
      <4> QED BY <3>1, <3>2, <4>2, <2>1
    <3>4. Len(pages[c]) > 1
      BY <1>1 DEF AsyncInv, CallInv, Count
    <3>5. \A n \in 1 .. Len(q) : pc'[q[n]] = "wait" /\ Len(pages[q[n]]) > 1
      BY <3>1, <3>2, <3>4, <2>1, <2>4
    <3>6. \A k \in 1 .. Places : mplace[k] # None => pc'[mplace[k]] = "wait" /\ Len(pages[mplace[k]]) > 1
      BY <1>2, <1>4, <1>5, <2>4
    <3>7. UNCHANGED <<mplace, pages>>
      BY <1>1
    <3>8. \A j, k \in 1 .. Places : mplace[j] = mplace[k] /\ mplace[j] # None => j = k
      BY <1>3 DEF ManagerInv
    <3> QED BY <3>3, <3>5, <3>6, <3>7, <3>8 DEF ManagerInv, Count
  <2> QED BY <2>2, <2>6, <2>7, <2>8, <2>9, <2>10 DEF AsyncInv
<1> QED BY <1>6, <1>7 DEF Check

-----------------------------------------------------------------------------
(* The server of the manager. *)

\* A place of the manager gets the head of its channel, if there is one.
LEMMA ManagerShift ==
  ASSUME Parameters, AsyncInv, NEW k \in 1 .. Places, NEW z,
         \/ mchan = <<>> /\ z = None /\ mchan' = mchan
         \/ mchan # <<>> /\ z = Head(mchan) /\ mchan' = Tail(mchan),
         mplace' = [mplace EXCEPT ![k] = z], UNCHANGED pages,
         \A b \in Clients : b # mplace[k] => pc'[b] = pc[b]
  PROVE  /\ ManagerInv' /\ mchan' \in Seq(Clients) /\ Len(mchan') <= Channel
         /\ mplace' \in [1 .. Places -> Clients \cup {None}]
<1>1. /\ mchan \in Seq(Clients) /\ Len(mchan) \in Nat /\ Len(mchan) <= Channel
      /\ mplace \in [1 .. Places -> Clients \cup {None}] /\ None \notin Clients /\ Channel \in Nat
      /\ \A n \in 1 .. Len(mchan) : mchan[n] \in Clients
  BY LenProperties, ElementOfSeq DEF AsyncInv, TypeOK, Parameters
<1>2. \/ mchan = <<>> /\ z = None /\ mchan' = mchan
      \/ /\ z = mchan[1] /\ z \in Clients /\ 1 \in 1 .. Len(mchan)
         /\ mchan' \in Seq(Clients) /\ Len(mchan') = Len(mchan) - 1
         /\ \A n \in 1 .. Len(mchan') : mchan'[n] = mchan[n + 1] /\ n + 1 \in 1 .. Len(mchan)
  <2>1. CASE mchan = <<>>
    BY <2>1
  <2>2. CASE mchan # <<>>
    <3>1. z = Head(mchan) /\ mchan' = Tail(mchan)
      BY <2>2
    <3>2. /\ Len(mchan) \in Nat \ {0} /\ Head(mchan) \in Clients /\ Head(mchan) = mchan[1]
          /\ Tail(mchan) \in Seq(Clients) /\ Len(Tail(mchan)) = Len(mchan) - 1
          /\ \A n \in 1 .. Len(Tail(mchan)) :
               Tail(mchan)[n] = mchan[n + 1] /\ n + 1 \in 1 .. Len(mchan)
      BY <1>1, <2>2, HeadTail
    <3>3. 1 \in 1 .. Len(mchan)
      BY <3>2
    <3> QED BY <1>1, <3>1, <3>2, <3>3
  <2> QED BY <2>1, <2>2
<1>3. /\ mplace' \in [1 .. Places -> Clients \cup {None}] /\ mplace'[k] = z
      /\ \A j \in 1 .. Places : j # k => mplace'[j] = mplace[j]
  BY <1>1, <1>2
<1>4. mchan' \in Seq(Clients) /\ Len(mchan') <= Channel /\ Len(mchan') \in Nat
  <2>1. CASE mchan = <<>> /\ z = None /\ mchan' = mchan
    BY <2>1, <1>1
  <2>2. CASE mchan' \in Seq(Clients) /\ Len(mchan') = Len(mchan) - 1
    BY <2>2, <1>1, LenProperties
  <2> QED BY <2>1, <2>2, <1>2
<1>5. ManagerInv
  BY DEF AsyncInv
<1>6. /\ \A m, n \in 1 .. Len(mchan) : mchan[m] = mchan[n] => m = n
      /\ \A i1, j \in 1 .. Places : mplace[i1] = mplace[j] /\ mplace[i1] # None => i1 = j
      /\ \A n \in 1 .. Len(mchan), j \in 1 .. Places : mchan[n] # mplace[j]
      /\ \A n \in 1 .. Len(mchan) : pc[mchan[n]] = "wait" /\ Len(pages[mchan[n]]) > 1
      /\ \A j \in 1 .. Places : mplace[j] # None => pc[mplace[j]] = "wait" /\ Len(pages[mplace[j]]) > 1
  BY <1>5 DEF ManagerInv, Count
<1>7. \A n \in 1 .. Len(mchan') : \E m \in 1 .. Len(mchan) : mchan'[n] = mchan[m] /\ mchan[m] # z
  <2> TAKE n \in 1 .. Len(mchan')
  <2>1. CASE mchan = <<>> /\ z = None /\ mchan' = mchan
    <3>1. mchan[n] # z
      BY <2>1, <1>1
    <3> QED BY <2>1, <3>1
  <2>2. CASE /\ z = mchan[1] /\ 1 \in 1 .. Len(mchan)
             /\ mchan'[n] = mchan[n + 1] /\ n + 1 \in 1 .. Len(mchan)
    <3>1. n + 1 # 1
      BY <1>4
    <3>2. mchan[n + 1] # z
      BY <2>2, <3>1, <1>6
    <3> QED BY <2>2, <3>2
  <2> QED BY <1>2, <2>1, <2>2
<1>8. /\ \A m, n \in 1 .. Len(mchan') : mchan'[m] = mchan'[n] => m = n
      /\ \A n \in 1 .. Len(mchan'), j \in 1 .. Places : mchan'[n] # mplace'[j]
  <2>1. \A m, n \in 1 .. Len(mchan') : mchan'[m] = mchan'[n] => m = n
    BY <1>1, <1>2, <1>4, <1>6
  <2>2. \A n \in 1 .. Len(mchan'), j \in 1 .. Places : mchan'[n] # mplace'[j]
    BY <1>3, <1>6, <1>7
  <2> QED BY <2>1, <2>2
<1>9. \A i1, j \in 1 .. Places : mplace'[i1] = mplace'[j] /\ mplace'[i1] # None => i1 = j
  <2>1. z # None => \A j \in 1 .. Places : mplace[j] # z
    BY <1>2, <1>6
  <2> QED BY <2>1, <1>3, <1>6
<1>10. ASSUME NEW b \in Clients, pc[b] = "wait", Len(pages[b]) > 1, b # mplace[k]
       PROVE  pc'[b] = "wait" /\ Len(pages'[b]) > 1
  BY <1>10
<1>11. \A n \in 1 .. Len(mchan') : pc'[mchan'[n]] = "wait" /\ Len(pages'[mchan'[n]]) > 1
  BY <1>1, <1>6, <1>7, <1>10
<1>12. \A j \in 1 .. Places : mplace'[j] # None => pc'[mplace'[j]] = "wait" /\ Len(pages'[mplace'[j]]) > 1
  <2> SUFFICES ASSUME NEW j \in 1 .. Places, mplace'[j] # None
               PROVE  pc'[mplace'[j]] = "wait" /\ Len(pages'[mplace'[j]]) > 1
    OBVIOUS
  <2>1. CASE j = k
    BY <2>1, <1>2, <1>3, <1>6, <1>10
  <2>2. CASE j # k
    <3>1. mplace'[j] = mplace[j] /\ mplace[j] \in Clients /\ mplace[j] # mplace[k]
      BY <2>2, <1>1, <1>3, <1>6
    <3> QED BY <3>1, <1>6, <1>10
  <2> QED BY <2>1, <2>2
<1>13. ManagerInv'
  BY <1>8, <1>9, <1>11, <1>12 DEF ManagerInv, Count
<1> QED BY <1>3, <1>4, <1>13

\* The server takes a block that waits, looks at it, or puts it together.
LEMMA ManagerStep ==
  ASSUME Parameters, AsyncInv, ManagerRun
  PROVE  AsyncInv'
<1>1. /\ UNCHANGED <<mapping, pte, free, repl, mem, disk, chan, place, at, again, pages, i, fut,
                     left, written>>
      /\ at \in 1 .. Places /\ again \in BOOLEAN
  BY DEF ManagerRun, table, pool, AsyncInv, TypeOK
<1>2. PICK k \in 1 .. Places : k = mat
  BY DEF AsyncInv, TypeOK
<1>3. Following(k) \in 1 .. Places
  BY FollowingType
<1>4. CASE mplace[k] = None /\ mchan # <<>> /\ mplace' = [mplace EXCEPT ![k] = Head(mchan)]
           /\ mchan' = Tail(mchan) /\ UNCHANGED <<mat, pc, blk>>
  <2>1. /\ ManagerInv' /\ mchan' \in Seq(Clients) /\ Len(mchan') <= Channel
        /\ mplace' \in [1 .. Places -> Clients \cup {None}]
    BY <1>1, <1>4, ManagerShift
  <2>2. InPlaces' = InPlaces /\ \A c \in Clients : Count(c)' = Count(c)
    BY <1>1 DEF InPlaces, Count
  <2>3. TypeOK'
    BY <1>1, <1>4, <2>1, <2>2 DEF AsyncInv, TypeOK
  <2>4. CallInv'
    BY <1>1, <1>4 DEF AsyncInv, CallInv, Count, Asked
  <2>5. RequestInv'
    BY <1>1, <1>4, <2>2 DEF AsyncInv, RequestInv, Wanted, Count
  <2>6. PhaseInv' /\ TableInv' /\ DataInv'
    BY <1>1, TableKept
  <2>7. RefInv'
    <3>1. \A b, m, g : Refers(b, m, g)' <=> Refers(b, m, g)
      BY <1>1, <1>4, <2>2 DEF Refers
    <3> QED BY <3>1, <1>1, RefsStep
  <2> QED BY <2>1, <2>3, <2>4, <2>5, <2>6, <2>7 DEF AsyncInv
<1>5. CASE mat' = Following(k) /\ UNCHANGED <<mchan, mplace, pc, blk>>
  <2>1. UNCHANGED client
    BY <1>1, <1>5 DEF client
  <2> QED BY <1>1, <1>3, <1>5, <2>1, NextPlace
<1>6. ASSUME NEW c \in Clients, mplace[k] = c, Ready(c), blk' = [blk EXCEPT ![c] = FinishWaiting(c)],
             pc' = [pc EXCEPT ![c] = "held"], mat' = Following(k),
             mplace' = [mplace EXCEPT ![k] = IF mchan = <<>> THEN None ELSE Head(mchan)],
             mchan' = IF mchan = <<>> THEN mchan ELSE Tail(mchan)
      PROVE  AsyncInv'
  <2>1. \A b \in Clients : b # mplace[k] => pc'[b] = pc[b]
    BY <1>6 DEF AsyncInv, TypeOK
  <2>2. /\ ManagerInv' /\ mchan' \in Seq(Clients) /\ Len(mchan') <= Channel
        /\ mplace' \in [1 .. Places -> Clients \cup {None}]
    <3>1. CASE mchan = <<>>
      <4>1. mplace' = [mplace EXCEPT ![k] = None] /\ mchan' = mchan
        BY <1>6, <3>1
      <4> QED BY <1>1, <2>1, <3>1, <4>1, ManagerShift
    <3>2. CASE mchan # <<>>
      <4>1. mplace' = [mplace EXCEPT ![k] = Head(mchan)] /\ mchan' = Tail(mchan)
        BY <1>6, <3>2
      <4> QED BY <1>1, <2>1, <3>2, <4>1, ManagerShift
    <3> QED BY <3>1, <3>2
  <2>3. pc[c] = "wait"
    <3>1. c # None
      BY DEF Parameters
    <3> QED BY <1>6, <3>1 DEF AsyncInv, ManagerInv
  <2>4. TypeOK' /\ CallInv' /\ RequestInv' /\ PhaseInv' /\ TableInv' /\ RefInv' /\ DataInv'
    BY <1>1, <1>3, <1>6, <2>2, <2>3, FinishStep
  <2> QED BY <2>2, <2>4 DEF AsyncInv
<1>7. mplace[k] \in Clients \/ mplace[k] = None
  BY DEF AsyncInv, TypeOK
<1> QED BY <1>2, <1>4, <1>5, <1>6, <1>7 DEF ManagerRun

-----------------------------------------------------------------------------
(* The steps that ask for a page, and that give the pages back. *)

\* A call after it has asked for its next page.
LEMMA BeginCall ==
  ASSUME Parameters, AsyncInv, NEW c \in Clients, pc[c] = "begin",
         IF fut'[c][i[c]] = "none" THEN blk'[c][i[c]] \in Frames ELSE blk'[c][i[c]] = None,
         pc'[c] = AfterBegin(c, fut'[c]), i'[c] = i[c] + 1,
         \A n \in 1 .. Count(c) : n # i[c] => fut'[c][n] = fut[c][n] /\ blk'[c][n] = blk[c][n],
         \A n \in 1 .. Count(c) : fut'[c][n] \in Frames \cup {"none", "pending"},
         \A b \in Clients : b # c => /\ pc'[b] = pc[b] /\ i'[b] = i[b]
                                     /\ fut'[b] = fut[b] /\ blk'[b] = blk[b],
         UNCHANGED pages
  PROVE  CallInv'
<1> DEFINE k == i[c]  n == Count(c)
<1>1. /\ k \in 1 .. n /\ n \in Nat /\ i'[c] = k + 1
      /\ \A m \in 1 .. k - 1 : Asked(c, m)
      /\ \A m \in k .. n : fut[c][m] = "none" /\ blk[c][m] = None
  BY CallTypes DEF AsyncInv, CallInv
<1>2. \A b \in Clients : Count(b)' = Count(b)
  BY DEF Count
<1>3. /\ \A m \in 1 .. n : m # k => fut'[c][m] = fut[c][m] /\ blk'[c][m] = blk[c][m]
      /\ IF fut'[c][k] = "none" THEN blk'[c][k] \in Frames ELSE blk'[c][k] = None
  OBVIOUS
<1>4. pc'[c] = IF k < n THEN "begin"
               ELSE IF \A m \in 1 .. n : fut'[c][m] = "none" THEN "held"
               ELSE IF n = 1 THEN "wait" ELSE "check"
  BY DEF AfterBegin
<1> HIDE DEF k, n
<1>5. \A m \in 1 .. k : IF fut'[c][m] = "none" THEN blk'[c][m] \in Frames ELSE blk'[c][m] = None
  <2> TAKE m \in 1 .. k
  <2>1. CASE m = k
    BY <2>1, <1>3
  <2>2. CASE m # k
    <3>1. m \in 1 .. k - 1 /\ m \in 1 .. n
      BY <2>2, <1>1
    <3>2. Asked(c, m)
      BY <3>1, <1>1
    <3> QED BY <3>1, <3>2, <2>2, <1>3 DEF Asked
  <2> QED BY <2>1, <2>2
<1>6. /\ pc'[c] # "idle" /\ n # 0
      /\ pc'[c] = "begin" =>
           /\ k + 1 \in 1 .. n
           /\ \A m \in 1 .. k : IF fut'[c][m] = "none" THEN blk'[c][m] \in Frames ELSE blk'[c][m] = None
           /\ \A m \in k + 1 .. n : fut'[c][m] = "none" /\ blk'[c][m] = None
      /\ pc'[c] \in {"check", "wait"} =>
           \A m \in 1 .. n : IF fut'[c][m] = "none" THEN blk'[c][m] \in Frames ELSE blk'[c][m] = None
      /\ pc'[c] = "check" => n > 1
      /\ pc'[c] = "held" => \A m \in 1 .. n : blk'[c][m] \in Frames
  <2>1. CASE k < n
    BY <2>1, <1>1, <1>3, <1>4, <1>5
  <2>2. CASE ~(k < n)
    <3>1. k = n
      BY <2>2, <1>1
    <3> QED BY <3>1, <2>2, <1>1, <1>4, <1>5
  <2> QED BY <2>1, <2>2
<1>7. ASSUME NEW b \in Clients
        PROVE  /\ pc'[b] = "idle" <=> Count(b)' = 0
               /\ pc'[b] = "begin" =>
                    /\ i'[b] \in 1 .. Count(b)'
                    /\ \A m \in 1 .. i'[b] - 1 : Asked(b, m)'
                    /\ \A m \in i'[b] .. Count(b)' : fut'[b][m] = "none" /\ blk'[b][m] = None
               /\ pc'[b] \in {"check", "wait"} => \A m \in 1 .. Count(b)' : Asked(b, m)'
               /\ pc'[b] = "check" => Count(b)' > 1
               /\ pc'[b] = "held" => \A m \in 1 .. Count(b)' : blk'[b][m] \in Frames
  <2>1. CASE b = c
    <3>1. Count(c)' = n /\ i'[c] = k + 1 /\ \A m \in 1 .. (k + 1) - 1 : m \in 1 .. k
      BY <1>1, <1>2 DEF n
    <3> QED BY <2>1, <3>1, <1>6 DEF Asked
  <2>2. CASE b # c
    <3>1. \A m : Asked(b, m)' <=> Asked(b, m)
      BY <2>2 DEF Asked
    <3>2. pc'[b] = pc[b] /\ i'[b] = i[b] /\ Count(b)' = Count(b) /\ fut'[b] = fut[b] /\ blk'[b] = blk[b]
      BY <2>2, <1>2
    <3>3. CallInv
      BY DEF AsyncInv
    <3> QED BY <3>1, <3>2, <3>3 DEF CallInv
  <2> QED BY <2>1, <2>2
<1> QED BY <1>7 DEF CallInv

\* The manager has no block that is not waiting.
LEMMA ManagerKept ==
  ASSUME Parameters, AsyncInv, NEW c \in Clients, pc[c] # "wait",
         UNCHANGED <<mchan, mplace>>,
         \A b \in Clients : b # c => pc'[b] = pc[b] /\ pages'[b] = pages[b]
  PROVE  ManagerInv'
<1>1. /\ \A j \in 1 .. Len(mchan) : mchan[j] \in Clients
      /\ \A j \in 1 .. Places : mplace[j] # None => mplace[j] \in Clients
  BY ElementOfSeq DEF AsyncInv, TypeOK
<1>2. ManagerInv
  BY DEF AsyncInv
<1>3. /\ \A j \in 1 .. Len(mchan) : pc[mchan[j]] = "wait" /\ Len(pages[mchan[j]]) > 1
      /\ \A j \in 1 .. Places : mplace[j] # None => pc[mplace[j]] = "wait" /\ Len(pages[mplace[j]]) > 1
  BY <1>2 DEF ManagerInv, Count
<1>4. \A b \in Clients : pc[b] = "wait" /\ Len(pages[b]) > 1 => pc'[b] = "wait" /\ Len(pages'[b]) > 1
  OBVIOUS
<1>5. /\ \A j \in 1 .. Len(mchan) : pc'[mchan[j]] = "wait" /\ Len(pages'[mchan[j]]) > 1
      /\ \A j \in 1 .. Places : mplace[j] # None => pc'[mplace[j]] = "wait" /\ Len(pages'[mplace[j]]) > 1
  BY <1>1, <1>3, <1>4
<1> QED BY <1>2, <1>5 DEF ManagerInv, Count

\* The block is given back: each of its pages loses a reference.
LEMMA ReleaseStep ==
  ASSUME Parameters, AsyncInv, NEW c \in Clients, Release(c)
  PROVE  AsyncInv'
<1> DEFINE n == Count(c)  K(f) == {k \in 1 .. n : blk[c][k] = f}
<1>1. /\ pc[c] = "held" /\ pc' = [pc EXCEPT ![c] = "idle"]
      /\ pte' = [f \in Frames |-> [pte[f] EXCEPT !.ref = @ - Cardinality(K(f))]]
      /\ pages' = [pages EXCEPT ![c] = <<>>] /\ fut' = [fut EXCEPT ![c] = <<>>]
      /\ blk' = [blk EXCEPT ![c] = <<>>]
      /\ UNCHANGED <<mapping, free, repl, mem, disk, chan, place, at, again, mchan, mplace, mat,
                     i, left, written>>
  BY DEF Release, pool, manager
<1>2. /\ DOMAIN fut = Clients /\ DOMAIN blk = Clients
      /\ pages \in [Clients -> Seq(Pages)] /\ i \in [Clients -> Nat] /\ left \in [Clients -> Nat]
      /\ pc \in [Clients -> {"idle", "begin", "check", "wait", "held"}]
      /\ pte \in [Frames -> [page : Pages \cup {None}, ref : Nat, dirty : BOOLEAN]]
  BY DEF AsyncInv, TypeOK
<1>3. /\ pages' \in [Clients -> Seq(Pages)] /\ pc' \in [Clients -> {"idle", "begin", "check", "wait", "held"}]
      /\ DOMAIN fut' = Clients /\ DOMAIN blk' = Clients
      /\ pages'[c] = <<>> /\ fut'[c] = <<>> /\ blk'[c] = <<>> /\ pc'[c] = "idle"
      /\ \A b \in Clients : b # c => /\ pages'[b] = pages[b] /\ fut'[b] = fut[b]
                                     /\ blk'[b] = blk[b] /\ pc'[b] = pc[b]
  <2>1. <<>> \in Seq(Pages)
    BY EmptySeq
  <2> QED BY <2>1, <1>1, <1>2
<1>4. Count(c)' = 0 /\ \A b \in Clients : b # c => Count(b)' = Count(b)
  BY <1>3, EmptySeq DEF Count
<1>5. \A j \in InPlaces : \A m : ~IsFor(place[j], c, m)
  BY <1>1, NoRequests
<1>6. InPlaces' = InPlaces
  BY <1>1 DEF InPlaces
<1>7. ASSUME NEW f \in Frames, NEW b \in Clients, NEW m
      PROVE  /\ b # c => (Refers(b, m, f)' <=> Refers(b, m, f))
             /\ b = c => (Refers(b, m, f) <=> blk[c][m] = f)
  <2>1. CASE b # c
    <3>1. blk'[b] = blk[b] /\ fut'[b] = fut[b] /\ pc'[b] = pc[b] /\ place' = place
      BY <2>1, <1>1, <1>3
    <3> QED BY <2>1, <3>1, <1>6 DEF Refers
  <2>2. CASE b = c
    <3>1. pc[c] = "held"
      BY <1>1
    <3> QED BY <2>2, <3>1, <1>5 DEF Refers
  <2> QED BY <2>1, <2>2
<1>8. ASSUME NEW f \in Frames
      PROVE  /\ Cardinality(K(f)) \in Nat /\ Cardinality(Refs(f)') \in Nat
             /\ pte[f].ref = Cardinality(Refs(f)') + Cardinality(K(f))
  <2> DEFINE A == Refs(f)'  B == {c} \X K(f)
  <2>1. n \in Nat /\ IsFiniteSet(Refs(f)) /\ pte[f].ref = Cardinality(Refs(f))
    BY CallTypes, FuturesFinite DEF AsyncInv, RefInv
  <2>2. \A x : x \in A <=> \E b \in Clients : b # c /\ x \in {b} \X (1 .. Count(b)) /\ Refers(x[1], x[2], f)
    <3>1. \A x : x \in A <=> \E b \in Clients : b # c /\ x \in {b} \X (1 .. Count(b)) /\ Refers(x[1], x[2], f)'
      BY <1>4 DEF Refs, Futures
    <3>2. \A x : \A b \in Clients : b # c /\ x \in {b} \X (1 .. Count(b)) =>
            (Refers(x[1], x[2], f)' <=> Refers(x[1], x[2], f))
      BY <1>7
    <3> QED BY <3>1, <3>2
  <2>3. \A x : x \in B <=> x \in {c} \X (1 .. n) /\ Refers(x[1], x[2], f)
    BY <1>7
  <2>4. \A x : x \in Refs(f) <=> \E b \in Clients : x \in {b} \X (1 .. Count(b)) /\ Refers(x[1], x[2], f)
    BY DEF Refs, Futures
  <2>5. Refs(f) = A \cup B /\ A \cap B = {}
    BY <2>2, <2>3, <2>4
  <2>6. IsFiniteSet(1 .. n)
    BY <2>1, FS_Interval
  <2>7. IsFiniteSet(K(f))
    <3>1. K(f) \in SUBSET (1 .. n)
      OBVIOUS
    <3> QED BY <2>6, <3>1, FS_Subset
  <2>8. IsFiniteSet({c}) /\ Cardinality({c}) = 1
    BY FS_Singleton
  <2> DEFINE S == K(f)
  <2>9. IsFiniteSet(S) /\ Cardinality(S) \in Nat
    BY <2>7, FS_CardinalityType
  <2> HIDE DEF S
  <2>10. IsFiniteSet({c} \X S) /\ Cardinality({c} \X S) = Cardinality(S)
    <3>1. Cardinality({c} \X S) = Cardinality({c}) * Cardinality(S) /\ IsFiniteSet({c} \X S)
      BY <2>8, <2>9, FS_Product
    <3> QED BY <3>1, <2>8, <2>9
  <2>11. IsFiniteSet(B) /\ Cardinality(B) = Cardinality(S)
    BY <2>10 DEF S
  <2>12. A \in SUBSET Refs(f)
    BY <2>5
  <2> HIDE DEF A, B
  <2>13. IsFiniteSet(A) /\ Cardinality(A) \in Nat
    BY <2>1, <2>12, FS_Subset, FS_CardinalityType
  <2>14. Cardinality(A \cup B) = Cardinality(A) + Cardinality(B) - Cardinality(A \cap B)
    BY <2>11, <2>13, FS_Union
  <2>15. Cardinality(A \cap B) = 0
    BY <2>5, FS_EmptySet
  <2>16. pte[f].ref = Cardinality(A) + Cardinality(S)
    BY <2>1, <2>5, <2>9, <2>11, <2>13, <2>14, <2>15
  <2> QED BY <2>9, <2>13, <2>16 DEF A, S
<1> HIDE DEF K, n
<1>9. /\ pte' \in [Frames -> [page : Pages \cup {None}, ref : Nat, dirty : BOOLEAN]]
      /\ \A f \in Frames : /\ pte'[f].page = pte[f].page /\ pte'[f].dirty = pte[f].dirty
                           /\ pte'[f].ref = Cardinality(Refs(f)')
  <2> DEFINE E == [page : Pages \cup {None}, ref : Nat, dirty : BOOLEAN]
             e(f) == [pte[f] EXCEPT !.ref = @ - Cardinality(K(f))]
  <2>1. ASSUME NEW f \in Frames
        PROVE  e(f) \in E /\ e(f).page = pte[f].page /\ e(f).dirty = pte[f].dirty
               /\ e(f).ref = Cardinality(Refs(f)')
    <3>1. pte[f] \in E
      BY <1>2
    <3>2. pte[f].ref - Cardinality(K(f)) = Cardinality(Refs(f)') /\ Cardinality(Refs(f)') \in Nat
      BY <1>8
    <3> QED BY <3>1, <3>2
  <2>2. pte' = [f \in Frames |-> e(f)]
    BY <1>1
  <2> HIDE DEF e, E
  <2>3. pte' \in [Frames -> E] /\ \A f \in Frames : pte'[f] = e(f)
    BY <2>1, <2>2
  <2> QED BY <2>1, <2>3 DEF E
<1>10. PhaseInv' /\ TableInv' /\ DataInv'
  BY <1>1, <1>9, TableKept
<1>11. TypeOK'
  <2>1. ASSUME NEW b \in Clients
        PROVE  /\ fut'[b] \in [1 .. Count(b)' -> Frames \cup {"none", "pending"}]
               /\ blk'[b] \in [1 .. Count(b)' -> Frames \cup {None}]
    <3>1. CASE b = c
      <4>1. 1 .. Count(c)' = {}
        BY <1>4
      <4>2. fut'[c] = [x \in {} |-> x] /\ blk'[c] = [x \in {} |-> x]
        BY <1>3
      <4> QED BY <3>1, <4>1, <4>2
    <3>2. CASE b # c
      <4>1. /\ fut[b] \in [1 .. Count(b) -> Frames \cup {"none", "pending"}]
            /\ blk[b] \in [1 .. Count(b) -> Frames \cup {None}]
        BY DEF AsyncInv, TypeOK
      <4>2. fut'[b] = fut[b] /\ blk'[b] = blk[b] /\ Count(b)' = Count(b)
        BY <3>2, <1>3, <1>4
      <4> QED BY <4>1, <4>2
    <3> QED BY <3>1, <3>2
  <2> QED BY <2>1, <1>1, <1>3, <1>9 DEF AsyncInv, TypeOK
<1>12. CallInv'
  <2>1. ASSUME NEW b \in Clients
        PROVE  /\ pc'[b] = "idle" <=> Count(b)' = 0
               /\ pc'[b] = "begin" =>
                    /\ i'[b] \in 1 .. Count(b)'
                    /\ \A m \in 1 .. i'[b] - 1 : Asked(b, m)'
                    /\ \A m \in i'[b] .. Count(b)' : fut'[b][m] = "none" /\ blk'[b][m] = None
               /\ pc'[b] \in {"check", "wait"} => \A m \in 1 .. Count(b)' : Asked(b, m)'
               /\ pc'[b] = "check" => Count(b)' > 1
               /\ pc'[b] = "held" => \A m \in 1 .. Count(b)' : blk'[b][m] \in Frames
    <3>1. CASE b = c
      BY <3>1, <1>3, <1>4
    <3>2. CASE b # c
      <4>1. \A m : Asked(b, m)' <=> Asked(b, m)
        BY <3>2, <1>3 DEF Asked
      <4>2. pc'[b] = pc[b] /\ i'[b] = i[b] /\ Count(b)' = Count(b) /\ fut'[b] = fut[b] /\ blk'[b] = blk[b]
        BY <3>2, <1>1, <1>3, <1>4
      <4>3. CallInv
        BY DEF AsyncInv
      <4> QED BY <4>1, <4>2, <4>3 DEF CallInv
    <3> QED BY <3>1, <3>2
  <2> QED BY <2>1 DEF CallInv
<1>13. ManagerInv'
  BY <1>1, <1>3, ManagerKept
<1>14. RequestInv'
  <2>1. /\ \A m \in 1 .. Len(chan) : chan[m].to[1] # c
        /\ \A j \in InPlaces : place[j].to[1] # c
    BY <1>1, NoRequests
  <2>2. \A k \in 1 .. Count(c)' : FALSE
    BY <1>4
  <2> QED BY <2>1, <2>2, <1>1, <1>3, OtherRequests
<1>15. RefInv'
  <2>1. ASSUME NEW f \in Frames, NEW b \in Clients, NEW m \in 1 .. Count(b)', Refers(b, m, f)'
        PROVE  mapping'[pages'[b][m]] = f
    <3>1. b # c
      BY <2>1, <1>4
    <3>2. Refers(b, m, f) /\ m \in 1 .. Count(b) /\ pages'[b] = pages[b]
      BY <2>1, <3>1, <1>3, <1>4, <1>7
    <3> QED BY <3>2, <1>1 DEF AsyncInv, RefInv
  <2> QED BY <2>1, <1>9 DEF RefInv
<1> QED BY <1>10, <1>11, <1>12, <1>13, <1>14, <1>15 DEF AsyncInv

\* The page is in memory: it is pinned, and goes into the block.
LEMMA BeginHit ==
  ASSUME Parameters, AsyncInv, NEW c \in Clients, pc[c] = "begin", NEW m \in Frames,
         mapping[pages[c][i[c]]] = m, pte' = Pinned(m), blk' = [blk EXCEPT ![c][i[c]] = m],
         pc' = [pc EXCEPT ![c] = AfterBegin(c, fut[c])], i' = [i EXCEPT ![c] = @ + 1],
         UNCHANGED <<mapping, free, repl, mem, disk, chan, place, at, again, mchan, mplace, mat,
                     pages, fut, left, written>>
  PROVE  AsyncInv'
<1> DEFINE k == i[c]
<1>1. /\ k \in 1 .. Count(c) /\ fut[c][k] = "none" /\ blk[c][k] = None
      /\ k \in Nat /\ Count(c) \in Nat
      /\ \A b \in Clients : Count(b)' = Count(b)
  <2>1. k \in 1 .. Count(c) /\ Count(c) \in Nat /\ k \in Nat
    BY CallTypes DEF AsyncInv, CallInv, TypeOK
  <2>2. k \in k .. Count(c)
    BY <2>1
  <2> QED BY <2>1, <2>2 DEF AsyncInv, CallInv, Count
<1>2. /\ DOMAIN blk = Clients /\ blk[c] \in [1 .. Count(c) -> Frames \cup {None}]
      /\ i \in [Clients -> Nat]
      /\ pc \in [Clients -> {"idle", "begin", "check", "wait", "held"}]
      /\ None \notin Frames /\ "none" \notin Frames
  BY DEF AsyncInv, TypeOK, Parameters
<1>3. /\ i' \in [Clients -> Nat] /\ i'[c] = k + 1 /\ \A b \in Clients : b # c => i'[b] = i[b]
  BY <1>2
<1>4. AfterBegin(c, fut[c]) \in {"begin", "held", "wait", "check"}
  BY DEF AfterBegin
<1>5. /\ pc' \in [Clients -> {"idle", "begin", "check", "wait", "held"}]
      /\ pc'[c] = AfterBegin(c, fut[c]) /\ \A b \in Clients : b # c => pc'[b] = pc[b]
  BY <1>2, <1>4
<1> HIDE DEF k
<1>6. /\ DOMAIN blk' = Clients /\ \A b \in Clients : b # c => blk'[b] = blk[b]
      /\ blk'[c] = [blk[c] EXCEPT ![k] = m]
  BY <1>2 DEF k
<1>7. /\ blk'[c] \in [1 .. Count(c) -> Frames \cup {None}] /\ blk'[c][k] = m
      /\ \A n \in 1 .. Count(c) : n # k => blk'[c][n] = blk[c][n]
  BY <1>1, <1>2, <1>6
<1>8. /\ pte' \in [Frames -> [page : Pages \cup {None}, ref : Nat, dirty : BOOLEAN]]
      /\ \A g \in Frames : /\ pte'[g].page = pte[g].page
                           /\ pte'[g].dirty = pte[g].dirty
                           /\ g # m => pte'[g].ref = pte[g].ref
      /\ pte'[m].ref = pte[m].ref + 1
  BY PinnedFrame DEF AsyncInv
<1>9. PhaseInv' /\ TableInv' /\ DataInv' /\ InPlaces' = InPlaces
  BY <1>8, TableKept
<1>10. TypeOK'
  <2>1. ASSUME NEW b \in Clients
        PROVE  /\ fut'[b] \in [1 .. Count(b)' -> Frames \cup {"none", "pending"}]
               /\ blk'[b] \in [1 .. Count(b)' -> Frames \cup {None}]
    <3>1. /\ fut[b] \in [1 .. Count(b) -> Frames \cup {"none", "pending"}]
          /\ blk[b] \in [1 .. Count(b) -> Frames \cup {None}]
      BY DEF AsyncInv, TypeOK
    <3> QED BY <3>1, <1>1, <1>6, <1>7
  <2> QED BY <2>1, <1>3, <1>5, <1>6, <1>8 DEF AsyncInv, TypeOK
<1>11. CallInv'
  <2>1. \A n \in 1 .. Count(c) : fut'[c][n] \in Frames \cup {"none", "pending"}
    BY CallTypes DEF AsyncInv
  <2>2. IF fut'[c][i[c]] = "none" THEN blk'[c][i[c]] \in Frames ELSE blk'[c][i[c]] = None
    BY <1>1, <1>7 DEF k
  <2>3. \A n \in 1 .. Count(c) : n # i[c] => fut'[c][n] = fut[c][n] /\ blk'[c][n] = blk[c][n]
    BY <1>7 DEF k
  <2>4. \A b \in Clients : b # c => /\ pc'[b] = pc[b] /\ i'[b] = i[b]
                                    /\ fut'[b] = fut[b] /\ blk'[b] = blk[b]
    BY <1>3, <1>5, <1>6
  <2>5. pc'[c] = AfterBegin(c, fut'[c]) /\ i'[c] = i[c] + 1
    BY <1>3, <1>5 DEF k
  <2> QED BY <2>1, <2>2, <2>3, <2>4, <2>5, BeginCall
<1>12. ManagerInv'
  BY <1>5, ManagerKept
<1>13. pc'[c] = "held" => \A n \in 1 .. Count(c) : fut[c][n] = "none"
  BY <1>5 DEF AfterBegin
<1>14. RequestInv'
  <2>1. \A r \in Req : Wanted(r) => Wanted(r)'
    <3> TAKE r \in Req
    <3>1. r.to[1] \in Clients
      BY RequestFields
    <3>2. Wanted(r) => (r.to[1] = c => pc'[c] # "held")
      BY <1>13 DEF Wanted
    <3> QED BY <3>1, <3>2, <1>1, <1>5 DEF Wanted
  <2>2. /\ \A n \in 1 .. Len(chan) : \E r \in Req : r = chan[n] /\ Wanted(r)'
        /\ \A j \in InPlaces : \E r \in Req : r = place[j] /\ Wanted(r)'
    <3>1. \A n \in 1 .. Len(chan) : chan[n] \in Req
      BY ElementOfSeq DEF AsyncInv, TypeOK
    <3> QED BY <2>1, <3>1, PlaceHasRequest DEF AsyncInv, RequestInv
  <2>3. UNCHANGED <<chan, place, pages, fut>> /\ RequestInv
    BY DEF AsyncInv
  <2>4. /\ \A n \in 1 .. Len(chan) : Wanted(chan[n])'
        /\ \A j \in InPlaces : Wanted(place[j])'
    BY <2>2, <2>3 DEF Wanted
  <2>5. \A b \in Clients : pc'[b] # "held" => pc[b] # "held"
    BY <1>5
  <2> QED BY <2>3, <2>4, <2>5, <1>1, <1>9 DEF RequestInv
<1>15. ASSUME NEW g \in Frames, NEW b \in Clients, NEW n \in 1 .. Count(b)
       PROVE  Refers(b, n, g)' <=> Refers(b, n, g) \/ (g = m /\ b = c /\ n = k)
  <2>1. CASE b # c
    BY <2>1, <1>5, <1>6, <1>9 DEF Refers
  <2>2. CASE b = c
    <3>1. pc[c] # "held" /\ (pc'[c] = "held" => fut[c][n] # g)
      BY <2>2, <1>2, <1>13
    <3>2. blk'[c][n] = g <=> blk[c][n] = g \/ (g = m /\ n = k)
      BY <2>2, <1>1, <1>2, <1>7
    <3> QED BY <2>2, <3>1, <3>2, <1>9 DEF Refers
  <2> QED BY <2>1, <2>2
<1>16. \A g \in Frames : ~Refers(c, k, g)
  <2>1. \A j \in InPlaces : ~IsFor(place[j], c, k)
    <3>1. ASSUME NEW j \in InPlaces, IsFor(place[j], c, k) PROVE FALSE
      <4>1. Wanted(place[j]) /\ place[j].to[1] = c /\ place[j].to[2] = k
        BY <3>1 DEF AsyncInv, RequestInv, IsFor
      <4> QED BY <4>1, <1>1 DEF Wanted
    <3> QED BY <3>1
  <2> QED BY <2>1, <1>1, <1>2 DEF Refers
<1>17. RefInv'
  <2> DEFINE x == <<c, k>>  A == Refs(m)
  <2>1. Futures' = Futures /\ x \in Futures
    BY <1>1 DEF Futures
  <2>2. ASSUME NEW g \in Frames, NEW y \in Futures
        PROVE  Refers(y[1], y[2], g)' <=> Refers(y[1], y[2], g) \/ (g = m /\ y = x)
    <3>1. PICK b \in Clients : y \in {b} \X (1 .. Count(b))
      BY DEF Futures
    <3>2. PICK n \in 1 .. Count(b) : y = <<b, n>> /\ y[1] = b /\ y[2] = n
      BY <3>1
    <3>3. Refers(b, n, g)' <=> Refers(b, n, g) \/ (g = m /\ b = c /\ n = k)
      BY <1>15
    <3> QED BY <3>2, <3>3
  <2>3. \A g \in Frames : g # m => Refs(g)' = Refs(g)
    BY <2>1, <2>2 DEF Refs
  <2>4. Refs(m)' = A \cup {x}
    BY <2>1, <2>2 DEF Refs
  <2>5. x \notin A /\ IsFiniteSet(A)
    BY <1>1, <1>16, RefsOf, FuturesFinite DEF AsyncInv
  <2>6. Cardinality(A \cup {x}) = Cardinality(A) + 1
    BY <2>5, FS_AddElement
  <2>7. \A g \in Frames : pte[g].ref = Cardinality(Refs(g))
    BY DEF AsyncInv, RefInv
  <2>8. \A g \in Frames : pte'[g].ref = Cardinality(Refs(g)')
    <3>1. pte'[m].ref = Cardinality(Refs(m)')
      BY <2>4, <2>6, <2>7, <1>8
    <3>2. \A g \in Frames : g # m => pte'[g].ref = Cardinality(Refs(g)')
      BY <2>3, <2>7, <1>8
    <3> QED BY <3>1, <3>2
  <2>9. ASSUME NEW g \in Frames, NEW b \in Clients, NEW n \in 1 .. Count(b), Refers(b, n, g)'
        PROVE  mapping[pages[b][n]] = g
    <3>1. CASE Refers(b, n, g)
      BY <3>1 DEF AsyncInv, RefInv
    <3>2. CASE g = m /\ b = c /\ n = k
      BY <3>2 DEF k
    <3> QED BY <2>9, <3>1, <3>2, <1>15
  <2> QED BY <2>8, <2>9, <1>1 DEF RefInv
<1> QED BY <1>9, <1>10, <1>11, <1>12, <1>14, <1>17 DEF AsyncInv

\* A request joins the channel, for a future that had none.
LEMMA SentRequest ==
  ASSUME Parameters, AsyncInv, NEW r \in Req, r.phase = "Begin", r.io = "none",
         Wanted(r)', \A q \in Req : Wanted(q) => Wanted(q)' /\ q.to # r.to,
         Len(chan') = Len(chan) + 1, chan'[Len(chan) + 1] = r,
         \A n \in 1 .. Len(chan) : chan'[n] = chan[n],
         \A b \in Clients : \A n \in 1 .. Count(b) :
           fut'[b][n] = "pending" /\ pc'[b] # "held" =>
             (fut[b][n] = "pending" /\ pc[b] # "held") \/ IsFor(r, b, n),
         UNCHANGED <<place, pages>>
  PROVE  RequestInv'
<1> DEFINE l == Len(chan)  q == chan'
<1>1. /\ l \in Nat /\ Len(q) = l + 1 /\ q[l + 1] = r /\ chan \in Seq(Req)
      /\ \A n \in 1 .. l : q[n] = chan[n] /\ chan[n] \in Req
  BY LenProperties, ElementOfSeq DEF AsyncInv, TypeOK
<1>2. /\ RequestInv /\ InPlaces' = InPlaces /\ place' = place
      /\ \A b \in Clients : Count(b)' = Count(b)
  BY DEF AsyncInv, InPlaces, Count
<1>3. \A j \in InPlaces : place[j] \in Req
  BY PlaceHasRequest DEF AsyncInv
<1>4. /\ \A n \in 1 .. l : Wanted(chan[n]) /\ chan[n].phase = "Begin" /\ chan[n].io = "none"
      /\ \A j \in InPlaces : Wanted(place[j])
      /\ \A m, n \in 1 .. l : chan[m].to = chan[n].to => m = n
      /\ \A j, k \in InPlaces : place[j].to = place[k].to => j = k
      /\ \A n \in 1 .. l, k \in InPlaces : chan[n].to # place[k].to
  BY <1>2 DEF RequestInv
<1>5. \A n \in 1 .. l : chan[n].to # r.to
  BY <1>1, <1>4
<1>6. \A j \in InPlaces : Wanted(place[j])' /\ place[j].to # r.to
  <2> TAKE j \in InPlaces
  <2>1. PICK s \in Req : s = place[j]
    BY <1>3
  <2>2. Wanted(s)' /\ s.to # r.to
    BY <2>1, <1>4
  <2> QED BY <2>1, <2>2, <1>2 DEF Wanted
<1>7. \A n \in 1 .. l : Wanted(chan[n])'
  <2> TAKE n \in 1 .. l
  <2>1. PICK s \in Req : s = chan[n]
    BY <1>1
  <2>2. Wanted(s)' /\ q[n] = s
    BY <2>1, <1>1, <1>4
  <2> QED BY <2>2 DEF Wanted
<1>8. \A n \in Nat : n = l + 1 => /\ Wanted(chan[n])' /\ q[n].to = r.to
                                  /\ q[n].phase = "Begin" /\ q[n].io = "none"
  <2> SUFFICES ASSUME NEW n \in Nat, n = l + 1
               PROVE  Wanted(chan[n])' /\ chan'[n] = r
    OBVIOUS
  <2>1. chan'[n] = r
    BY <1>1
  <2> QED BY <2>1 DEF Wanted
<1>9. \A n \in 1 .. l : q[n].to = chan[n].to /\ q[n].phase = "Begin" /\ q[n].io = "none"
  BY <1>1, <1>4
<1>10. ASSUME NEW b \in Clients, NEW n \in 1 .. Count(b), fut'[b][n] = "pending", pc'[b] # "held"
       PROVE  \/ \E m \in 1 .. l + 1 : IsFor(q[m], b, n)
              \/ \E j \in InPlaces : IsFor(place[j], b, n)
  <2>1. l + 1 \in 1 .. l + 1 /\ \A m \in 1 .. l : m \in 1 .. l + 1
    BY <1>1
  <2>2. CASE IsFor(r, b, n)
    BY <2>1, <2>2, <1>1
  <2>3. CASE fut[b][n] = "pending" /\ pc[b] # "held"
    <3>1. \/ \E m \in 1 .. l : IsFor(chan[m], b, n)
          \/ \E j \in InPlaces : IsFor(place[j], b, n)
      BY <2>3, <1>2 DEF RequestInv
    <3> QED BY <3>1, <2>1, <1>1
  <2> QED BY <1>10, <2>2, <2>3
<1>11. l + 1 \in Nat /\ \A n \in 1 .. l + 1 : n \in Nat /\ (n = l + 1 \/ n \in 1 .. l)
  BY <1>1
<1>12. Len(chan') = l + 1
  BY <1>1
<1> HIDE DEF l
<1>13. \A n \in 1 .. l + 1 : Wanted(chan[n])' /\ q[n].phase = "Begin" /\ q[n].io = "none"
  BY <1>7, <1>8, <1>9, <1>11
<1> HIDE DEF q
<1>14. /\ \A m, n \in 1 .. l + 1 : q[m].to = q[n].to => m = n
       /\ \A n \in 1 .. l + 1, k \in InPlaces : q[n].to # place[k].to
  BY <1>4, <1>5, <1>6, <1>8, <1>9, <1>11
<1> QED BY <1>2, <1>4, <1>6, <1>10, <1>12, <1>13, <1>14 DEF RequestInv, q

\* The page is not in memory: a request is sent for it.
LEMMA BeginMiss ==
  ASSUME Parameters, AsyncInv, NEW c \in Clients, pc[c] = "begin", Len(chan) < Channel,
         chan' = Append(chan, Request(pages[c][i[c]], <<c, i[c]>>)),
         fut' = [fut EXCEPT ![c][i[c]] = "pending"],
         pc' = [pc EXCEPT ![c] = AfterBegin(c, fut'[c])], i' = [i EXCEPT ![c] = @ + 1],
         UNCHANGED <<mapping, pte, free, repl, mem, disk, place, at, again, mchan, mplace, mat,
                     pages, blk, left, written>>
  PROVE  AsyncInv'
<1> DEFINE k == i[c]  p == pages[c][k]  r == Request(p, <<c, k>>)  l == Len(chan)
<1>1. /\ k \in 1 .. Count(c) /\ fut[c][k] = "none" /\ blk[c][k] = None
      /\ k \in Nat /\ Count(c) \in Nat
      /\ \A b \in Clients : Count(b)' = Count(b)
  <2>1. k \in 1 .. Count(c) /\ Count(c) \in Nat /\ k \in Nat
    BY CallTypes DEF AsyncInv, CallInv, TypeOK
  <2>2. k \in k .. Count(c)
    BY <2>1
  <2> QED BY <2>1, <2>2 DEF AsyncInv, CallInv, Count
<1>2. /\ DOMAIN fut = Clients /\ fut[c] \in [1 .. Count(c) -> Frames \cup {"none", "pending"}]
      /\ i \in [Clients -> Nat] /\ p \in Pages
      /\ pc \in [Clients -> {"idle", "begin", "check", "wait", "held"}]
      /\ None \notin Frames /\ "none" \notin Frames /\ "pending" \notin Frames
      /\ chan \in Seq(Req) /\ l \in Nat /\ Channel \in Nat
  BY <1>1, CallTypes, LenProperties DEF AsyncInv, TypeOK, Parameters
<1>3. /\ i' \in [Clients -> Nat] /\ i'[c] = k + 1 /\ \A b \in Clients : b # c => i'[b] = i[b]
  BY <1>2
<1>4. /\ r \in Req /\ r.phase = "Begin" /\ r.io = "none" /\ r.page = p
      /\ r.to = <<c, k>> /\ r.to[1] = c /\ r.to[2] = k /\ IsFor(r, c, k)
  BY <1>1, <1>2 DEF Request, Req, IsFor
<1>5. chan' = Append(chan, r) /\ p = pages[c][k]
  OBVIOUS
<1> HIDE DEF k, p, r
<1>6. /\ chan' \in Seq(Req) /\ Len(chan') = l + 1 /\ chan'[l + 1] = r
      /\ \A n \in 1 .. l : chan'[n] = chan[n]
  BY <1>2, <1>4, <1>5, AppendProperties
<1> HIDE DEF l
<1>7. /\ DOMAIN fut' = Clients /\ \A b \in Clients : b # c => fut'[b] = fut[b]
      /\ fut'[c] = [fut[c] EXCEPT ![k] = "pending"]
  BY <1>2 DEF k
<1>8. /\ fut'[c] \in [1 .. Count(c) -> Frames \cup {"none", "pending"}] /\ fut'[c][k] = "pending"
      /\ \A n \in 1 .. Count(c) : n # k => fut'[c][n] = fut[c][n]
  BY <1>1, <1>2, <1>7
<1>9. AfterBegin(c, fut'[c]) \in {"begin", "wait", "check"}
  BY <1>1, <1>8 DEF AfterBegin
<1>10. /\ pc' \in [Clients -> {"idle", "begin", "check", "wait", "held"}]
       /\ pc'[c] = AfterBegin(c, fut'[c]) /\ pc'[c] # "held"
       /\ \A b \in Clients : b # c => pc'[b] = pc[b]
  BY <1>2, <1>9
<1>11. PhaseInv' /\ TableInv' /\ DataInv' /\ InPlaces' = InPlaces
  BY TableKept
<1>12. TypeOK'
  <2>1. ASSUME NEW b \in Clients
        PROVE  /\ fut'[b] \in [1 .. Count(b)' -> Frames \cup {"none", "pending"}]
               /\ blk'[b] \in [1 .. Count(b)' -> Frames \cup {None}]
    <3>1. /\ fut[b] \in [1 .. Count(b) -> Frames \cup {"none", "pending"}]
          /\ blk[b] \in [1 .. Count(b) -> Frames \cup {None}]
      BY DEF AsyncInv, TypeOK
    <3> QED BY <3>1, <1>1, <1>7, <1>8
  <2>2. Len(chan') <= Channel
    BY <1>2, <1>6 DEF l
  <2> QED BY <2>1, <2>2, <1>3, <1>6, <1>7, <1>10 DEF AsyncInv, TypeOK
<1>13. CallInv'
  <2>1. \A n \in 1 .. Count(c) : fut'[c][n] \in Frames \cup {"none", "pending"}
    BY <1>8
  <2>2. IF fut'[c][i[c]] = "none" THEN blk'[c][i[c]] \in Frames ELSE blk'[c][i[c]] = None
    BY <1>1, <1>8 DEF k
  <2>3. \A n \in 1 .. Count(c) : n # i[c] => fut'[c][n] = fut[c][n] /\ blk'[c][n] = blk[c][n]
    BY <1>8 DEF k
  <2>4. \A b \in Clients : b # c => /\ pc'[b] = pc[b] /\ i'[b] = i[b]
                                    /\ fut'[b] = fut[b] /\ blk'[b] = blk[b]
    BY <1>3, <1>7, <1>10
  <2>5. pc'[c] = AfterBegin(c, fut'[c]) /\ i'[c] = i[c] + 1
    BY <1>3, <1>10 DEF k
  <2> QED BY <2>1, <2>2, <2>3, <2>4, <2>5, BeginCall
<1>14. ManagerInv'
  BY <1>10, ManagerKept
<1>15. \A q \in Req : Wanted(q) => Wanted(q)' /\ ~IsFor(q, c, k) /\ q.to # r.to
  <2> TAKE q \in Req
  <2>1. PICK b \in Clients, n \in Nat : q.to = <<b, n>> /\ q.to[1] = b /\ q.to[2] = n
    BY RequestFields
  <2>2. Wanted(q) => b # c \/ n # k
    BY <2>1, <1>1 DEF Wanted
  <2>3. Wanted(q) => Wanted(q)'
    <3> SUFFICES ASSUME Wanted(q) PROVE Wanted(q)'
      OBVIOUS
    <3>1. n \in 1 .. Count(b) /\ q.page = pages[b][n] /\ fut[b][n] = "pending" /\ pc[b] # "held"
      BY <2>1 DEF Wanted
    <3>2. fut'[b][n] = "pending" /\ pc'[b] # "held"
      <4>1. CASE b = c
        BY <4>1, <2>2, <3>1, <1>8, <1>10
      <4>2. CASE b # c
        BY <4>2, <3>1, <1>7, <1>10
      <4> QED BY <4>1, <4>2
    <3> QED BY <2>1, <3>1, <3>2, <1>1 DEF Wanted
  <2> QED BY <2>1, <2>2, <2>3, <1>4 DEF IsFor
<1>16. RequestInv'
  <2> PICK s \in Req : s = r
    BY <1>4
  <2> PICK e \in Nat : e = k
    BY <1>1
  <2>1. /\ s.phase = "Begin" /\ s.io = "none" /\ s.page = pages[c][e]
        /\ s.to[1] = c /\ s.to[2] = e /\ IsFor(s, c, e)
    BY <1>4, <1>5
  <2>2. pages' = pages /\ place' = place
    OBVIOUS
  <2>3. fut'[c][e] = "pending" /\ pc'[c] # "held" /\ Count(c)' = Count(c) /\ e \in 1 .. Count(c)
    BY <1>1, <1>8, <1>10
  <2>4. Wanted(s)'
    BY <2>1, <2>2, <2>3 DEF Wanted
  <2>5. \A q \in Req : Wanted(q) => Wanted(q)' /\ q.to # s.to
    BY <1>15
  <2>6. /\ Len(chan') = Len(chan) + 1 /\ chan'[Len(chan) + 1] = r
        /\ \A n \in 1 .. Len(chan) : chan'[n] = chan[n]
    BY <1>6 DEF l
  <2>7. chan'[Len(chan) + 1] = s
    BY <2>6
  <2>8. \A b \in Clients : \A n \in 1 .. Count(b) :
           fut'[b][n] = "pending" /\ pc'[b] # "held" =>
             (fut[b][n] = "pending" /\ pc[b] # "held") \/ IsFor(s, b, n)
    <3> TAKE b \in Clients
    <3> TAKE n \in 1 .. Count(b)
    <3>1. CASE b # c
      BY <3>1, <1>7, <1>10
    <3>2. CASE b = c /\ n = k
      BY <3>2, <2>1
    <3>3. CASE b = c /\ n # k
      <4>1. pc[c] # "held"
        OBVIOUS
      <4> QED BY <3>3, <4>1, <1>8
    <3> QED BY <3>1, <3>2, <3>3
  <2> QED BY <2>4, <2>6, <2>8, <2>1, <2>2, <2>5, <2>7, SentRequest
<1>17. RefInv'
  <2>1. ASSUME NEW g \in Frames, NEW b \in Clients, NEW n \in 1 .. Count(b)
        PROVE  Refers(b, n, g)' <=> Refers(b, n, g)
    <3>1. CASE b # c
      BY <3>1, <1>7, <1>10, <1>11 DEF Refers
    <3>2. CASE b = c
      <4>1. pc[c] # "held" /\ pc'[c] # "held" /\ (fut'[c][n] = g <=> fut[c][n] = g)
        BY <3>2, <1>1, <1>2, <1>8, <1>10
      <4> QED BY <3>2, <4>1, <1>11 DEF Refers
    <3> QED BY <3>1, <3>2
  <2> QED BY <2>1, RefsStep
<1> QED BY <1>11, <1>12, <1>13, <1>14, <1>16, <1>17 DEF AsyncInv

\* A client asks for its next page.
LEMMA BeginStep ==
  ASSUME Parameters, AsyncInv, NEW c \in Clients, Begin(c)
  PROVE  AsyncInv'
<1> DEFINE p == pages[c][i[c]]  m == mapping[p]
<1>1. /\ pc[c] = "begin" /\ i' = [i EXCEPT ![c] = @ + 1]
      /\ UNCHANGED <<mapping, free, repl, mem, disk, place, at, again, mchan, mplace, mat, pages,
                     left, written>>
  BY DEF Begin, manager
<1>2. CASE /\ m \in Frames /\ pte' = Pinned(m) /\ blk' = [blk EXCEPT ![c][i[c]] = m]
           /\ pc' = [pc EXCEPT ![c] = AfterBegin(c, fut[c])] /\ UNCHANGED <<chan, fut>>
  BY <1>1, <1>2, BeginHit
<1>3. CASE /\ Len(chan) < Channel /\ chan' = Append(chan, Request(p, <<c, i[c]>>))
           /\ fut' = [fut EXCEPT ![c][i[c]] = "pending"]
           /\ pc' = [pc EXCEPT ![c] = AfterBegin(c, fut'[c])] /\ UNCHANGED <<pte, blk>>
  BY <1>1, <1>3, BeginMiss
<1> QED BY <1>2, <1>3 DEF Begin

-----------------------------------------------------------------------------
(* AsyncInv is an invariant. *)

LEMMA AsyncInit ==
  ASSUME Parameters, Init
  PROVE  AsyncInv
<1>1. InPlaces = {} /\ \A c \in Clients : Count(c) = 0
  BY EmptySeq DEF Init, InPlaces, Count
<1>2. /\ chan = <<>> /\ Len(chan) = 0 /\ mchan = <<>> /\ Len(mchan) = 0
      /\ Channel \in Nat /\ Places \in Nat \ {0}
      /\ place = [k \in 1 .. Places |-> None] /\ mplace = [k \in 1 .. Places |-> None]
      /\ pc = [c \in Clients |-> "idle"] /\ mapping = [p \in Pages |-> Empty] /\ repl = {}
      /\ Empty \notin Frames
  BY EmptySeq DEF Init, Parameters
<1>3. TypeOK
  <2>1. /\ mapping \in [Pages -> Frames \cup {Empty, Busy}]
        /\ pte \in [Frames -> [page : Pages \cup {None}, ref : Nat, dirty : BOOLEAN]]
        /\ free \subseteq Frames /\ repl \subseteq Frames
        /\ mem \in [Frames -> Nat] /\ disk \in [Pages -> Nat] /\ written \in [Pages -> Nat]
    BY DEF Init
  <2>2. /\ chan \in Seq(Req) /\ Len(chan) <= Channel
        /\ mchan \in Seq(Clients) /\ Len(mchan) <= Channel
    BY <1>2, EmptySeq
  <2>3. /\ place \in [1 .. Places -> Req \cup {None}] /\ at \in 1 .. Places /\ again \in BOOLEAN
        /\ mplace \in [1 .. Places -> Clients \cup {None}] /\ mat \in 1 .. Places
    <3>1. at = 1 /\ mat = 1 /\ again = FALSE
      BY DEF Init
    <3>2. 1 \in 1 .. Places
      BY <1>2
    <3>3. /\ place \in [1 .. Places -> Req \cup {None}]
          /\ mplace \in [1 .. Places -> Clients \cup {None}]
      BY <1>2
    <3> QED BY <3>1, <3>2, <3>3
  <2>4. /\ pc \in [Clients -> {"idle", "begin", "check", "wait", "held"}]
        /\ pages \in [Clients -> Seq(Pages)] /\ i \in [Clients -> Nat] /\ left \in [Clients -> Nat]
        /\ DOMAIN fut = Clients /\ DOMAIN blk = Clients
    BY EmptySeq DEF Init, Parameters
  <2>5. ASSUME NEW c \in Clients
        PROVE  /\ fut[c] \in [1 .. Count(c) -> Frames \cup {"none", "pending"}]
               /\ blk[c] \in [1 .. Count(c) -> Frames \cup {None}]
    <3>1. fut[c] = <<>> /\ blk[c] = <<>> /\ Count(c) = 0
      BY <1>1 DEF Init
    <3> QED BY <3>1
  <2> QED BY <2>1, <2>2, <2>3, <2>4, <2>5 DEF TypeOK
<1>4. CallInv
  BY <1>1, <1>2 DEF CallInv
<1>5. ManagerInv
  BY <1>2 DEF ManagerInv
<1>6. RequestInv
  BY <1>1, <1>2 DEF RequestInv
<1>7. PhaseInv
  BY <1>1 DEF PhaseInv, Locks, Carries, Evicts, Phase
<1>8. TableInv
  BY <1>2 DEF TableInv
<1>9. RefInv
  <2>1. Futures = {}
    BY <1>1 DEF Futures
  <2>2. \A f \in Frames : Refs(f) = {} /\ pte[f].ref = 0
    BY <2>1 DEF Refs, Init
  <2>3. \A f \in Frames : pte[f].ref = Cardinality(Refs(f))
    BY <2>2, FS_EmptySet
  <2> QED BY <2>3, <1>1 DEF RefInv
<1>10. DataInv
  <2>1. \A p \in Pages : mapping[p] = Empty /\ disk[p] = written[p]
    BY DEF Init
  <2> QED BY <2>1, <1>1, <1>2 DEF DataInv
<1> QED BY <1>3, <1>4, <1>5, <1>6, <1>7, <1>8, <1>9, <1>10 DEF AsyncInv

LEMMA AsyncStep ==
  ASSUME Parameters, AsyncInv, [Next]_vars
  PROVE  AsyncInv'
<1>1. ASSUME NEW c \in Clients, NEW ps \in Asks[c], Ask(c, ps) PROVE AsyncInv'
  BY <1>1, AskStep
<1>2. ASSUME NEW c \in Clients, Begin(c) \/ Check(c) PROVE AsyncInv'
  BY <1>2, BeginStep, CheckStep
<1>3. ASSUME NEW c \in Clients, Release(c) PROVE AsyncInv'
  BY <1>3, ReleaseStep
<1>4. ASSUME NEW c \in Clients, NEW k \in 1 .. Count(c), Write(c, k) PROVE AsyncInv'
  BY <1>4, WriteStep
<1>5. CASE ManagerRun
  BY <1>5, ManagerStep
<1>6. CASE Run
  BY <1>6, PopStep, FetchStep, EndStep DEF Run
<1>7. ASSUME NEW k \in InPlaces, IODone(k) PROVE AsyncInv'
  BY <1>7, IODoneStep
<1>8. CASE UNCHANGED vars
  <2>1. at' \in 1 .. Places /\ again' \in BOOLEAN /\ mat' \in 1 .. Places
    BY <1>8 DEF vars, AsyncInv, TypeOK
  <2>2. UNCHANGED <<mapping, pte, free, repl, mem, disk, chan, place, mchan, mplace, client, written>>
    BY <1>8 DEF vars, client
  <2> QED BY <2>1, <2>2, NextPlace
<1> QED BY <1>1, <1>2, <1>3, <1>4, <1>5, <1>6, <1>7, <1>8 DEF Next, Client

\* What the requests of the two servers, the futures, the blocks and the page table
\* say of each other always agrees, for any calls, channels and arrays.
THEOREM AsyncInvariance == Parameters /\ Spec => []AsyncInv
<1>1. ASSUME Parameters PROVE Spec => []AsyncInv
  <2>1. Init => AsyncInv
    BY <1>1, AsyncInit
  <2>2. AsyncInv /\ [Next]_vars => AsyncInv'
    BY <1>1, AsyncStep
  <2> QED BY <2>1, <2>2, PTL DEF Spec
<1> QED BY <1>1

\* A block that GetBlockAsync gave out shows the pages that were asked for, with what
\* was written to them last: neither server gives a block a frame that is being filled,
\* written back or taken for another page.
THEOREM BlocksAreCurrent == Parameters /\ Spec => []BlockCurrent
<1>1. Parameters /\ AsyncInv => BlockCurrent
  <2> SUFFICES ASSUME Parameters, AsyncInv, NEW c \in Clients, pc[c] = "held",
                      NEW k \in 1 .. Count(c)
               PROVE  /\ blk[c][k] \in Frames /\ pte[blk[c][k]].page = pages[c][k]
                      /\ mapping[pages[c][k]] = blk[c][k]
                      /\ mem[blk[c][k]] = written[pages[c][k]]
    BY DEF BlockCurrent
  <2>1. blk[c][k] \in Frames /\ pages[c][k] \in Pages
    BY CallTypes DEF AsyncInv, CallInv
  <2>2. Refers(c, k, blk[c][k])
    BY DEF Refers
  <2>3. pte[blk[c][k]].page = pages[c][k] /\ mapping[pages[c][k]] = blk[c][k]
    BY <2>1, <2>2, ReferredCounts
  <2> QED BY <2>1, <2>3 DEF AsyncInv, DataInv
<1>2. ASSUME Parameters PROVE Spec => []BlockCurrent
  <2>1. Spec => []AsyncInv
    BY <1>2, AsyncInvariance
  <2>2. AsyncInv => BlockCurrent
    BY <1>1, <1>2
  <2> QED BY <2>1, <2>2, PTL
<1> QED BY <1>2

\* A future that is pending has one request, in the channel or in the array of the
\* server: none is lost when Run puts the next one in the place of a finished one.
THEOREM FuturesHaveOneRequest == Parameters /\ Spec => []OneRequestPerFuture
<1>1. ASSUME Parameters, AsyncInv, NEW c \in Clients, NEW k \in 1 .. Count(c)
      PROVE  Cardinality({r \in InPlaces : place[r].to = <<c, k>>})
               + Cardinality({n \in DOMAIN chan : chan[n].to = <<c, k>>})
               = IF fut[c][k] = "pending" /\ pc[c] # "held" THEN 1 ELSE 0
  <2> DEFINE A == {r \in InPlaces : place[r].to = <<c, k>>}
             B == {n \in DOMAIN chan : chan[n].to = <<c, k>>}
             Waits == fut[c][k] = "pending" /\ pc[c] # "held"
  <2>1. /\ Len(chan) \in Nat /\ DOMAIN chan = 1 .. Len(chan) /\ Places \in Nat
        /\ InPlaces \subseteq 1 .. Places
    BY <1>1, LenProperties DEF AsyncInv, TypeOK, Parameters, InPlaces
  <2>2. IsFiniteSet(1 .. Len(chan)) /\ IsFiniteSet(1 .. Places)
    BY <2>1, FS_Interval
  <2>3. IsFiniteSet(A) /\ IsFiniteSet(B)
    BY <2>1, <2>2, FS_Subset
  <2>4. /\ \A j, r \in A : j = r
        /\ \A m, n \in B : m = n
        /\ \A r \in A, n \in B : FALSE
    BY <1>1, <2>1 DEF AsyncInv, RequestInv
  <2>5. (\E r \in A : TRUE) => Waits
    <3>1. ASSUME NEW r \in A PROVE Waits
      <4>1. Wanted(place[r]) /\ place[r].to = <<c, k>>
        BY <1>1 DEF AsyncInv, RequestInv
      <4> QED BY <4>1 DEF Wanted
    <3> QED BY <3>1
  <2>6. (\E n \in B : TRUE) => Waits
    <3>1. ASSUME NEW n \in B PROVE Waits
      <4>1. Wanted(chan[n]) /\ chan[n].to = <<c, k>>
        BY <1>1, <2>1 DEF AsyncInv, RequestInv
      <4> QED BY <4>1 DEF Wanted
    <3> QED BY <3>1
  <2>7. Waits => (\E r \in A : TRUE) \/ (\E n \in B : TRUE)
    BY <1>1, <2>1 DEF AsyncInv, RequestInv, IsFor
  <2> HIDE DEF A, B, Waits
  <2>8. (A = {} \/ \E r : A = {r}) /\ (B = {} \/ \E n : B = {n})
    BY <2>4
  <2>9. /\ Cardinality(A) = 0 <=> A = {}
        /\ Cardinality(B) = 0 <=> B = {}
    BY <2>3, FS_EmptySet
  <2>10. (A = {} \/ Cardinality(A) = 1) /\ (B = {} \/ Cardinality(B) = 1)
    BY <2>8, FS_Singleton
  <2>11. Cardinality(A) + Cardinality(B) = IF Waits THEN 1 ELSE 0
    <3>1. CASE A = {} /\ B = {}
      <4>1. ~Waits
        BY <3>1, <2>7
      <4> QED BY <3>1, <4>1, <2>9
    <3>2. CASE A # {}
      <4>1. Waits /\ B = {}
        BY <3>2, <2>4, <2>5
      <4> QED BY <3>2, <4>1, <2>9, <2>10
    <3>3. CASE A = {} /\ B # {}
      <4>1. Waits
        BY <3>3, <2>6
      <4> QED BY <3>3, <4>1, <2>9, <2>10
    <3> QED BY <3>1, <3>2, <3>3
  <2> QED BY <2>11 DEF A, B, Waits
<1>2. ASSUME Parameters PROVE Spec => []OneRequestPerFuture
  <2>1. Spec => []AsyncInv
    BY <1>2, AsyncInvariance
  <2>2. AsyncInv => OneRequestPerFuture
    BY <1>1, <1>2 DEF OneRequestPerFuture
  <2> QED BY <2>1, <2>2, PTL
<1> QED BY <1>2

\* A page whose future is set has no frame in the block yet.
LEMMA AnsweredIsEmpty ==
  ASSUME Parameters, AsyncInv, NEW c \in Clients, NEW k \in 1 .. Count(c),
         pc[c] # "held", fut[c][k] \in Frames
  PROVE  blk[c][k] = None
<1>1. Count(c) \in Nat \ {0} /\ fut[c][k] # "none"
  BY CallTypes DEF AsyncInv, Parameters
<1>2. pc[c] \in {"begin", "check", "wait"}
  BY <1>1 DEF AsyncInv, CallInv, TypeOK
<1>3. CASE pc[c] = "begin"
  <2>1. i[c] \in 1 .. Count(c) /\ k \notin i[c] .. Count(c)
    BY <1>1, <1>3 DEF AsyncInv, CallInv
  <2>2. k \in 1 .. i[c] - 1
    BY <1>1, <2>1
  <2> QED BY <2>2, <1>1, <1>3 DEF AsyncInv, CallInv, Asked
<1>4. CASE pc[c] \in {"check", "wait"}
  BY <1>1, <1>4 DEF AsyncInv, CallInv, Asked
<1> QED BY <1>2, <1>3, <1>4

\* Each request that is done is a reference of one future.
LEMMA DoneRequests ==
  ASSUME Parameters, AsyncInv, NEW f \in Frames
  PROVE  LET D == {j \in InPlaces : place[j].phase = "End" /\ place[j].frame = f}
             C == {x \in Futures : \E j \in D : IsFor(place[j], x[1], x[2])}
         IN  /\ IsFiniteSet(C) /\ Cardinality(C) = Cardinality(D)
             /\ \A x \in C : fut[x[1]][x[2]] = "pending" /\ pc[x[1]] # "held"
                             /\ blk[x[1]][x[2]] = None
<1> DEFINE D == {j \in InPlaces : place[j].phase = "End" /\ place[j].frame = f}
           C == {x \in Futures : \E j \in D : IsFor(place[j], x[1], x[2])}
           g == [j \in D |-> place[j].to]
<1>1. Places \in Nat /\ D \subseteq 1 .. Places /\ D \subseteq InPlaces
  BY DEF Parameters, InPlaces
<1>2. IsFiniteSet(1 .. Places)
  BY <1>1, FS_Interval
<1>3. IsFiniteSet(D)
  BY <1>1, <1>2, FS_Subset
<1>4. ASSUME NEW j \in D
      PROVE  \E c \in Clients : \E k \in 1 .. Count(c) :
               /\ place[j].to = <<c, k>> /\ IsFor(place[j], c, k)
               /\ fut[c][k] = "pending" /\ pc[c] # "held" /\ blk[c][k] = None
  <2>1. PICK r \in Req : r = place[j]
    BY <1>1, PlaceHasRequest DEF AsyncInv
  <2>2. PICK c \in Clients, k \in Nat : r.to = <<c, k>> /\ r.to[1] = c /\ r.to[2] = k
    BY RequestFields
  <2>3. Wanted(r)
    BY <1>1, <2>1 DEF AsyncInv, RequestInv
  <2>4. k \in 1 .. Count(c) /\ fut[c][k] = "pending" /\ pc[c] # "held"
    BY <2>2, <2>3 DEF Wanted
  <2>5. blk[c][k] = None
    BY <2>4, PendingIsEmpty
  <2> QED BY <2>1, <2>2, <2>4, <2>5 DEF IsFor
<1>5. ASSUME NEW j \in D PROVE g[j] \in C
  <2>1. PICK c \in Clients : \E k \in 1 .. Count(c) : place[j].to = <<c, k>> /\ IsFor(place[j], c, k)
    BY <1>4
  <2>2. PICK k \in 1 .. Count(c) : place[j].to = <<c, k>> /\ IsFor(place[j], c, k)
    BY <2>1
  <2>3. <<c, k>> \in Futures
    BY DEF Futures
  <2>4. <<c, k>>[1] = c /\ <<c, k>>[2] = k
    OBVIOUS
  <2> QED BY <2>3, <2>4, <2>2
<1>6. ASSUME NEW x \in C PROVE \E j \in D : g[j] = x
  <2>1. PICK j \in D : IsFor(place[j], x[1], x[2])
    OBVIOUS
  <2>2. x = <<x[1], x[2]>>
    BY DEF Futures
  <2> QED BY <2>1, <2>2 DEF IsFor
<1>7. \A j, k \in D : g[j] = g[k] => j = k
  BY <1>1 DEF AsyncInv, RequestInv
<1>8. g \in [D -> C]
  BY <1>5
<1> HIDE DEF C, D, g
<1>9. g \in Bijection(D, C)
  BY <1>6, <1>7, <1>8 DEF Bijection, Injection, Surjection, IsInjective
<1>10. IsFiniteSet(C) /\ Cardinality(C) = Cardinality(D)
  BY <1>3, <1>9, FS_Bijection DEF ExistsBijection
<1>11. ASSUME NEW x \in C
       PROVE  fut[x[1]][x[2]] = "pending" /\ pc[x[1]] # "held" /\ blk[x[1]][x[2]] = None
  <2>1. PICK j \in D : place[j].to = x
    BY <1>6 DEF g
  <2>2. \E c \in Clients : \E k \in 1 .. Count(c) :
          /\ place[j].to = <<c, k>>
          /\ fut[c][k] = "pending" /\ pc[c] # "held" /\ blk[c][k] = None
    BY <1>4
  <2> QED BY <2>1, <2>2
<1> QED BY <1>10, <1>11 DEF C, D

\* A frame's reference count is exactly the number of pages of blocks, of futures and
\* of finished requests that have it: no reference is lost between the servers, and
\* none is given back twice, so that Release never takes a count below zero.
THEOREM PinsAreExact == Parameters /\ Spec => []PinsExact
<1>1. ASSUME Parameters, AsyncInv, NEW f \in Frames
      PROVE  pte[f].ref = Cardinality({x \in Futures : blk[x[1]][x[2]] = f})
               + Cardinality({x \in Futures : pc[x[1]] # "held" /\ fut[x[1]][x[2]] = f})
               + Cardinality({k \in InPlaces : place[k].phase = "End" /\ place[k].frame = f})
  <2> DEFINE A == {x \in Futures : blk[x[1]][x[2]] = f}
             B == {x \in Futures : pc[x[1]] # "held" /\ fut[x[1]][x[2]] = f}
             D == {k \in InPlaces : place[k].phase = "End" /\ place[k].frame = f}
             C == {x \in Futures : \E j \in D : IsFor(place[j], x[1], x[2])}
  <2>1. IsFiniteSet(Futures)
    BY <1>1, FuturesFinite DEF AsyncInv
  <2>2. A \in SUBSET Futures /\ B \in SUBSET Futures
    OBVIOUS
  <2>3. IsFiniteSet(A) /\ IsFiniteSet(B)
    BY <2>1, <2>2, FS_Subset
  <2>4. /\ IsFiniteSet(C) /\ Cardinality(C) = Cardinality(D)
        /\ \A x \in C : fut[x[1]][x[2]] = "pending" /\ pc[x[1]] # "held" /\ blk[x[1]][x[2]] = None
    BY <1>1, DoneRequests
  <2>5. "pending" # f /\ None # f
    BY <1>1 DEF Parameters
  <2>6. ASSUME NEW x \in B PROVE blk[x[1]][x[2]] = None
    <3>1. PICK c \in Clients : x \in {c} \X (1 .. Count(c))
      BY DEF Futures
    <3>2. x[1] = c /\ x[2] \in 1 .. Count(c)
      BY <3>1
    <3>3. pc[c] # "held" /\ fut[c][x[2]] = f
      BY <3>2
    <3> QED BY <1>1, <3>2, <3>3, AnsweredIsEmpty
  <2>7. A \cap B = {} /\ (A \cup B) \cap C = {}
    BY <2>4, <2>5, <2>6
  <2>8. Refs(f) = (A \cup B) \cup C
    BY DEF Refs, Refers
  <2> HIDE DEF A, B, C, D
  <2>9. IsFiniteSet(A \cup B) /\ Cardinality(A \cup B) = Cardinality(A) + Cardinality(B) - Cardinality({})
    BY <2>3, <2>7, FS_Union
  <2>10. Cardinality((A \cup B) \cup C) = Cardinality(A \cup B) + Cardinality(C) - Cardinality({})
    BY <2>4, <2>7, <2>9, FS_Union
  <2>11. /\ Cardinality({}) = 0 /\ Cardinality(A) \in Nat /\ Cardinality(B) \in Nat
         /\ Cardinality(C) \in Nat
    BY <2>3, <2>4, FS_EmptySet, FS_CardinalityType
  <2>12. pte[f].ref = Cardinality(Refs(f))
    BY <1>1 DEF AsyncInv, RefInv
  <2>13. pte[f].ref = Cardinality(A) + Cardinality(B) + Cardinality(D)
    BY <2>4, <2>8, <2>9, <2>10, <2>11, <2>12
  <2> QED BY <2>13 DEF A, B, D
<1>2. ASSUME Parameters PROVE Spec => []PinsExact
  <2>1. Spec => []AsyncInv
    BY <1>2, AsyncInvariance
  <2>2. AsyncInv => PinsExact
    BY <1>1, <1>2 DEF PinsExact
  <2> QED BY <2>1, <2>2, PTL
<1> QED BY <1>2
=============================================================================
