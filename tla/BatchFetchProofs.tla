-------------------------- MODULE BatchFetchProofs --------------------------
(***************************************************************************)
(* Proofs about the block reads of module BatchFetch, for any threads,     *)
(* pages, frames and lists of pages asked for.                             *)
(***************************************************************************)
EXTENDS BatchFetch, FiniteSetTheorems, WellFoundedInduction, TLAPS

-----------------------------------------------------------------------------
(* Requests. *)

\* A request is the i-th of a thread.
LEMMA RequestIs ==
  ASSUME NEW x \in Requests
  PROVE  \E t \in Threads : \E i \in 1 .. Len(rq[t]) : x = <<t, i>>
BY DEF Requests

LEMMA IsRequest ==
  ASSUME NEW t \in Threads, NEW i \in 1 .. Len(rq[t])
  PROVE  <<t, i>> \in Requests /\ Rq(<<t, i>>) = rq[t][i]
<1>1. <<t, i>> \in {t} \X (1 .. Len(rq[t]))
  OBVIOUS
<1> QED BY <1>1 DEF Requests, Rq

\* The fields of a request.
LEMMA RequestTypes ==
  ASSUME TypeOK, NEW x \in Requests
  PROVE  /\ Rq(x) \in Req
         /\ Rq(x).page \in Pages /\ Rq(x).phase \in Phases
         /\ Rq(x).frame \in Frames \cup {None}
         /\ Rq(x).io \in {"none", "sent", "done"} /\ Rq(x).ins \in BOOLEAN
<1>0. PICK t \in Threads : \E i \in 1 .. Len(rq[t]) : x = <<t, i>>
  BY RequestIs
<1>1. PICK i \in 1 .. Len(rq[t]) : x = <<t, i>>
  BY <1>0
<1>2. rq[t] \in Seq(Req)
  BY DEF TypeOK
<1>3. rq[t][i] \in Req
  BY <1>2
<1>4. Rq(x) = rq[t][i]
  BY <1>1, IsRequest
<1>5. Rq(x) \in Req
  BY <1>3, <1>4
<1> QED BY <1>5 DEF Req

\* There are finitely many.
LEMMA RequestsFinite ==
  ASSUME Parameters, TypeOK
  PROVE  IsFiniteSet(Requests)
<1>1. ASSUME NEW t \in Threads PROVE IsFiniteSet({t} \X (1 .. Len(rq[t])))
  <2>1. rq[t] \in Seq(Req)
    BY DEF TypeOK
  <2>2. Len(rq[t]) \in Nat
    BY <2>1
  <2>3. IsFiniteSet(1 .. Len(rq[t]))
    BY <2>2, FS_Interval
  <2>4. IsFiniteSet({t})
    BY FS_Singleton
  <2> QED BY <2>3, <2>4, FS_Product
<1> DEFINE All == {{t} \X (1 .. Len(rq[t])) : t \in Threads}
<1>2. IsFiniteSet(All)
  <2>1. IsFiniteSet(Threads)
    BY DEF Parameters
  <2> DEFINE g == [t \in Threads |-> {t} \X (1 .. Len(rq[t]))]
  <2>2. g \in Surjection(Threads, All)
    BY DEF Surjection
  <2> HIDE DEF g, All
  <2> QED BY <2>1, <2>2, FS_Surjection
<1>3. \A S \in All : IsFiniteSet(S)
  BY <1>1
<1>4. Requests = UNION All
  BY DEF Requests
<1> HIDE DEF All
<1> QED BY <1>2, <1>3, <1>4, FS_UNION

-----------------------------------------------------------------------------
(* A step that changes one request. *)

\* Request x gets phase, frame and answer; its page stays.
Turns(x, phase, frame, io) ==
  /\ Requests' = Requests
  /\ Rq(x)'.page = Rq(x).page /\ Rq(x)'.phase = phase
  /\ Rq(x)'.frame = frame /\ Rq(x)'.io = io
  /\ \A y \in Requests : y # x => Rq(y)' = Rq(y)

\* One request of one thread is replaced.
LEMMA Replaced ==
  ASSUME TypeOK, NEW t \in Threads, NEW i \in 1 .. Len(rq[t]), NEW r \in Req,
         r.page = rq[t][i].page,
         rq' = [rq EXCEPT ![t] = [rq[t] EXCEPT ![i] = r]]
  PROVE  /\ rq' \in [Threads -> Seq(Req)]
         /\ Len(rq'[t]) = Len(rq[t]) /\ rq'[t][i] = r
         /\ \A j \in 1 .. Len(rq[t]) : j # i => rq'[t][j] = rq[t][j]
         /\ \A u \in Threads : u # t => rq'[u] = rq[u]
         /\ Turns(<<t, i>>, r.phase, r.frame, r.io)
<1>1. rq \in [Threads -> Seq(Req)] /\ rq[t] \in Seq(Req)
  BY DEF TypeOK
<1> DEFINE q == [rq[t] EXCEPT ![i] = r]
<1>2. /\ q \in Seq(Req) /\ Len(q) = Len(rq[t]) /\ q[i] = r
      /\ \A j \in 1 .. Len(rq[t]) : j # i => q[j] = rq[t][j]
  BY <1>1
<1>3. rq'[t] = q /\ \A u \in Threads : u # t => rq'[u] = rq[u]
  BY <1>1
<1>4. rq' \in [Threads -> Seq(Req)]
  BY <1>1, <1>2
<1> HIDE DEF q
<1>5. \A u \in Threads : Len(rq'[u]) = Len(rq[u])
  BY <1>2, <1>3
<1>6. Requests' = Requests
  BY <1>5 DEF Requests
<1>7. Rq(<<t, i>>)' = r /\ Rq(<<t, i>>) = rq[t][i]
  BY <1>2, <1>3 DEF Rq
<1>8. ASSUME NEW y \in Requests, y # <<t, i>> PROVE Rq(y)' = Rq(y)
  <2>0. PICK u \in Threads : \E j \in 1 .. Len(rq[u]) : y = <<u, j>>
    BY RequestIs
  <2>1. PICK j \in 1 .. Len(rq[u]) : y = <<u, j>>
    BY <2>0
  <2>2. Rq(y)' = rq'[u][j] /\ Rq(y) = rq[u][j]
    BY <2>1 DEF Rq
  <2>3. CASE u = t
    BY <2>1, <2>2, <2>3, <1>2, <1>3, <1>8
  <2>4. CASE u # t
    BY <2>2, <2>4, <1>3
  <2> QED BY <2>3, <2>4
<1> QED BY <1>2, <1>3, <1>4, <1>6, <1>7, <1>8 DEF Turns

-----------------------------------------------------------------------------
(* What the requests have: the invariant without the calls. *)

PoolTypes ==
  /\ mapping \in [Pages -> Frames \cup {Empty, Busy}]
  /\ pte \in [Frames -> [page : Pages \cup {None}, ref : Nat, dirty : BOOLEAN]]
  /\ free \subseteq Frames /\ repl \subseteq Frames
  /\ mem \in [Frames -> 0 .. MaxVersion] /\ disk \in [Pages -> 0 .. MaxVersion]

PoolInv == PoolTypes /\ PhaseInv /\ HeldInv /\ TableInv /\ PinsExact /\ DataInv

\* The phases of the requests after such a change.
LEMMA PhasesAfter ==
  ASSUME TypeOK, NEW x \in Requests, NEW ph, NEW f, NEW io, Turns(x, ph, f, io)
  PROVE  /\ Locks(x)' <=> ph \in {"Initing", "Evicting", "Loading", "LoadingFinish"}
         /\ Carries(x)' <=> ph \in {"Evicting", "Loading", "LoadingFinish"}
         /\ Evicts(x)' <=> ph = "Evicting"
         /\ Ended(x)' <=> ph = "End"
         /\ \A y \in Requests : y # x =>
              /\ Locks(y)' <=> Locks(y)
              /\ Carries(y)' <=> Carries(y)
              /\ Evicts(y)' <=> Evicts(y)
              /\ Ended(y)' <=> Ended(y)
              /\ Rq(y)' = Rq(y)
BY DEF Turns, Locks, Carries, Evicts, Ended

\* The requests that no step is about keep what they have.
LEMMA PhaseStep ==
  ASSUME TypeOK, PhaseInv, NEW x \in Requests, NEW ph, NEW f, NEW io, Turns(x, ph, f, io),
         \A y \in Requests : y # x =>
           /\ Locks(y) => mapping'[Rq(y).page] = Busy
           /\ Carries(y) => Rq(y).frame \notin free' \cup repl'
           /\ Evicts(y) => mapping'[Old(y)] = Busy /\ pte'[Rq(y).frame].page = Old(y)
           /\ Ended(y) => mapping'[Rq(y).page] = Rq(y).frame,
         OnePhase(x)',
         \A y \in Requests : y # x => TwoPhases(x, y)' /\ TwoPhases(y, x)'
  PROVE  PhaseInv'
<1>1. Requests' = Requests
  BY DEF Turns
<1>2. \A y \in Requests : y # x =>
        /\ Locks(y)' <=> Locks(y)
        /\ Carries(y)' <=> Carries(y)
        /\ Evicts(y)' <=> Evicts(y)
        /\ Ended(y)' <=> Ended(y)
        /\ Rq(y)' = Rq(y)
  BY PhasesAfter
<1>3. \A y \in Requests : y # x /\ Evicts(y) => Old(y)' = Old(y)
  BY <1>2 DEF Old
<1>4. ASSUME NEW y \in Requests, y # x PROVE OnePhase(y)'
  <2>1. OnePhase(y)
    BY DEF PhaseInv
  <2> QED BY <1>2, <1>3, <1>4, <2>1 DEF OnePhase
<1>5. ASSUME NEW y \in Requests, NEW z \in Requests, y # x, z # x, y # z PROVE TwoPhases(y, z)'
  <2>1. TwoPhases(y, z)
    BY <1>5 DEF PhaseInv
  <2> QED BY <1>2, <1>3, <1>5, <2>1 DEF TwoPhases
<1>6. \A y \in Requests : OnePhase(y)'
  BY <1>4
<1>7. \A y, z \in Requests : y # z => TwoPhases(y, z)'
  BY <1>5
<1> QED BY <1>1, <1>6, <1>7 DEF PhaseInv

-----------------------------------------------------------------------------
(* References. *)

LEMMA PinsFinite ==
  ASSUME Parameters, TypeOK, NEW f
  PROVE  IsFiniteSet(Pins(f))
<1>1. Pins(f) \in SUBSET Requests
  BY DEF Pins
<1> QED BY <1>1, RequestsFinite, FS_Subset

\* A request that is not done before and after the step refers to nothing.
LEMMA PinsKept ==
  ASSUME TypeOK, NEW x \in Requests, NEW ph, NEW g, NEW io, Turns(x, ph, g, io),
         \/ ~Ended(x) /\ ph # "End"
         \/ ph = Rq(x).phase /\ g = Rq(x).frame
  PROVE  \A f : Pins(f)' = Pins(f)
<1>1. Requests' = Requests /\ \A y \in Requests : y # x => Rq(y)' = Rq(y)
  BY DEF Turns
<1>2. \A f : Rq(x)'.phase = "End" /\ Rq(x)'.frame = f <=> Rq(x).phase = "End" /\ Rq(x).frame = f
  BY DEF Turns, Ended
<1>3. \A y \in Requests : \A f : Rq(y)'.phase = "End" /\ Rq(y)'.frame = f <=> Rq(y).phase = "End" /\ Rq(y).frame = f
  BY <1>1, <1>2
<1> QED BY <1>1, <1>3 DEF Pins

\* A request that ends counts for its frame.
LEMMA PinsGrow ==
  ASSUME Parameters, TypeOK, NEW x \in Requests, NEW g, NEW io, Turns(x, "End", g, io), ~Ended(x)
  PROVE  /\ Cardinality(Pins(g)') = Cardinality(Pins(g)) + 1
         /\ \A f : f # g => Pins(f)' = Pins(f)
<1>1. Requests' = Requests /\ \A y \in Requests : y # x => Rq(y)' = Rq(y)
  BY DEF Turns
<1>2. Rq(x)'.phase = "End" /\ Rq(x)'.frame = g /\ Rq(x).phase # "End"
  BY DEF Turns, Ended
<1>3. x \notin Pins(g) /\ Pins(g)' = Pins(g) \cup {x}
  BY <1>1, <1>2 DEF Pins
<1>4. \A f : f # g => Pins(f)' = Pins(f)
  BY <1>1, <1>2 DEF Pins
<1>5. Cardinality(Pins(g) \cup {x}) = Cardinality(Pins(g)) + 1
  BY <1>3, PinsFinite, FS_AddElement
<1> QED BY <1>3, <1>4, <1>5

\* A frame that a request ended with is referred to.
LEMMA EndedCounts ==
  ASSUME Parameters, TypeOK, PinsExact, NEW x \in Requests, Ended(x), Rq(x).frame \in Frames
  PROVE  pte[Rq(x).frame].ref # 0
<1>1. x \in Pins(Rq(x).frame)
  BY DEF Pins, Ended
<1>2. Cardinality(Pins(Rq(x).frame)) # 0
  <2>1. Pins(Rq(x).frame) # {}
    BY <1>1
  <2> QED BY <2>1, PinsFinite, FS_EmptySet
<1> QED BY <1>2 DEF PinsExact

-----------------------------------------------------------------------------
(* Versions. *)

\* The last contents of page p are in frame f.
Live(p, f) == \/ mapping[p] = f
              \/ \E x \in Requests : Evicts(x) /\ Rq(x).frame = f /\ Old(x) = p

LEMMA LiveIsOne ==
  ASSUME Parameters, PhaseInv, TableInv, NEW p \in Pages, NEW f \in Frames, NEW g \in Frames,
         Live(p, f), Live(p, g)
  PROVE  f = g
<1>1. ASSUME NEW x \in Requests, Evicts(x), Old(x) = p PROVE mapping[p] = Busy
  BY <1>1 DEF PhaseInv, OnePhase
<1>2. ASSUME NEW x \in Requests, NEW y \in Requests, Evicts(x), Evicts(y), Old(x) = p, Old(y) = p
      PROVE  x = y
  BY <1>2 DEF PhaseInv, TwoPhases
<1> QED BY <1>1, <1>2 DEF Live, Parameters

LEMMA Versions ==
  Parameters /\ PhaseInv /\ TableInv =>
    \A p \in Pages :
      /\ \A f \in Frames : Live(p, f) => Version(p) = mem[f]
      /\ (\A f \in Frames : ~Live(p, f)) => Version(p) = disk[p]
<1> SUFFICES ASSUME Parameters, PhaseInv, TableInv, NEW p \in Pages
    PROVE  /\ \A f \in Frames : Live(p, f) => Version(p) = mem[f]
           /\ (\A f \in Frames : ~Live(p, f)) => Version(p) = disk[p]
  OBVIOUS
<1> DEFINE in == {f \in Frames : /\ pte[f].page = p
                                 /\ \/ mapping[p] = f
                                    \/ \E x \in Requests : Rq(x).phase = "Evicting" /\ Rq(x).frame = f}
<1>1. Version(p) = IF in = {} THEN disk[p] ELSE mem[CHOOSE f \in in : TRUE]
  BY DEF Version
<1>2. \A f \in Frames : f \in in <=> Live(p, f)
  <2>1. \A f \in Frames : mapping[p] = f => pte[f].page = p
    BY DEF TableInv
  <2> QED BY <2>1 DEF Live, Evicts, Old
<1>3. in \subseteq Frames
  OBVIOUS
<1> HIDE DEF in
<1>4. ASSUME NEW f \in Frames, Live(p, f) PROVE Version(p) = mem[f]
  <2>1. in = {f}
    BY <1>2, <1>3, <1>4, LiveIsOne
  <2> QED BY <1>1, <2>1
<1>5. ASSUME \A f \in Frames : ~Live(p, f) PROVE Version(p) = disk[p]
  BY <1>1, <1>2, <1>3, <1>5
<1> QED BY <1>4, <1>5

\* No step takes a page back, if none makes a frame that has the page older, or
\* leaves it with less on disk or in another frame.
LEMMA VersionStep ==
  ASSUME Parameters, PhaseInv, TableInv, PhaseInv', TableInv', PoolTypes, PoolTypes',
         \A p \in Pages :
           /\ \A f \in Frames : Live(p, f) =>
                \/ Live(p, f)' /\ mem'[f] >= mem[f]
                \/ (\A g \in Frames : ~Live(p, g)') /\ disk'[p] >= mem[f]
           /\ (\A f \in Frames : ~Live(p, f)) =>
                \/ \E g \in Frames : Live(p, g)' /\ mem'[g] >= disk[p]
                \/ (\A g \in Frames : ~Live(p, g)') /\ disk'[p] >= disk[p]
  PROVE  KeepsWrites
<1>1. \A p \in Pages :
        /\ \A f \in Frames : Live(p, f) => Version(p) = mem[f]
        /\ (\A f \in Frames : ~Live(p, f)) => Version(p) = disk[p]
  BY Versions
<1>2. (Parameters /\ PhaseInv /\ TableInv =>
        \A p \in Pages :
          /\ \A f \in Frames : Live(p, f) => Version(p) = mem[f]
          /\ (\A f \in Frames : ~Live(p, f)) => Version(p) = disk[p])'
  BY Versions, PTL
<1>3. \A p \in Pages :
        /\ \A f \in Frames : Live(p, f)' => Version(p)' = mem'[f]
        /\ (\A f \in Frames : ~Live(p, f)') => Version(p)' = disk'[p]
  <2>1. Parameters'
    BY DEF Parameters
  <2> QED BY <1>2, <2>1
<1>4. ASSUME NEW p \in Pages PROVE Version(p)' >= Version(p)
  <2>1. CASE \E f \in Frames : Live(p, f)
    BY <1>1, <1>3, <2>1
  <2>2. CASE \A f \in Frames : ~Live(p, f)
    BY <1>1, <1>3, <2>2
  <2> QED BY <2>1, <2>2
<1> QED BY <1>4 DEF KeepsWrites

-----------------------------------------------------------------------------
(* The steps of a fetch. *)

\* Nothing that the pool counts changes: a phase without effect on the table.
LEMMA PhaseOnly ==
  ASSUME Parameters, TypeOK, PoolInv, NEW x \in Requests, NEW ph, NEW io,
         Turns(x, ph, Rq(x).frame, io),
         \/ ph = Rq(x).phase /\ io = Rq(x).io
         \/ Rq(x).phase = "Loading" /\ ph = "LoadingFinish" /\ io = "sent",
         UNCHANGED <<table, mem, disk>>
  PROVE  PoolInv' /\ KeepsWrites
<1>1. UNCHANGED <<mapping, pte, free, repl, mem, disk>> /\ Requests' = Requests
  BY DEF table, Turns
<1>2. /\ Locks(x)' <=> Locks(x)
      /\ Carries(x)' <=> Carries(x)
      /\ Evicts(x)' <=> Evicts(x)
      /\ Ended(x)' <=> Ended(x)
      /\ Rq(x)'.page = Rq(x).page /\ Rq(x)'.frame = Rq(x).frame
      /\ \A y \in Requests : y # x =>
           /\ Locks(y)' <=> Locks(y)
           /\ Carries(y)' <=> Carries(y)
           /\ Evicts(y)' <=> Evicts(y)
           /\ Ended(y)' <=> Ended(y)
           /\ Rq(y)' = Rq(y)
  <2>1. Rq(x)'.page = Rq(x).page /\ Rq(x)'.frame = Rq(x).frame
    BY DEF Turns
  <2> QED BY <2>1, PhasesAfter DEF Locks, Carries, Evicts, Ended
<1>3. \A y \in Requests : Old(y)' = Old(y)
  BY <1>1, <1>2 DEF Old
<1>4. PhaseInv'
  <2>1. PhaseInv
    BY DEF PoolInv
  <2>2. OnePhase(x)'
    BY <2>1, <1>1, <1>2, <1>3 DEF OnePhase, PhaseInv, Turns
  <2>3. ASSUME NEW y \in Requests, y # x PROVE TwoPhases(x, y)' /\ TwoPhases(y, x)'
    <3>1. TwoPhases(x, y) /\ TwoPhases(y, x)
      BY <2>1, <2>3 DEF PhaseInv
    <3> QED BY <3>1, <1>2, <1>3, <2>3 DEF TwoPhases
  <2>4. \A y \in Requests : y # x =>
          /\ Locks(y) => mapping'[Rq(y).page] = Busy
          /\ Carries(y) => Rq(y).frame \notin free' \cup repl'
          /\ Evicts(y) => mapping'[Old(y)] = Busy /\ pte'[Rq(y).frame].page = Old(y)
          /\ Ended(y) => mapping'[Rq(y).page] = Rq(y).frame
    BY <2>1, <1>1 DEF PhaseInv, OnePhase, Old
  <2> QED BY <2>1, <2>2, <2>3, <2>4, PhaseStep
<1>5. HeldInv'
  <2>1. HeldInv
    BY DEF PoolInv
  <2>2. \A y \in Requests : /\ Locks(y)' <=> Locks(y)
                            /\ Carries(y)' <=> Carries(y)
                            /\ Evicts(y)' <=> Evicts(y)
                            /\ Rq(y)'.page = Rq(y).page /\ Rq(y)'.frame = Rq(y).frame
    BY <1>2
  <2> QED BY <2>1, <2>2, <1>1, <1>3 DEF HeldInv
<1>6. TableInv' /\ PoolTypes'
  BY <1>1 DEF PoolInv, TableInv, PoolTypes
<1>7. PinsExact'
  <2>1. \A f : Pins(f)' = Pins(f)
    BY PinsKept DEF Ended
  <2> QED BY <2>1, <1>1 DEF PoolInv, PinsExact
<1>8. DataInv'
  <2>1. DataInv
    BY DEF PoolInv
  <2>2. \A f, p : Holds(f, p)' <=> Holds(f, p)
    BY <1>1 DEF Holds
  <2>3. Rq(x)'.io = "done" => Rq(x).io = "done"
    BY DEF Turns
  <2> QED BY <2>1, <2>2, <2>3, <1>1, <1>2, <1>3 DEF DataInv
<1>9. KeepsWrites
  <2>1. \A p \in Pages : \A f \in Frames : Live(p, f)' <=> Live(p, f)
    <3>1. \A y \in Requests : (Evicts(y)' <=> Evicts(y)) /\ Rq(y)'.frame = Rq(y).frame
      BY <1>2
    <3> QED BY <3>1, <1>1, <1>3 DEF Live
  <2>2. /\ \A f \in Frames : mem[f] \in Int
        /\ \A p \in Pages : disk[p] \in Int
    BY DEF PoolInv, PoolTypes
  <2>3. PhaseInv /\ TableInv /\ PoolTypes
    BY DEF PoolInv
  <2> QED BY <2>1, <2>2, <2>3, <1>1, <1>4, <1>6, VersionStep
<1> QED BY <1>4, <1>5, <1>6, <1>7, <1>8, <1>9 DEF PoolInv

\* The lock of a page that has no frame.
LEMMA LockStep ==
  ASSUME Parameters, TypeOK, PoolInv, NEW x \in Requests,
         Turns(x, "Initing", Rq(x).frame, Rq(x).io), Rq(x).phase = "Begin",
         mapping[Rq(x).page] = Empty,
         mapping' = [mapping EXCEPT ![Rq(x).page] = Busy],
         UNCHANGED <<pte, free, repl, mem, disk>>
  PROVE  PoolInv' /\ KeepsWrites
<1>1. Requests' = Requests /\ Rq(x).page \in Pages
  BY RequestTypes DEF Turns
<1>2. /\ Locks(x)' /\ ~Carries(x)' /\ ~Evicts(x)' /\ ~Ended(x)'
      /\ ~Locks(x) /\ ~Carries(x) /\ ~Evicts(x) /\ ~Ended(x)
      /\ Rq(x)'.page = Rq(x).page /\ Rq(x)'.frame = Rq(x).frame /\ Rq(x)'.io = Rq(x).io
      /\ \A y \in Requests : y # x =>
           /\ Locks(y)' <=> Locks(y)
           /\ Carries(y)' <=> Carries(y)
           /\ Evicts(y)' <=> Evicts(y)
           /\ Ended(y)' <=> Ended(y)
           /\ Rq(y)' = Rq(y)
  <2>1. Rq(x)'.page = Rq(x).page /\ Rq(x)'.frame = Rq(x).frame /\ Rq(x)'.io = Rq(x).io
    BY DEF Turns
  <2> QED BY <2>1, PhasesAfter DEF Locks, Carries, Evicts, Ended
<1>3. \A y \in Requests : Old(y)' = Old(y)
  BY <1>2 DEF Old
<1>4. /\ mapping'[Rq(x).page] = Busy
      /\ \A p \in Pages : p # Rq(x).page => mapping'[p] = mapping[p]
      /\ \A p \in Pages : mapping[p] # Empty => mapping'[p] = mapping[p]
      /\ mapping' \in [Pages -> Frames \cup {Empty, Busy}]
  BY <1>1 DEF PoolInv, PoolTypes
<1>5. PhaseInv /\ TableInv /\ PoolTypes /\ HeldInv /\ DataInv /\ Empty # Busy /\ Empty \notin Frames /\ Busy \notin Frames
  BY DEF PoolInv, Parameters
<1>6. PhaseInv'
  <2>1. OnePhase(x)'
    BY <1>2, <1>4, <1>5 DEF OnePhase, PhaseInv, Carries, Ended
  <2>2. ASSUME NEW y \in Requests, y # x PROVE TwoPhases(x, y)' /\ TwoPhases(y, x)'
    <3>1. OnePhase(y) /\ OnePhase(x)
      BY <1>5 DEF PhaseInv
    <3> QED BY <3>1, <1>2, <1>3, <1>5, <2>2 DEF TwoPhases, OnePhase
  <2>3. \A y \in Requests : y # x =>
          /\ Locks(y) => mapping'[Rq(y).page] = Busy
          /\ Carries(y) => Rq(y).frame \notin free' \cup repl'
          /\ Evicts(y) => mapping'[Old(y)] = Busy /\ pte'[Rq(y).frame].page = Old(y)
          /\ Ended(y) => mapping'[Rq(y).page] = Rq(y).frame
    <3> SUFFICES ASSUME NEW y \in Requests, y # x
        PROVE /\ Locks(y) => mapping'[Rq(y).page] = Busy
              /\ Carries(y) => Rq(y).frame \notin free' \cup repl'
              /\ Evicts(y) => mapping'[Old(y)] = Busy /\ pte'[Rq(y).frame].page = Old(y)
              /\ Ended(y) => mapping'[Rq(y).page] = Rq(y).frame
      OBVIOUS
    <3>1. OnePhase(y) /\ Rq(y).page \in Pages
      BY <1>5, RequestTypes DEF PhaseInv
    <3> QED BY <3>1, <1>4, <1>5 DEF OnePhase, Old
  <2> QED BY <2>1, <2>2, <2>3, <1>5, PhaseStep
<1>7. HeldInv'
  <2>1. ASSUME NEW p \in Pages, mapping'[p] = Busy
        PROVE  \E y \in Requests : (Locks(y) /\ Rq(y).page = p)' \/ (Evicts(y) /\ Old(y) = p)'
    <3>1. CASE p = Rq(x).page
      BY <3>1, <1>2
    <3>2. CASE p # Rq(x).page
      <4>1. mapping[p] = Busy
        BY <2>1, <3>2, <1>4
      <4>2. PICK y \in Requests : (Locks(y) /\ Rq(y).page = p) \/ (Evicts(y) /\ Old(y) = p)
        BY <4>1, <1>5 DEF HeldInv
      <4>3. y # x
        BY <4>2, <1>2
      <4> QED BY <4>2, <4>3, <1>2, <1>3
    <3> QED BY <3>1, <3>2
  <2>2. ASSUME NEW f \in Frames \ (free \cup repl)
        PROVE  \E y \in Requests : (Carries(y) /\ Rq(y).frame = f)'
    <3>1. PICK y \in Requests : Carries(y) /\ Rq(y).frame = f
      BY <2>2, <1>5 DEF HeldInv
    <3>2. y # x
      BY <3>1, <1>2
    <3> QED BY <3>1, <3>2, <1>2
  <2> QED BY <2>1, <2>2, <1>1 DEF HeldInv
<1>8. TableInv' /\ PoolTypes'
  BY <1>1, <1>4, <1>5 DEF TableInv, PoolTypes
<1>9. PinsExact'
  <2>1. \A f : Pins(f)' = Pins(f)
    BY <1>2, PinsKept
  <2> QED BY <2>1 DEF PoolInv, PinsExact
<1>10. DataInv'
  <2>1. \A f, p : Holds(f, p)' <=> Holds(f, p)
    BY DEF Holds
  <2>2. \A p \in Pages : mapping'[p] \in Frames => mapping'[p] = mapping[p]
    BY <1>4, <1>5
  <2> QED BY <2>1, <2>2, <1>1, <1>2, <1>3, <1>5 DEF DataInv
<1>11. KeepsWrites
  <2>1. \A p \in Pages : \A f \in Frames : Live(p, f)' <=> Live(p, f)
    <3>1. \A y \in Requests : (Evicts(y)' <=> Evicts(y)) /\ Rq(y)'.frame = Rq(y).frame
      BY <1>2
    <3>2. \A p \in Pages : \A f \in Frames : mapping'[p] = f <=> mapping[p] = f
      BY <1>1, <1>4, <1>5
    <3> QED BY <3>1, <3>2, <1>1, <1>3 DEF Live
  <2>2. /\ \A f \in Frames : mem[f] \in Int
        /\ \A p \in Pages : disk[p] \in Int
    BY <1>5 DEF PoolTypes
  <2> QED BY <2>1, <2>2, <1>5, <1>6, <1>8, VersionStep
<1> QED BY <1>6, <1>7, <1>8, <1>9, <1>10, <1>11 DEF PoolInv

\* A page that is in a frame is pinned.
LEMMA HitStep ==
  ASSUME Parameters, TypeOK, PoolInv, NEW x \in Requests, NEW m \in Frames,
         Turns(x, "End", m, Rq(x).io), Rq(x).phase = "Begin",
         mapping[Rq(x).page] = m,
         pte' = Pinned(m),
         UNCHANGED <<mapping, free, repl, mem, disk>>
  PROVE  PoolInv' /\ KeepsWrites
<1>1. Requests' = Requests /\ Rq(x).page \in Pages
  BY RequestTypes DEF Turns
<1>2. /\ ~Locks(x)' /\ ~Carries(x)' /\ ~Evicts(x)' /\ Ended(x)'
      /\ ~Locks(x) /\ ~Carries(x) /\ ~Evicts(x) /\ ~Ended(x)
      /\ Rq(x)'.page = Rq(x).page /\ Rq(x)'.frame = m /\ Rq(x)'.io = Rq(x).io
      /\ \A y \in Requests : y # x =>
           /\ Locks(y)' <=> Locks(y)
           /\ Carries(y)' <=> Carries(y)
           /\ Evicts(y)' <=> Evicts(y)
           /\ Ended(y)' <=> Ended(y)
           /\ Rq(y)' = Rq(y)
  <2>1. Rq(x)'.page = Rq(x).page /\ Rq(x)'.frame = m /\ Rq(x)'.io = Rq(x).io
    BY DEF Turns
  <2> QED BY <2>1, PhasesAfter DEF Locks, Carries, Evicts, Ended
<1>3. PhaseInv /\ TableInv /\ PoolTypes /\ HeldInv /\ DataInv /\ PinsExact
  BY DEF PoolInv
<1>4. /\ \A f \in Frames : pte'[f].page = pte[f].page /\ pte'[f].dirty = pte[f].dirty
      /\ \A f \in Frames : f # m => pte'[f].ref = pte[f].ref
      /\ pte'[m].ref = pte[m].ref + 1
      /\ pte' \in [Frames -> [page : Pages \cup {None}, ref : Nat, dirty : BOOLEAN]]
  BY <1>3 DEF Pinned, PoolTypes
<1>5. \A y \in Requests : Evicts(y) => y # x /\ Old(y)' = Old(y)
  <2>1. \A y \in Requests : Evicts(y) => Rq(y).frame \in Frames
    BY <1>3 DEF PhaseInv, OnePhase, Carries, Evicts
  <2> QED BY <2>1, <1>2, <1>4 DEF Old
<1>6. PhaseInv'
  <2>1. OnePhase(x)'
    BY <1>2, <1>3 DEF OnePhase, PhaseInv
  <2>2. ASSUME NEW y \in Requests, y # x PROVE TwoPhases(x, y)' /\ TwoPhases(y, x)'
    BY <1>2, <2>2 DEF TwoPhases
  <2>3. \A y \in Requests : y # x =>
          /\ Locks(y) => mapping'[Rq(y).page] = Busy
          /\ Carries(y) => Rq(y).frame \notin free' \cup repl'
          /\ Evicts(y) => mapping'[Old(y)] = Busy /\ pte'[Rq(y).frame].page = Old(y)
          /\ Ended(y) => mapping'[Rq(y).page] = Rq(y).frame
    <3> SUFFICES ASSUME NEW y \in Requests, y # x
        PROVE /\ Locks(y) => mapping'[Rq(y).page] = Busy
              /\ Carries(y) => Rq(y).frame \notin free' \cup repl'
              /\ Evicts(y) => mapping'[Old(y)] = Busy /\ pte'[Rq(y).frame].page = Old(y)
              /\ Ended(y) => mapping'[Rq(y).page] = Rq(y).frame
      OBVIOUS
    <3>1. OnePhase(y)
      BY <1>3 DEF PhaseInv
    <3>2. Evicts(y) => Carries(y)
      BY DEF Evicts, Carries
    <3> QED BY <3>1, <3>2, <1>4 DEF OnePhase, Old
  <2> QED BY <2>1, <2>2, <2>3, <1>3, PhaseStep
<1>7. HeldInv'
  <2>1. \A y \in Requests : /\ Locks(y)' <=> Locks(y)
                            /\ Carries(y)' <=> Carries(y)
                            /\ Evicts(y)' <=> Evicts(y)
                            /\ Rq(y)'.page = Rq(y).page
                            /\ Carries(y) => Rq(y)'.frame = Rq(y).frame
    BY <1>2
  <2> QED BY <2>1, <1>1, <1>3, <1>5 DEF HeldInv
<1>8. TableInv' /\ PoolTypes'
  <2>1. TableInv'
    BY <1>3, <1>4 DEF TableInv, PoolTypes
  <2> QED BY <2>1, <1>3, <1>4 DEF PoolTypes
<1>9. PinsExact'
  <2>1. Cardinality(Pins(m)') = Cardinality(Pins(m)) + 1 /\ \A f : f # m => Pins(f)' = Pins(f)
    BY <1>2, PinsGrow
  <2>2. \A f \in Frames : pte[f].ref = Cardinality(Pins(f))
    BY <1>3 DEF PinsExact
  <2>3. \A f \in Frames : pte'[f].ref = Cardinality(Pins(f)')
    BY <2>1, <2>2, <1>4
  <2> QED BY <2>3 DEF PinsExact
<1>10. DataInv'
  <2>1. \A f \in Frames : \A p : Holds(f, p)' <=> Holds(f, p)
    BY <1>4 DEF Holds
  <2>2. \A y \in Requests : Evicts(y) => Rq(y).frame \in Frames
    BY <1>3 DEF PhaseInv, OnePhase, Carries, Evicts
  <2>3. ASSUME NEW y \in Requests
        PROVE /\ Evicts(y)' => Holds(Rq(y).frame, Old(y))'
              /\ Rq(y)'.io = "done" => mem'[Rq(y)'.frame] = disk'[Rq(y)'.page]
    <3>1. CASE y = x
      BY <3>1, <1>2, <1>3 DEF PhaseInv, OnePhase
    <3>2. CASE y # x
      <4>1. /\ Evicts(y) => Holds(Rq(y).frame, Old(y))
            /\ Rq(y).io = "done" => mem[Rq(y).frame] = disk[Rq(y).page]
        BY <1>3 DEF DataInv
      <4> QED BY <4>1, <3>2, <2>1, <2>2, <1>2, <1>5 DEF Holds
    <3> QED BY <3>1, <3>2
  <2>4. \A p \in Pages : mapping'[p] \in Frames => Holds(mapping[p], p)'
    BY <2>1, <1>3 DEF DataInv
  <2> QED BY <2>3, <2>4, <1>1 DEF DataInv
<1>11. KeepsWrites
  <2>1. \A p \in Pages : \A f \in Frames : Live(p, f)' <=> Live(p, f)
    <3>1. \A y \in Requests : (Evicts(y)' <=> Evicts(y)) /\ (Evicts(y) => Rq(y)'.frame = Rq(y).frame)
      BY <1>2
    <3> QED BY <3>1, <1>1, <1>5 DEF Live
  <2>2. /\ \A f \in Frames : mem[f] \in Int
        /\ \A p \in Pages : disk[p] \in Int
    BY <1>3 DEF PoolTypes
  <2> QED BY <2>1, <2>2, <1>3, <1>6, <1>8, VersionStep
<1> QED BY <1>6, <1>7, <1>8, <1>9, <1>10, <1>11 DEF PoolInv

\* A frame of the free list.
LEMMA FreeStep ==
  ASSUME Parameters, TypeOK, PoolInv, NEW x \in Requests, NEW f \in free,
         Turns(x, "Loading", f, Rq(x).io), Rq(x).phase = "Initing",
         free' = free \ {f},
         UNCHANGED <<mapping, pte, repl, mem, disk>>
  PROVE  PoolInv' /\ KeepsWrites
<1>1. Requests' = Requests /\ Rq(x).page \in Pages
  BY RequestTypes DEF Turns
<1>2. /\ Locks(x)' /\ Carries(x)' /\ ~Evicts(x)' /\ ~Ended(x)'
      /\ Locks(x) /\ ~Carries(x) /\ ~Evicts(x) /\ ~Ended(x)
      /\ Rq(x)'.page = Rq(x).page /\ Rq(x)'.frame = f /\ Rq(x)'.io = Rq(x).io
      /\ \A y \in Requests : y # x =>
           /\ Locks(y)' <=> Locks(y)
           /\ Carries(y)' <=> Carries(y)
           /\ Evicts(y)' <=> Evicts(y)
           /\ Ended(y)' <=> Ended(y)
           /\ Rq(y)' = Rq(y)
  <2>1. Rq(x)'.page = Rq(x).page /\ Rq(x)'.frame = f /\ Rq(x)'.io = Rq(x).io
    BY DEF Turns
  <2> QED BY <2>1, PhasesAfter DEF Locks, Carries, Evicts, Ended
<1>3. PhaseInv /\ TableInv /\ PoolTypes /\ HeldInv /\ DataInv /\ PinsExact /\ f \in Frames
  BY DEF PoolInv, PoolTypes
<1>4. \A y \in Requests : Evicts(y) => y # x /\ Old(y)' = Old(y)
  BY <1>2 DEF Old
<1>5. \A y \in Requests : Carries(y) => Rq(y).frame # f
  BY <1>3 DEF PhaseInv, OnePhase
<1>6. PhaseInv'
  <2>1. OnePhase(x)'
    <3>1. OnePhase(x)
      BY <1>3 DEF PhaseInv
    <3>2. f \notin free' /\ f \notin repl'
      BY <1>3 DEF TableInv
    <3>3. Rq(x).io = "none"
      BY <3>1 DEF OnePhase
    <3> QED BY <3>1, <3>2, <3>3, <1>2, <1>3 DEF OnePhase
  <2>2. ASSUME NEW y \in Requests, y # x PROVE TwoPhases(x, y)' /\ TwoPhases(y, x)'
    <3>1. TwoPhases(x, y) /\ TwoPhases(y, x)
      BY <1>3, <2>2 DEF PhaseInv
    <3> QED BY <3>1, <1>2, <1>4, <1>5, <2>2 DEF TwoPhases
  <2>3. \A y \in Requests : y # x =>
          /\ Locks(y) => mapping'[Rq(y).page] = Busy
          /\ Carries(y) => Rq(y).frame \notin free' \cup repl'
          /\ Evicts(y) => mapping'[Old(y)] = Busy /\ pte'[Rq(y).frame].page = Old(y)
          /\ Ended(y) => mapping'[Rq(y).page] = Rq(y).frame
    BY <1>3 DEF PhaseInv, OnePhase, Old
  <2> QED BY <2>1, <2>2, <2>3, <1>3, PhaseStep
<1>7. HeldInv'
  <2>1. ASSUME NEW p \in Pages, mapping[p] = Busy
        PROVE  \E y \in Requests : (Locks(y) /\ Rq(y).page = p)' \/ (Evicts(y) /\ Old(y) = p)'
    <3>1. PICK y \in Requests : (Locks(y) /\ Rq(y).page = p) \/ (Evicts(y) /\ Old(y) = p)
      BY <2>1, <1>3 DEF HeldInv
    <3> QED BY <3>1, <1>2, <1>4
  <2>2. ASSUME NEW g \in Frames \ (free' \cup repl)
        PROVE  \E y \in Requests : (Carries(y) /\ Rq(y).frame = g)'
    <3>1. CASE g = f
      BY <3>1, <1>2
    <3>2. CASE g # f
      <4>1. PICK y \in Requests : Carries(y) /\ Rq(y).frame = g
        BY <2>2, <3>2, <1>3 DEF HeldInv
      <4>2. y # x
        BY <4>1, <1>2
      <4> QED BY <4>1, <4>2, <1>2
    <3> QED BY <3>1, <3>2
  <2> QED BY <2>1, <2>2, <1>1 DEF HeldInv
<1>8. TableInv' /\ PoolTypes'
  BY <1>3 DEF TableInv, PoolTypes
<1>9. PinsExact'
  <2>1. \A g : Pins(g)' = Pins(g)
    BY <1>2, PinsKept
  <2> QED BY <2>1, <1>3 DEF PinsExact
<1>10. DataInv'
  <2>1. \A g, p : Holds(g, p)' <=> Holds(g, p)
    BY DEF Holds
  <2>2. Rq(x).io = "none"
    BY <1>3 DEF PhaseInv, OnePhase
  <2> QED BY <2>1, <2>2, <1>1, <1>2, <1>3, <1>4 DEF DataInv
<1>11. KeepsWrites
  <2>1. \A p \in Pages : \A g \in Frames : Live(p, g)' <=> Live(p, g)
    <3>1. \A y \in Requests : (Evicts(y)' <=> Evicts(y)) /\ (Evicts(y) => Rq(y)'.frame = Rq(y).frame)
      BY <1>2
    <3> QED BY <3>1, <1>1, <1>4 DEF Live
  <2>2. /\ \A g \in Frames : mem[g] \in Int
        /\ \A p \in Pages : disk[p] \in Int
    BY <1>3 DEF PoolTypes
  <2> QED BY <2>1, <2>2, <1>3, <1>6, <1>8, VersionStep
<1> QED BY <1>6, <1>7, <1>8, <1>9, <1>10, <1>11 DEF PoolInv

\* A frame that is taken from the replacer: its page is locked.
LEMMA VictimStep ==
  ASSUME Parameters, TypeOK, PoolInv, NEW x \in Requests, NEW f \in Victims,
         Turns(x, "Evicting", f, Rq(x).io), Rq(x).phase = "Initing",
         repl' = repl \ {f},
         mapping' = [mapping EXCEPT ![pte[f].page] = Busy],
         UNCHANGED <<pte, free, mem, disk>>
  PROVE  PoolInv' /\ KeepsWrites
<1>1. Requests' = Requests /\ Rq(x).page \in Pages
  BY RequestTypes DEF Turns
<1>2. /\ Locks(x)' /\ Carries(x)' /\ Evicts(x)' /\ ~Ended(x)'
      /\ Locks(x) /\ ~Carries(x) /\ ~Evicts(x) /\ ~Ended(x)
      /\ Rq(x)'.page = Rq(x).page /\ Rq(x)'.frame = f /\ Rq(x)'.io = Rq(x).io
      /\ \A y \in Requests : y # x =>
           /\ Locks(y)' <=> Locks(y)
           /\ Carries(y)' <=> Carries(y)
           /\ Evicts(y)' <=> Evicts(y)
           /\ Ended(y)' <=> Ended(y)
           /\ Rq(y)' = Rq(y)
  <2>1. Rq(x)'.page = Rq(x).page /\ Rq(x)'.frame = f /\ Rq(x)'.io = Rq(x).io
    BY DEF Turns
  <2> QED BY <2>1, PhasesAfter DEF Locks, Carries, Evicts, Ended
<1>3. /\ PhaseInv /\ TableInv /\ PoolTypes /\ HeldInv /\ DataInv /\ PinsExact
      /\ Busy \notin Frames /\ Empty # Busy
  BY DEF PoolInv, Parameters
<1>0. pte[f].page \in Pages
  BY <1>3 DEF Victims, TableInv
<1>00. PICK p0 \in Pages : p0 = pte[f].page
  BY <1>0
<1>4. /\ f \in Frames /\ f \in repl /\ f \notin free /\ pte[f].ref = 0
      /\ p0 \in Pages /\ mapping[p0] = f
  BY <1>3, <1>00 DEF Victims, PoolTypes, TableInv
<1>5. /\ mapping'[p0] = Busy /\ mapping' \in [Pages -> Frames \cup {Empty, Busy}]
      /\ \A p \in Pages : p # p0 => mapping'[p] = mapping[p]
  BY <1>3, <1>4, <1>00 DEF PoolTypes
<1>6. Old(x)' = p0
  BY <1>2, <1>00 DEF Old
<1>7. /\ \A y \in Requests : Evicts(y) => y # x /\ Old(y)' = Old(y) /\ Old(y) # p0
      /\ \A y \in Requests : Carries(y) => Rq(y).frame # f
      /\ \A y \in Requests : Locks(y) => Rq(y).page # p0
  <2>1. \A y \in Requests : Evicts(y) => Old(y)' = Old(y)
    BY <1>2 DEF Old
  <2> QED BY <2>1, <1>2, <1>3, <1>4 DEF PhaseInv, OnePhase
<1>8. \A y \in Requests : Ended(y) => Rq(y).page # p0
  <2>1. \A y \in Requests : Ended(y) => Rq(y).frame # f
    BY <1>3, <1>4, EndedCounts
  <2> QED BY <2>1, <1>3, <1>4 DEF PhaseInv, OnePhase
<1>9. PhaseInv'
  <2>1. OnePhase(x)'
    <3>1. OnePhase(x)
      BY <1>3 DEF PhaseInv
    <3>2. /\ Rq(x).io = "none" /\ mapping[Rq(x).page] = Busy /\ Rq(x).page # p0
          /\ mapping'[Rq(x).page] = Busy
      BY <3>1, <1>1, <1>2, <1>5, <1>7 DEF OnePhase
    <3> QED BY <3>2, <1>1, <1>2, <1>4, <1>5, <1>6 DEF OnePhase
  <2>2. ASSUME NEW y \in Requests, y # x PROVE TwoPhases(x, y)' /\ TwoPhases(y, x)'
    <3>1. TwoPhases(x, y) /\ TwoPhases(y, x)
      BY <1>3, <2>2 DEF PhaseInv
    <3> QED BY <3>1, <1>2, <1>6, <1>7, <2>2 DEF TwoPhases
  <2>3. \A y \in Requests : y # x =>
          /\ Locks(y) => mapping'[Rq(y).page] = Busy
          /\ Carries(y) => Rq(y).frame \notin free' \cup repl'
          /\ Evicts(y) => mapping'[Old(y)] = Busy /\ pte'[Rq(y).frame].page = Old(y)
          /\ Ended(y) => mapping'[Rq(y).page] = Rq(y).frame
    <3> SUFFICES ASSUME NEW y \in Requests, y # x
        PROVE /\ Locks(y) => mapping'[Rq(y).page] = Busy
              /\ Carries(y) => Rq(y).frame \notin free' \cup repl'
              /\ Evicts(y) => mapping'[Old(y)] = Busy /\ pte'[Rq(y).frame].page = Old(y)
              /\ Ended(y) => mapping'[Rq(y).page] = Rq(y).frame
      OBVIOUS
    <3>1. OnePhase(y) /\ Rq(y).page \in Pages
      BY <1>3, RequestTypes DEF PhaseInv
    <3> QED BY <3>1, <1>5, <1>7, <1>8 DEF OnePhase, Old
  <2> QED BY <2>1, <2>2, <2>3, <1>3, PhaseStep
<1>10. HeldInv'
  <2>1. ASSUME NEW p \in Pages, mapping'[p] = Busy
        PROVE  \E y \in Requests : (Locks(y) /\ Rq(y).page = p)' \/ (Evicts(y) /\ Old(y) = p)'
    <3>1. CASE p = p0
      BY <3>1, <1>2, <1>6
    <3>2. CASE p # p0
      <4>1. PICK y \in Requests : (Locks(y) /\ Rq(y).page = p) \/ (Evicts(y) /\ Old(y) = p)
        BY <2>1, <3>2, <1>3, <1>5 DEF HeldInv
      <4> QED BY <4>1, <1>2, <1>7
    <3> QED BY <3>1, <3>2
  <2>2. ASSUME NEW g \in Frames \ (free \cup repl')
        PROVE  \E y \in Requests : (Carries(y) /\ Rq(y).frame = g)'
    <3>1. CASE g = f
      BY <3>1, <1>2
    <3>2. CASE g # f
      <4>1. PICK y \in Requests : Carries(y) /\ Rq(y).frame = g
        BY <2>2, <3>2, <1>3 DEF HeldInv
      <4>2. y # x
        BY <4>1, <1>2
      <4> QED BY <4>1, <4>2, <1>2
    <3> QED BY <3>1, <3>2
  <2> QED BY <2>1, <2>2, <1>1 DEF HeldInv
<1>11. TableInv' /\ PoolTypes'
  <2>1. \A p \in Pages : mapping'[p] \in Frames => mapping'[p] \in repl' /\ pte[mapping'[p]].page = p
    <3>1. \A p \in Pages : p # p0 /\ mapping[p] \in Frames => mapping[p] # f
      BY <1>00, <1>3, <1>4 DEF TableInv
    <3> QED BY <3>1, <1>3, <1>4, <1>5 DEF TableInv
  <2>2. \A g \in repl' : pte[g].page \in Pages /\ mapping'[pte[g].page] = g
    BY <1>00, <1>3, <1>4, <1>5 DEF TableInv
  <2>3. free \cap repl' = {}
    BY <1>3 DEF TableInv
  <2>4. TableInv'
    BY <2>1, <2>2, <2>3 DEF TableInv
  <2> QED BY <2>4, <1>3, <1>5 DEF PoolTypes
<1>12. PinsExact'
  <2>1. \A g : Pins(g)' = Pins(g)
    BY <1>2, PinsKept
  <2> QED BY <2>1, <1>3 DEF PinsExact
<1>13. DataInv'
  <2>1. \A g, p : Holds(g, p)' <=> Holds(g, p)
    BY DEF Holds
  <2>2. \A p \in Pages : mapping'[p] \in Frames => Holds(mapping[p], p) /\ mapping'[p] = mapping[p]
    BY <1>3, <1>5 DEF DataInv
  <2>3. Rq(x).io = "none" /\ Holds(f, p0)
    BY <1>2, <1>3, <1>4 DEF PhaseInv, OnePhase, DataInv
  <2>4. ASSUME NEW y \in Requests
        PROVE /\ Evicts(y)' => Holds(Rq(y).frame, Old(y))'
              /\ Rq(y)'.io = "done" => mem'[Rq(y)'.frame] = disk'[Rq(y)'.page]
    <3>1. CASE y = x
      <4>1. Holds(Rq(x).frame, Old(x))'
        BY <2>1, <2>3, <1>2, <1>6 DEF Holds
      <4> QED BY <4>1, <3>1, <2>3, <1>2
    <3>2. CASE y # x
      <4>1. /\ Evicts(y) => Holds(Rq(y).frame, Old(y))
            /\ Rq(y).io = "done" => mem[Rq(y).frame] = disk[Rq(y).page]
        BY <1>3 DEF DataInv
      <4> QED BY <4>1, <3>2, <1>2, <1>7 DEF Holds
    <3> QED BY <3>1, <3>2
  <2>5. \A p \in Pages : mapping'[p] \in Frames => Holds(mapping[p], p)'
    BY <2>1, <2>2 DEF Holds
  <2> QED BY <2>4, <2>5, <1>1 DEF DataInv
<1>14. KeepsWrites
  <2>1. ASSUME NEW p \in Pages, NEW g \in Frames PROVE Live(p, g)' <=> Live(p, g)
    <3>1. CASE p = p0
      <4>1. Live(p0, f)
        BY <1>4 DEF Live
      <4>2. Live(p0, f)'
        BY <1>1, <1>2, <1>6 DEF Live
      <4>3. \A h \in Frames : Live(p0, h) => h = f
        BY <4>1, <1>3, <1>4, LiveIsOne
      <4>4. \A h \in Frames : Live(p0, h)' => h = f
        BY <1>1, <1>2, <1>3, <1>5, <1>7 DEF Live
      <4> QED BY <4>1, <4>2, <4>3, <4>4, <3>1
    <3>2. CASE p # p0
      <4>1. mapping'[p] = mapping[p]
        BY <3>2, <1>5
      <4>2. \A y \in Requests : (Evicts(y) /\ Rq(y).frame = g /\ Old(y) = p)' <=> (Evicts(y) /\ Rq(y).frame = g /\ Old(y) = p)
        BY <3>2, <1>2, <1>6, <1>7
      <4> QED BY <4>1, <4>2, <1>1 DEF Live
    <3> QED BY <3>1, <3>2
  <2>2. /\ \A g \in Frames : mem[g] \in Int
        /\ \A p \in Pages : disk[p] \in Int
    BY <1>3 DEF PoolTypes
  <2>3. \A p \in Pages : \A g \in Frames : Live(p, g)' <=> Live(p, g)
    BY <2>1
  <2> QED BY <2>2, <2>3, <1>3, <1>9, <1>11, VersionStep
<1> QED BY <1>9, <1>10, <1>11, <1>12, <1>13, <1>14 DEF PoolInv

\* The victim is on disk, and its page in no frame.
LEMMA UnmapStep ==
  ASSUME Parameters, TypeOK, PoolInv, NEW x \in Requests, NEW f \in Frames, NEW p0 \in Pages,
         Turns(x, "Loading", f, Rq(x).io), Rq(x).phase = "Evicting",
         f = Rq(x).frame, p0 = pte[f].page,
         disk' = IF pte[f].dirty THEN [disk EXCEPT ![p0] = mem[f]] ELSE disk,
         mapping' = [mapping EXCEPT ![p0] = Empty],
         UNCHANGED <<pte, free, repl, mem>>
  PROVE  PoolInv' /\ KeepsWrites
<1>1. Requests' = Requests /\ Rq(x).page \in Pages
  BY RequestTypes DEF Turns
<1>2. /\ Locks(x)' /\ Carries(x)' /\ ~Evicts(x)' /\ ~Ended(x)'
      /\ Locks(x) /\ Carries(x) /\ Evicts(x) /\ ~Ended(x)
      /\ Rq(x)'.page = Rq(x).page /\ Rq(x)'.frame = f /\ Rq(x)'.io = Rq(x).io
      /\ \A y \in Requests : y # x =>
           /\ Locks(y)' <=> Locks(y)
           /\ Carries(y)' <=> Carries(y)
           /\ Evicts(y)' <=> Evicts(y)
           /\ Ended(y)' <=> Ended(y)
           /\ Rq(y)' = Rq(y)
  <2>1. Rq(x)'.page = Rq(x).page /\ Rq(x)'.frame = f /\ Rq(x)'.io = Rq(x).io
    BY DEF Turns
  <2> QED BY <2>1, PhasesAfter DEF Locks, Carries, Evicts, Ended
<1>3. /\ PhaseInv /\ TableInv /\ PoolTypes /\ HeldInv /\ DataInv /\ PinsExact
      /\ Busy \notin Frames /\ Empty \notin Frames /\ Empty # Busy
  BY DEF PoolInv, Parameters
<1>4. /\ Old(x) = p0 /\ mapping[p0] = Busy /\ Rq(x).page # p0 /\ Holds(f, p0)
      /\ Rq(x).io = "none"
  BY <1>2, <1>3 DEF Old, PhaseInv, OnePhase, DataInv
<1>5. /\ mapping'[p0] = Empty /\ mapping' \in [Pages -> Frames \cup {Empty, Busy}]
      /\ \A p \in Pages : p # p0 => mapping'[p] = mapping[p]
  BY <1>3 DEF PoolTypes
<1>6. /\ disk'[p0] >= mem[f] /\ disk' \in [Pages -> 0 .. MaxVersion]
      /\ \A p \in Pages : p # p0 => disk'[p] = disk[p]
  <2>1. disk \in [Pages -> 0 .. MaxVersion] /\ mem[f] \in 0 .. MaxVersion
    BY <1>3 DEF PoolTypes
  <2>2. CASE pte[f].dirty
    BY <2>1, <2>2
  <2>3. CASE ~pte[f].dirty
    BY <2>1, <2>3, <1>4 DEF Holds
  <2> QED BY <2>2, <2>3
<1>7. \A y \in Requests : y # x =>
        /\ Evicts(y) => Old(y)' = Old(y) /\ Old(y) # p0
        /\ Carries(y) => Rq(y).frame # f
        /\ Locks(y) => Rq(y).page # p0
        /\ Ended(y) => Rq(y).page # p0
  <2> SUFFICES ASSUME NEW y \in Requests, y # x
      PROVE /\ Evicts(y) => Old(y)' = Old(y) /\ Old(y) # p0
            /\ Carries(y) => Rq(y).frame # f
            /\ Locks(y) => Rq(y).page # p0
            /\ Ended(y) => Rq(y).page # p0
    OBVIOUS
  <2>1. TwoPhases(x, y) /\ TwoPhases(y, x) /\ OnePhase(y)
    BY <1>3 DEF PhaseInv
  <2>2. Rq(y)' = Rq(y)
    BY <1>2
  <2> QED BY <2>1, <2>2, <1>2, <1>3, <1>4 DEF TwoPhases, OnePhase, Old
<1>8. PhaseInv'
  <2>1. OnePhase(x)'
    <3>1. OnePhase(x)
      BY <1>3 DEF PhaseInv
    <3> QED BY <3>1, <1>1, <1>2, <1>4, <1>5 DEF OnePhase
  <2>2. ASSUME NEW y \in Requests, y # x PROVE TwoPhases(x, y)' /\ TwoPhases(y, x)'
    <3>1. TwoPhases(x, y) /\ TwoPhases(y, x)
      BY <1>3, <2>2 DEF PhaseInv
    <3> QED BY <3>1, <1>2, <1>7, <2>2 DEF TwoPhases
  <2>3. \A y \in Requests : y # x =>
          /\ Locks(y) => mapping'[Rq(y).page] = Busy
          /\ Carries(y) => Rq(y).frame \notin free' \cup repl'
          /\ Evicts(y) => mapping'[Old(y)] = Busy /\ pte'[Rq(y).frame].page = Old(y)
          /\ Ended(y) => mapping'[Rq(y).page] = Rq(y).frame
    <3> SUFFICES ASSUME NEW y \in Requests, y # x
        PROVE /\ Locks(y) => mapping'[Rq(y).page] = Busy
              /\ Carries(y) => Rq(y).frame \notin free' \cup repl'
              /\ Evicts(y) => mapping'[Old(y)] = Busy /\ pte'[Rq(y).frame].page = Old(y)
              /\ Ended(y) => mapping'[Rq(y).page] = Rq(y).frame
      OBVIOUS
    <3>1. OnePhase(y) /\ Rq(y).page \in Pages
      BY <1>3, RequestTypes DEF PhaseInv
    <3> QED BY <3>1, <1>5, <1>7 DEF OnePhase, Old
  <2> QED BY <2>1, <2>2, <2>3, <1>3, PhaseStep
<1>9. HeldInv'
  <2>1. ASSUME NEW p \in Pages, mapping'[p] = Busy
        PROVE  \E y \in Requests : (Locks(y) /\ Rq(y).page = p)' \/ (Evicts(y) /\ Old(y) = p)'
    <3>1. p # p0 /\ mapping[p] = Busy
      BY <2>1, <1>3, <1>5
    <3>2. PICK y \in Requests : (Locks(y) /\ Rq(y).page = p) \/ (Evicts(y) /\ Old(y) = p)
      BY <3>1, <1>3 DEF HeldInv
    <3> QED BY <3>1, <3>2, <1>2, <1>4, <1>7
  <2>2. ASSUME NEW g \in Frames \ (free \cup repl)
        PROVE  \E y \in Requests : (Carries(y) /\ Rq(y).frame = g)'
    <3>1. PICK y \in Requests : Carries(y) /\ Rq(y).frame = g
      BY <2>2, <1>3 DEF HeldInv
    <3> QED BY <3>1, <1>2
  <2> QED BY <2>1, <2>2, <1>1 DEF HeldInv
<1>10. TableInv' /\ PoolTypes'
  <2>1. \A p \in Pages : mapping'[p] \in Frames => mapping'[p] = mapping[p]
    BY <1>3, <1>5
  <2>2. \A g \in repl : pte[g].page # p0
    BY <1>3, <1>4, <1>5 DEF TableInv, PoolTypes
  <2>3. TableInv'
    BY <2>1, <2>2, <1>3, <1>5 DEF TableInv
  <2> QED BY <2>3, <1>3, <1>5, <1>6 DEF PoolTypes
<1>11. PinsExact'
  <2>1. \A g : Pins(g)' = Pins(g)
    BY <1>2, PinsKept
  <2> QED BY <2>1, <1>3 DEF PinsExact
<1>12. DataInv'
  <2>1. \A g : \A p \in Pages : p # p0 => (Holds(g, p)' <=> Holds(g, p))
    BY <1>6 DEF Holds
  <2>2. ASSUME NEW p \in Pages, mapping'[p] \in Frames PROVE Holds(mapping[p], p)'
    <3>1. p # p0 /\ mapping'[p] = mapping[p]
      BY <2>2, <1>3, <1>5
    <3>2. Holds(mapping[p], p)
      BY <3>1, <2>2, <1>3 DEF DataInv
    <3> QED BY <3>1, <3>2, <1>6 DEF Holds
  <2>3. ASSUME NEW y \in Requests
        PROVE /\ Evicts(y)' => Holds(Rq(y).frame, Old(y))'
              /\ Rq(y)'.io = "done" => mem'[Rq(y)'.frame] = disk'[Rq(y)'.page]
    <3>1. CASE y = x
      BY <3>1, <1>2, <1>4
    <3>2. CASE y # x
      <4>1. /\ Evicts(y) => Holds(Rq(y).frame, Old(y)) /\ Old(y) \in Pages
            /\ Rq(y).io = "done" => mem[Rq(y).frame] = disk[Rq(y).page] /\ Locks(y)
            /\ Rq(y).page \in Pages
        BY <1>3, RequestTypes DEF DataInv, PhaseInv, OnePhase, Locks
      <4> QED BY <4>1, <3>2, <1>2, <1>6, <1>7 DEF Holds
    <3> QED BY <3>1, <3>2
  <2> QED BY <2>2, <2>3, <1>1 DEF DataInv
<1>13. KeepsWrites
  <2>1. Live(p0, f) /\ \A g \in Frames : Live(p0, g) => g = f
    <3>1. Live(p0, f)
      BY <1>2, <1>4 DEF Live
    <3> QED BY <3>1, <1>3, LiveIsOne
  <2>2. \A g \in Frames : ~Live(p0, g)'
    BY <1>1, <1>2, <1>3, <1>5, <1>7 DEF Live
  <2>3. ASSUME NEW p \in Pages, NEW g \in Frames, p # p0 PROVE Live(p, g)' <=> Live(p, g)
    <3>1. mapping'[p] = mapping[p]
      BY <2>3, <1>5
    <3>2. \A y \in Requests : (Evicts(y) /\ Rq(y).frame = g /\ Old(y) = p)' <=> (Evicts(y) /\ Rq(y).frame = g /\ Old(y) = p)
      BY <2>3, <1>2, <1>4, <1>7
    <3> QED BY <3>1, <3>2, <1>1 DEF Live
  <2>4. /\ \A g \in Frames : mem[g] \in Int
        /\ \A p \in Pages : disk[p] \in Int
    BY <1>3 DEF PoolTypes
  <2>5. ASSUME NEW p \in Pages
        PROVE /\ \A g \in Frames : Live(p, g) =>
                   \/ Live(p, g)' /\ mem'[g] >= mem[g]
                   \/ (\A h \in Frames : ~Live(p, h)') /\ disk'[p] >= mem[g]
              /\ (\A g \in Frames : ~Live(p, g)) =>
                   \/ \E g \in Frames : Live(p, g)' /\ mem'[g] >= disk[p]
                   \/ (\A g \in Frames : ~Live(p, g)') /\ disk'[p] >= disk[p]
    <3>1. CASE p = p0
      BY <3>1, <2>1, <2>2, <1>6
    <3>2. CASE p # p0
      BY <3>2, <2>3, <2>4, <1>6
    <3> QED BY <3>1, <3>2
  <2> QED BY <2>5, <1>3, <1>8, <1>10, VersionStep
<1> QED BY <1>8, <1>9, <1>10, <1>11, <1>12, <1>13 DEF PoolInv

\* A page that is in memory gets its frame.
LEMMA PublishStep ==
  ASSUME Parameters, TypeOK, PoolInv, NEW x \in Requests, NEW f \in Frames, NEW p0 \in Pages,
         Turns(x, "End", f, "none"), Rq(x).phase \in {"Loading", "LoadingFinish"},
         f = Rq(x).frame, p0 = Rq(x).page,
         \/ mem' = [mem EXCEPT ![f] = disk[p0]]
         \/ Rq(x).io = "done" /\ mem' = mem,
         Publish(p0, f), UNCHANGED disk
  PROVE  PoolInv' /\ KeepsWrites
<1>1. /\ Requests' = Requests /\ free' = free /\ repl' = repl \cup {f}
  BY DEF Turns, Publish
<1>2. /\ ~Locks(x)' /\ ~Carries(x)' /\ ~Evicts(x)' /\ Ended(x)'
      /\ Locks(x) /\ Carries(x) /\ ~Evicts(x) /\ ~Ended(x)
      /\ Rq(x)'.page = p0 /\ Rq(x)'.frame = f /\ Rq(x)'.io = "none"
      /\ \A y \in Requests : y # x =>
           /\ Locks(y)' <=> Locks(y)
           /\ Carries(y)' <=> Carries(y)
           /\ Evicts(y)' <=> Evicts(y)
           /\ Ended(y)' <=> Ended(y)
           /\ Rq(y)' = Rq(y)
  <2>1. Rq(x)'.page = p0 /\ Rq(x)'.frame = f /\ Rq(x)'.io = "none"
    BY DEF Turns
  <2> QED BY <2>1, PhasesAfter DEF Locks, Carries, Evicts, Ended
<1>3. /\ PhaseInv /\ TableInv /\ PoolTypes /\ HeldInv /\ DataInv /\ PinsExact
      /\ Busy \notin Frames /\ Empty \notin Frames /\ Empty # Busy
  BY DEF PoolInv, Parameters
<1>4. /\ mapping[p0] = Busy /\ f \notin free /\ f \notin repl
      /\ \A g \in repl : pte[g].page # p0
  BY <1>2, <1>3 DEF PhaseInv, OnePhase, TableInv, PoolTypes
<1>5. /\ mapping'[p0] = f /\ mapping' \in [Pages -> Frames \cup {Empty, Busy}]
      /\ \A p \in Pages : p # p0 => mapping'[p] = mapping[p]
  BY <1>3 DEF PoolTypes, Publish
<1>6. /\ pte'[f].page = p0 /\ pte'[f].ref = 1
      /\ pte' \in [Frames -> [page : Pages \cup {None}, ref : Nat, dirty : BOOLEAN]]
      /\ \A g \in Frames : g # f => pte'[g] = pte[g]
  <2>1. [page |-> p0, ref |-> 1, dirty |-> FALSE] \in [page : Pages \cup {None}, ref : Nat, dirty : BOOLEAN]
    OBVIOUS
  <2> QED BY <2>1, <1>3 DEF PoolTypes, Publish
<1>7. /\ mem'[f] = disk[p0] /\ mem' \in [Frames -> 0 .. MaxVersion]
      /\ \A g \in Frames : g # f => mem'[g] = mem[g]
  <2>1. mem \in [Frames -> 0 .. MaxVersion] /\ disk[p0] \in 0 .. MaxVersion
    BY <1>3 DEF PoolTypes
  <2>2. Rq(x).io = "done" => mem[f] = disk[p0]
    BY <1>3 DEF DataInv
  <2> QED BY <2>1, <2>2
<1>8. \A y \in Requests : y # x =>
        /\ Evicts(y) => Old(y)' = Old(y) /\ Old(y) # p0 /\ Old(y) \in Pages
        /\ Carries(y) => Rq(y).frame # f /\ Rq(y).frame \in Frames
        /\ Locks(y) => Rq(y).page # p0
        /\ Ended(y) => Rq(y).page # p0 /\ Rq(y).frame # f
  <2> SUFFICES ASSUME NEW y \in Requests, y # x
      PROVE /\ Evicts(y) => Old(y)' = Old(y) /\ Old(y) # p0 /\ Old(y) \in Pages
            /\ Carries(y) => Rq(y).frame # f /\ Rq(y).frame \in Frames
            /\ Locks(y) => Rq(y).page # p0
            /\ Ended(y) => Rq(y).page # p0 /\ Rq(y).frame # f
    OBVIOUS
  <2>1. TwoPhases(x, y) /\ TwoPhases(y, x) /\ OnePhase(y) /\ Rq(y).page \in Pages
    BY <1>3, RequestTypes DEF PhaseInv
  <2>2. Rq(y)' = Rq(y)
    BY <1>2
  <2>3. Carries(y) => Rq(y).frame # f /\ Rq(y).frame \in Frames
    BY <2>1, <1>2 DEF TwoPhases, OnePhase
  <2>4. Ended(y) => Rq(y).page # p0 /\ Rq(y).frame # f
    BY <2>1, <1>3, <1>4 DEF OnePhase, TableInv
  <2>5. Evicts(y) => Carries(y)
    BY DEF Evicts, Carries
  <2>6. Evicts(y) => Old(y)' = Old(y)
    BY <2>2, <2>3, <2>5, <1>6 DEF Old
  <2> QED BY <2>1, <2>3, <2>4, <2>6, <1>2 DEF TwoPhases, OnePhase
<1>9. PhaseInv'
  <2>1. OnePhase(x)'
    BY <1>2, <1>5 DEF OnePhase
  <2>2. ASSUME NEW y \in Requests, y # x PROVE TwoPhases(x, y)' /\ TwoPhases(y, x)'
    BY <1>2, <2>2 DEF TwoPhases
  <2>3. \A y \in Requests : y # x =>
          /\ Locks(y) => mapping'[Rq(y).page] = Busy
          /\ Carries(y) => Rq(y).frame \notin free' \cup repl'
          /\ Evicts(y) => mapping'[Old(y)] = Busy /\ pte'[Rq(y).frame].page = Old(y)
          /\ Ended(y) => mapping'[Rq(y).page] = Rq(y).frame
    <3> SUFFICES ASSUME NEW y \in Requests, y # x
        PROVE /\ Locks(y) => mapping'[Rq(y).page] = Busy
              /\ Carries(y) => Rq(y).frame \notin free' \cup repl'
              /\ Evicts(y) => mapping'[Old(y)] = Busy /\ pte'[Rq(y).frame].page = Old(y)
              /\ Ended(y) => mapping'[Rq(y).page] = Rq(y).frame
      OBVIOUS
    <3>1. OnePhase(y) /\ Rq(y).page \in Pages
      BY <1>3, RequestTypes DEF PhaseInv
    <3>2. Evicts(y) => Carries(y)
      BY DEF Evicts, Carries
    <3>3. Evicts(y) => pte'[Rq(y).frame].page = Old(y)
      BY <3>2, <1>6, <1>8 DEF Old
    <3> QED BY <3>1, <3>3, <1>1, <1>5, <1>8 DEF OnePhase
  <2> QED BY <2>1, <2>2, <2>3, <1>3, PhaseStep
<1>10. HeldInv'
  <2>1. ASSUME NEW p \in Pages, mapping'[p] = Busy
        PROVE  \E y \in Requests : (Locks(y) /\ Rq(y).page = p)' \/ (Evicts(y) /\ Old(y) = p)'
    <3>1. p # p0 /\ mapping[p] = Busy
      BY <2>1, <1>3, <1>5
    <3>2. PICK y \in Requests : (Locks(y) /\ Rq(y).page = p) \/ (Evicts(y) /\ Old(y) = p)
      BY <3>1, <1>3 DEF HeldInv
    <3>3. y # x
      BY <3>1, <3>2, <1>2
    <3> QED BY <3>2, <3>3, <1>2, <1>8
  <2>2. ASSUME NEW g \in Frames \ (free' \cup repl')
        PROVE  \E y \in Requests : (Carries(y) /\ Rq(y).frame = g)'
    <3>1. g # f /\ g \in Frames \ (free \cup repl)
      BY <2>2, <1>1
    <3>2. PICK y \in Requests : Carries(y) /\ Rq(y).frame = g
      BY <3>1, <1>3 DEF HeldInv
    <3>3. y # x
      BY <3>1, <3>2
    <3> QED BY <3>2, <3>3, <1>2
  <2> QED BY <2>1, <2>2, <1>1 DEF HeldInv
<1>11. TableInv' /\ PoolTypes'
  <2>1. \A p \in Pages : mapping'[p] \in Frames => mapping'[p] \in repl' /\ pte'[mapping'[p]].page = p
    BY <1>1, <1>3, <1>4, <1>5, <1>6 DEF TableInv
  <2>2. ASSUME NEW g \in repl' PROVE pte'[g].page \in Pages /\ mapping'[pte'[g].page] = g
    <3>1. CASE g = f
      BY <3>1, <1>5, <1>6
    <3>2. CASE g # f
      <4>1. g \in repl /\ g \in Frames /\ pte'[g] = pte[g]
        BY <3>2, <1>1, <1>3, <1>6 DEF PoolTypes
      <4>2. pte[g].page \in Pages /\ mapping[pte[g].page] = g /\ pte[g].page # p0
        BY <4>1, <1>3, <1>4 DEF TableInv
      <4> QED BY <4>1, <4>2, <1>5
    <3> QED BY <3>1, <3>2
  <2>3. free' \cap repl' = {}
    BY <1>1, <1>3, <1>4 DEF TableInv
  <2>4. TableInv'
    BY <2>1, <2>2, <2>3 DEF TableInv
  <2> QED BY <2>4, <1>1, <1>3, <1>5, <1>6, <1>7 DEF PoolTypes
<1>12. PinsExact'
  <2>1. Cardinality(Pins(f)') = Cardinality(Pins(f)) + 1 /\ \A g : g # f => Pins(g)' = Pins(g)
    BY <1>2, PinsGrow
  <2>2. Pins(f) = {}
    <3>1. \A y \in Requests : Ended(y) => Rq(y).frame # f
      BY <1>2, <1>8
    <3> QED BY <3>1 DEF Pins, Ended
  <2>3. Cardinality(Pins(f)) = 0
    BY <2>2, FS_EmptySet
  <2>4. \A g \in Frames : pte'[g].ref = Cardinality(Pins(g)')
    BY <2>1, <2>3, <1>3, <1>6 DEF PinsExact
  <2> QED BY <2>4 DEF PinsExact
<1>13. DataInv'
  <2>1. ASSUME NEW g \in Frames, NEW p, g # f, Holds(g, p) PROVE Holds(g, p)'
    BY <2>1, <1>6, <1>7 DEF Holds
  <2>2. ASSUME NEW p \in Pages, mapping'[p] \in Frames PROVE mem'[mapping'[p]] >= disk[p] /\ (mem'[mapping'[p]] = disk[p] \/ pte'[mapping'[p]].dirty)
    <3>1. CASE p = p0
      <4>1. disk[p0] \in Int
        BY <1>3 DEF PoolTypes
      <4> QED BY <4>1, <3>1, <1>5, <1>7
    <3>2. CASE p # p0
      <4>1. mapping'[p] = mapping[p] /\ mapping[p] \in Frames /\ mapping[p] # f
        BY <2>2, <3>2, <1>3, <1>4, <1>5 DEF TableInv
      <4>2. Holds(mapping[p], p)
        BY <4>1, <1>3 DEF DataInv
      <4> QED BY <4>1, <4>2, <1>6, <1>7 DEF Holds
    <3> QED BY <3>1, <3>2
  <2>3. ASSUME NEW y \in Requests
        PROVE /\ Evicts(y)' => Holds(Rq(y).frame, Old(y))'
              /\ Rq(y)'.io = "done" => mem'[Rq(y)'.frame] = disk'[Rq(y)'.page]
    <3>1. CASE y = x
      BY <3>1, <1>2
    <3>2. CASE y # x
      <4>1. /\ Evicts(y) => Holds(Rq(y).frame, Old(y)) /\ Carries(y)
            /\ Rq(y).io = "done" => mem[Rq(y).frame] = disk[Rq(y).page] /\ Carries(y)
        BY <1>3 DEF DataInv, PhaseInv, OnePhase, Carries, Evicts
      <4>2. Evicts(y) => Holds(Rq(y).frame, Old(y))'
        BY <4>1, <3>2, <1>2, <1>6, <1>7, <1>8 DEF Holds
      <4> QED BY <4>1, <4>2, <3>2, <1>2, <1>7, <1>8
    <3> QED BY <3>1, <3>2
  <2>4. \A p \in Pages : mapping'[p] \in Frames => Holds(mapping[p], p)'
    BY <2>2 DEF Holds
  <2> QED BY <2>3, <2>4, <1>1 DEF DataInv
<1>14. KeepsWrites
  <2>1. \A g \in Frames : ~Live(p0, g)
    BY <1>2, <1>3, <1>4, <1>8 DEF Live
  <2>2. Live(p0, f)'
    BY <1>5 DEF Live
  <2>3. ASSUME NEW p \in Pages, NEW g \in Frames, p # p0
        PROVE (Live(p, g)' <=> Live(p, g)) /\ (Live(p, g) => g # f)
    <3>1. mapping'[p] = mapping[p] /\ mapping[p] # f
      BY <2>3, <1>3, <1>4, <1>5 DEF TableInv
    <3>2. \A y \in Requests :
            /\ (Evicts(y) /\ Rq(y).frame = g /\ Old(y) = p)' <=> (Evicts(y) /\ Rq(y).frame = g /\ Old(y) = p)
            /\ Evicts(y) => Rq(y).frame # f
      <4>1. \A y \in Requests : Evicts(y) => Carries(y)
        BY DEF Evicts, Carries
      <4> QED BY <4>1, <1>2, <1>8
    <3> QED BY <3>1, <3>2, <1>1 DEF Live
  <2>4. /\ \A g \in Frames : mem[g] \in Int
        /\ \A p \in Pages : disk[p] \in Int
    BY <1>3 DEF PoolTypes
  <2>5. ASSUME NEW p \in Pages
        PROVE /\ \A g \in Frames : Live(p, g) =>
                   \/ Live(p, g)' /\ mem'[g] >= mem[g]
                   \/ (\A h \in Frames : ~Live(p, h)') /\ disk'[p] >= mem[g]
              /\ (\A g \in Frames : ~Live(p, g)) =>
                   \/ \E g \in Frames : Live(p, g)' /\ mem'[g] >= disk[p]
                   \/ (\A g \in Frames : ~Live(p, g)') /\ disk'[p] >= disk[p]
    <3>1. CASE p = p0
      BY <3>1, <2>1, <2>2, <2>4, <1>7
    <3>2. CASE p # p0
      BY <3>2, <2>3, <2>4, <1>7
    <3> QED BY <3>1, <3>2
  <2> QED BY <2>5, <1>3, <1>9, <1>11, VersionStep
<1> QED BY <1>9, <1>10, <1>11, <1>12, <1>13, <1>14 DEF PoolInv

\* The I/O server has read the page into the frame.
LEMMA ReadStep ==
  ASSUME Parameters, TypeOK, PoolInv, NEW x \in Requests,
         Turns(x, Rq(x).phase, Rq(x).frame, "done"), Rq(x).io = "sent",
         mem' = [mem EXCEPT ![Rq(x).frame] = disk[Rq(x).page]],
         UNCHANGED <<table, disk>>
  PROVE  PoolInv' /\ KeepsWrites
<1>1. UNCHANGED <<mapping, pte, free, repl, disk>> /\ Requests' = Requests
  BY DEF table, Turns
<1>2. /\ Locks(x)' <=> Locks(x)
      /\ Carries(x)' <=> Carries(x)
      /\ Evicts(x)' <=> Evicts(x)
      /\ Ended(x)' <=> Ended(x)
      /\ Rq(x)'.page = Rq(x).page /\ Rq(x)'.frame = Rq(x).frame
      /\ Rq(x)'.io = "done" /\ Rq(x)'.phase = Rq(x).phase
      /\ \A y \in Requests : y # x =>
           /\ Locks(y)' <=> Locks(y)
           /\ Carries(y)' <=> Carries(y)
           /\ Evicts(y)' <=> Evicts(y)
           /\ Ended(y)' <=> Ended(y)
           /\ Rq(y)' = Rq(y)
  <2>1. /\ Rq(x)'.page = Rq(x).page /\ Rq(x)'.frame = Rq(x).frame
        /\ Rq(x)'.io = "done" /\ Rq(x)'.phase = Rq(x).phase
    BY DEF Turns
  <2> QED BY <2>1, PhasesAfter DEF Locks, Carries, Evicts, Ended
<1>3. \A y \in Requests : Old(y)' = Old(y)
  BY <1>1, <1>2 DEF Old
<1>4. /\ PhaseInv /\ TableInv /\ PoolTypes /\ HeldInv /\ DataInv /\ PinsExact
      /\ Rq(x).phase = "LoadingFinish" /\ Rq(x).page \in Pages
  BY RequestTypes DEF PoolInv, PhaseInv, OnePhase
<1>5. /\ Carries(x) /\ ~Evicts(x) /\ Rq(x).frame \in Frames /\ Rq(x).frame \notin repl
      /\ \A y \in Requests : y # x /\ Carries(y) => Rq(y).frame # Rq(x).frame
  BY <1>4 DEF PhaseInv, OnePhase, TwoPhases, Carries, Evicts
<1>6. /\ mem'[Rq(x).frame] = disk[Rq(x).page] /\ mem' \in [Frames -> 0 .. MaxVersion]
      /\ \A g \in Frames : g # Rq(x).frame => mem'[g] = mem[g]
  <2>1. mem \in [Frames -> 0 .. MaxVersion] /\ disk[Rq(x).page] \in 0 .. MaxVersion
    BY <1>4 DEF PoolTypes
  <2> QED BY <2>1, <1>5
<1>7. PhaseInv'
  <2>1. OnePhase(x)'
    BY <1>1, <1>2, <1>3, <1>4 DEF OnePhase, PhaseInv
  <2>2. ASSUME NEW y \in Requests, y # x PROVE TwoPhases(x, y)' /\ TwoPhases(y, x)'
    <3>1. TwoPhases(x, y) /\ TwoPhases(y, x)
      BY <1>4, <2>2 DEF PhaseInv
    <3> QED BY <3>1, <1>2, <1>3, <2>2 DEF TwoPhases
  <2>3. \A y \in Requests : y # x =>
          /\ Locks(y) => mapping'[Rq(y).page] = Busy
          /\ Carries(y) => Rq(y).frame \notin free' \cup repl'
          /\ Evicts(y) => mapping'[Old(y)] = Busy /\ pte'[Rq(y).frame].page = Old(y)
          /\ Ended(y) => mapping'[Rq(y).page] = Rq(y).frame
    BY <1>1, <1>4 DEF PhaseInv, OnePhase, Old
  <2> QED BY <2>1, <2>2, <2>3, <1>4, PhaseStep
<1>8. HeldInv'
  <2>1. \A y \in Requests : /\ Locks(y)' <=> Locks(y)
                            /\ Carries(y)' <=> Carries(y)
                            /\ Evicts(y)' <=> Evicts(y)
                            /\ Rq(y)'.page = Rq(y).page /\ Rq(y)'.frame = Rq(y).frame
    BY <1>2
  <2> QED BY <2>1, <1>1, <1>3, <1>4 DEF HeldInv
<1>9. TableInv' /\ PoolTypes'
  BY <1>1, <1>4, <1>6 DEF TableInv, PoolTypes
<1>10. PinsExact'
  <2>1. \A f : Pins(f)' = Pins(f)
    BY PinsKept
  <2> QED BY <2>1, <1>1, <1>4 DEF PinsExact
<1>11. DataInv'
  <2>1. ASSUME NEW p \in Pages, mapping[p] \in Frames PROVE Holds(mapping[p], p)'
    <3>1. mapping[p] # Rq(x).frame /\ Holds(mapping[p], p)
      BY <2>1, <1>4, <1>5 DEF TableInv, DataInv
    <3> QED BY <3>1, <2>1, <1>1, <1>6 DEF Holds
  <2>2. ASSUME NEW y \in Requests
        PROVE /\ Evicts(y)' => Holds(Rq(y).frame, Old(y))'
              /\ Rq(y)'.io = "done" => mem'[Rq(y)'.frame] = disk'[Rq(y)'.page]
    <3>1. CASE y = x
      BY <3>1, <1>1, <1>2, <1>5, <1>6
    <3>2. CASE y # x
      <4>1. /\ Evicts(y) => Holds(Rq(y).frame, Old(y)) /\ Carries(y)
            /\ Rq(y).io = "done" => mem[Rq(y).frame] = disk[Rq(y).page] /\ Carries(y)
            /\ Carries(y) => Rq(y).frame \in Frames
        BY <1>4 DEF DataInv, PhaseInv, OnePhase, Carries, Evicts
      <4> QED BY <4>1, <3>2, <1>1, <1>2, <1>3, <1>5, <1>6 DEF Holds
    <3> QED BY <3>1, <3>2
  <2> QED BY <2>1, <2>2, <1>1 DEF DataInv
<1>12. KeepsWrites
  <2>1. ASSUME NEW p \in Pages, NEW f \in Frames
        PROVE (Live(p, f)' <=> Live(p, f)) /\ (Live(p, f) => f # Rq(x).frame)
    <3>1. mapping[p] # Rq(x).frame
      BY <1>4, <1>5 DEF TableInv
    <3>2. \A y \in Requests : /\ (Evicts(y)' <=> Evicts(y)) /\ Rq(y)'.frame = Rq(y).frame
                              /\ Evicts(y) => Rq(y).frame # Rq(x).frame
      BY <1>2, <1>5 DEF Evicts, Carries
    <3> QED BY <3>1, <3>2, <1>1, <1>3 DEF Live
  <2>2. /\ \A f \in Frames : mem[f] \in Int
        /\ \A p \in Pages : disk[p] \in Int
    BY <1>4 DEF PoolTypes
  <2>3. \A p \in Pages, f \in Frames : Live(p, f) => mem'[f] >= mem[f]
    BY <2>1, <2>2, <1>6
  <2> QED BY <2>1, <2>2, <2>3, <1>1, <1>4, <1>7, <1>9, VersionStep
<1> QED BY <1>7, <1>8, <1>9, <1>10, <1>11, <1>12 DEF PoolInv

\* A write into a frame that a request ended with.
LEMMA WriteStep ==
  ASSUME Parameters, TypeOK, PoolInv, NEW x \in Requests, Ended(x), NEW f \in Frames,
         f = Rq(x).frame, mem[f] < MaxVersion,
         mem' = [mem EXCEPT ![f] = @ + 1],
         pte' = [pte EXCEPT ![f].dirty = TRUE],
         UNCHANGED <<mapping, free, repl, disk, rq>>
  PROVE  PoolInv' /\ KeepsWrites
<1>1. /\ Requests' = Requests
      /\ \A y : Rq(y)' = Rq(y)
      /\ \A y : /\ Locks(y)' <=> Locks(y)
                /\ Carries(y)' <=> Carries(y)
                /\ Evicts(y)' <=> Evicts(y)
                /\ Ended(y)' <=> Ended(y)
  BY DEF Requests, Rq, Locks, Carries, Evicts, Ended
<1>2. /\ PhaseInv /\ TableInv /\ PoolTypes /\ HeldInv /\ DataInv /\ PinsExact
      /\ MaxVersion \in Nat
  BY DEF PoolInv, Parameters
<1>3. /\ \A g \in Frames : pte'[g].page = pte[g].page /\ pte'[g].ref = pte[g].ref
      /\ pte'[f].dirty /\ \A g \in Frames : g # f => pte'[g].dirty = pte[g].dirty
      /\ pte' \in [Frames -> [page : Pages \cup {None}, ref : Nat, dirty : BOOLEAN]]
  BY <1>2 DEF PoolTypes
<1>4. /\ mem'[f] = mem[f] + 1 /\ mem' \in [Frames -> 0 .. MaxVersion]
      /\ \A g \in Frames : g # f => mem'[g] = mem[g]
      /\ \A g \in Frames : mem[g] \in Int /\ mem'[g] >= mem[g]
      /\ \A p \in Pages : disk[p] \in Int
  <2>1. mem \in [Frames -> 0 .. MaxVersion] /\ disk \in [Pages -> 0 .. MaxVersion]
    BY <1>2 DEF PoolTypes
  <2>2. mem[f] + 1 \in 0 .. MaxVersion
    BY <2>1, <1>2
  <2>3. mem'[f] = mem[f] + 1 /\ mem' \in [Frames -> 0 .. MaxVersion]
    BY <2>1, <2>2
  <2>4. \A g \in Frames : g # f => mem'[g] = mem[g]
    BY <2>1
  <2>5. \A g \in Frames : mem[g] \in Int /\ mem'[g] >= mem[g]
    BY <2>1, <2>3, <2>4
  <2> QED BY <2>1, <2>3, <2>4, <2>5
<1>5. \A y \in Requests : Evicts(y) => Old(y)' = Old(y) /\ Rq(y).frame \in Frames /\ Old(y) \in Pages
  <2>1. \A y \in Requests : Evicts(y) => Rq(y).frame \in Frames /\ Old(y) \in Pages
    BY <1>2 DEF PhaseInv, OnePhase, Carries, Evicts
  <2> QED BY <2>1, <1>1, <1>3 DEF Old
<1>6. \A g \in Frames, p \in Pages : Holds(g, p) => Holds(g, p)'
  BY <1>3, <1>4 DEF Holds
<1>7. \A y \in Requests : Carries(y) => Rq(y).frame # f /\ Rq(y).frame \in Frames
  <2>1. f \in repl
    BY <1>2, RequestTypes DEF PhaseInv, OnePhase, TableInv
  <2> QED BY <2>1, <1>2 DEF PhaseInv, OnePhase
<1>8. PhaseInv'
  <2>1. ASSUME NEW y \in Requests PROVE OnePhase(y)'
    <3>1. OnePhase(y)
      BY <1>2 DEF PhaseInv
    <3> QED BY <3>1, <1>1, <1>5 DEF OnePhase
  <2>2. ASSUME NEW y \in Requests, NEW z \in Requests, y # z PROVE TwoPhases(y, z)'
    <3>1. TwoPhases(y, z)
      BY <1>2, <2>2 DEF PhaseInv
    <3> QED BY <3>1, <1>1, <1>5 DEF TwoPhases
  <2> QED BY <2>1, <2>2, <1>1 DEF PhaseInv
<1>9. HeldInv'
  BY <1>1, <1>2, <1>5 DEF HeldInv
<1>10. TableInv' /\ PoolTypes'
  <2>1. TableInv'
    BY <1>2, <1>3 DEF TableInv, PoolTypes
  <2> QED BY <2>1, <1>2, <1>3, <1>4 DEF PoolTypes
<1>11. PinsExact'
  <2>1. \A g : Pins(g)' = Pins(g)
    BY <1>1 DEF Pins
  <2> QED BY <2>1, <1>2, <1>3 DEF PinsExact
<1>12. DataInv'
  <2>1. \A p \in Pages : mapping[p] \in Frames => Holds(mapping[p], p)'
    BY <1>2, <1>6 DEF DataInv, Holds
  <2>2. ASSUME NEW y \in Requests
        PROVE /\ Evicts(y)' => Holds(Rq(y).frame, Old(y))'
              /\ Rq(y)'.io = "done" => mem'[Rq(y)'.frame] = disk'[Rq(y)'.page]
    <3>1. /\ Evicts(y) => Holds(Rq(y).frame, Old(y))
          /\ Rq(y).io = "done" => mem[Rq(y).frame] = disk[Rq(y).page] /\ Carries(y)
      BY <1>2 DEF DataInv, PhaseInv, OnePhase, Carries
    <3>2. Evicts(y) => Holds(Rq(y).frame, Old(y))'
      BY <3>1, <1>1, <1>5, <1>6 DEF Holds
    <3> QED BY <3>1, <3>2, <1>1, <1>4, <1>7
  <2> QED BY <2>1, <2>2, <1>1 DEF DataInv
<1>13. KeepsWrites
  <2>1. \A p \in Pages, g \in Frames : Live(p, g)' <=> Live(p, g)
    BY <1>1, <1>5 DEF Live
  <2> QED BY <2>1, <1>2, <1>4, <1>8, <1>10, VersionStep
<1> QED BY <1>8, <1>9, <1>10, <1>11, <1>12, <1>13 DEF PoolInv

\* Requests that are new have nothing yet.
LEMMA AskedStep ==
  ASSUME Parameters, TypeOK, PoolInv, NEW New, Requests' = Requests \cup New,
         \A y \in Requests : Rq(y)' = Rq(y),
         \A y \in New : Rq(y)'.phase = "Begin" /\ Rq(y)'.frame = None /\ Rq(y)'.io = "none",
         UNCHANGED <<table, mem, disk>>
  PROVE  PoolInv' /\ KeepsWrites
<1>1. UNCHANGED <<mapping, pte, free, repl, mem, disk>>
  BY DEF table
<1>2. /\ PhaseInv /\ TableInv /\ PoolTypes /\ HeldInv /\ DataInv /\ PinsExact
  BY DEF PoolInv
<1>3. /\ \A y \in Requests : /\ Locks(y)' <=> Locks(y)
                             /\ Carries(y)' <=> Carries(y)
                             /\ Evicts(y)' <=> Evicts(y)
                             /\ Ended(y)' <=> Ended(y)
      /\ \A y \in New : ~Locks(y)' /\ ~Carries(y)' /\ ~Evicts(y)' /\ ~Ended(y)'
  BY DEF Locks, Carries, Evicts, Ended
<1>4. \A y \in Requests : Old(y)' = Old(y)
  BY <1>1 DEF Old
<1>5. PhaseInv'
  <2>1. ASSUME NEW y \in Requests PROVE OnePhase(y)'
    <3>1. OnePhase(y)
      BY <1>2 DEF PhaseInv
    <3> QED BY <3>1, <1>1, <1>3, <1>4 DEF OnePhase
  <2>2. \A y \in New : OnePhase(y)'
    BY <1>3 DEF OnePhase
  <2>3. ASSUME NEW y \in Requests, NEW z \in Requests, y # z PROVE TwoPhases(y, z)'
    <3>1. TwoPhases(y, z)
      BY <1>2, <2>3 DEF PhaseInv
    <3> QED BY <3>1, <1>3, <1>4 DEF TwoPhases
  <2>4. \A y \in New : \A z : TwoPhases(y, z)' /\ TwoPhases(z, y)'
    BY <1>3 DEF TwoPhases
  <2> QED BY <2>1, <2>2, <2>3, <2>4 DEF PhaseInv
<1>6. HeldInv'
  BY <1>1, <1>2, <1>3, <1>4 DEF HeldInv
<1>7. TableInv' /\ PoolTypes'
  BY <1>1, <1>2 DEF TableInv, PoolTypes
<1>8. PinsExact'
  <2>1. \A g : Pins(g)' = Pins(g)
    BY <1>3 DEF Pins, Ended
  <2> QED BY <2>1, <1>1, <1>2 DEF PinsExact
<1>9. DataInv'
  <2>1. \A f, p : Holds(f, p)' <=> Holds(f, p)
    BY <1>1 DEF Holds
  <2> QED BY <2>1, <1>1, <1>2, <1>3, <1>4 DEF DataInv
<1>10. KeepsWrites
  <2>1. \A p \in Pages : \A g \in Frames : Live(p, g)' <=> Live(p, g)
    BY <1>1, <1>3, <1>4 DEF Live
  <2>2. /\ \A g \in Frames : mem[g] \in Int
        /\ \A p \in Pages : disk[p] \in Int
    BY <1>2 DEF PoolTypes
  <2> QED BY <2>1, <2>2, <1>1, <1>2, <1>5, <1>7, VersionStep
<1> QED BY <1>5, <1>6, <1>7, <1>8, <1>9, <1>10 DEF PoolInv

\* Requests that have ended go, with their references.
LEMMA DestroyedStep ==
  ASSUME Parameters, TypeOK, PoolInv, NEW Gone \in SUBSET Requests, \A y \in Gone : Ended(y),
         Requests' = Requests \ Gone,
         \A y \in Requests' : Rq(y)' = Rq(y),
         pte' = [f \in Frames |-> [pte[f] EXCEPT !.ref = @ - Cardinality(Pins(f) \cap Gone)]],
         UNCHANGED <<mapping, free, repl, mem, disk>>
  PROVE  PoolInv' /\ KeepsWrites
<1>1. /\ PhaseInv /\ TableInv /\ PoolTypes /\ HeldInv /\ DataInv /\ PinsExact
  BY DEF PoolInv
<1>2. /\ \A y \in Requests' : /\ y \in Requests
                              /\ Locks(y)' <=> Locks(y)
                              /\ Carries(y)' <=> Carries(y)
                              /\ Evicts(y)' <=> Evicts(y)
                              /\ Ended(y)' <=> Ended(y)
      /\ \A y \in Requests : Locks(y) \/ Carries(y) \/ Evicts(y) => y \in Requests'
  BY DEF Locks, Carries, Evicts, Ended
<1>3. ASSUME NEW f \in Frames
      PROVE  /\ Pins(f)' = Pins(f) \ Gone
             /\ Cardinality(Pins(f)') = pte[f].ref - Cardinality(Pins(f) \cap Gone)
             /\ Cardinality(Pins(f)') \in Nat
  <2>1. Pins(f)' = Pins(f) \ Gone
    BY <1>2 DEF Pins
  <2>2. IsFiniteSet(Pins(f)) /\ pte[f].ref = Cardinality(Pins(f))
    BY <1>1, PinsFinite DEF PinsExact
  <2>3. Cardinality(Pins(f) \ Gone) = Cardinality(Pins(f)) - Cardinality(Pins(f) \cap Gone)
    BY <2>2, FS_Difference
  <2>4. IsFiniteSet(Pins(f) \ Gone)
    BY <2>2, FS_Difference
  <2>5. Cardinality(Pins(f) \ Gone) \in Nat
    BY <2>4, FS_CardinalityType
  <2> QED BY <2>1, <2>2, <2>3, <2>5
<1>4. /\ \A f \in Frames : pte'[f].page = pte[f].page /\ pte'[f].dirty = pte[f].dirty
      /\ \A f \in Frames : pte'[f].ref = pte[f].ref - Cardinality(Pins(f) \cap Gone)
  BY <1>1 DEF PoolTypes
<1>5. \A f \in Frames : pte'[f].ref = Cardinality(Pins(f)')
  BY <1>3, <1>4
<1>6. pte' \in [Frames -> [page : Pages \cup {None}, ref : Nat, dirty : BOOLEAN]]
  <2>1. ASSUME NEW f \in Frames
        PROVE [pte[f] EXCEPT !.ref = @ - Cardinality(Pins(f) \cap Gone)]
                \in [page : Pages \cup {None}, ref : Nat, dirty : BOOLEAN]
    <3>1. pte[f] \in [page : Pages \cup {None}, ref : Nat, dirty : BOOLEAN]
      BY <1>1 DEF PoolTypes
    <3>2. pte[f].ref - Cardinality(Pins(f) \cap Gone) \in Nat
      BY <1>3
    <3> QED BY <3>1, <3>2
  <2> QED BY <2>1
<1>7. \A y \in Requests' : Evicts(y) => Old(y)' = Old(y)
  <2>1. \A y \in Requests : Evicts(y) => Rq(y).frame \in Frames
    BY <1>1 DEF PhaseInv, OnePhase, Carries, Evicts
  <2> QED BY <2>1, <1>2, <1>4 DEF Old
<1>8. PhaseInv'
  <2>1. ASSUME NEW y \in Requests' PROVE OnePhase(y)'
    <3>1. OnePhase(y)
      BY <1>1, <1>2 DEF PhaseInv
    <3> QED BY <3>1, <1>2, <1>7 DEF OnePhase
  <2>2. ASSUME NEW y \in Requests', NEW z \in Requests', y # z PROVE TwoPhases(y, z)'
    <3>1. TwoPhases(y, z)
      BY <1>1, <1>2, <2>2 DEF PhaseInv
    <3> QED BY <3>1, <1>2, <1>7 DEF TwoPhases
  <2> QED BY <2>1, <2>2 DEF PhaseInv
<1>9. HeldInv'
  <2>1. ASSUME NEW p \in Pages, mapping[p] = Busy
        PROVE  \E y \in Requests' : (Locks(y) /\ Rq(y).page = p)' \/ (Evicts(y) /\ Old(y) = p)'
    <3>1. PICK y \in Requests : (Locks(y) /\ Rq(y).page = p) \/ (Evicts(y) /\ Old(y) = p)
      BY <2>1, <1>1 DEF HeldInv
    <3> QED BY <3>1, <1>2, <1>7
  <2>2. ASSUME NEW g \in Frames \ (free \cup repl)
        PROVE  \E y \in Requests' : (Carries(y) /\ Rq(y).frame = g)'
    <3>1. PICK y \in Requests : Carries(y) /\ Rq(y).frame = g
      BY <2>2, <1>1 DEF HeldInv
    <3> QED BY <3>1, <1>2
  <2> QED BY <2>1, <2>2 DEF HeldInv
<1>10. TableInv' /\ PoolTypes'
  <2>1. TableInv'
    BY <1>1, <1>4 DEF TableInv, PoolTypes
  <2> QED BY <2>1, <1>1, <1>6 DEF PoolTypes
<1>11. PinsExact'
  BY <1>5 DEF PinsExact
<1>12. DataInv'
  <2>1. \A f \in Frames : \A p : Holds(f, p)' <=> Holds(f, p)
    BY <1>4 DEF Holds
  <2>2. \A y \in Requests : Evicts(y) => Rq(y).frame \in Frames
    BY <1>1 DEF PhaseInv, OnePhase, Carries, Evicts
  <2>3. ASSUME NEW y \in Requests'
        PROVE /\ Evicts(y)' => Holds(Rq(y).frame, Old(y))'
              /\ Rq(y)'.io = "done" => mem'[Rq(y)'.frame] = disk'[Rq(y)'.page]
    <3>1. /\ Evicts(y) => Holds(Rq(y).frame, Old(y))
          /\ Rq(y).io = "done" => mem[Rq(y).frame] = disk[Rq(y).page]
          /\ y \in Requests
      BY <1>1, <1>2 DEF DataInv
    <3> QED BY <3>1, <2>1, <2>2, <1>2, <1>7 DEF Holds
  <2>4. \A p \in Pages : mapping'[p] \in Frames => Holds(mapping[p], p)'
    BY <2>1, <1>1 DEF DataInv
  <2> QED BY <2>3, <2>4 DEF DataInv
<1>13. KeepsWrites
  <2>1. \A p \in Pages : \A g \in Frames : Live(p, g)' <=> Live(p, g)
    BY <1>2, <1>7 DEF Live
  <2>2. /\ \A g \in Frames : mem[g] \in Int
        /\ \A p \in Pages : disk[p] \in Int
    BY <1>1 DEF PoolTypes
  <2> QED BY <2>1, <2>2, <1>1, <1>8, <1>10, VersionStep
<1> QED BY <1>8, <1>9, <1>10, <1>11, <1>12, <1>13 DEF PoolInv

-----------------------------------------------------------------------------
(* The loops of the callers. *)

LEMMA LeastIs ==
  ASSUME NEW T, T \subseteq Nat, T # {}
  PROVE  Least(T) \in T /\ \A y \in T : Least(T) <= y
<1>1. PICK R : R = OpToRel(<, Nat)
  OBVIOUS
<1>2. IsWellFoundedOn(R, Nat)
  BY <1>1, NatLessThanWellFounded
<1>3. PICK x \in T : \A y \in T : ~(<<y, x>> \in R)
  BY <1>2, WFMin
<1>4. \A y \in T : y < x => <<y, x>> \in R
  BY <1>1 DEF OpToRel
<1>5. \A y \in T : ~(y < x) /\ y \in Nat /\ x \in Nat
  BY <1>3, <1>4
<1>6. x \in T /\ \A y \in T : x <= y
  BY <1>5
<1> QED BY <1>6 DEF Least

\* The list of requests q after an answer ok for the one under way, of which it is known:
Answered(t, q, ok) ==
  /\ q \in Seq(Req) /\ Len(q) = Len(rq[t])
  /\ \A j \in 1 .. Len(q) : j # at[t] => q[j] = rq[t][j]
  /\ LET s == q[at[t]] IN
     /\ kind[t] = "Sync" => Done(s)
     /\ kind[t] = "Sync1" => Loaded(s) /\ (pc[t] = "wait" => Done(s))
     /\ kind[t] \in {"Async1", "New"} /\ pc[t] = "wait" /\ ok => Done(s)
     /\ kind[t] \in {"Batch1", "Round"} => (s.ins => s.phase = "End")

\* The next place l, for request n, is one where the call may be.
Reached(t, q, ok, l, n) ==
  /\ After(t, q, ok) = <<l, n>> /\ l \in {"pin", "again", "wait", "held"}
  /\ n \in 1 .. Len(q) /\ CallOf(kind[t], l, n, q)

Calling(t) == /\ t \in Threads /\ TypeOK /\ Working(t)
              /\ CallOf(kind[t], pc[t], at[t], rq[t])

LEMMA CallIs ==
  ASSUME NEW t, Calling(t), NEW q, NEW ok, Answered(t, q, ok)
  PROVE  /\ at[t] \in 1 .. Len(q) /\ Len(q) \in Nat /\ kind[t] \in Callers
         /\ pc[t] \in {"pin", "first", "again", "wait"}
         /\ \A j \in 1 .. Len(q) : q[j] \in Req /\ q[j].ins \in BOOLEAN
<1>1. kind[t] \in Callers /\ pc[t] \in {"pin", "first", "again", "wait"}
  BY DEF Calling, Working, TypeOK
<1>2. q \in Seq(Req) /\ Len(q) = Len(rq[t])
  BY DEF Answered
<1>3. at[t] \in 1 .. Len(q)
  BY <1>1, <1>2 DEF Calling, CallOf
<1>4. \A j \in 1 .. Len(q) : q[j] \in Req
  BY <1>2
<1>5. \A s \in Req : s.ins \in BOOLEAN
  BY DEF Req
<1> QED BY <1>1, <1>2, <1>3, <1>4, <1>5

\* The first loop goes on to a request that has not been begun.
LEMMA NextOfFirst ==
  ASSUME NEW t, Calling(t), NEW q, NEW ok, Answered(t, q, ok), InFirstLoop(t, q)
  PROVE  at[t] + 1 \in 1 .. Len(q) /\ CallOf(kind[t], "pin", at[t] + 1, q)
<1>1. /\ at[t] \in 1 .. Len(q) /\ at[t] < Len(q) /\ Len(q) \in Nat /\ pc[t] \in {"pin", "first"}
      /\ Len(q) = Len(rq[t])
      /\ \A j \in 1 .. Len(q) : j # at[t] => q[j] = rq[t][j]
  BY CallIs DEF InFirstLoop, Answered
<1>2. \A j \in at[t] + 1 .. Len(q) : q[j].phase = "Begin" /\ ~q[j].ins
  BY <1>1 DEF Calling, CallOf
<1>3. kind[t] = "Sync" => \A j \in 1 .. at[t] : Done(q[j])
  BY <1>1 DEF Calling, CallOf, Answered
<1>4. kind[t] = "Sync1" => \A j \in 1 .. at[t] : Loaded(q[j])
  BY <1>1 DEF Calling, CallOf, Answered
<1>5. kind[t] \in {"Batch1", "Round"} => \A j \in 1 .. Len(q) : q[j].ins => q[j].phase = "End"
  BY <1>1 DEF Calling, CallOf, Answered
<1>6. at[t] + 1 \in 1 .. Len(q) /\ (at[t] + 1) - 1 = at[t]
  BY <1>1
<1> QED BY <1>2, <1>3, <1>4, <1>5, <1>6 DEF CallOf

LEMMA SyncAnswered ==
  ASSUME NEW t, Calling(t), NEW q, NEW ok, Answered(t, q, ok), kind[t] = "Sync"
  PROVE  \E l, n : Reached(t, q, ok, l, n)
<1>1. /\ at[t] \in 1 .. Len(q) /\ Len(q) \in Nat /\ pc[t] \in {"pin", "first", "again", "wait"}
      /\ Len(q) = Len(rq[t])
      /\ \A j \in 1 .. Len(q) : j # at[t] => q[j] = rq[t][j]
  BY CallIs DEF Answered
<1>2. \A j \in 1 .. at[t] : Done(q[j])
  BY <1>1 DEF Calling, CallOf, Answered
<1>3. After(t, q, ok) = AfterSync(t, q, ok)
  BY DEF After
<1>4. CASE at[t] < Len(q)
  <2>1. After(t, q, ok) = <<"pin", at[t] + 1>>
    BY <1>3, <1>4 DEF AfterSync
  <2>2. pc[t] \in {"pin", "first"} => at[t] + 1 \in 1 .. Len(q) /\ CallOf(kind[t], "pin", at[t] + 1, q)
    BY <1>4, NextOfFirst DEF InFirstLoop
  <2>3. pc[t] \in {"pin", "first"}
    BY <1>1 DEF Calling, CallOf
  <2> QED BY <2>1, <2>2, <2>3 DEF Reached
<1>5. CASE ~(at[t] < Len(q))
  <2>1. After(t, q, ok) = <<"held", 1>>
    BY <1>3, <1>5 DEF AfterSync
  <2>2. at[t] = Len(q) /\ 1 \in 1 .. Len(q)
    BY <1>1, <1>5
  <2>3. CallOf(kind[t], "held", 1, q)
    BY <1>2, <2>2 DEF CallOf
  <2> QED BY <2>1, <2>2, <2>3 DEF Reached
<1> QED BY <1>4, <1>5

LEMMA Sync1Answered ==
  ASSUME NEW t, Calling(t), NEW q, NEW ok, Answered(t, q, ok), kind[t] = "Sync1"
  PROVE  \E l, n : Reached(t, q, ok, l, n)
<1>1. /\ at[t] \in 1 .. Len(q) /\ Len(q) \in Nat /\ pc[t] \in {"pin", "first", "wait"}
      /\ Len(q) = Len(rq[t])
      /\ \A j \in 1 .. Len(q) : j # at[t] => q[j] = rq[t][j]
  BY CallIs DEF Answered, Calling, CallOf
<1> DEFINE todo == {j \in 1 .. Len(q) : q[j].phase # "End" /\ (pc[t] = "wait" => j > at[t])}
<1>2. After(t, q, ok) = IF InFirstLoop(t, q) THEN <<"pin", at[t] + 1>>
                        ELSE IF todo = {} THEN <<"held", 1>> ELSE <<"wait", Least(todo)>>
  BY DEF After, AfterSync1
<1>3. CASE InFirstLoop(t, q)
  BY <1>2, <1>3, NextOfFirst DEF Reached
<1>4. CASE ~InFirstLoop(t, q)
  <2>1. \A j \in 1 .. Len(q) : Loaded(q[j])
    <3>1. CASE pc[t] = "wait"
      BY <1>1, <3>1 DEF Calling, CallOf, Answered
    <3>2. CASE pc[t] # "wait"
      <4>1. at[t] = Len(q)
        BY <1>1, <1>4, <3>2 DEF InFirstLoop
      <4> QED BY <1>1, <4>1, <3>2 DEF Calling, CallOf, Answered
    <3> QED BY <3>1, <3>2
  <2>2. \A j \in 1 .. Len(q) : j \notin todo => Done(q[j])
    <3>1. ASSUME NEW j \in 1 .. Len(q), pc[t] = "wait", ~(j > at[t]) PROVE Done(q[j])
      BY <1>1, <3>1 DEF Calling, CallOf, Answered
    <3> QED BY <2>1, <3>1 DEF Done, Loaded
  <2>3. CASE todo = {}
    <3>1. After(t, q, ok) = <<"held", 1>> /\ 1 \in 1 .. Len(q)
      BY <1>1, <1>2, <1>4, <2>3
    <3>2. CallOf(kind[t], "held", 1, q)
      BY <2>2, <2>3 DEF CallOf
    <3> QED BY <3>1, <3>2 DEF Reached
  <2>4. CASE todo # {}
    <3>1. After(t, q, ok) = <<"wait", Least(todo)>>
      BY <1>2, <1>4, <2>4
    <3>2. Least(todo) \in todo /\ \A y \in todo : Least(todo) <= y
      <4>1. todo \subseteq Nat
        OBVIOUS
      <4> HIDE DEF todo
      <4> QED BY <2>4, <4>1, LeastIs
    <3>3. Least(todo) \in 1 .. Len(q)
      BY <3>2
    <3>4. ASSUME NEW j \in 1 .. Least(todo) - 1 PROVE Done(q[j])
      <4>1. j \in 1 .. Len(q) /\ ~(Least(todo) <= j)
        BY <3>3, <1>1
      <4>2. j \notin todo
        BY <4>1, <3>2
      <4> QED BY <4>1, <4>2, <2>2
    <3>5. CallOf(kind[t], "wait", Least(todo), q)
      <4> HIDE DEF todo
      <4> QED BY <2>1, <3>3, <3>4 DEF CallOf
    <3> QED BY <3>1, <3>3, <3>5 DEF Reached
  <2> QED BY <2>3, <2>4
<1> QED BY <1>3, <1>4

LEMMA NewAnswered ==
  ASSUME NEW t, Calling(t), NEW q, NEW ok, Answered(t, q, ok), kind[t] \in {"New", "Async1"}
  PROVE  \E l, n : Reached(t, q, ok, l, n)
<1>1. /\ at[t] \in 1 .. Len(q) /\ Len(q) \in Nat /\ pc[t] \in {"pin", "first", "wait"}
      /\ Len(q) = Len(rq[t])
      /\ \A j \in 1 .. Len(q) : j # at[t] => q[j] = rq[t][j]
  BY CallIs DEF Answered, Calling, CallOf
<1>2. After(t, q, ok) =
        IF InFirstLoop(t, q) THEN <<"pin", at[t] + 1>>
        ELSE IF pc[t] \in {"pin", "first"} THEN <<"wait", 1>>
        ELSE IF ~ok THEN <<"wait", at[t]>>
        ELSE IF at[t] < Len(q) THEN <<"wait", at[t] + 1>> ELSE <<"held", 1>>
  BY DEF After, AfterAsync1, AfterNew
<1>3. CASE InFirstLoop(t, q)
  BY <1>2, <1>3, NextOfFirst DEF Reached
<1>4. CASE ~InFirstLoop(t, q) /\ pc[t] \in {"pin", "first"}
  <2>1. After(t, q, ok) = <<"wait", 1>> /\ 1 \in 1 .. Len(q)
    BY <1>1, <1>2, <1>4
  <2>2. CallOf(kind[t], "wait", 1, q)
    BY <2>1 DEF CallOf
  <2> QED BY <2>1, <2>2 DEF Reached
<1>5. CASE pc[t] = "wait" /\ ~ok
  <2>1. After(t, q, ok) = <<"wait", at[t]>>
    BY <1>2, <1>5 DEF InFirstLoop
  <2>2. \A j \in 1 .. at[t] - 1 : Done(q[j])
    BY <1>1, <1>5 DEF Calling, CallOf
  <2>3. CallOf(kind[t], "wait", at[t], q)
    BY <1>1, <2>2 DEF CallOf
  <2> QED BY <1>1, <2>1, <2>3 DEF Reached
<1>6. CASE pc[t] = "wait" /\ ok
  <2>1. \A j \in 1 .. at[t] : Done(q[j])
    BY <1>1, <1>6 DEF Calling, CallOf, Answered
  <2>2. CASE at[t] < Len(q)
    <3>1. After(t, q, ok) = <<"wait", at[t] + 1>> /\ at[t] + 1 \in 1 .. Len(q)
      BY <1>1, <1>2, <1>6, <2>2 DEF InFirstLoop
    <3>2. CallOf(kind[t], "wait", at[t] + 1, q)
      BY <1>1, <2>1, <3>1 DEF CallOf
    <3> QED BY <3>1, <3>2 DEF Reached
  <2>3. CASE ~(at[t] < Len(q))
    <3>1. After(t, q, ok) = <<"held", 1>>
      BY <1>2, <1>6, <2>3 DEF InFirstLoop
    <3>2. at[t] = Len(q) /\ 1 \in 1 .. Len(q)
      BY <1>1, <2>3
    <3>3. CallOf(kind[t], "held", 1, q)
      BY <2>1, <3>2 DEF CallOf
    <3> QED BY <3>1, <3>2, <3>3 DEF Reached
  <2> QED BY <2>2, <2>3
<1> QED BY <1>1, <1>3, <1>4, <1>5, <1>6

\* The requests that are open: a place to go on, or none.
LEMMA OpenRequests ==
  ASSUME NEW t, Calling(t), NEW q, NEW ok, Answered(t, q, ok), kind[t] \in {"Batch1", "Round"}
  PROVE  /\ \A j \in 1 .. Len(q) : q[j].ins => q[j].phase = "End"
         /\ \A T : T \subseteq Open(q) /\ T # {} => Least(T) \in 1 .. Len(q)
         /\ Open(q) = {} => CallOf(kind[t], "held", 1, q)
         /\ \A n \in 1 .. Len(q) : CallOf(kind[t], "wait", n, q)
         /\ kind[t] = "Round" => \A n \in 1 .. Len(q) : CallOf(kind[t], "again", n, q)
<1>1. /\ at[t] \in 1 .. Len(q) /\ Len(q) \in Nat
      /\ Len(q) = Len(rq[t])
      /\ \A j \in 1 .. Len(q) : j # at[t] => q[j] = rq[t][j]
  BY CallIs DEF Answered
<1>2. \A j \in 1 .. Len(q) : q[j].ins => q[j].phase = "End"
  BY <1>1 DEF Calling, CallOf, Answered
<1>3. ASSUME NEW T, T \subseteq Open(q), T # {} PROVE Least(T) \in 1 .. Len(q)
  <2>1. T \subseteq 1 .. Len(q)
    BY <1>3 DEF Open
  <2>2. T \subseteq Nat
    BY <2>1
  <2> QED BY <1>3, <2>1, <2>2, LeastIs
<1>4. ASSUME Open(q) = {} PROVE CallOf(kind[t], "held", 1, q)
  <2>1. \A j \in 1 .. Len(q) : q[j].ins
    BY <1>4 DEF Open
  <2> QED BY <1>2, <2>1 DEF CallOf, Done
<1>5. \A n \in 1 .. Len(q) : CallOf(kind[t], "wait", n, q)
  BY <1>2 DEF CallOf
<1>6. kind[t] = "Round" => \A n \in 1 .. Len(q) : CallOf(kind[t], "again", n, q)
  BY <1>2 DEF CallOf
<1> QED BY <1>2, <1>3, <1>4, <1>5, <1>6

LEMMA Batch1Answered ==
  ASSUME NEW t, Calling(t), NEW q, NEW ok, Answered(t, q, ok), kind[t] = "Batch1"
  PROVE  \E l, n : Reached(t, q, ok, l, n)
<1>1. at[t] \in 1 .. Len(q) /\ Len(q) \in Nat
  BY CallIs
<1>2. After(t, q, ok) =
        IF InFirstLoop(t, q) THEN <<"pin", at[t] + 1>>
        ELSE IF pc[t] = "wait" /\ ~ok THEN <<"wait", at[t]>>
        ELSE IF Open(q) = {} THEN <<"held", 1>> ELSE <<"wait", Least(Open(q))>>
  BY DEF After, AfterBatch1
<1>3. CASE InFirstLoop(t, q)
  BY <1>2, <1>3, NextOfFirst DEF Reached
<1>4. CASE ~InFirstLoop(t, q) /\ pc[t] = "wait" /\ ~ok
  BY <1>1, <1>2, <1>4, OpenRequests DEF Reached
<1>5. CASE ~InFirstLoop(t, q) /\ ~(pc[t] = "wait" /\ ~ok) /\ Open(q) = {}
  <2>1. 1 \in 1 .. Len(q)
    BY <1>1
  <2> QED BY <2>1, <1>2, <1>5, OpenRequests DEF Reached
<1>6. CASE ~InFirstLoop(t, q) /\ ~(pc[t] = "wait" /\ ~ok) /\ Open(q) # {}
  <2>1. Least(Open(q)) \in 1 .. Len(q)
    BY <1>6, OpenRequests
  <2>2. After(t, q, ok) = <<"wait", Least(Open(q))>>
    BY <1>2, <1>6
  <2>3. CallOf(kind[t], "wait", Least(Open(q)), q)
    BY <2>1, OpenRequests
  <2> QED BY <2>1, <2>2, <2>3 DEF Reached
<1> QED BY <1>3, <1>4, <1>5, <1>6

LEMMA RoundAnswered ==
  ASSUME NEW t, Calling(t), NEW q, NEW ok, Answered(t, q, ok), kind[t] = "Round"
  PROVE  \E l, n : Reached(t, q, ok, l, n)
<1>1. at[t] \in 1 .. Len(q) /\ Len(q) \in Nat /\ pc[t] \in {"pin", "first", "again", "wait"}
  BY CallIs
<1> DEFINE later == {j \in Open(q) : j > at[t]}
<1>2. After(t, q, ok) = AfterRound(t, q, ok)
  BY DEF After
<1>3. CASE InFirstLoop(t, q)
  <2>1. After(t, q, ok) = <<"pin", at[t] + 1>>
    BY <1>2, <1>3 DEF AfterRound
  <2> QED BY <2>1, <1>3, NextOfFirst DEF Reached
<1>4. CASE ~InFirstLoop(t, q) /\ Open(q) = {}
  <2>1. After(t, q, ok) = <<"held", 1>>
    BY <1>2, <1>4 DEF AfterRound
  <2>2. 1 \in 1 .. Len(q)
    BY <1>1
  <2> QED BY <2>1, <2>2, <1>4, OpenRequests DEF Reached
<1>5. CASE ~InFirstLoop(t, q) /\ Open(q) # {}
  <2>1. \E T \in {Open(q), later} : T # {} /\ After(t, q, ok) \in {<<"again", Least(T)>>, <<"wait", Least(T)>>, <<"wait", at[t]>>}
    <3>1. CASE pc[t] \in {"pin", "first"}
      <4>1. After(t, q, ok) = <<"again", Least(Open(q))>>
        BY <3>1, <1>2, <1>5 DEF AfterRound
      <4> QED BY <4>1, <1>5
    <3>2. CASE pc[t] = "wait" /\ ~ok /\ Cur(t).phase = "LoadingFinish"
      <4>1. After(t, q, ok) = <<"wait", at[t]>>
        BY <3>2, <1>2, <1>5 DEF AfterRound
      <4> QED BY <4>1, <1>5
    <3>3. CASE pc[t] = "again" /\ later # {}
      <4>1. After(t, q, ok) = <<"again", Least(later)>>
        BY <3>3, <1>2, <1>5 DEF AfterRound
      <4> QED BY <4>1, <3>3
    <3>4. CASE pc[t] = "again" /\ later = {}
      <4>1. After(t, q, ok) = <<"wait", Least(Open(q))>>
        BY <3>4, <1>2, <1>5 DEF AfterRound
      <4> QED BY <4>1, <1>5
    <3>5. CASE pc[t] = "wait" /\ ~(~ok /\ Cur(t).phase = "LoadingFinish")
      <4>1. After(t, q, ok) = <<"wait", Least(IF later # {} THEN later ELSE Open(q))>>
        BY <3>5, <1>2, <1>5 DEF AfterRound
      <4>2. CASE later # {}
        <5>1. After(t, q, ok) = <<"wait", Least(later)>>
          BY <4>1, <4>2
        <5> QED BY <5>1, <4>2
      <4>3. CASE later = {}
        <5>1. After(t, q, ok) = <<"wait", Least(Open(q))>>
          BY <4>1, <4>3
        <5> QED BY <5>1, <1>5
      <4> QED BY <4>2, <4>3
    <3> QED BY <1>1, <3>1, <3>2, <3>3, <3>4, <3>5
  <2>2. PICK T \in {Open(q), later} :
          T # {} /\ After(t, q, ok) \in {<<"again", Least(T)>>, <<"wait", Least(T)>>, <<"wait", at[t]>>}
    BY <2>1
  <2>3. T \subseteq Open(q)
    BY <2>2
  <2>4. Least(T) \in 1 .. Len(q)
    BY <2>2, <2>3, OpenRequests
  <2>5. CASE After(t, q, ok) = <<"again", Least(T)>>
    <3>1. CallOf(kind[t], "again", Least(T), q)
      BY <2>4, OpenRequests
    <3> QED BY <2>4, <2>5, <3>1 DEF Reached
  <2>6. CASE After(t, q, ok) = <<"wait", Least(T)>>
    <3>1. CallOf(kind[t], "wait", Least(T), q)
      BY <2>4, OpenRequests
    <3> QED BY <2>4, <2>6, <3>1 DEF Reached
  <2>7. CASE After(t, q, ok) = <<"wait", at[t]>>
    <3>1. CallOf(kind[t], "wait", at[t], q)
      BY <1>1, OpenRequests
    <3> QED BY <1>1, <2>7, <3>1 DEF Reached
  <2> QED BY <2>2, <2>5, <2>6, <2>7
<1> QED BY <1>3, <1>4, <1>5

LEMMA AnswerReached ==
  ASSUME NEW t, Calling(t), NEW q, NEW ok, Answered(t, q, ok)
  PROVE  \E l, n : Reached(t, q, ok, l, n)
<1>1. kind[t] \in {"Sync", "Sync1", "Async1", "New", "Batch1", "Round"}
  BY CallIs DEF Callers
<1> QED BY <1>1, SyncAnswered, Sync1Answered, NewAnswered, Batch1Answered, RoundAnswered

-----------------------------------------------------------------------------
(* What a step does to the calls. *)

CallTypes ==
  /\ pc \in [Threads -> {"idle", "pin", "first", "again", "wait", "held", "exhausted"}]
  /\ kind \in [Threads -> Callers] /\ rq \in [Threads -> Seq(Req)]
  /\ at \in [Threads -> Nat] /\ left \in [Threads -> 0 .. Calls]

LEMMA TypeParts ==
  TypeOK <=> PoolTypes /\ CallTypes
BY DEF TypeOK, PoolTypes, CallTypes

LEMMA CallOfThread ==
  ASSUME TypeOK, CallInv, NEW t \in Threads, Working(t)
  PROVE  /\ Calling(t) /\ at[t] \in 1 .. Len(rq[t]) /\ at[t] \in Nat /\ Len(rq[t]) \in Nat
         /\ <<t, at[t]>> \in Requests /\ Rq(<<t, at[t]>>) = Cur(t) /\ Cur(t) \in Req
         /\ kind[t] \in Callers /\ pc[t] \in {"pin", "first", "again", "wait"}
<1>1. Calling(t)
  BY DEF Calling, CallInv
<1>2. at[t] \in 1 .. Len(rq[t])
  BY DEF CallInv, CallOf, Working
<1>3. rq[t] \in Seq(Req) /\ at[t] \in Nat /\ kind[t] \in Callers
  BY DEF TypeOK
<1>4. <<t, at[t]>> \in Requests /\ Rq(<<t, at[t]>>) = Cur(t)
  BY <1>2, IsRequest DEF Cur
<1>5. Cur(t) \in Req /\ Len(rq[t]) \in Nat
  BY <1>2, <1>3 DEF Cur
<1> QED BY <1>1, <1>2, <1>3, <1>4, <1>5 DEF Working

\* The calls of the other threads are where they were.
LEMMA OtherCalls ==
  ASSUME TypeOK, CallInv, NEW t \in Threads, UNCHANGED kind,
         NEW l, NEW n, pc' = [pc EXCEPT ![t] = l], at' = [at EXCEPT ![t] = n],
         \A u \in Threads : u # t => rq'[u] = rq[u],
         CallOf(kind[t], l, n, rq'[t])
  PROVE  CallInv'
<1>1. pc'[t] = l /\ at'[t] = n
  BY DEF TypeOK
<1>2. \A u \in Threads : u # t => pc'[u] = pc[u] /\ at'[u] = at[u]
  BY DEF TypeOK
<1>3. ASSUME NEW u \in Threads PROVE CallOf(kind'[u], pc'[u], at'[u], rq'[u])
  <2>1. CASE u = t
    BY <2>1, <1>1
  <2>2. CASE u # t
    <3>1. CallOf(kind[u], pc[u], at[u], rq[u])
      BY DEF CallInv
    <3>2. kind'[u] = kind[u] /\ pc'[u] = pc[u] /\ at'[u] = at[u] /\ rq'[u] = rq[u]
      BY <2>2, <1>2
    <3> QED BY <3>1, <3>2
  <2> QED BY <2>1, <2>2
<1> QED BY <1>3 DEF CallInv

\* The fetch returns.
LEMMA ReturnStep ==
  ASSUME TypeOK, CallInv, NEW t \in Threads, Working(t), NEW i, i = at[t],
         NEW r \in Req, NEW ok \in BOOLEAN,
         r.page = Cur(t).page, r.ins = Cur(t).ins,
         Return(t, r, ok), UNCHANGED <<kind, left>>,
         ok => r.phase = "End",
         kind[t] = "Sync" => ok,
         kind[t] = "Sync1" => r.phase \in {"Loading", "End"} /\ (pc[t] = "wait" => r.phase = "End"),
         kind[t] \in {"Batch1", "Round"} /\ Cur(t).ins => r.phase = "End"
  PROVE  CallInv' /\ CallTypes' /\ Turns(<<t, i>>, r.phase, r.frame, r.io)
<1>1. /\ Calling(t) /\ at[t] \in 1 .. Len(rq[t]) /\ Cur(t) \in Req /\ Cur(t) = rq[t][at[t]]
      /\ kind[t] \in Callers /\ rq[t] \in Seq(Req) /\ pc[t] \in {"pin", "first", "again", "wait"}
  BY CallOfThread DEF Cur, TypeOK
<1> DEFINE ins == CASE kind[t] \in {"Sync", "Sync1"} -> TRUE
                    [] kind[t] \in {"Async1", "New"} -> ok /\ pc[t] = "wait"
                    [] kind[t] \in {"Batch1", "Round"} -> ok /\ pc[t] \in {"pin", "wait"}
           s == [r EXCEPT !.ins = @ \/ ins]
           q == [rq[t] EXCEPT ![at[t]] = s]
           next == After(t, q, ok)
<1>2. /\ rq' = [rq EXCEPT ![t] = q]
      /\ pc' = [pc EXCEPT ![t] = next[1]] /\ at' = [at EXCEPT ![t] = next[2]]
  BY DEF Return, Goto
<1>3. /\ kind[t] \in {"Sync", "Sync1"} => ins
      /\ kind[t] \in {"Async1", "New"} /\ pc[t] = "wait" /\ ok => ins
      /\ kind[t] \in {"Batch1", "Round"} /\ ins => ok
  BY <1>1 DEF Callers
<1> HIDE DEF ins
<1>4. /\ s \in Req /\ s.page = r.page /\ s.phase = r.phase /\ s.frame = r.frame /\ s.io = r.io
      /\ s.ins <=> r.ins \/ ins
  BY DEF Req
<1> HIDE DEF s
<1>5. /\ q \in Seq(Req) /\ Len(q) = Len(rq[t]) /\ q[at[t]] = s
      /\ \A j \in 1 .. Len(q) : j # at[t] => q[j] = rq[t][j]
  BY <1>1, <1>4
<1>6. /\ rq' \in [Threads -> Seq(Req)] /\ rq'[t] = q
      /\ \A u \in Threads : u # t => rq'[u] = rq[u]
      /\ Turns(<<t, i>>, r.phase, r.frame, r.io)
  <2>1. s.page = rq[t][at[t]].page
    BY <1>1, <1>4
  <2>2. rq' = [rq EXCEPT ![t] = [rq[t] EXCEPT ![at[t]] = s]]
    BY <1>2
  <2>3. /\ rq' \in [Threads -> Seq(Req)]
        /\ \A u \in Threads : u # t => rq'[u] = rq[u]
        /\ Turns(<<t, i>>, s.phase, s.frame, s.io)
    <3>1. i \in 1 .. Len(rq[t]) /\ s.page = rq[t][i].page
      BY <2>1, <1>1
    <3>2. PICK s0 \in Req : s0 = s
      BY <1>4
    <3>3. rq' = [rq EXCEPT ![t] = [rq[t] EXCEPT ![i] = s0]]
      BY <2>2, <3>2
    <3> QED BY <3>1, <3>2, <3>3, Replaced
  <2>4. rq'[t] = q
    BY <1>2 DEF TypeOK
  <2> QED BY <2>3, <2>4, <1>4
<1> HIDE DEF q
<1>7. Answered(t, q, ok)
  <2>1. kind[t] = "Sync" => Done(s)
    BY <1>3, <1>4 DEF Done
  <2>2. kind[t] = "Sync1" => Loaded(s) /\ (pc[t] = "wait" => Done(s))
    BY <1>3, <1>4 DEF Done, Loaded
  <2>3. kind[t] \in {"Async1", "New"} /\ pc[t] = "wait" /\ ok => Done(s)
    BY <1>3, <1>4 DEF Done
  <2>4. kind[t] \in {"Batch1", "Round"} => (s.ins => s.phase = "End")
    BY <1>3, <1>4
  <2> QED BY <2>1, <2>2, <2>3, <2>4, <1>5 DEF Answered
<1>8. PICK l, n : Reached(t, q, ok, l, n)
  BY <1>1, <1>7, AnswerReached
<1>9. /\ next[1] = l /\ next[2] = n /\ n \in Nat
      /\ l \in {"pin", "again", "wait", "held"} /\ CallOf(kind[t], l, n, q)
  BY <1>5, <1>8 DEF Reached
<1> HIDE DEF next
<1>10. pc' = [pc EXCEPT ![t] = l] /\ at' = [at EXCEPT ![t] = n]
  BY <1>2, <1>9
<1>11. CallInv'
  BY <1>6, <1>9, <1>10, OtherCalls
<1>12. CallTypes'
  BY <1>6, <1>9, <1>10 DEF TypeOK, CallTypes
<1> QED BY <1>6, <1>11, <1>12

\* The fetch goes on in the first loop, or in one that comes back to the request.
LEMMA SetCurStep ==
  ASSUME TypeOK, CallInv, NEW t \in Threads, Working(t), pc[t] # "pin", NEW i, i = at[t],
         NEW r \in Req,
         r.page = Cur(t).page, r.ins = Cur(t).ins,
         SetCur(t, r), UNCHANGED <<kind, left, pc, at>>,
         kind[t] = "Sync1" /\ pc[t] = "wait" => r.phase \in {"Loading", "End"},
         kind[t] \in {"Batch1", "Round"} => ~Cur(t).ins
  PROVE  CallInv' /\ CallTypes' /\ Turns(<<t, i>>, r.phase, r.frame, r.io)
<1>1. /\ at[t] \in 1 .. Len(rq[t]) /\ Cur(t) \in Req /\ Cur(t) = rq[t][at[t]]
      /\ CallOf(kind[t], pc[t], at[t], rq[t]) /\ Len(rq[t]) \in Nat
      /\ pc[t] \in {"first", "again", "wait"}
  BY CallOfThread DEF Cur, Calling
<1>2. rq' = [rq EXCEPT ![t] = [rq[t] EXCEPT ![at[t]] = r]]
  BY DEF SetCur, TypeOK
<1>3. /\ rq' \in [Threads -> Seq(Req)]
      /\ Len(rq'[t]) = Len(rq[t]) /\ rq'[t][i] = r
      /\ \A j \in 1 .. Len(rq[t]) : j # i => rq'[t][j] = rq[t][j]
      /\ \A u \in Threads : u # t => rq'[u] = rq[u]
      /\ Turns(<<t, i>>, r.phase, r.frame, r.io)
  <2>1. i \in 1 .. Len(rq[t]) /\ r.page = rq[t][i].page
    BY <1>1
  <2>2. rq' = [rq EXCEPT ![t] = [rq[t] EXCEPT ![i] = r]]
    BY <1>2
  <2>3. rq' \in [Threads -> Seq(Req)] /\ Turns(<<t, i>>, r.phase, r.frame, r.io)
    BY <2>1, <2>2, Replaced
  <2>4. Len(rq'[t]) = Len(rq[t]) /\ rq'[t][i] = r
    BY <2>1, <2>2 DEF TypeOK
  <2>5. \A j \in 1 .. Len(rq[t]) : j # i => rq'[t][j] = rq[t][j]
    BY <2>1, <2>2, Replaced
  <2>6. \A u \in Threads : u # t => rq'[u] = rq[u]
    BY <2>1, <2>2, Replaced
  <2> QED BY <2>3, <2>4, <2>5, <2>6
<1>4. CallOf(kind[t], pc[t], at[t], rq'[t])
  <2>1. \A j \in 1 .. Len(rq[t]) : j > at[t] => rq'[t][j] = rq[t][j]
    BY <1>1, <1>3
  <2>2. \A j \in 1 .. at[t] - 1 : j \in 1 .. Len(rq[t]) /\ rq'[t][j] = rq[t][j]
    BY <1>1, <1>3
  <2>3. kind[t] = "Sync1" /\ pc[t] = "wait" => \A j \in 1 .. Len(rq'[t]) : Loaded(rq'[t][j])
    BY <1>1, <1>3 DEF CallOf, Loaded
  <2>4. kind[t] \in {"Batch1", "Round"} => \A j \in 1 .. Len(rq'[t]) : rq'[t][j].ins => rq'[t][j].phase = "End"
    BY <1>1, <1>3 DEF CallOf
  <2>5. pc[t] = "first" => \A j \in at[t] .. Len(rq'[t]) : j > at[t] => rq'[t][j].phase = "Begin" /\ ~rq'[t][j].ins
    BY <1>1, <1>3, <2>1 DEF CallOf
  <2> QED BY <1>1, <1>3, <2>2, <2>3, <2>4, <2>5 DEF CallOf
<1>5. ASSUME NEW u \in Threads PROVE CallOf(kind'[u], pc'[u], at'[u], rq'[u])
  <2>1. CASE u = t
    BY <2>1, <1>4
  <2>2. CASE u # t
    <3>1. CallOf(kind[u], pc[u], at[u], rq[u])
      BY DEF CallInv
    <3> QED BY <3>1, <2>2, <1>3
  <2> QED BY <2>1, <2>2
<1>6. CallInv'
  BY <1>5 DEF CallInv
<1>7. CallTypes'
  BY <1>3 DEF TypeOK, CallTypes
<1> QED BY <1>3, <1>6, <1>7

-----------------------------------------------------------------------------
(* Each action keeps the invariant, and what was written. *)

LEMMA InvParts ==
  BatchInv <=> PoolInv /\ CallInv /\ CallTypes
BY TypeParts DEF BatchInv, PoolInv

LEMMA NextParts ==
  ASSUME PoolInv', CallInv', CallTypes'
  PROVE  BatchInv'
<1>1. (PoolInv /\ CallInv /\ CallTypes => BatchInv)'
  BY InvParts, PTL
<1> QED BY <1>1

\* The thread, the request it is at, and what it is.
Turn(t, i, c) == /\ t \in Threads /\ i = at[t] /\ c = Cur(t)
                 /\ Working(t) /\ i \in 1 .. Len(rq[t]) /\ c \in Req
                 /\ <<t, i>> \in Requests /\ Rq(<<t, i>>) = c

LEMMA TurnIs ==
  ASSUME BatchInv, NEW t \in Threads, Working(t)
  PROVE  \E i, c : Turn(t, i, c)
<1>1. PICK i : i = at[t]
  OBVIOUS
<1>2. PICK c : c = Cur(t)
  OBVIOUS
<1> QED BY <1>1, <1>2, CallOfThread DEF BatchInv, Turn

\* What is known of a call whose request is in a phase.
LEMMA InPhase ==
  ASSUME BatchInv, NEW t \in Threads, NEW ph, In(t, ph)
  PROVE  /\ Working(t) /\ pc[t] # "pin" /\ Cur(t).phase = ph
         /\ kind[t] = "Sync1" /\ pc[t] = "wait" => ph \in {"Loading", "End"}
         /\ kind[t] \in {"Batch1", "Round"} /\ Cur(t).ins => ph = "End"
<1>1. Working(t) /\ pc[t] # "pin" /\ Cur(t).phase = ph
  BY DEF In, Working
<1>2. CallOf(kind[t], pc[t], at[t], rq[t]) /\ at[t] \in 1 .. Len(rq[t]) /\ Cur(t) = rq[t][at[t]]
  BY <1>1, CallOfThread DEF BatchInv, Calling, Cur
<1> QED BY <1>1, <1>2 DEF CallOf, Loaded

\* The request is known to be locked by a fetch that goes on.
LEMMA ContinueStep ==
  ASSUME BatchInv, NEW t \in Threads, NEW ph \in {"Initing", "Evicting"}, In(t, ph),
         NEW i, i = at[t], NEW r \in Req, r.phase = "Loading",
         r.page = Cur(t).page, r.ins = Cur(t).ins,
         Continue(t, r), UNCHANGED <<kind, left>>
  PROVE  CallInv' /\ CallTypes' /\ Turns(<<t, i>>, r.phase, r.frame, r.io)
<1>1. /\ Working(t) /\ pc[t] # "pin" /\ TypeOK /\ CallInv
      /\ ~(kind[t] = "Sync1" /\ pc[t] = "wait")
      /\ ~(kind[t] \in {"Batch1", "Round"} /\ Cur(t).ins)
  BY InPhase DEF BatchInv
<1>2. CASE kind[t] = "Sync"
  BY <1>1, <1>2, SetCurStep DEF Continue
<1>3. CASE kind[t] # "Sync"
  <2>1. Return(t, r, FALSE)
    BY <1>3 DEF Continue
  <2> QED BY <1>1, <1>3, <2>1, ReturnStep
<1> QED BY <1>2, <1>3

\* A pin of a page that is in a frame.
LEMMA PinAnswer ==
  ASSUME Parameters, BatchInv, NEW t \in Threads, NEW i, NEW c, Turn(t, i, c), c.phase = "Begin",
         ~c.ins \/ kind[t] \notin {"Batch1", "Round"},
         NEW m \in Frames, mapping[c.page] = m, pte' = Pinned(m),
         NEW ok \in BOOLEAN, kind[t] \in {"Sync"} => ok,
         Return(t, [c EXCEPT !.phase = "End", !.frame = m], ok),
         UNCHANGED <<mapping, free, repl, mem, disk, kind, left>>
  PROVE  BatchInv' /\ KeepsWrites
<1>1. /\ Working(t) /\ TypeOK /\ CallInv /\ PoolInv /\ i = at[t] /\ c = Cur(t) /\ c \in Req
      /\ <<t, i>> \in Requests /\ Rq(<<t, i>>) = c
  BY InvParts DEF BatchInv, Turn
<1>2. PICK r \in Req : /\ r = [c EXCEPT !.phase = "End", !.frame = m]
                       /\ r.phase = "End" /\ r.frame = m /\ r.io = c.io
                       /\ r.page = c.page /\ r.ins = c.ins
  <2>1. [c EXCEPT !.phase = "End", !.frame = m] \in Req
    BY <1>1 DEF Req, Phases
  <2> QED BY <1>1, <2>1 DEF Req
<1>3. CallInv' /\ CallTypes' /\ Turns(<<t, i>>, "End", m, c.io)
  <2>1. Return(t, r, ok)
    BY <1>2
  <2>2. CallInv' /\ CallTypes' /\ Turns(<<t, i>>, r.phase, r.frame, r.io)
    BY <1>1, <1>2, <2>1, ReturnStep
  <2> QED BY <1>2, <2>2
<1>4. PoolInv' /\ KeepsWrites
  <2>1. PICK x \in Requests : x = <<t, i>>
    BY <1>1
  <2>2. Turns(x, "End", m, Rq(x).io) /\ Rq(x).phase = "Begin" /\ mapping[Rq(x).page] = m
    BY <1>1, <1>3, <2>1
  <2>3. TypeOK /\ PoolInv
    BY <1>1
  <2> QED BY <2>2, <2>3, HitStep
<1> QED BY <1>3, <1>4, NextParts

LEMMA TryPinStep ==
  ASSUME Parameters, BatchInv, NEW t \in Threads, TryPin(t)
  PROVE  BatchInv' /\ KeepsWrites
<1>1. pc[t] = "pin" /\ Working(t) /\ TypeOK /\ CallInv /\ PoolInv
  BY InvParts DEF TryPin, Working, BatchInv
<1>2. PICK i, c : Turn(t, i, c)
  BY <1>1, TurnIs
<1>3. /\ i = at[t] /\ c = Cur(t) /\ c \in Req /\ i \in 1 .. Len(rq[t]) /\ c = rq[t][i]
      /\ <<t, i>> \in Requests /\ Rq(<<t, i>>) = c
  BY <1>2 DEF Turn, Cur
<1>4. c.phase = "Begin" /\ ~c.ins /\ CallOf(kind[t], "pin", i, rq[t])
  <2>1. CallOf(kind[t], "pin", i, rq[t])
    BY <1>1, <1>3 DEF CallInv
  <2>2. i \in i .. Len(rq[t])
    BY <1>3
  <2> QED BY <2>1, <2>2, <1>3 DEF CallOf
<1>5. PICK m : m = mapping[c.page]
  OBVIOUS
<1>6. CASE m \in Frames
  <2>1. /\ pte' = Pinned(m) /\ Return(t, [c EXCEPT !.phase = "End", !.frame = m], TRUE)
        /\ UNCHANGED <<mapping, free, repl, mem, disk, kind, left>>
    BY <1>3, <1>5, <1>6 DEF TryPin
  <2> QED BY <2>1, <1>2, <1>4, <1>5, <1>6, PinAnswer
<1>7. CASE m \notin Frames
  <2>1. /\ Goto(t, "first", i) /\ UNCHANGED <<pte, rq, mapping, free, repl, mem, disk, kind, left>>
    BY <1>3, <1>5, <1>7 DEF TryPin
  <2>2. CallOf(kind[t], "first", i, rq[t])
    BY <1>4 DEF CallOf
  <2>3. CallInv'
    <3>1. /\ pc' = [pc EXCEPT ![t] = "first"] /\ at' = [at EXCEPT ![t] = i]
          /\ UNCHANGED kind /\ rq'[t] = rq[t] /\ \A u \in Threads : u # t => rq'[u] = rq[u]
      BY <2>1 DEF Goto
    <3>2. CallOf(kind[t], "first", i, rq'[t])
      BY <2>2, <3>1
    <3> QED BY <1>1, <3>1, <3>2, OtherCalls
  <2>4. CallTypes'
    BY <1>1, <1>3, <2>1 DEF Goto, TypeOK, CallTypes
  <2>5. PoolInv' /\ KeepsWrites
    <3>1. PICK x \in Requests : x = <<t, i>>
      BY <1>3
    <3>2. Turns(x, Rq(x).phase, Rq(x).frame, Rq(x).io)
      BY <2>1 DEF Turns, Requests, Rq
    <3>3. UNCHANGED <<table, mem, disk>>
      BY <2>1 DEF table
    <3>4. TypeOK /\ PoolInv
      BY <1>1
    <3> QED BY <3>2, <3>3, <3>4, PhaseOnly
  <2> QED BY <2>3, <2>4, <2>5, NextParts
<1> QED BY <1>6, <1>7

\* The lock of the page of a request that has been begun.
LEMMA LockAnswer ==
  ASSUME Parameters, BatchInv, NEW t \in Threads, NEW i, NEW c, Turn(t, i, c), In(t, "Begin"),
         mapping[c.page] = Empty, mapping' = [mapping EXCEPT ![c.page] = Busy],
         SetCur(t, [c EXCEPT !.phase = "Initing"]),
         UNCHANGED <<pte, pc, at, free, repl, mem, disk, kind, left>>
  PROVE  BatchInv' /\ KeepsWrites
<1>1. /\ Working(t) /\ TypeOK /\ CallInv /\ PoolInv /\ i = at[t] /\ c = Cur(t) /\ c \in Req
      /\ <<t, i>> \in Requests /\ Rq(<<t, i>>) = c
  BY InvParts DEF BatchInv, Turn
<1>2. /\ pc[t] # "pin" /\ c.phase = "Begin"
      /\ ~(kind[t] = "Sync1" /\ pc[t] = "wait")
      /\ kind[t] \in {"Batch1", "Round"} => ~Cur(t).ins
  BY <1>1, InPhase
<1>3. PICK r \in Req : /\ r = [c EXCEPT !.phase = "Initing"]
                       /\ r.phase = "Initing" /\ r.frame = c.frame /\ r.io = c.io
                       /\ r.page = c.page /\ r.ins = c.ins
  <2>1. [c EXCEPT !.phase = "Initing"] \in Req
    BY <1>1 DEF Req, Phases
  <2> QED BY <1>1, <2>1 DEF Req
<1>4. CallInv' /\ CallTypes' /\ Turns(<<t, i>>, "Initing", c.frame, c.io)
  <2>1. SetCur(t, r) /\ UNCHANGED <<kind, left, pc, at>>
    BY <1>3
  <2>2. CallInv' /\ CallTypes' /\ Turns(<<t, i>>, r.phase, r.frame, r.io)
    BY <1>1, <1>2, <1>3, <2>1, SetCurStep
  <2> QED BY <1>3, <2>2
<1>5. PoolInv' /\ KeepsWrites
  <2>1. PICK x \in Requests : x = <<t, i>>
    BY <1>1
  <2>2. /\ Turns(x, "Initing", Rq(x).frame, Rq(x).io) /\ Rq(x).phase = "Begin"
        /\ mapping[Rq(x).page] = Empty /\ mapping' = [mapping EXCEPT ![Rq(x).page] = Busy]
        /\ UNCHANGED <<pte, free, repl, mem, disk>>
    BY <1>1, <1>2, <1>4, <2>1
  <2>3. TypeOK /\ PoolInv
    BY <1>1
  <2> QED BY <2>2, <2>3, LockStep
<1> QED BY <1>4, <1>5, NextParts

LEMMA Begin1Step ==
  ASSUME Parameters, BatchInv, NEW t \in Threads, Begin1(t)
  PROVE  BatchInv' /\ KeepsWrites
<1>1. In(t, "Begin") /\ Working(t) /\ (kind[t] \in {"Batch1", "Round"} => ~Cur(t).ins)
  BY InPhase DEF Begin1
<1>2. PICK i, c : Turn(t, i, c)
  BY <1>1, TurnIs
<1>3. c = Cur(t) /\ c.phase = "Begin"
  BY <1>1, <1>2 DEF Turn, In
<1>4. PICK m : m = mapping[c.page]
  OBVIOUS
<1>5. CASE m = Empty /\ SetCur(t, [c EXCEPT !.phase = "Initing"])
           /\ mapping' = [mapping EXCEPT ![c.page] = Busy] /\ UNCHANGED <<pte, pc, at>>
  <2>1. UNCHANGED <<pte, pc, at, free, repl, mem, disk, kind, left>>
    BY <1>5 DEF Begin1
  <2> QED BY <2>1, <1>1, <1>2, <1>4, <1>5, LockAnswer
<1>6. CASE m \in Frames /\ pte' = Pinned(m) /\ UNCHANGED mapping
           /\ Return(t, [c EXCEPT !.phase = "End", !.frame = m], TRUE)
  <2>1. UNCHANGED <<mapping, free, repl, mem, disk, kind, left>>
    BY <1>6 DEF Begin1
  <2> QED BY <2>1, <1>1, <1>2, <1>3, <1>4, <1>6, PinAnswer
<1> QED BY <1>3, <1>4, <1>5, <1>6 DEF Begin1

LEMMA Begin2Step ==
  ASSUME Parameters, BatchInv, NEW t \in Threads, Begin2(t)
  PROVE  BatchInv' /\ KeepsWrites
<1>1. /\ In(t, "Begin") /\ Working(t) /\ kind[t] \notin Own
      /\ kind[t] \in {"Batch1", "Round"} => ~Cur(t).ins
  BY InPhase DEF Begin2
<1>2. PICK i, c : Turn(t, i, c)
  BY <1>1, TurnIs
<1>3. /\ c = Cur(t) /\ c.phase = "Begin" /\ i = at[t] /\ c \in Req
      /\ <<t, i>> \in Requests /\ Rq(<<t, i>>) = c
  BY <1>1, <1>2 DEF Turn, In
<1>4. PICK m : m = mapping[c.page]
  OBVIOUS
<1>5. CASE m = Empty /\ SetCur(t, [c EXCEPT !.phase = "Initing"])
           /\ mapping' = [mapping EXCEPT ![c.page] = Busy] /\ UNCHANGED <<pte, pc, at>>
  <2>1. UNCHANGED <<pte, pc, at, free, repl, mem, disk, kind, left>>
    BY <1>5 DEF Begin2
  <2> QED BY <2>1, <1>1, <1>2, <1>4, <1>5, LockAnswer
<1>6. CASE m \in Frames /\ pte' = Pinned(m) /\ UNCHANGED mapping
           /\ Return(t, [c EXCEPT !.phase = "End", !.frame = m], pte[m].ref = 0)
  <2>1. UNCHANGED <<mapping, free, repl, mem, disk, kind, left>>
    BY <1>6 DEF Begin2
  <2>2. PICK ok \in BOOLEAN : ok = (pte[m].ref = 0)
    OBVIOUS
  <2>3. kind[t] # "Sync"
    BY <1>1 DEF Own
  <2> QED BY <2>1, <2>2, <2>3, <1>1, <1>2, <1>3, <1>4, <1>6, PinAnswer
<1>7. CASE Return(t, c, FALSE) /\ UNCHANGED <<mapping, pte>>
  <2>1. UNCHANGED <<mapping, pte, free, repl, mem, disk, kind, left>>
    BY <1>7 DEF Begin2
  <2>2. /\ TypeOK /\ CallInv /\ PoolInv
        /\ kind[t] # "Sync" /\ kind[t] # "Sync1"
    BY <1>1, InvParts DEF BatchInv, Own
  <2>3. CallInv' /\ CallTypes' /\ Turns(<<t, i>>, c.phase, c.frame, c.io)
    BY <1>1, <1>3, <1>7, <2>1, <2>2, ReturnStep
  <2>4. PoolInv' /\ KeepsWrites
    <3>1. PICK x \in Requests : x = <<t, i>>
      BY <1>3
    <3>2. Turns(x, Rq(x).phase, Rq(x).frame, Rq(x).io)
      BY <1>3, <2>3, <3>1
    <3>3. UNCHANGED <<table, mem, disk>>
      BY <2>1 DEF table
    <3> QED BY <2>2, <3>2, <3>3, PhaseOnly
  <2> QED BY <2>3, <2>4, NextParts
<1> QED BY <1>3, <1>4, <1>5, <1>6, <1>7 DEF Begin2

LEMMA InitingStep ==
  ASSUME Parameters, BatchInv, NEW t \in Threads, Initing(t)
  PROVE  BatchInv' /\ KeepsWrites
<1>1. /\ In(t, "Initing") /\ Working(t) /\ pc[t] # "pin"
      /\ ~(kind[t] = "Sync1" /\ pc[t] = "wait")
      /\ kind[t] \in {"Batch1", "Round"} => ~Cur(t).ins
      /\ TypeOK /\ CallInv /\ PoolInv
      /\ UNCHANGED <<pte, mem, disk, kind, left>>
  BY InPhase, InvParts DEF Initing, BatchInv
<1>2. PICK i, c : Turn(t, i, c)
  BY <1>1, TurnIs
<1>3. /\ c = Cur(t) /\ c.phase = "Initing" /\ i = at[t] /\ c \in Req
      /\ <<t, i>> \in Requests /\ Rq(<<t, i>>) = c
  BY <1>1, <1>2 DEF Turn, In
<1>4. CASE \E f \in free : /\ free' = free \ {f}
                           /\ Continue(t, [c EXCEPT !.phase = "Loading", !.frame = f])
                           /\ UNCHANGED <<mapping, repl>>
  <2>1. PICK f \in free : /\ free' = free \ {f}
                          /\ Continue(t, [c EXCEPT !.phase = "Loading", !.frame = f])
                          /\ UNCHANGED <<mapping, repl>>
    BY <1>4
  <2>2. PICK r \in Req : /\ r = [c EXCEPT !.phase = "Loading", !.frame = f]
                         /\ r.phase = "Loading" /\ r.frame = f /\ r.io = c.io
                         /\ r.page = c.page /\ r.ins = c.ins
    <3>1. f \in Frames
      BY <1>1 DEF TypeOK
    <3>2. [c EXCEPT !.phase = "Loading", !.frame = f] \in Req
      BY <1>3, <3>1 DEF Req, Phases
    <3> QED BY <1>3, <3>2 DEF Req
  <2>3. CallInv' /\ CallTypes' /\ Turns(<<t, i>>, "Loading", f, c.io)
    <3>1. Continue(t, r) /\ UNCHANGED <<kind, left>>
      BY <1>1, <2>1, <2>2
    <3>2. CallInv' /\ CallTypes' /\ Turns(<<t, i>>, r.phase, r.frame, r.io)
      BY <1>1, <1>3, <2>2, <3>1, ContinueStep
    <3> QED BY <2>2, <3>2
  <2>4. PoolInv' /\ KeepsWrites
    <3>1. PICK x \in Requests : x = <<t, i>>
      BY <1>3
    <3>2. Turns(x, "Loading", f, Rq(x).io) /\ Rq(x).phase = "Initing"
      BY <1>3, <2>3, <3>1
    <3>3. free' = free \ {f} /\ UNCHANGED <<mapping, pte, repl, mem, disk>>
      BY <1>1, <2>1
    <3>4. TypeOK /\ PoolInv
      BY <1>1
    <3> QED BY <3>2, <3>3, <3>4, FreeStep
  <2> QED BY <2>3, <2>4, NextParts
<1>5. CASE /\ \E f \in Victims : /\ repl' = repl \ {f}
                                 /\ mapping' = [mapping EXCEPT ![pte[f].page] = Busy]
                                 /\ SetCur(t, [c EXCEPT !.phase = "Evicting", !.frame = f])
           /\ UNCHANGED <<free, pc, at>>
  <2>1. PICK f \in Victims : /\ repl' = repl \ {f}
                             /\ mapping' = [mapping EXCEPT ![pte[f].page] = Busy]
                             /\ SetCur(t, [c EXCEPT !.phase = "Evicting", !.frame = f])
                             /\ UNCHANGED <<free, pc, at>>
    BY <1>5
  <2>2. PICK r \in Req : /\ r = [c EXCEPT !.phase = "Evicting", !.frame = f]
                         /\ r.phase = "Evicting" /\ r.frame = f /\ r.io = c.io
                         /\ r.page = c.page /\ r.ins = c.ins
    <3>1. f \in Frames
      BY <1>1 DEF TypeOK, Victims
    <3>2. [c EXCEPT !.phase = "Evicting", !.frame = f] \in Req
      BY <1>3, <3>1 DEF Req, Phases
    <3> QED BY <1>3, <3>2 DEF Req
  <2>3. CallInv' /\ CallTypes' /\ Turns(<<t, i>>, "Evicting", f, c.io)
    <3>1. SetCur(t, r) /\ UNCHANGED <<kind, left, pc, at>>
      BY <1>1, <2>1, <2>2
    <3>2. CallInv' /\ CallTypes' /\ Turns(<<t, i>>, r.phase, r.frame, r.io)
      BY <1>1, <1>3, <2>2, <3>1, SetCurStep
    <3> QED BY <2>2, <3>2
  <2>4. PoolInv' /\ KeepsWrites
    <3>1. PICK x \in Requests : x = <<t, i>>
      BY <1>3
    <3>2. Turns(x, "Evicting", f, Rq(x).io) /\ Rq(x).phase = "Initing"
      BY <1>3, <2>3, <3>1
    <3>3. /\ repl' = repl \ {f} /\ mapping' = [mapping EXCEPT ![pte[f].page] = Busy]
          /\ UNCHANGED <<pte, free, mem, disk>>
      BY <1>1, <2>1
    <3>4. TypeOK /\ PoolInv
      BY <1>1
    <3> QED BY <3>2, <3>3, <3>4, VictimStep
  <2> QED BY <2>3, <2>4, NextParts
<1>6. CASE Goto(t, "exhausted", i) /\ UNCHANGED <<mapping, free, repl, rq>>
  <2>1. CallInv'
    <3>1. /\ pc' = [pc EXCEPT ![t] = "exhausted"] /\ at' = [at EXCEPT ![t] = i]
          /\ UNCHANGED kind /\ rq'[t] = rq[t] /\ \A u \in Threads : u # t => rq'[u] = rq[u]
      BY <1>1, <1>6 DEF Goto
    <3>2. CallOf(kind[t], pc[t], i, rq[t]) /\ i \in 1 .. Len(rq[t])
      BY <1>1, <1>2, <1>3 DEF CallInv, Turn
    <3>3. CallOf(kind[t], "exhausted", i, rq'[t])
      BY <3>1, <3>2 DEF CallOf
    <3> QED BY <1>1, <3>1, <3>3, OtherCalls
  <2>2. CallTypes'
    BY <1>1, <1>3, <1>6 DEF Goto, TypeOK, CallTypes
  <2>3. PoolInv' /\ KeepsWrites
    <3>1. PICK x \in Requests : x = <<t, i>>
      BY <1>3
    <3>2. Turns(x, Rq(x).phase, Rq(x).frame, Rq(x).io)
      BY <1>6 DEF Turns, Requests, Rq
    <3>3. UNCHANGED <<table, mem, disk>>
      BY <1>1, <1>6 DEF table
    <3>4. TypeOK /\ PoolInv
      BY <1>1
    <3> QED BY <3>2, <3>3, <3>4, PhaseOnly
  <2> QED BY <2>1, <2>2, <2>3, NextParts
<1> QED BY <1>3, <1>4, <1>5, <1>6 DEF Initing

LEMMA EvictingStep ==
  ASSUME Parameters, BatchInv, NEW t \in Threads, Evicting(t)
  PROVE  BatchInv' /\ KeepsWrites
<1>1. /\ In(t, "Evicting") /\ Working(t) /\ TypeOK /\ CallInv /\ PoolInv
      /\ UNCHANGED <<pte, free, repl, mem, kind, left>>
  BY InPhase, InvParts DEF Evicting, BatchInv
<1>2. PICK i, c : Turn(t, i, c)
  BY <1>1, TurnIs
<1>3. /\ c = Cur(t) /\ c.phase = "Evicting" /\ i = at[t] /\ c \in Req
      /\ <<t, i>> \in Requests /\ Rq(<<t, i>>) = c
  BY <1>1, <1>2 DEF Turn, In
<1>4. PICK f, p0 : f = c.frame /\ p0 = pte[f].page
  OBVIOUS
<1>5. /\ disk' = IF pte[f].dirty THEN [disk EXCEPT ![p0] = mem[f]] ELSE disk
      /\ mapping' = [mapping EXCEPT ![p0] = Empty]
      /\ Continue(t, [c EXCEPT !.phase = "Loading"])
  BY <1>3, <1>4 DEF Evicting
<1>6. PICK r \in Req : /\ r = [c EXCEPT !.phase = "Loading"]
                       /\ r.phase = "Loading" /\ r.frame = f /\ r.io = c.io
                       /\ r.page = c.page /\ r.ins = c.ins
  <2>1. [c EXCEPT !.phase = "Loading"] \in Req
    BY <1>3 DEF Req, Phases
  <2> QED BY <1>3, <1>4, <2>1 DEF Req
<1>7. CallInv' /\ CallTypes' /\ Turns(<<t, i>>, "Loading", f, c.io)
  <2>1. Continue(t, r) /\ UNCHANGED <<kind, left>>
    BY <1>1, <1>5, <1>6
  <2>2. CallInv' /\ CallTypes' /\ Turns(<<t, i>>, r.phase, r.frame, r.io)
    BY <1>1, <1>3, <1>6, <2>1, ContinueStep
  <2> QED BY <1>6, <2>2
<1>8. PoolInv' /\ KeepsWrites
  <2>1. PICK x \in Requests : x = <<t, i>>
    BY <1>3
  <2>2. Turns(x, "Loading", f, Rq(x).io) /\ Rq(x).phase = "Evicting" /\ f = Rq(x).frame
    BY <1>3, <1>4, <1>7, <2>1
  <2>3. f \in Frames /\ p0 \in Pages
    BY <1>1, <1>4, <2>2 DEF PoolInv, PhaseInv, OnePhase, Carries, Evicts, Old
  <2>4. TypeOK /\ PoolInv
    BY <1>1
  <2> QED BY <1>1, <1>4, <1>5, <2>2, <2>3, <2>4, UnmapStep
<1> QED BY <1>7, <1>8, NextParts

LEMMA Loading1Step ==
  ASSUME Parameters, BatchInv, NEW t \in Threads, Loading1(t)
  PROVE  BatchInv' /\ KeepsWrites
<1>1. /\ In(t, "Loading") /\ Working(t) /\ TypeOK /\ CallInv /\ PoolInv
      /\ UNCHANGED <<disk, kind, left>>
  BY InPhase, InvParts DEF Loading1, BatchInv
<1>2. PICK i, c : Turn(t, i, c)
  BY <1>1, TurnIs
<1>3. /\ c = Cur(t) /\ c.phase = "Loading" /\ i = at[t] /\ c \in Req
      /\ <<t, i>> \in Requests /\ Rq(<<t, i>>) = c
  BY <1>1, <1>2 DEF Turn, In
<1>4. PICK f, p0 : f = c.frame /\ p0 = c.page
  OBVIOUS
<1>5. /\ mem' = [mem EXCEPT ![f] = disk[p0]] /\ Publish(p0, f)
      /\ Return(t, [c EXCEPT !.phase = "End"], TRUE)
  BY <1>3, <1>4 DEF Loading1
<1>6. PICK x \in Requests : x = <<t, i>>
  BY <1>3
<1>7. /\ Rq(x) = c /\ f \in Frames /\ p0 \in Pages /\ c.io = "none"
  <2>1. Rq(x) = c /\ PhaseInv /\ c \in Req
    BY <1>1, <1>3, <1>6 DEF PoolInv
  <2>2. OnePhase(x)
    BY <2>1 DEF PhaseInv
  <2> QED BY <1>3, <1>4, <2>1, <2>2 DEF OnePhase, Carries, Req
<1>8. PICK r \in Req : /\ r = [c EXCEPT !.phase = "End"]
                       /\ r.phase = "End" /\ r.frame = f /\ r.io = "none"
                       /\ r.page = c.page /\ r.ins = c.ins
  <2>1. [c EXCEPT !.phase = "End"] \in Req
    BY <1>3 DEF Req, Phases
  <2> QED BY <1>3, <1>4, <1>7, <2>1 DEF Req
<1>9. CallInv' /\ CallTypes' /\ Turns(<<t, i>>, "End", f, "none")
  <2>1. Return(t, r, TRUE) /\ UNCHANGED <<kind, left>>
    BY <1>1, <1>5, <1>8
  <2>2. CallInv' /\ CallTypes' /\ Turns(<<t, i>>, r.phase, r.frame, r.io)
    BY <1>1, <1>3, <1>8, <2>1, ReturnStep
  <2> QED BY <1>8, <2>2
<1>10. PoolInv' /\ KeepsWrites
  <2>1. Turns(x, "End", f, "none") /\ Rq(x).phase \in {"Loading", "LoadingFinish"}
    BY <1>3, <1>6, <1>7, <1>9
  <2>2. f = Rq(x).frame /\ p0 = Rq(x).page
    BY <1>4, <1>7
  <2>3. TypeOK /\ PoolInv /\ UNCHANGED disk
    BY <1>1
  <2>4. f \in Frames /\ p0 \in Pages
    BY <1>7
  <2> QED BY <1>5, <2>1, <2>2, <2>3, <2>4, PublishStep
<1> QED BY <1>9, <1>10, NextParts

LEMMA LoadingFinishStep ==
  ASSUME Parameters, BatchInv, NEW t \in Threads, LoadingFinish(t)
  PROVE  BatchInv' /\ KeepsWrites
<1>1. /\ In(t, "LoadingFinish") /\ Working(t) /\ TypeOK /\ CallInv /\ PoolInv
      /\ UNCHANGED <<mem, disk, kind, left>>
  BY InPhase, InvParts DEF LoadingFinish, BatchInv
<1>2. PICK i, c : Turn(t, i, c)
  BY <1>1, TurnIs
<1>3. /\ c = Cur(t) /\ c.phase = "LoadingFinish" /\ i = at[t] /\ c \in Req
      /\ <<t, i>> \in Requests /\ Rq(<<t, i>>) = c
  BY <1>1, <1>2 DEF Turn, In
<1>4. PICK f, p0 : f = c.frame /\ p0 = c.page
  OBVIOUS
<1>5. /\ c.io = "done" /\ Publish(p0, f)
      /\ Return(t, [c EXCEPT !.phase = "End", !.io = "none"], TRUE)
  BY <1>3, <1>4 DEF LoadingFinish
<1>6. PICK x \in Requests : x = <<t, i>>
  BY <1>3
<1>7. /\ Rq(x) = c /\ f \in Frames /\ p0 \in Pages
  <2>1. Rq(x) = c /\ PhaseInv /\ c \in Req
    BY <1>1, <1>3, <1>6 DEF PoolInv
  <2>2. OnePhase(x)
    BY <2>1 DEF PhaseInv
  <2> QED BY <1>3, <1>4, <2>1, <2>2 DEF OnePhase, Carries, Req
<1>8. PICK r \in Req : /\ r = [c EXCEPT !.phase = "End", !.io = "none"]
                       /\ r.phase = "End" /\ r.frame = f /\ r.io = "none"
                       /\ r.page = c.page /\ r.ins = c.ins
  <2>1. [c EXCEPT !.phase = "End", !.io = "none"] \in Req
    BY <1>3 DEF Req, Phases
  <2> QED BY <1>3, <1>4, <2>1 DEF Req
<1>9. CallInv' /\ CallTypes' /\ Turns(<<t, i>>, "End", f, "none")
  <2>1. Return(t, r, TRUE) /\ UNCHANGED <<kind, left>>
    BY <1>1, <1>5, <1>8
  <2>2. CallInv' /\ CallTypes' /\ Turns(<<t, i>>, r.phase, r.frame, r.io)
    BY <1>1, <1>3, <1>8, <2>1, ReturnStep
  <2> QED BY <1>8, <2>2
<1>10. PoolInv' /\ KeepsWrites
  <2>1. Turns(x, "End", f, "none") /\ Rq(x).phase \in {"Loading", "LoadingFinish"}
    BY <1>3, <1>6, <1>7, <1>9
  <2>2. f = Rq(x).frame /\ p0 = Rq(x).page /\ Rq(x).io = "done" /\ mem' = mem
    BY <1>1, <1>4, <1>5, <1>7
  <2>3. TypeOK /\ PoolInv /\ UNCHANGED disk
    BY <1>1
  <2>4. f \in Frames /\ p0 \in Pages
    BY <1>7
  <2> QED BY <1>5, <2>1, <2>2, <2>3, <2>4, PublishStep
<1> QED BY <1>9, <1>10, NextParts

LEMMA Loading2Step ==
  ASSUME Parameters, BatchInv, NEW t \in Threads, Loading2(t)
  PROVE  BatchInv' /\ KeepsWrites
<1>1. /\ In(t, "Loading") /\ Working(t) /\ TypeOK /\ CallInv /\ PoolInv
      /\ kind[t] # "Sync" /\ kind[t] # "Sync1"
      /\ kind[t] \in {"Batch1", "Round"} => ~Cur(t).ins
      /\ UNCHANGED <<kind, left>> /\ UNCHANGED <<table, mem, disk>>
  BY InPhase, InvParts DEF Loading2, BatchInv, Own
<1>2. PICK i, c : Turn(t, i, c)
  BY <1>1, TurnIs
<1>3. /\ c = Cur(t) /\ c.phase = "Loading" /\ i = at[t] /\ c \in Req
      /\ <<t, i>> \in Requests /\ Rq(<<t, i>>) = c
  BY <1>1, <1>2 DEF Turn, In
<1>4. PICK r \in Req : /\ r = [c EXCEPT !.phase = "LoadingFinish", !.io = "sent"]
                       /\ r.phase = "LoadingFinish" /\ r.frame = c.frame /\ r.io = "sent"
                       /\ r.page = c.page /\ r.ins = c.ins
  <2>1. [c EXCEPT !.phase = "LoadingFinish", !.io = "sent"] \in Req
    BY <1>3 DEF Req, Phases
  <2> QED BY <1>3, <2>1 DEF Req
<1>5. CallInv' /\ CallTypes' /\ Turns(<<t, i>>, "LoadingFinish", c.frame, "sent")
  <2>1. Return(t, r, FALSE)
    BY <1>3, <1>4 DEF Loading2
  <2>2. CallInv' /\ CallTypes' /\ Turns(<<t, i>>, r.phase, r.frame, r.io)
    BY <1>1, <1>3, <1>4, <2>1, ReturnStep
  <2> QED BY <1>4, <2>2
<1>6. PoolInv' /\ KeepsWrites
  <2>1. PICK x \in Requests : x = <<t, i>>
    BY <1>3
  <2>2. Turns(x, "LoadingFinish", Rq(x).frame, "sent") /\ Rq(x).phase = "Loading"
    BY <1>3, <1>5, <2>1
  <2>3. TypeOK /\ PoolInv /\ UNCHANGED <<table, mem, disk>>
    BY <1>1
  <2> QED BY <2>2, <2>3, PhaseOnly
<1> QED BY <1>5, <1>6, NextParts

LEMMA EndStep ==
  ASSUME Parameters, BatchInv, NEW t \in Threads, End(t)
  PROVE  BatchInv' /\ KeepsWrites
<1>1. /\ In(t, "End") /\ Working(t) /\ TypeOK /\ CallInv /\ PoolInv
      /\ UNCHANGED <<kind, left>> /\ UNCHANGED <<table, mem, disk>>
  BY InPhase, InvParts DEF End, BatchInv
<1>2. PICK i, c : Turn(t, i, c)
  BY <1>1, TurnIs
<1>3. /\ c = Cur(t) /\ c.phase = "End" /\ i = at[t] /\ c \in Req
      /\ <<t, i>> \in Requests /\ Rq(<<t, i>>) = c
  BY <1>1, <1>2 DEF Turn, In
<1>4. Return(t, c, TRUE)
  BY <1>3 DEF End
<1>5. CallInv' /\ CallTypes' /\ Turns(<<t, i>>, c.phase, c.frame, c.io)
  BY <1>1, <1>3, <1>4, ReturnStep
<1>6. PoolInv' /\ KeepsWrites
  <2>1. PICK x \in Requests : x = <<t, i>>
    BY <1>3
  <2>2. Turns(x, Rq(x).phase, Rq(x).frame, Rq(x).io)
    BY <1>3, <1>5, <2>1
  <2>3. TypeOK /\ PoolInv /\ UNCHANGED <<table, mem, disk>>
    BY <1>1
  <2> QED BY <2>2, <2>3, PhaseOnly
<1> QED BY <1>5, <1>6, NextParts

\* The answer of the I/O server changes nothing that the calls look at.
LEMMA ReadDoneStep ==
  ASSUME Parameters, BatchInv, NEW t \in Threads, NEW i \in 1 .. Len(rq[t]), ReadDone(t, i)
  PROVE  BatchInv' /\ KeepsWrites
<1>1. /\ TypeOK /\ CallInv /\ PoolInv
      /\ UNCHANGED <<pc, kind, at, left>> /\ UNCHANGED <<table, disk>>
  BY InvParts DEF ReadDone, BatchInv
<1>2. PICK c : c = rq[t][i]
  OBVIOUS
<1>3. c \in Req /\ <<t, i>> \in Requests /\ Rq(<<t, i>>) = c /\ rq[t] \in Seq(Req)
  BY <1>1, <1>2, IsRequest DEF TypeOK
<1>4. /\ c.io = "sent" /\ mem' = [mem EXCEPT ![c.frame] = disk[c.page]]
      /\ rq' = [rq EXCEPT ![t][i].io = "done"]
  BY <1>2 DEF ReadDone
<1>5. PICK r \in Req : /\ r = [c EXCEPT !.io = "done"]
                       /\ r.phase = c.phase /\ r.frame = c.frame /\ r.io = "done"
                       /\ r.page = c.page /\ r.ins = c.ins
  <2>1. [c EXCEPT !.io = "done"] \in Req
    BY <1>3 DEF Req
  <2> QED BY <1>3, <2>1 DEF Req
<1>6. /\ rq' \in [Threads -> Seq(Req)]
      /\ Len(rq'[t]) = Len(rq[t]) /\ rq'[t][i] = r
      /\ \A j \in 1 .. Len(rq[t]) : j # i => rq'[t][j] = rq[t][j]
      /\ \A u \in Threads : u # t => rq'[u] = rq[u]
      /\ Turns(<<t, i>>, r.phase, r.frame, r.io)
  <2>1. rq' = [rq EXCEPT ![t] = [rq[t] EXCEPT ![i] = r]]
    BY <1>1, <1>2, <1>4, <1>5 DEF TypeOK
  <2>2. r.page = rq[t][i].page
    BY <1>2, <1>5
  <2> QED BY <1>1, <2>1, <2>2, Replaced
<1>7. \A j \in 1 .. Len(rq[t]) : rq'[t][j].phase = rq[t][j].phase /\ rq'[t][j].ins = rq[t][j].ins
  BY <1>2, <1>5, <1>6
<1>8. ASSUME NEW u \in Threads PROVE CallOf(kind'[u], pc'[u], at'[u], rq'[u])
  <2>1. CallOf(kind[u], pc[u], at[u], rq[u])
    BY <1>1 DEF CallInv
  <2>2. CASE u = t
    <3>1. CallOf(kind[t], pc[t], at[t], rq[t]) /\ Len(rq[t]) \in Nat /\ pc[t] # "idle"
      <4>1. rq[t] # <<>>
        BY <1>3
      <4> QED BY <1>3, <4>1, <2>1, <2>2 DEF CallOf
    <3>2. at[t] \in Nat
      BY <1>1 DEF TypeOK
    <3>3. /\ \A j \in 1 .. at[t] - 1 : Done(rq[t][j]) /\ j \in 1 .. Len(rq[t]) => Done(rq'[t][j])
          /\ \A j \in 1 .. at[t] - 1 : Loaded(rq[t][j]) /\ j \in 1 .. Len(rq[t]) => Loaded(rq'[t][j])
          /\ \A j \in 1 .. Len(rq[t]) : Done(rq[t][j]) => Done(rq'[t][j])
          /\ \A j \in 1 .. Len(rq[t]) : Loaded(rq[t][j]) => Loaded(rq'[t][j])
      BY <1>7 DEF Done, Loaded
    <3>4. pc[t] # "held" => at[t] \in 1 .. Len(rq[t])
      BY <3>1 DEF CallOf
    <3>5. pc[t] # "held" => \A j \in 1 .. at[t] - 1 : j \in 1 .. Len(rq[t])
      BY <3>1, <3>4
    <3>6. \A j \in at[t] .. Len(rq[t]) : pc[t] # "held" => j \in 1 .. Len(rq[t])
      BY <3>1, <3>4
    <3>7. CallOf(kind[t], pc[t], at[t], rq'[t])
      BY <1>6, <1>7, <3>1, <3>3, <3>4, <3>5, <3>6 DEF CallOf
    <3> QED BY <3>7, <2>2, <1>1
  <2>3. CASE u # t
    BY <2>1, <2>3, <1>1, <1>6
  <2> QED BY <2>2, <2>3
<1>9. CallInv' /\ CallTypes'
  <2>1. CallInv'
    BY <1>8 DEF CallInv
  <2>2. CallTypes'
    BY <1>1, <1>6 DEF TypeOK, CallTypes
  <2> QED BY <2>1, <2>2
<1>10. PoolInv' /\ KeepsWrites
  <2>1. PICK x \in Requests : x = <<t, i>>
    BY <1>3
  <2>2. /\ Turns(x, Rq(x).phase, Rq(x).frame, "done") /\ Rq(x).io = "sent"
        /\ mem' = [mem EXCEPT ![Rq(x).frame] = disk[Rq(x).page]]
    BY <1>3, <1>4, <1>5, <1>6, <2>1
  <2>3. TypeOK /\ PoolInv /\ UNCHANGED <<table, disk>>
    BY <1>1
  <2> QED BY <2>2, <2>3, ReadStep
<1> QED BY <1>9, <1>10, NextParts

LEMMA WriteBlock ==
  ASSUME Parameters, BatchInv, NEW t \in Threads, NEW i \in 1 .. Len(rq[t]), Write(t, i)
  PROVE  BatchInv' /\ KeepsWrites
<1>1. /\ TypeOK /\ CallInv /\ PoolInv /\ pc[t] = "held"
      /\ UNCHANGED <<mapping, free, repl, disk, pc, kind, rq, at, left>>
  BY InvParts DEF Write, BatchInv
<1>2. PICK x \in Requests : x = <<t, i>>
  BY IsRequest
<1>3. Rq(x) = rq[t][i] /\ rq[t][i].phase = "End"
  <2>1. CallOf(kind[t], "held", at[t], rq[t])
    BY <1>1 DEF CallInv
  <2> QED BY <1>2, <2>1, IsRequest DEF CallOf, Done
<1>4. PICK f : f = rq[t][i].frame
  OBVIOUS
<1>5. /\ mem[f] < MaxVersion /\ mem' = [mem EXCEPT ![f] = @ + 1]
      /\ pte' = [pte EXCEPT ![f].dirty = TRUE]
  BY <1>4 DEF Write
<1>6. Ended(x) /\ f = Rq(x).frame /\ f \in Frames
  <2>1. OnePhase(x)
    BY <1>1 DEF PoolInv, PhaseInv
  <2> QED BY <1>3, <1>4, <2>1 DEF OnePhase, Ended
<1>7. PoolInv' /\ KeepsWrites
  <2>1. UNCHANGED <<mapping, free, repl, disk, rq>> /\ TypeOK /\ PoolInv
    BY <1>1
  <2> QED BY <1>5, <1>6, <2>1, WriteStep
<1>8. CallInv'
  BY <1>1 DEF CallInv
<1>9. CallTypes'
  BY <1>1 DEF TypeOK, CallTypes
<1> QED BY <1>7, <1>8, <1>9, NextParts

\* The references of a block are those of the requests that made it.
LEMMA PinsOfThread ==
  ASSUME TypeOK, NEW t \in Threads, NEW f,
         NEW Gone, Gone = {t} \X (1 .. Len(rq[t]))
  PROVE  PinsOf(t, f) = Cardinality(Pins(f) \cap Gone)
<1> DEFINE I == {i \in 1 .. Len(rq[t]) : rq[t][i].phase = "End" /\ rq[t][i].frame = f}
           G == Pins(f) \cap Gone
           g == [i \in I |-> <<t, i>>]
<1>1. \A i \in I : g[i] \in G
  <2>1. SUFFICES ASSUME NEW i \in I PROVE <<t, i>> \in G
    OBVIOUS
  <2>2. i \in 1 .. Len(rq[t]) /\ rq[t][i].phase = "End" /\ rq[t][i].frame = f
    OBVIOUS
  <2>3. <<t, i>> \in Requests /\ Rq(<<t, i>>) = rq[t][i]
    BY <2>2, IsRequest
  <2> QED BY <2>2, <2>3 DEF Pins
<1>2. \A x \in G : \E i \in I : g[i] = x
  <2>1. SUFFICES ASSUME NEW x \in G PROVE \E i \in I : <<t, i>> = x
    OBVIOUS
  <2>2. PICK i \in 1 .. Len(rq[t]) : x = <<t, i>>
    OBVIOUS
  <2>3. Rq(x) = rq[t][i]
    BY <2>2, IsRequest
  <2> QED BY <2>2, <2>3 DEF Pins
<1>3. \A i, j \in I : g[i] = g[j] => i = j
  OBVIOUS
<1>4. g \in [I -> G]
  BY <1>1
<1>5. IsFiniteSet(I)
  <2>1. Len(rq[t]) \in Nat
    BY DEF TypeOK
  <2>2. IsFiniteSet(1 .. Len(rq[t]))
    BY <2>1, FS_Interval
  <2> QED BY <2>2, FS_Subset
<1>6. PinsOf(t, f) = Cardinality(I)
  BY DEF PinsOf
<1> HIDE DEF I, G, g
<1>7. g \in Bijection(I, G)
  BY <1>2, <1>3, <1>4 DEF Bijection, Injection, Surjection, IsInjective
<1>8. Cardinality(I) = Cardinality(G)
  BY <1>5, <1>7, FS_Bijection DEF ExistsBijection
<1> QED BY <1>6, <1>8 DEF G

LEMMA DestroyStep ==
  ASSUME Parameters, BatchInv, NEW t \in Threads, Destroy(t)
  PROVE  BatchInv' /\ KeepsWrites
<1>1. /\ TypeOK /\ CallInv /\ PoolInv /\ pc[t] = "held"
      /\ pte' = [f \in Frames |-> [pte[f] EXCEPT !.ref = @ - PinsOf(t, f)]]
      /\ rq' = [rq EXCEPT ![t] = <<>>] /\ Goto(t, "idle", 1)
      /\ UNCHANGED <<mapping, free, repl, mem, disk, kind, left>>
  BY InvParts DEF Destroy, BatchInv
<1>2. PICK Gone : Gone = {t} \X (1 .. Len(rq[t]))
  OBVIOUS
<1>3. /\ rq'[t] = <<>> /\ rq' \in [Threads -> Seq(Req)]
      /\ \A u \in Threads : u # t => rq'[u] = rq[u]
  BY <1>1 DEF TypeOK
<1>4. /\ Gone \in SUBSET Requests /\ \A y \in Gone : Ended(y)
      /\ Requests' = Requests \ Gone
      /\ \A y \in Requests' : Rq(y)' = Rq(y)
  <2>1. Gone \subseteq Requests
    BY <1>2 DEF Requests
  <2>2. ASSUME NEW y \in Gone PROVE Ended(y)
    <3>1. PICK i \in 1 .. Len(rq[t]) : y = <<t, i>>
      BY <1>2
    <3>2. CallOf(kind[t], "held", at[t], rq[t])
      BY <1>1 DEF CallInv
    <3>3. rq[t][i].phase = "End"
      BY <3>2 DEF CallOf, Done
    <3> QED BY <3>1, <3>3, IsRequest DEF Ended
  <2>3. Requests' = UNION {{u} \X (1 .. Len(rq'[u])) : u \in Threads}
    BY DEF Requests
  <2>4. {t} \X (1 .. Len(rq'[t])) = {}
    <3>1. Len(rq'[t]) = 0
      BY <1>3
    <3>2. 1 .. Len(rq'[t]) = {}
      BY <3>1
    <3> QED BY <3>2
  <2>5. Requests' \subseteq Requests \ Gone
    BY <1>2, <1>3, <2>3, <2>4 DEF Requests
  <2>6. Requests \ Gone \subseteq Requests'
    BY <1>2, <1>3, <2>3 DEF Requests
  <2>7. ASSUME NEW y \in Requests' PROVE Rq(y)' = Rq(y)
    <3>1. y \in Requests \ Gone
      BY <2>5
    <3>2. PICK u \in Threads : \E i \in 1 .. Len(rq[u]) : y = <<u, i>>
      BY <3>1, RequestIs
    <3>3. PICK i \in 1 .. Len(rq[u]) : y = <<u, i>>
      BY <3>2
    <3>4. u # t
      BY <1>2, <3>1, <3>3
    <3> QED BY <1>3, <3>3, <3>4 DEF Rq
  <2> QED BY <2>1, <2>2, <2>5, <2>6, <2>7
<1>5. pte' = [f \in Frames |-> [pte[f] EXCEPT !.ref = @ - Cardinality(Pins(f) \cap Gone)]]
  <2>1. \A f \in Frames : PinsOf(t, f) = Cardinality(Pins(f) \cap Gone)
    BY <1>1, <1>2, PinsOfThread
  <2> QED BY <1>1, <2>1
<1>6. PoolInv' /\ KeepsWrites
  <2>1. UNCHANGED <<mapping, free, repl, mem, disk>> /\ TypeOK /\ PoolInv
    BY <1>1
  <2> QED BY <1>4, <1>5, <2>1, DestroyedStep
<1>7. CallInv'
  <2>1. CallOf(kind[t], "idle", 1, rq'[t])
    <3>1. Len(rq'[t]) = 0
      BY <1>3
    <3>2. 1 .. Len(rq'[t]) = {}
      BY <3>1
    <3> QED BY <1>3, <3>2 DEF CallOf
  <2>2. /\ pc' = [pc EXCEPT ![t] = "idle"] /\ at' = [at EXCEPT ![t] = 1] /\ UNCHANGED kind
    BY <1>1 DEF Goto
  <2> QED BY <1>1, <1>3, <2>1, <2>2, OtherCalls
<1>8. CallTypes'
  BY <1>1, <1>3 DEF TypeOK, CallTypes, Goto
<1> QED BY <1>6, <1>7, <1>8, NextParts

LEMMA AskStep ==
  ASSUME Parameters, BatchInv, NEW t \in Threads, NEW a \in Asks, Ask(t, a[1], a[2])
  PROVE  BatchInv' /\ KeepsWrites
<1>1. PICK k, b : k = a[1] /\ b = a[2]
  OBVIOUS
<1>2. /\ TypeOK /\ CallInv /\ PoolInv /\ pc[t] = "idle" /\ left[t] > 0
      /\ left' = [left EXCEPT ![t] = @ - 1] /\ kind' = [kind EXCEPT ![t] = k]
      /\ rq' = [rq EXCEPT ![t] = [j \in 1 .. Len(b) |-> Request(b[j])]]
      /\ Goto(t, "pin", 1)
      /\ UNCHANGED <<table, mem, disk>>
  BY <1>1, InvParts DEF Ask, BatchInv
<1>3. k \in Callers /\ b \in Seq(Pages) /\ b # <<>> /\ Len(b) \in Nat /\ Len(b) >= 1
  <2>1. a \in Callers \X (Seq(Pages) \ {<<>>})
    BY DEF Parameters
  <2>2. k \in Callers /\ b \in Seq(Pages) /\ b # <<>>
    BY <1>1, <2>1
  <2> QED BY <2>2
<1> DEFINE q == [j \in 1 .. Len(b) |-> Request(b[j])]
<1>4. /\ q \in Seq(Req) /\ Len(q) = Len(b)
      /\ \A j \in 1 .. Len(q) : /\ q[j].phase = "Begin" /\ q[j].frame = None
                                /\ q[j].io = "none" /\ ~q[j].ins
  <2>1. ASSUME NEW j \in 1 .. Len(b)
        PROVE  /\ Request(b[j]) \in Req /\ Request(b[j]).phase = "Begin"
               /\ Request(b[j]).frame = None /\ Request(b[j]).io = "none" /\ ~Request(b[j]).ins
    <3>1. b[j] \in Pages
      BY <1>3
    <3> QED BY <3>1 DEF Request, Req, Phases
  <2>2. q \in [1 .. Len(b) -> Req]
    BY <2>1
  <2>3. q \in Seq(Req) /\ Len(q) = Len(b)
    BY <1>3, <2>2
  <2> QED BY <2>1, <2>3
<1>5. /\ rq' \in [Threads -> Seq(Req)] /\ rq'[t] = q
      /\ \A u \in Threads : u # t => rq'[u] = rq[u]
  BY <1>2, <1>4 DEF TypeOK
<1> HIDE DEF q
<1>6. rq[t] = <<>>
  BY <1>2 DEF CallInv, CallOf
<1> DEFINE New == {t} \X (1 .. Len(q))
<1>7. /\ Requests' = Requests \cup New
      /\ \A y \in Requests : Rq(y)' = Rq(y)
      /\ \A y \in New : Rq(y)'.phase = "Begin" /\ Rq(y)'.frame = None /\ Rq(y)'.io = "none"
  <2>1. Requests' = UNION {{u} \X (1 .. Len(rq'[u])) : u \in Threads}
    BY DEF Requests
  <2>2. {t} \X (1 .. Len(rq[t])) = {}
    <3>1. Len(rq[t]) = 0
      BY <1>6
    <3>2. 1 .. Len(rq[t]) = {}
      BY <3>1
    <3> QED BY <3>2
  <2>3. Requests' \subseteq Requests \cup New
    BY <1>5, <2>1 DEF Requests
  <2>4. Requests \cup New \subseteq Requests'
    BY <1>5, <2>1, <2>2 DEF Requests
  <2>5. ASSUME NEW y \in Requests PROVE Rq(y)' = Rq(y)
    <3>1. PICK u \in Threads : \E i \in 1 .. Len(rq[u]) : y = <<u, i>>
      BY RequestIs
    <3>2. PICK i \in 1 .. Len(rq[u]) : y = <<u, i>>
      BY <3>1
    <3>3. u # t
      BY <2>2, <3>2
    <3> QED BY <1>5, <3>2, <3>3 DEF Rq
  <2>6. ASSUME NEW y \in New
        PROVE  Rq(y)'.phase = "Begin" /\ Rq(y)'.frame = None /\ Rq(y)'.io = "none"
    <3>1. PICK i \in 1 .. Len(q) : y = <<t, i>>
      OBVIOUS
    <3>2. Rq(y)' = q[i]
      BY <1>5, <3>1 DEF Rq
    <3> QED BY <1>4, <3>2
  <2> QED BY <2>3, <2>4, <2>5, <2>6
<1>8. PoolInv' /\ KeepsWrites
  <2> HIDE DEF New
  <2>1. TypeOK /\ PoolInv /\ UNCHANGED <<table, mem, disk>>
    BY <1>2
  <2> QED BY <1>7, <2>1, AskedStep
<1>9. CallOf(k, "pin", 1, q)
  BY <1>3, <1>4 DEF CallOf, Done, Loaded
<1>10. CallInv'
  <2>1. /\ pc'[t] = "pin" /\ at'[t] = 1 /\ kind'[t] = k
        /\ \A u \in Threads : u # t => pc'[u] = pc[u] /\ at'[u] = at[u] /\ kind'[u] = kind[u]
    BY <1>2 DEF Goto, TypeOK
  <2>2. ASSUME NEW u \in Threads PROVE CallOf(kind'[u], pc'[u], at'[u], rq'[u])
    <3>1. CASE u = t
      BY <1>5, <1>9, <2>1, <3>1
    <3>2. CASE u # t
      <4>1. CallOf(kind[u], pc[u], at[u], rq[u])
        BY <1>2 DEF CallInv
      <4> QED BY <1>5, <2>1, <3>2, <4>1
    <3> QED BY <3>1, <3>2
  <2> QED BY <2>2 DEF CallInv
<1>11. CallTypes'
  <2>1. left' \in [Threads -> 0 .. Calls]
    BY <1>2 DEF TypeOK, Parameters
  <2> QED BY <1>2, <1>3, <1>5, <2>1 DEF TypeOK, CallTypes, Goto
<1> QED BY <1>8, <1>10, <1>11, NextParts

LEMMA NothingDone ==
  ASSUME Parameters, BatchInv, UNCHANGED vars
  PROVE  BatchInv' /\ KeepsWrites
<1>1. /\ UNCHANGED <<mapping, pte, free, repl, mem, disk, pc, kind, rq, at, left>>
      /\ TypeOK /\ CallInv /\ PoolInv
  BY InvParts DEF vars, BatchInv
<1>2. PoolInv' /\ KeepsWrites
  <2>1. Requests' = Requests \cup {} /\ \A y \in Requests : Rq(y)' = Rq(y)
    BY <1>1 DEF Requests, Rq
  <2>2. UNCHANGED <<table, mem, disk>> /\ TypeOK /\ PoolInv
    BY <1>1 DEF table
  <2>3. PICK New : New = {}
    OBVIOUS
  <2> QED BY <2>1, <2>2, <2>3, AskedStep
<1>3. CallInv' /\ CallTypes'
  <2>1. CallInv'
    BY <1>1 DEF CallInv
  <2>2. CallTypes'
    BY <1>1 DEF CallTypes, TypeOK
  <2> QED BY <2>1, <2>2
<1> QED BY <1>2, <1>3, NextParts

-----------------------------------------------------------------------------
(* Every step. *)

LEMMA BatchInit ==
  ASSUME Parameters, Init
  PROVE  BatchInv
<1>1. Requests = {}
  <2>1. \A t \in Threads : 1 .. Len(rq[t]) = {}
    BY DEF Init
  <2> QED BY <2>1 DEF Requests
<1>2. TypeOK
  <2>1. \A t \in Threads : rq[t] \in Seq(Req)
    BY DEF Init
  <2>2. rq \in [Threads -> Seq(Req)]
    BY <2>1 DEF Init
  <2> QED BY <2>2 DEF Init, TypeOK, Parameters, Callers
<1>3. \A p \in Pages : mapping[p] = Empty
  BY DEF Init
<1>4. PhaseInv
  BY <1>1 DEF PhaseInv
<1>5. HeldInv
  BY <1>3 DEF HeldInv, Init, Parameters
<1>6. TableInv
  BY <1>3 DEF TableInv, Init, Parameters
<1>7. PinsExact
  <2>1. \A f \in Frames : Pins(f) = {}
    BY <1>1 DEF Pins
  <2>2. \A f \in Frames : pte[f].ref = 0
    BY DEF Init
  <2> QED BY <2>1, <2>2, FS_EmptySet DEF PinsExact
<1>8. DataInv
  BY <1>1, <1>3 DEF DataInv, Parameters
<1>9. CallInv
  BY DEF CallInv, CallOf, Init
<1> QED BY <1>2, <1>4, <1>5, <1>6, <1>7, <1>8, <1>9 DEF BatchInv

LEMMA BatchStep ==
  ASSUME Parameters, BatchInv, [Next]_vars
  PROVE  BatchInv' /\ KeepsWrites
<1>1. ASSUME NEW t \in Threads, NEW a \in Asks, Ask(t, a[1], a[2]) PROVE BatchInv' /\ KeepsWrites
  BY <1>1, AskStep
<1>2. ASSUME NEW t \in Threads, Step(t) PROVE BatchInv' /\ KeepsWrites
  <2>1. CASE TryPin(t)
    BY <2>1, TryPinStep
  <2>2. CASE Begin1(t)
    BY <2>2, Begin1Step
  <2>3. CASE Begin2(t)
    BY <2>3, Begin2Step
  <2>4. CASE Initing(t)
    BY <2>4, InitingStep
  <2>5. CASE Evicting(t)
    BY <2>5, EvictingStep
  <2>6. CASE Loading1(t)
    BY <2>6, Loading1Step
  <2>7. CASE Loading2(t)
    BY <2>7, Loading2Step
  <2>8. CASE LoadingFinish(t)
    BY <2>8, LoadingFinishStep
  <2>9. CASE End(t)
    BY <2>9, EndStep
  <2> QED BY <1>2, <2>1, <2>2, <2>3, <2>4, <2>5, <2>6, <2>7, <2>8, <2>9 DEF Step
<1>3. ASSUME NEW t \in Threads, NEW i \in 1 .. Len(rq[t]), ReadDone(t, i) \/ Write(t, i)
      PROVE  BatchInv' /\ KeepsWrites
  BY <1>3, ReadDoneStep, WriteBlock
<1>4. ASSUME NEW t \in Threads, Destroy(t) PROVE BatchInv' /\ KeepsWrites
  BY <1>4, DestroyStep
<1>5. CASE UNCHANGED vars
  BY <1>5, NothingDone
<1> QED BY <1>1, <1>2, <1>3, <1>4, <1>5 DEF Next, Halt

-----------------------------------------------------------------------------
(* What the invariant says of blocks, locks and frames. *)

LEMMA BlocksAreComplete ==
  ASSUME BatchInv
  PROVE  BlockComplete
<1>1. SUFFICES ASSUME NEW t \in Threads, pc[t] = "held", NEW i \in 1 .. Len(rq[t])
      PROVE LET r == rq[t][i] IN
            /\ r.phase = "End" /\ r.ins
            /\ mapping[r.page] = r.frame /\ pte[r.frame].page = r.page
            /\ mem[r.frame] >= disk[r.page]
            /\ mem[r.frame] # disk[r.page] => pte[r.frame].dirty
  BY DEF BlockComplete
<1>2. PICK x \in Requests : x = <<t, i>>
  BY IsRequest
<1>3. PICK r : r = rq[t][i] /\ r = Rq(x)
  BY <1>2, IsRequest
<1>4. r.phase = "End" /\ r.ins
  <2>1. CallOf(kind[t], "held", at[t], rq[t])
    BY <1>1 DEF CallInv, BatchInv
  <2> QED BY <1>3, <2>1 DEF CallOf, Done
<1>5. r.page \in Pages /\ r.frame \in Frames /\ mapping[r.page] = r.frame
  <2>1. r.page \in Pages
    BY <1>3, RequestTypes DEF BatchInv
  <2>2. OnePhase(x)
    BY DEF BatchInv, PhaseInv
  <2> QED BY <1>3, <1>4, <2>1, <2>2 DEF OnePhase, Ended
<1>6. pte[r.frame].page = r.page
  BY <1>5 DEF BatchInv, TableInv
<1>7. Holds(r.frame, r.page)
  BY <1>5 DEF BatchInv, DataInv
<1> QED BY <1>3, <1>4, <1>5, <1>6, <1>7 DEF Holds

\* The phases of a lock.
LEMMA LockPhases ==
  ASSUME TypeOK, NEW x \in Requests
  PROVE  Rq(x).phase \in Phases \ {"Begin", "End"} <=> Locks(x)
<1>1. Rq(x).phase \in Phases
  BY RequestTypes
<1> QED BY <1>1 DEF Phases, Locks

LEMMA OneOf ==
  ASSUME NEW S, NEW x \in S, \A y \in S : y = x
  PROVE  Cardinality(S) = 1
<1>1. S = {x}
  OBVIOUS
<1> QED BY <1>1, FS_Singleton

LEMMA LocksHaveRequests ==
  ASSUME BatchInv
  PROVE  LockHasRequest
<1> DEFINE has(p) == {x \in Requests :
                        \/ Rq(x).page = p /\ Rq(x).phase \in Phases \ {"Begin", "End"}
                        \/ Rq(x).phase = "Evicting" /\ pte[Rq(x).frame].page = p}
<1>1. SUFFICES ASSUME NEW p \in Pages
               PROVE  Cardinality(has(p)) = IF mapping[p] = Busy THEN 1 ELSE 0
  BY DEF LockHasRequest
<1>2. \A x \in Requests : x \in has(p) <=>
       (Locks(x) /\ Rq(x).page = p) \/ (Evicts(x) /\ Old(x) = p)
  <2>1. TypeOK
    BY DEF BatchInv
  <2>2. ASSUME NEW x \in Requests PROVE Rq(x).phase \in Phases \ {"Begin", "End"} <=> Locks(x)
    BY <2>1, LockPhases
  <2> QED BY <2>2 DEF Evicts, Old
<1>3. has(p) \subseteq Requests
  OBVIOUS
<1> DEFINE S == has(p)
<1>4. /\ \A x \in Requests : x \in S <=>
           (Locks(x) /\ Rq(x).page = p) \/ (Evicts(x) /\ Old(x) = p)
      /\ S \subseteq Requests
  BY <1>2, <1>3
<1> HIDE DEF S
<1>5. CASE mapping[p] = Busy
  <2>1. PICK x \in Requests : x \in S
    <3>1. \E x \in Requests : (Locks(x) /\ Rq(x).page = p) \/ (Evicts(x) /\ Old(x) = p)
      BY <1>5 DEF BatchInv, HeldInv
    <3> QED BY <1>4, <3>1
  <2>2. ASSUME NEW y \in S PROVE y = x
    <3>1. y \in Requests
      BY <1>4
    <3>2. x # y => TwoPhases(x, y) /\ TwoPhases(y, x)
      BY <3>1 DEF BatchInv, PhaseInv
    <3>3. /\ (Locks(x) /\ Rq(x).page = p) \/ (Evicts(x) /\ Old(x) = p)
          /\ (Locks(y) /\ Rq(y).page = p) \/ (Evicts(y) /\ Old(y) = p)
      BY <1>4, <2>1, <3>1
    <3> QED BY <3>2, <3>3 DEF TwoPhases
  <2>3. Cardinality(S) = 1
    BY <2>1, <2>2, OneOf
  <2> QED BY <1>5, <2>3 DEF S
<1>6. CASE mapping[p] # Busy
  <2>1. ASSUME NEW x \in S PROVE FALSE
    <3>1. OnePhase(x)
      BY <1>4 DEF BatchInv, PhaseInv
    <3> QED BY <1>4, <1>6, <3>1 DEF OnePhase
  <2>2. S = {}
    BY <2>1
  <2>3. Cardinality(S) = 0
    BY <2>2, FS_EmptySet
  <2> QED BY <1>6, <2>3 DEF S
<1> QED BY <1>5, <1>6

LEMMA FramesAreKept ==
  ASSUME Parameters, BatchInv
  PROVE  FramesKept
<1> DEFINE with(f) == {x \in Requests :
                         Rq(x).frame = f /\ Rq(x).phase \in Phases \ {"Begin", "End"}}
<1>1. SUFFICES ASSUME NEW f \in Frames
               PROVE  Cardinality(with(f)) = IF f \in free \cup repl THEN 0 ELSE 1
  BY DEF FramesKept
<1> DEFINE S == with(f)
<1>2. /\ \A x \in Requests : x \in S <=> Carries(x) /\ Rq(x).frame = f
      /\ S \subseteq Requests
  <2>1. ASSUME NEW x \in Requests PROVE x \in S <=> Carries(x) /\ Rq(x).frame = f
    <3>1. Rq(x).phase \in Phases \ {"Begin", "End"} <=> Locks(x)
      BY LockPhases DEF BatchInv
    <3>2. Carries(x) \/ Ended(x) \/ Rq(x).frame = None
      BY DEF BatchInv, PhaseInv, OnePhase
    <3>3. Locks(x) /\ Rq(x).frame = f => Carries(x)
      BY <3>2 DEF Locks, Ended, Parameters
    <3>4. Carries(x) => Locks(x)
      BY DEF Carries, Locks
    <3> QED BY <3>1, <3>3, <3>4
  <2> QED BY <2>1
<1> HIDE DEF S
<1>3. CASE f \notin free \cup repl
  <2>1. PICK x \in Requests : x \in S
    BY <1>2, <1>3 DEF BatchInv, HeldInv
  <2>2. ASSUME NEW y \in S PROVE y = x
    <3>1. y \in Requests
      BY <1>2
    <3>2. x # y => TwoPhases(x, y)
      BY <3>1 DEF BatchInv, PhaseInv
    <3>3. Carries(x) /\ Carries(y) /\ Rq(x).frame = Rq(y).frame
      BY <1>2, <2>1, <3>1
    <3> QED BY <3>2, <3>3 DEF TwoPhases
  <2>3. Cardinality(S) = 1
    BY <2>1, <2>2, OneOf
  <2> QED BY <1>3, <2>3 DEF S
<1>4. CASE f \in free \cup repl
  <2>1. ASSUME NEW x \in S PROVE FALSE
    <3>1. OnePhase(x)
      BY <1>2 DEF BatchInv, PhaseInv
    <3> QED BY <1>2, <1>4, <3>1 DEF OnePhase
  <2>2. S = {}
    BY <2>1
  <2>3. Cardinality(S) = 0
    BY <2>2, FS_EmptySet
  <2> QED BY <1>4, <2>3 DEF S
<1> QED BY <1>3, <1>4

-----------------------------------------------------------------------------
(* Theorems. *)

\* The invariant: in any number of resumable fetches under way, in any order,
\* every lock and every frame out of the lists has its one request.
THEOREM BatchInvariance ==
  Parameters /\ Spec => []BatchInv
<1>1. ASSUME Parameters PROVE Spec => []BatchInv
  <2>1. Init => BatchInv
    BY <1>1, BatchInit
  <2>2. BatchInv /\ [Next]_vars => BatchInv'
    BY <1>1, BatchStep
  <2> QED BY <2>1, <2>2, PTL DEF Spec
<1> QED BY <1>1

\* Each variable keeps its type.
THEOREM BatchTypes ==
  Parameters /\ Spec => []TypeOK
<1>1. BatchInv => TypeOK
  BY DEF BatchInv
<1> QED BY <1>1, BatchInvariance, PTL

\* Every page of a block that was returned is in the frame the block points to,
\* published, and no older than its copy on disk.
THEOREM BlocksComplete ==
  Parameters /\ Spec => []BlockComplete
<1>1. BatchInv => BlockComplete
  BY BlocksAreComplete
<1> QED BY <1>1, BatchInvariance, PTL

\* A frame's count is the number of requests that ended with it, whichever of
\* the callers asked, and however often a request was asked again.
THEOREM PinsAreExact ==
  Parameters /\ Spec => []PinsExact
<1>1. BatchInv => PinsExact
  BY DEF BatchInv
<1> QED BY <1>1, BatchInvariance, PTL

\* A locked page has one request that has its lock.
THEOREM LocksAreHeld ==
  Parameters /\ Spec => []LockHasRequest
<1>1. BatchInv => LockHasRequest
  BY LocksHaveRequests
<1> QED BY <1>1, BatchInvariance, PTL

\* A frame is free, in the replacer, or with the one request that will load it.
THEOREM NoFrameLost ==
  Parameters /\ Spec => []FramesKept
<1>1. ASSUME Parameters PROVE Spec => []FramesKept
  <2>1. BatchInv => FramesKept
    BY <1>1, FramesAreKept
  <2> QED BY <1>1, <2>1, BatchInvariance, PTL
<1> QED BY <1>1

\* No step takes a page back to an earlier version: what UpdateContent wrote is
\* in the frame, on its way to disk, or on disk.
THEOREM WritesAreKept ==
  Parameters /\ Spec => NoLostWrite
<1>1. ASSUME Parameters PROVE Spec => NoLostWrite
  <2>1. BatchInv /\ [Next]_vars => KeepsWrites
    BY <1>1, BatchStep
  <2>2. Spec => []BatchInv
    BY <1>1, BatchInvariance
  <2>3. Spec => [][KeepsWrites]_vars
    BY <2>1, <2>2, PTL DEF Spec
  <2> QED BY <2>3 DEF NoLostWrite
<1> QED BY <1>1
=============================================================================
