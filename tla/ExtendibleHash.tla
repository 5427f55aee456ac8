--------------------------- MODULE ExtendibleHash ---------------------------
(***************************************************************************)
(* The extendible hash table (extendible_hash.cpp).  Keys are integers and *)
(* hash to themselves, as std::hash of an integer does.                    *)
(*                                                                         *)
(* getIdx holds latch_ for itself only; the bucket is then read from       *)
(* buckets_ without a latch and locked: index and bucket are two steps, in *)
(* Insert three.  A section under a bucket's latch is one step: a split    *)
(* takes latch_ as well, and nobody reads the new bucket before it is in   *)
(* the directory.  The growth of the vector under a reader is a data race  *)
(* the model does not have: it reads the entry, old or new.                *)
(***************************************************************************)
EXTENDS Integers, FiniteSets, Sequences

CONSTANTS
  Threads, Keys, Vals, None,
  BucketSize,   \* bucketSize_
  MaxDepth      \* of the directory, a bound of the model

\* What the constants have to be; the modules that instantiate this one assume it.
Parameters == Keys \subseteq Nat /\ BucketSize \in Nat \ {0} /\ MaxDepth \in Nat

VARIABLES
  globalDepth_,
  bucketNum_,
  buckets_,   \* directory: index -> bucket
  bucket,     \* bucket -> [localDepth, kmap], kmap a function on its keys
  pc,         \* thread -> "idle", or the operation and its next step
  key, val,   \* thread -> the arguments of its operation
  idx, cur,   \* thread -> locals of the operations
  ret,        \* thread -> what its last Find or Remove returned: a value, or None
  missed      \* thread -> its key was not in the table at some time since the call

vars == <<globalDepth_, bucketNum_, buckets_, bucket, pc, key, val, idx, cur, ret, missed>>
table == <<globalDepth_, bucketNum_, buckets_, bucket>>

Init ==
  /\ globalDepth_ = 0 /\ bucketNum_ = 1
  /\ buckets_ = [i \in {0} |-> 1]
  /\ bucket = <<[localDepth |-> 0, kmap |-> <<>>]>>
  /\ pc = [t \in Threads |-> "idle"]
  /\ key = [t \in Threads |-> CHOOSE k \in Keys : TRUE]
  /\ val = [t \in Threads |-> CHOOSE v \in Vals : TRUE]
  /\ idx = [t \in Threads |-> 0]
  /\ cur = [t \in Threads |-> 1]
  /\ ret = [t \in Threads |-> None]
  /\ missed = [t \in Threads |-> FALSE]

Goto(t, l) == pc' = [pc EXCEPT ![t] = l]

\* A bit of the hash, and the entry of a key in a directory of depth d.
Bit(h, d) == (h \div 2^d) % 2 = 1
Entry(k, d) == k % 2^d

\* kmap as a map: what std::map does.
Put(m, k, v) == [x \in DOMAIN m \union {k} |-> IF x = k THEN v ELSE m[x]]
Only(m, s) == [x \in DOMAIN m \cap s |-> m[x]]

\* The keys the table has, wherever they are.
Stored == UNION {DOMAIN bucket[b].kmap : b \in DOMAIN bucket}

\* A thread that has just called with key k, or has called and waits, has missed
\* the key if it is not there now.
Observe(stored) == missed' = [t \in Threads |-> pc'[t] # "idle" /\ (missed[t] \/ key'[t] \notin stored)]

-----------------------------------------------------------------------------
(* The calls: getIdx is their first step. *)

getIdx(t, k) == idx' = [idx EXCEPT ![t] = Entry(k, globalDepth_)]

Call(t, op, k, v) ==
  /\ pc[t] = "idle"
  /\ Goto(t, op)
  /\ key' = [key EXCEPT ![t] = k]
  /\ val' = [val EXCEPT ![t] = v]
  /\ getIdx(t, k)
  /\ missed' = [missed EXCEPT ![t] = k \notin Stored]
  /\ UNCHANGED <<table, cur, ret>>

\* Find: the bucket of the index, under its latch.
Find(t) ==
  /\ pc[t] = "find"
  /\ LET m == bucket[buckets_[idx[t]]].kmap
     IN ret' = [ret EXCEPT ![t] = IF key[t] \in DOMAIN m THEN m[key[t]] ELSE None]
  /\ Goto(t, "found")
  /\ UNCHANGED <<table, key, val, idx, cur, missed>>

\* Variant: the entry is marked and stays.
RemoveNothing(t) ==
  /\ pc[t] = "remove"
  /\ LET m == bucket[buckets_[idx[t]]].kmap
     IN ret' = [ret EXCEPT ![t] = IF key[t] \in DOMAIN m THEN m[key[t]] ELSE None]
  /\ Goto(t, "idle")
  /\ UNCHANGED <<table, key, val, idx, cur, missed>>

Remove(t) ==
  /\ pc[t] = "remove"
  /\ LET b == buckets_[idx[t]]
         m == bucket[b].kmap
     IN /\ ret' = [ret EXCEPT ![t] = IF key[t] \in DOMAIN m THEN m[key[t]] ELSE None]
        /\ bucket' = [bucket EXCEPT ![b].kmap = Only(m, Keys \ {key[t]})]
        /\ Goto(t, "idle")
        /\ UNCHANGED <<key, val>>
        /\ Observe(Stored \ {key[t]})
  /\ UNCHANGED <<globalDepth_, bucketNum_, buckets_, idx, cur>>

-----------------------------------------------------------------------------
(* Insert *)

InsertTake(t) ==
  /\ pc[t] = "insert"
  /\ cur' = [cur EXCEPT ![t] = buckets_[idx[t]]]
  /\ Goto(t, "put")
  /\ UNCHANGED <<table, key, val, idx, ret, missed>>

HasRoom(t) ==
  LET m == bucket[cur[t]].kmap
  IN key[t] \in DOMAIN m \/ Cardinality(DOMAIN m) < BucketSize

\* Variant: once a bucket has been split the pair is not stored.
InsertPutLost(t) ==
  /\ pc[t] = "put" /\ HasRoom(t)
  /\ bucket' = IF Len(bucket) > 1 THEN bucket
               ELSE [bucket EXCEPT ![cur[t]].kmap = Put(@, key[t], val[t])]
  /\ Goto(t, "idle")
  /\ UNCHANGED <<globalDepth_, bucketNum_, buckets_, key, val, idx, cur, ret>>
  /\ Observe(Stored \union {key[t]})

InsertPut(t) ==
  /\ pc[t] = "put" /\ HasRoom(t)
  /\ bucket' = [bucket EXCEPT ![cur[t]].kmap = Put(@, key[t], val[t])]
  /\ Goto(t, "idle")
  /\ UNCHANGED <<globalDepth_, bucketNum_, buckets_, key, val, idx, cur, ret>>
  /\ Observe(Stored \union {key[t]})

\* The directory doubled: the upper half repeats the lower.
Doubled(dir, d) == [i \in 0 .. 2^(d + 1) - 1 |-> dir[i % 2^d]]

\* Variant: every entry of the old bucket is turned to the new one.
RedirectedAll(dir, b, new, depth) == [i \in DOMAIN dir |-> IF dir[i] = b THEN new ELSE dir[i]]

Redirected(dir, b, new, depth) ==
  [i \in DOMAIN dir |-> IF dir[i] = b /\ Bit(i, depth) THEN new ELSE dir[i]]

\* The overflow: the bucket is split by the bit of its old depth, the directory
\* doubled if it is not deep enough, and the index taken again.
InsertSplit(t) ==
  /\ pc[t] = "put" /\ ~HasRoom(t)
  /\ LET b == cur[t]
         depth == bucket[b].localDepth
         grow == depth + 1 > globalDepth_
         dir == IF grow THEN Doubled(buckets_, globalDepth_) ELSE buckets_
         new == Len(bucket) + 1
         up == {k \in Keys : Bit(k, depth)}
     IN /\ grow => globalDepth_ < MaxDepth
        /\ globalDepth_' = IF grow THEN globalDepth_ + 1 ELSE globalDepth_
        /\ bucketNum_' = bucketNum_ + 1
        /\ bucket' = Append([bucket EXCEPT ![b] = [localDepth |-> depth + 1,
                                                   kmap |-> Only(@.kmap, Keys \ up)]],
                            [localDepth |-> depth + 1, kmap |-> Only(bucket[b].kmap, up)])
        /\ buckets_' = Redirected(dir, b, new, depth)
        /\ idx' = [idx EXCEPT ![t] = Entry(key[t], globalDepth_')]
        /\ cur' = [cur EXCEPT ![t] = buckets_'[idx'[t]]]
  /\ UNCHANGED <<pc, key, val, ret, missed>>

\* The caller looks at what Find returned.
Return(t) ==
  /\ pc[t] = "found"
  /\ Goto(t, "idle")
  /\ missed' = [missed EXCEPT ![t] = FALSE]
  /\ UNCHANGED <<table, key, val, idx, cur, ret>>

Next == \E t \in Threads :
  \/ \E op \in {"find", "insert", "remove"}, k \in Keys, v \in Vals : Call(t, op, k, v)
  \/ Find(t) \/ Remove(t) \/ InsertTake(t) \/ InsertPut(t) \/ InsertSplit(t) \/ Return(t)

Spec == Init /\ [][Next]_vars

-----------------------------------------------------------------------------
TypeOK ==
  /\ globalDepth_ \in 0 .. MaxDepth /\ bucketNum_ = Len(bucket)
  /\ buckets_ \in [0 .. 2^globalDepth_ - 1 -> DOMAIN bucket]
  /\ \A b \in DOMAIN bucket : /\ bucket[b].localDepth \in 0 .. globalDepth_
                              /\ DOMAIN bucket[b].kmap \subseteq Keys
  /\ pc \in [Threads -> {"idle", "find", "found", "remove", "insert", "put"}]
  /\ key \in [Threads -> Keys] /\ val \in [Threads -> Vals]
  /\ idx \in [Threads -> 0 .. 2^globalDepth_ - 1]
  /\ cur \in [Threads -> DOMAIN bucket]
  /\ ret \in [Threads -> Vals \union {None}] /\ missed \in [Threads -> BOOLEAN]

\* Insert's split: each bucket has exactly the entries of the directory that agree
\* in its localDepth low bits, and holds only keys those entries lead to.
DirectorySound ==
  \A b \in DOMAIN bucket :
    LET d == bucket[b].localDepth
        mine == {i \in DOMAIN buckets_ : buckets_[i] = b}
    IN /\ Cardinality(mine) = 2^(globalDepth_ - d)
       /\ \A i, j \in mine : i % 2^d = j % 2^d
       /\ \A k \in DOMAIN bucket[b].kmap : Entry(k, globalDepth_) \in mine

\* Find: a key that was in the table from the call to the answer is found: "report
\* that the PageId does not match any currently-buffered page" only then
\* (extendible_hash.h).
FindsStored ==
  \A t \in Threads : pc[t] = "found" /\ ret[t] = None => missed[t]

\* The table by itself: a map from the keys stored to their values.
contents == [k \in Stored |-> bucket[CHOOSE b \in DOMAIN bucket : k \in DOMAIN bucket[b].kmap].kmap[k]]
Put1(t) == contents' = Put(contents, key[t], val[t]) /\ pc[t] = "put" /\ pc'[t] = "idle"
Drop1(t) == contents' = Only(contents, Keys \ {key[t]}) /\ pc[t] = "remove" /\ pc'[t] = "idle"
Read1(t) == pc[t] = "find" /\ pc'[t] = "found" /\ UNCHANGED contents
            /\ ret'[t] = (IF key[t] \in DOMAIN contents THEN contents[key[t]] ELSE None)

\* The operations do to the whole table what they do to a map: the last step of
\* Insert puts its pair, Remove drops the key, Find reads, and a split changes
\* nothing.
MapStep ==
  \E t \in Threads : \/ Put1(t) \/ Drop1(t) \/ Read1(t)
                     \/ pc[t] \notin {"find", "remove", "put"} /\ pc'[t] # pc[t] /\ UNCHANGED contents
                     \/ pc'[t] = "put" /\ pc[t] = "put" /\ UNCHANGED contents
ActsAsMap == [][MapStep]_vars
=============================================================================
