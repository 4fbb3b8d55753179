---------------------------- MODULE ExtendibleHash ----------------------------
(***************************************************************************)
(* ExtendibleHashTable of src/bustub/src/buffer/buffer_pool_manager_      *)
(* instance.cpp (lines 284-443), the buffer pool's page table, used by    *)
(* several client threads.                                                 *)
(*                                                                         *)
(* The table is one record `ht`:                                           *)
(*   ht.dir      dir_: slot i + 1 holds the id of the bucket of index i    *)
(*   ht.gd       global_depth_                                             *)
(*   ht.bkt      the live buckets: id -> [depth |-> depth_,                *)
(*                                        items |-> list_ as a function]  *)
(*   ht.fresh    the next bucket id make_shared hands out                  *)
(* Keys are page ids, which std::hash maps to themselves, so IndexOf is    *)
(* the key modulo 2^global_depth_.  A bucket's list_ is a function from    *)
(* keys to a value or NoValue: its order plays no part in any operation.  *)
(*                                                                         *)
(* Insert holds latch_ for its whole body: one step.  Find and Remove call *)
(* IndexOf, which reads global_depth_, before they take latch_: two steps, *)
(* the index kept in idx[c] between them.                                  *)
(***************************************************************************)
EXTENDS Naturals, Sequences, FiniteSets, Functions, TLC

CONSTANTS
    Keys,        \* page ids 0 .. n - 1
    Values,      \* the values stored (frame ids)
    BucketSize,  \* bucket_size_
    Clients,     \* threads calling the table
    NoValue      \* model value: no entry for the key

ASSUME BucketSize \in Nat \ {0}

VARIABLES
    ht,      \* the table
    pc,      \* pc[c]: "idle", or "find" / "remove" between IndexOf and latch_
    key,     \* key[c]: the key of c's call
    idx,     \* idx[c]: the index IndexOf returned to c
    done     \* done[c]: c's last completed call [op, key, out]; `out` is what
             \* Find or Remove returned, or the value Insert stored

vars == <<ht, pc, key, idx, done>>

EmptyItems == [k \in Keys |-> NoValue]

\* The constructor (lines 285-289): one bucket of depth 0.
EmptyTable ==
    [dir |-> <<0>>, gd |-> 0,
     bkt |-> (0 :> [depth |-> 0, items |-> EmptyItems]),
     fresh |-> 1]

\* IndexOf (lines 292-295).
IndexOf(t, k) == k % (2 ^ t.gd)

BucketOf(t, k) == t.bkt[t.dir[IndexOf(t, k) + 1]]

Size(items) == Cardinality({k \in Keys : items[k] # NoValue})

IsFull(b) == Size(b.items) >= BucketSize

\* Bit `bit` of a key or directory index, as `x & bit` tests it.
HasBit(x, bit) == (x \div bit) % 2 = 1

\* Mutation of NewBucket: the new buckets keep the old local depth.
NewBucketSameDepth(items, ld, high) ==
    [depth |-> ld,
     items |-> [x \in Keys |-> IF HasBit(x, 2 ^ ld) = high THEN items[x] ELSE NoValue]]

\* new_bucket_0 / new_bucket_1 (lines 371-380): local depth + 1, and the
\* entries whose bit local_depth is 0 (resp. 1).
NewBucket(items, ld, high) ==
    [depth |-> ld + 1,
     items |-> [x \in Keys |-> IF HasBit(x, 2 ^ ld) = high THEN items[x] ELSE NoValue]]

\* The slots the loop of lines 382-388 repoints: from hash(key) & (mask - 1)
\* in steps of local_mask, the slots that agree with the key on its low
\* local_depth bits.
SplitSlots(t, k, lm) == {j \in 0 .. Len(t.dir) - 1 : j % lm = k % lm}

\* Lines 362-368: copy the directory after itself, one more global bit.
Doubled(t) == [t EXCEPT !.dir = @ \o @, !.gd = @ + 1]

\* One pass of Insert's split loop (lines 360-390): double the directory
\* when the bucket's local depth is the global depth, split the bucket's
\* entries on bit local_depth into two new buckets, and point every slot
\* that agrees with the key on the low local_depth bits at one of them.
SplitOnce(t, k) ==
    LET ld    == BucketOf(t, k).depth
        items == BucketOf(t, k).items
        t1    == IF ld = t.gd THEN Doubled(t) ELSE t
        lm    == 2 ^ ld
        b0    == t.fresh
        b1    == t.fresh + 1
        dir   == [j \in 1 .. Len(t1.dir) |->
                    IF j - 1 \in SplitSlots(t1, k, lm)
                    THEN IF HasBit(j - 1, lm) THEN b1 ELSE b0
                    ELSE t1.dir[j]]
        new   == (b0 :> NewBucket(items, ld, FALSE)) @@ (b1 :> NewBucket(items, ld, TRUE))
    IN  [t1 EXCEPT !.dir = dir, !.fresh = @ + 2,
                   !.bkt = Restrict(new @@ @, Range(dir))]

RECURSIVE SplitWhileFull(_, _)
SplitWhileFull(t, k) ==
    IF IsFull(BucketOf(t, k)) THEN SplitWhileFull(SplitOnce(t, k), k) ELSE t

\* Mutation of BucketInsert: an existing key keeps its old value.
BucketInsertNoOverwrite(t, k, v) ==
    LET id == t.dir[IndexOf(t, k) + 1] IN
    IF t.bkt[id].items[k] # NoValue \/ IsFull(t.bkt[id]) THEN t
    ELSE [t EXCEPT !.bkt[id].items[k] = v]

\* Bucket::Insert (lines 429-443) on the key's bucket: overwrite an
\* existing entry, else append unless the bucket is full.
BucketInsert(t, k, v) ==
    LET id == t.dir[IndexOf(t, k) + 1] IN
    IF t.bkt[id].items[k] = NoValue /\ IsFull(t.bkt[id]) THEN t
    ELSE [t EXCEPT !.bkt[id].items[k] = v]

\* Insert (lines 346-395): an existing key is updated in place; otherwise
\* split while the key's bucket is full, then insert.
InsertOf(t, k, v) ==
    IF BucketOf(t, k).items[k] # NoValue THEN BucketInsert(t, k, v)
    ELSE BucketInsert(SplitWhileFull(t, k), k, v)

-----------------------------------------------------------------------------
Init ==
    /\ ht = EmptyTable
    /\ pc = [c \in Clients |-> "idle"]
    /\ key = [c \in Clients |-> CHOOSE k \in Keys : TRUE]
    /\ idx = [c \in Clients |-> 0]
    /\ done = [c \in Clients |-> [op |-> "none", key |-> key[c], out |-> NoValue]]

Insert(c, k, v) ==
    /\ pc[c] = "idle"
    /\ ht' = InsertOf(ht, k, v)
    /\ done' = [done EXCEPT ![c] = [op |-> "insert", key |-> k, out |-> v]]
    /\ UNCHANGED <<pc, key, idx>>

\* Find / Remove, first step: IndexOf before latch_ (lines 332, 339).
Call(c, k, op) ==
    /\ pc[c] = "idle"
    /\ pc' = [pc EXCEPT ![c] = op]
    /\ key' = [key EXCEPT ![c] = k]
    /\ idx' = [idx EXCEPT ![c] = IndexOf(ht, k)]
    /\ UNCHANGED <<ht, done>>

\* Find under latch_ (lines 333-334) with Bucket::Find (lines 404-414).
FindLocked(c) ==
    LET id == ht.dir[idx[c] + 1] IN
    /\ pc[c] = "find"
    /\ done' = [done EXCEPT ![c] =
                  [op |-> "find", key |-> key[c], out |-> ht.bkt[id].items[key[c]]]]
    /\ pc' = [pc EXCEPT ![c] = "idle"]
    /\ UNCHANGED <<ht, key, idx>>

\* Remove under latch_ (lines 340-342) with Bucket::Remove (lines 417-426).
RemoveLocked(c) ==
    LET id == ht.dir[idx[c] + 1]
        k  == key[c]
    IN  /\ pc[c] = "remove"
        /\ ht' = [ht EXCEPT !.bkt[id].items[k] = NoValue]
        /\ done' = [done EXCEPT ![c] =
                      [op |-> "remove", key |-> k, out |-> ht.bkt[id].items[k] # NoValue]]
        /\ pc' = [pc EXCEPT ![c] = "idle"]
        /\ UNCHANGED <<key, idx>>

Next ==
    \/ \E c \in Clients, k \in Keys, v \in Values : Insert(c, k, v)
    \/ \E c \in Clients, k \in Keys, op \in {"find", "remove"} : Call(c, k, op)
    \/ \E c \in Clients : FindLocked(c) \/ RemoveLocked(c)

Spec == Init /\ [][Next]_vars

-----------------------------------------------------------------------------
\* The directory has 2^global_depth_ slots and agrees with the buckets
\* after any sequence of splits: a
\* bucket of local depth d is named by exactly the 2^(gd - d) slots that
\* agree on their low d bits, holds only keys with those low bits, and
\* holds at most bucket_size_ entries.  A key then has one bucket, the one
\* IndexOf finds.
DirectoryConsistent ==
    /\ ht.dir \in [1 .. 2 ^ ht.gd -> DOMAIN ht.bkt]
    /\ \A j \in 0 .. Len(ht.dir) - 1 :
          LET b == ht.bkt[ht.dir[j + 1]]
              m == 2 ^ b.depth
          IN  /\ b.depth <= ht.gd
              /\ \A i \in 0 .. Len(ht.dir) - 1 :
                     (ht.dir[i + 1] = ht.dir[j + 1]) <=> (i % m = j % m)
              /\ \A k \in Keys : b.items[k] # NoValue => k % m = j % m
              /\ Size(b.items) <= BucketSize

\* The table implements the atomic map of KVMap: every Insert, Find and
\* Remove takes effect at one instant, and Find and Remove see the entry
\* the map holds for their key.
Abs == INSTANCE KVMap WITH
           map <- [k \in Keys |-> BucketOf(ht, k).items[k]],
           done <- done

ImplementsKVMap == Abs!Spec
=============================================================================
