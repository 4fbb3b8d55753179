------------------------------ MODULE Executors ------------------------------
(***************************************************************************)
(* The Volcano executors of src/bustub/src/execution: SeqScan, Sort, TopN, *)
(* Aggregation (COUNT star), NestedLoopJoin and HashJoin (INNER, LEFT, an  *)
(* equality predicate), Insert, Delete and Update, run by one transaction *)
(* that holds the only locks.                                              *)
(*                                                                         *)
(* plan is the plan tree, a function from node to plan node, 1 the root;  *)
(* tables the table contents when the query starts, a sequence of tuples  *)
(* each (a rid is <<table, index>>).  st holds every executor's member     *)
(* variables (ex), the table heaps as the query changes them (tab, and     *)
(* del, the rids marked deleted), the one-column index of each indexed    *)
(* table (idx), the transaction's state and row locks (txn) and the       *)
(* exception in flight (err).  An executor's Init *)
(* and Next are operators on st that call their children's, so a Next of  *)
(* the root is one step, as ExecutionEngine::Execute calls it: Init once, *)
(* then Next until it returns false or throws.                            *)
(***************************************************************************)
EXTENDS Integers, Sequences, FiniteSets, TLC

S == INSTANCE SequencesExt

CONSTANTS Vals,       \* column values, integers
          Null,       \* the NULL a LEFT join pads with
          TableIds,
          MaxRows,    \* rows per table
          Plans,      \* the plan trees a query may have
          Isolation,  \* the transaction's isolation level
          IndexedTables \* the tables with an index on column KeyCol

KeyCol == 1           \* the index key column

\* The tuples a table heap holds before InsertTuple fails to get a new
\* page from the buffer pool: room for a second copy of a table and one
\* tuple more, so that a write that keeps re-reading its own output stops
\* after an odd number of copies.
HeapCap == 2 * MaxRows + 1

NoRid == <<>>         \* the RID a Next that does not set *rid leaves

Arity == 2            \* columns of every table

Rows == UNION {[1 .. n -> [1 .. Arity -> Vals]] : n \in 0 .. MaxRows}

VARIABLES query, plan, tables, st, out, pc

vars == <<query, plan, tables, st, out, pc>>

\* The columns of a node's output tuples (its OutputSchema).
RECURSIVE Width(_, _)
Width(p, n) ==
    CASE p[n].kind = "scan" -> Arity
      [] p[n].kind \in {"sort", "topn", "limit"} -> Width(p, p[n].child)
      [] p[n].kind = "agg" -> Len(p[n].groupBy) + 1
      [] p[n].kind \in {"nlj", "hj"} -> Width(p, p[n].left) + Width(p, p[n].right)
      [] p[n].kind = "nij" -> Width(p, p[n].child) + Arity
      [] p[n].kind \in {"insert", "delete", "update"} -> 1

Nulls(w) == [i \in 1 .. w |-> Null]

\* The members of each executor after its constructor.
Constructed(p) ==
    [n \in DOMAIN p |->
        CASE p[n].kind = "scan" -> [pos |-> 0]
          [] p[n].kind = "sort" -> [tuples |-> <<>>]
          [] p[n].kind = "topn" -> [queue |-> <<>>, limit |-> 0]
          [] p[n].kind = "limit" -> [limit |-> 0]
          [] p[n].kind = "nij"  -> [leftTuple |-> <<>>]
          [] p[n].kind = "agg"  -> [aht |-> <<>>, it |-> 1, hasNoTuple |-> TRUE]
          [] p[n].kind = "nlj"  -> [leftTuple |-> <<>>, matched |-> FALSE, leftInit |-> FALSE,
                                    rightNeedInit |-> FALSE, hasNoTuple |-> FALSE]
          [] p[n].kind = "hj"   -> [hmap |-> [v \in Vals |-> <<>>], idx |-> -1, lkey |-> Null,
                                    leftTuple |-> <<>>, matched |-> FALSE]
          [] p[n].kind \in {"insert", "delete", "update"} -> [hasNoTuple |-> FALSE]]

Ret(s, ok, t) == [s |-> s, ok |-> ok, tup |-> t, rid |-> NoRid]

Fail(s) == Ret(s, FALSE, <<>>)

\* A TransactionAbortException, caught by the executor and rethrown as an
\* ExecutionException.
Abort(s) == [s EXCEPT !.txn.state = "ABORTED", !.err = "executor"]

\* LockManager::LockTable(IS) for a transaction alone: an aborted one
\* throws logic_error; a shrinking REPEATABLE_READ one aborts; otherwise
\* the lock is granted (again, if held).
LockTableIS(s) ==
    CASE s.txn.state = "ABORTED" -> [s EXCEPT !.err = "logic"]
      [] s.txn.state = "SHRINKING" /\ Isolation = "REPEATABLE_READ" -> Abort(s)
      [] OTHER -> s

\* LockManager::LockRow(S): the same checks, and the lock is booked.
LockRowS(s, rid) ==
    CASE s.txn.state = "ABORTED" -> [s EXCEPT !.err = "logic"]
      [] s.txn.state = "SHRINKING" /\ Isolation = "REPEATABLE_READ" -> Abort(s)
      [] OTHER -> [s EXCEPT !.txn.rows = @ \cup {rid}]

\* LockManager::UnlockRow: a row not held aborts; otherwise the lock goes
\* and UnLockChangeState moves a growing REPEATABLE_READ transaction to
\* SHRINKING on an S unlock.
UnlockRow(s, rid) ==
    IF rid \notin s.txn.rows THEN Abort(s)
    ELSE [s EXCEPT !.txn.rows = @ \ {rid},
                   !.txn.state = IF @ = "GROWING" /\ Isolation = "REPEATABLE_READ"
                                 THEN "SHRINKING" ELSE @]

\* LockManager::LockTable(IX) for a transaction alone: refused, and the
\* transaction aborted, whenever it is SHRINKING.
LockTableIX(s) ==
    CASE s.txn.state = "ABORTED" -> [s EXCEPT !.err = "logic"]
      [] s.txn.state = "SHRINKING" -> Abort(s)
      [] OTHER -> s

\* LockManager::LockRow(X) under the IX table lock: the same, and the
\* lock is booked.
LockRowX(s, rid) ==
    CASE s.txn.state = "ABORTED" -> [s EXCEPT !.err = "logic"]
      [] s.txn.state = "SHRINKING" -> Abort(s)
      [] OTHER -> [s EXCEPT !.txn.xrows = @ \cup {rid}]

\* CompareTuples: "before" when a goes first, "after" when b does, "equal"
\* when no order-by column tells them apart (UNREACHABLE).  A NULL
\* compares neither equal, less nor greater, so its column is skipped.
Compare(ob, a, b) ==
    LET differs == {i \in 1 .. Len(ob) : a[ob[i].col] # Null /\ b[ob[i].col] # Null
                                         /\ a[ob[i].col] # b[ob[i].col]}
    IN  IF differs = {} THEN "equal"
        ELSE LET o == ob[CHOOSE i \in differs : \A j \in differs : i <= j]
             IN  IF (o.type = "DESC") = (a[o.col] > b[o.col]) THEN "before" ELSE "after"

\* One pass of SortTuples' for loop over positions 1 .. n, from i on.
RECURSIVE Pass(_, _, _, _, _)
Pass(ob, q, i, n, swapped) ==
    IF i >= n THEN [q |-> q, swapped |-> swapped, ok |-> TRUE]
    ELSE CASE Compare(ob, q[i], q[i + 1]) = "equal" -> [q |-> q, swapped |-> swapped, ok |-> FALSE]
           [] Compare(ob, q[i], q[i + 1]) = "before" -> Pass(ob, q, i + 1, n, swapped)
           [] OTHER -> Pass(ob, [q EXCEPT ![i] = q[i + 1], ![i + 1] = q[i]], i + 1, n, TRUE)

\* SortTuples' while (swapped) loop: a bubble sort; ok is FALSE when a
\* comparison reached UNREACHABLE.
RECURSIVE Bubble(_, _, _)
Bubble(ob, q, n) ==
    LET r == Pass(ob, q, 1, n, FALSE)
    IN  IF r.ok /\ r.swapped THEN Bubble(ob, r.q, n - 1) ELSE r

\* Mutation of SortTuples: n starts at size() - 1, so the first pass
\* leaves the last pair alone.
SortTuplesShort(ob, q) == Bubble(ob, q, Len(q) - 1)

SortTuples(ob, q) == Bubble(ob, q, Len(q))

Proj(t, cols) == [i \in 1 .. Len(cols) |-> t[cols[i]]]

\* The NestedLoopJoin predicate l[lcol] = r[rcol]; NULL matches nothing.
JoinPred(pn, l, r) == l[pn.lcol] # Null /\ r[pn.rcol] # Null /\ l[pn.lcol] = r[pn.rcol]

\* The rows of table t that are not marked deleted, in heap order.
Live(s, t) ==
    LET keep == S!SetToSortSeq({i \in DOMAIN s.tab[t] : <<t, i>> \notin s.del}, <)
    IN  [j \in DOMAIN keep |-> s.tab[t][keep[j]]]

\* Index::InsertEntry on the B+ tree index, which holds unique keys: a key
\* already present leaves the index as it is.
IndexInsert(s, t, key, rid) ==
    IF t \notin IndexedTables \/ \E e \in s.idx[t] : e[1] = key THEN s
    ELSE [s EXCEPT !.idx[t] = @ \cup {<<key, rid>>}]

\* Mutation of IndexDelete: the entry is not removed.
IndexDeleteKeeps(s, t, key) == s

\* Index::DeleteEntry: BPlusTree::Remove drops the key, whatever rid it
\* maps to.
IndexDelete(s, t, key) ==
    IF t \notin IndexedTables THEN s
    ELSE [s EXCEPT !.idx[t] = {e \in @ : e[1] # key}]

\* UpdateExecutor::GenerateUpdateTuple: every target expression evaluated
\* on the old tuple, a column reference or a constant.
GenerateUpdateTuple(targets, old) ==
    [i \in 1 .. Arity |-> IF "col" \in DOMAIN targets[i] THEN old[targets[i].col]
                          ELSE targets[i].val]

\* InsertExecutor::Next's loop body: InsertTuple appends the tuple to the
\* heap, or without a page aborts the transaction and fails; then the X
\* row lock, then InsertEntry.
InsertWrite(s, t, tup) ==
    LET rid == <<t, Len(s.tab[t]) + 1>>
        s1 == LockRowX([s EXCEPT !.tab[t] = Append(@, tup)], rid)
    IN  IF Len(s.tab[t]) >= HeapCap THEN [s |-> [s EXCEPT !.txn.state = "ABORTED"], ok |-> FALSE]
        ELSE [s |-> IF s1.err # "none" THEN s1 ELSE IndexInsert(s1, t, tup[KeyCol], rid), ok |-> TRUE]

\* DeleteExecutor::Next's loop body: MarkDelete (failing on a tuple
\* already marked), the X row lock, DeleteEntry of the child tuple's key.
DeleteWrite(s, t, rid, tup) ==
    LET s1 == LockRowX([s EXCEPT !.del = @ \cup {rid}], rid)
    IN  IF rid \in s.del THEN [s |-> s, ok |-> FALSE]
        ELSE [s |-> IF s1.err # "none" THEN s1 ELSE IndexDelete(s1, t, tup[KeyCol]), ok |-> TRUE]

\* Mutation of UpdateWrite: the tuple is updated as MarkDelete of the old
\* one and InsertTuple of the new one.
UpdateWriteAppends(s, t, rid, targets) ==
    LET old == s.tab[t][rid[2]]
        new == GenerateUpdateTuple(targets, old)
        nrid == <<t, Len(s.tab[t]) + 1>>
        s1 == [s EXCEPT !.del = @ \cup {rid}, !.tab[t] = Append(@, new)]
    IN  IF rid \in s.del \/ Len(s.tab[t]) >= HeapCap THEN [s |-> s, ok |-> FALSE]
        ELSE [s |-> IndexInsert(IndexDelete(s1, t, old[KeyCol]), t, new[KeyCol], nrid), ok |-> TRUE]

\* UpdateExecutor::Next's loop body: GetTuple of the old tuple and
\* UpdateTuple in place (either fails on a tuple marked deleted), then
\* for the index DeleteEntry of the old key and InsertEntry of the new.
\* No lock is taken.
UpdateWrite(s, t, rid, targets) ==
    LET old == s.tab[t][rid[2]]
        new == GenerateUpdateTuple(targets, old)
        s1 == [s EXCEPT !.tab[t][rid[2]] = new]
    IN  IF rid \in s.del THEN [s |-> s, ok |-> FALSE]
        ELSE [s |-> IndexInsert(IndexDelete(s1, t, old[KeyCol]), t, new[KeyCol], rid), ok |-> TRUE]

\* The body of the while (child->Next(&t, &rid)) loop for child result r.
\* ok is FALSE when the table write failed.  The IndexWriteSet records,
\* read only by an abort's rollback, are left out.
Write(s, n, r) ==
    CASE plan[n].kind = "insert" -> InsertWrite(s, plan[n].table, r.tup)
      [] plan[n].kind = "delete" -> DeleteWrite(s, plan[n].table, r.rid, r.tup)
      [] plan[n].kind = "update" -> UpdateWrite(s, plan[n].table, r.rid, plan[n].targets)

RECURSIVE ExecInit(_, _), ExecNext(_, _), Drain(_, _, _), NLJLoop(_, _, _), Match(_, _, _),
          HJLoop(_, _), WriteLoop(_, _, _), NIJNext(_, _)

\* Every tuple the child c still returns, appended to acc (the while
\* (child->Next(...)) loops of Sort, TopN and Aggregation Init).
Drain(s, c, acc) ==
    LET r == ExecNext(s, c)
    IN  IF r.ok THEN Drain(r.s, c, Append(acc, r.tup)) ELSE [s |-> r.s, acc |-> acc]

\* SeqScanExecutor::Init: an IS table lock unless READ_UNCOMMITTED, then
\* the iterator at Begin.
ScanInit(s, n) ==
    LET s1 == IF Isolation = "READ_UNCOMMITTED" THEN s ELSE LockTableIS(s)
    IN  IF s1.err # "none" THEN s1 ELSE [s1 EXCEPT !.ex[n].pos = 1]

\* SeqScanExecutor::Next: at End false; otherwise lock the row S, copy it,
\* advance, and unlock the row the iterator is now at: the next one, or
\* End's invalid rid after the last.  *rid is the tuple's RID.  The
\* iterator reads the heap as it is now, so it reaches tuples appended
\* behind it during the scan.
ScanNext(s, n) ==
    LET t == plan[n].table
        i == s.ex[n].pos
        s1 == IF Isolation = "READ_UNCOMMITTED" THEN s ELSE LockRowS(s, <<t, i>>)
        s2 == [s1 EXCEPT !.ex[n].pos = i + 1]
        s3 == IF Isolation = "READ_UNCOMMITTED" THEN s2
              ELSE UnlockRow(s2, IF i + 1 <= Len(s.tab[t]) THEN <<t, i + 1>> ELSE <<t, 0>>)
    IN  CASE i > Len(s.tab[t]) -> Fail(s)
          [] s1.err # "none" -> Fail(s1)
          [] s3.err # "none" -> Fail(s3)
          [] OTHER -> [Ret(s3, TRUE, s.tab[t][i]) EXCEPT !.rid = <<t, i>>]

\* SortExecutor::Init: child Init, every child tuple appended to tuples_
\* (never cleared), SortTuples, reverse.
SortInit(s, n) ==
    LET c == plan[n].child
        d == Drain(ExecInit(s, c), c, s.ex[n].tuples)
        r == SortTuples(plan[n].orderBy, d.acc)
    IN  CASE d.s.err # "none" -> d.s
          [] ~r.ok -> [d.s EXCEPT !.err = "unreachable"]
          [] OTHER -> [d.s EXCEPT !.ex[n].tuples = S!Reverse(r.q)]

\* Mutation of SortNext: the front of tuples_ is returned and erased.
SortNextFront(s, n) ==
    LET q == s.ex[n].tuples
    IN  IF q = <<>> THEN Fail(s)
        ELSE Ret([s EXCEPT !.ex[n].tuples = Tail(q)], TRUE, Head(q))

\* SortExecutor::Next: pop the back of tuples_.
SortNext(s, n) ==
    LET q == s.ex[n].tuples
    IN  IF q = <<>> THEN Fail(s)
        ELSE Ret([s EXCEPT !.ex[n].tuples = S!Front(q)], TRUE, S!Last(q))

\* TopNExecutor::Init: limit_count_ = N, child Init, its tuples sorted and
\* reversed, then the back pushed onto queue_ (never cleared) while
\* tuples remain and limit_count_ > 0.
TopNInit(s, n) ==
    LET c == plan[n].child
        d == Drain(ExecInit(s, c), c, <<>>)
        r == SortTuples(plan[n].orderBy, d.acc)
        k == IF plan[n].n < Len(d.acc) THEN plan[n].n ELSE Len(d.acc)
    IN  CASE d.s.err # "none" -> d.s
          [] ~r.ok -> [d.s EXCEPT !.err = "unreachable"]
          [] OTHER -> [d.s EXCEPT !.ex[n].queue = @ \o SubSeq(r.q, 1, k),
                                  !.ex[n].limit = plan[n].n - k]

\* TopNExecutor::Next: pop the front of queue_.
TopNNext(s, n) ==
    LET q == s.ex[n].queue
    IN  IF q = <<>> THEN Fail(s)
        ELSE Ret([s EXCEPT !.ex[n].queue = Tail(q)], TRUE, Head(q))

\* AggregationExecutor::Init: aht_.Clear(), child Init, InsertCombine of
\* every child tuple, the iterator at Begin.  aht_ is a sequence of
\* [key, count] in the hash table's iteration order, which is unspecified:
\* one order is fixed.  has_no_tuple_ is left as it is.
AggInit(s, n) ==
    LET c == plan[n].child
        d == Drain(ExecInit(s, c), c, <<>>)
        gb == plan[n].groupBy
        keys == {Proj(d.acc[i], gb) : i \in DOMAIN d.acc}
        count(k) == Cardinality({i \in DOMAIN d.acc : Proj(d.acc[i], gb) = k})
        order == S!SetToSeq(keys)
    IN  IF d.s.err # "none" THEN d.s
        ELSE [d.s EXCEPT !.ex[n].aht = [i \in DOMAIN order |-> order[i] \o <<count(order[i])>>],
                         !.ex[n].it = 1]

\* Mutation of AggNext: the iterator is also advanced at End.
AggNextPastEnd(s, n) ==
    LET e == s.ex[n]
    IN  CASE e.it <= Len(e.aht) ->
                 Ret([s EXCEPT !.ex[n].it = @ + 1, !.ex[n].hasNoTuple = FALSE], TRUE, e.aht[e.it])
          [] e.hasNoTuple /\ plan[n].groupBy = <<>> ->
                 Ret([s EXCEPT !.ex[n].hasNoTuple = FALSE, !.ex[n].it = @ + 1], TRUE, <<0>>)
          [] OTHER -> Fail([s EXCEPT !.ex[n].it = @ + 1])

\* Mutation of AggNext: has_no_tuple_ is not cleared by the empty result.
AggNextKeepsFlag(s, n) ==
    LET e == s.ex[n]
    IN  CASE e.it <= Len(e.aht) ->
                 Ret([s EXCEPT !.ex[n].it = @ + 1, !.ex[n].hasNoTuple = FALSE], TRUE, e.aht[e.it])
          [] e.hasNoTuple /\ plan[n].groupBy = <<>> -> Ret(s, TRUE, <<0>>)
          [] OTHER -> Fail(s)

\* AggregationExecutor::Next: the next group, or at End, while
\* has_no_tuple_ and there is no GROUP BY, COUNT star's initial value 0.
AggNext(s, n) ==
    LET e == s.ex[n]
    IN  CASE e.it <= Len(e.aht) ->
                 Ret([s EXCEPT !.ex[n].it = @ + 1, !.ex[n].hasNoTuple = FALSE], TRUE, e.aht[e.it])
          [] e.hasNoTuple /\ plan[n].groupBy = <<>> ->
                 Ret([s EXCEPT !.ex[n].hasNoTuple = FALSE], TRUE, <<0>>)
          [] OTHER -> Fail(s)

\* NestedLoopJoinExecutor::Init: both children Init, the flags reset
\* (has_no_tuple_ is not).
NLJInit(s, n) ==
    LET s1 == ExecInit(ExecInit(s, plan[n].left), plan[n].right)
    IN  [s1 EXCEPT !.ex[n].matched = FALSE, !.ex[n].leftInit = FALSE,
                   !.ex[n].rightNeedInit = FALSE]

\* The end of NestedLoopJoinExecutor::Next's loop body: a match of
\* left_tuple_ and right_tuple rt is returned; otherwise loop.
Match(s, n, rt) ==
    LET l == s.ex[n].leftTuple
    IN  IF rt # <<>> /\ JoinPred(plan[n], l, rt)
        THEN Ret([s EXCEPT !.ex[n].matched = TRUE], TRUE, l \o rt)
        ELSE NLJLoop(s, n, rt)

\* The while (true) loop of NestedLoopJoinExecutor::Next; rt is its local
\* right_tuple, which a failed right Next leaves as it was.
NLJLoop(s, n, rt) ==
    LET p == plan[n]
        r == IF s.ex[n].rightNeedInit THEN Fail(s) ELSE ExecNext(s, p.right)
        s1 == [r.s EXCEPT !.ex[n].rightNeedInit = TRUE]
        l == ExecNext(s1, p.left)
        s2 == ExecInit([l.s EXCEPT !.ex[n].matched = FALSE, !.ex[n].leftTuple = l.tup], p.right)
        r2 == ExecNext(s2, p.right)
    IN  CASE r.s.err # "none" -> Fail(r.s)
          [] r.ok -> Match(r.s, n, r.tup)
          [] ~s.ex[n].matched /\ p.join = "LEFT" ->
                 Ret([s1 EXCEPT !.ex[n].matched = TRUE], TRUE,
                     s.ex[n].leftTuple \o Nulls(Width(plan, p.right)))
          [] l.s.err # "none" -> Fail(l.s)
          [] ~l.ok -> Fail([l.s EXCEPT !.ex[n].hasNoTuple = TRUE])
          [] r2.s.err # "none" -> Fail(r2.s)
          [] OTHER -> Match([r2.s EXCEPT !.ex[n].rightNeedInit = FALSE], n,
                            IF r2.ok THEN r2.tup ELSE rt)

\* NestedLoopJoinExecutor::Next before the loop.
NLJNext(s, n) ==
    LET e == s.ex[n]
        l == ExecNext(s, plan[n].left)
    IN  CASE e.hasNoTuple -> Fail(s)
          [] e.leftInit -> NLJLoop(s, n, <<>>)
          [] ~l.ok -> Fail(l.s)
          [] OTHER -> NLJLoop([l.s EXCEPT !.ex[n].leftTuple = l.tup, !.ex[n].leftInit = TRUE],
                              n, <<>>)

\* HashJoinExecutor::Init: both children Init, current_index_ -1,
\* is_matched_ FALSE, and every right tuple appended to the bucket of its
\* join key in right_hash_map_, which is never cleared.  A NULL key is
\* equal to no key, its own included, so a NULL-keyed tuple is stored
\* where no lookup finds it: it is left out.
HJInit(s, n) ==
    LET p == plan[n]
        s1 == ExecInit(ExecInit(s, p.left), p.right)
        d == Drain([s1 EXCEPT !.ex[n].idx = -1, !.ex[n].matched = FALSE], p.right, <<>>)
    IN  IF d.s.err # "none" THEN d.s
        ELSE [d.s EXCEPT !.ex[n].hmap = [v \in Vals |-> @[v] \o SelectSeq(d.acc, LAMBDA t : t[p.rcol] = v)]]

\* right_hash_map_[left_join_key_]: a missing or NULL key finds an empty
\* bucket.
Bucket(e) == IF e.lkey = Null THEN <<>> ELSE e.hmap[e.lkey]

\* The while (true) loop of HashJoinExecutor::Next: at current_index_ -1
\* or past the bucket, the next left tuple (false when there is none);
\* then the bucket's next tuple, or for a LEFT join a left tuple that
\* matched nothing padded with NULLs; otherwise loop.
HJLoop(s, n) ==
    LET p == plan[n]
        need == s.ex[n].idx = -1 \/ Len(Bucket(s.ex[n])) <= s.ex[n].idx
        l == ExecNext(s, p.left)
        s1 == IF need THEN [l.s EXCEPT !.ex[n].leftTuple = l.tup, !.ex[n].idx = 0,
                                       !.ex[n].matched = FALSE, !.ex[n].lkey = l.tup[p.lcol]]
              ELSE s
        e == s1.ex[n]
    IN  CASE need /\ ~l.ok -> Fail(l.s)
          [] e.idx < Len(Bucket(e)) ->
                 Ret([s1 EXCEPT !.ex[n].idx = @ + 1, !.ex[n].matched = TRUE], TRUE,
                     e.leftTuple \o Bucket(e)[e.idx + 1])
          [] p.join = "LEFT" /\ ~e.matched ->
                 Ret(s1, TRUE, e.leftTuple \o Nulls(Width(plan, p.right)))
          [] OTHER -> HJLoop(s1, n)

\* InsertExecutor and DeleteExecutor::Init: child Init, then an IX lock on
\* the table, whose TransactionAbortException becomes an
\* ExecutionException.  UpdateExecutor::Init is the child's Init alone.
DMLInit(s, n) ==
    LET s1 == ExecInit(s, plan[n].child)
    IN  IF s1.err # "none" \/ plan[n].kind = "update" THEN s1 ELSE LockTableIX(s1)

\* The child's tuples written one by one and counted; at the child's end
\* or a failed InsertTuple or MarkDelete (break) the count tuple is
\* returned and has_no_tuple_ set.  A failed GetTuple or UpdateTuple
\* returns false at once.
WriteLoop(s, n, k) ==
    LET r == ExecNext(s, plan[n].child)
        w == Write(r.s, n, r)
        count == Ret([r.s EXCEPT !.ex[n].hasNoTuple = TRUE], TRUE, <<k>>)
    IN  CASE r.s.err # "none" -> Fail(r.s)
          [] ~r.ok -> count
          [] ~w.ok /\ plan[n].kind = "update" -> Fail(w.s)
          [] ~w.ok -> Ret([w.s EXCEPT !.ex[n].hasNoTuple = TRUE], TRUE, <<k>>)
          [] w.s.err # "none" -> Fail(w.s)
          [] OTHER -> WriteLoop(w.s, n, k + 1)

\* InsertExecutor, DeleteExecutor and UpdateExecutor::Next: false once
\* has_no_tuple_, otherwise the loop.
DMLNext(s, n) == IF s.ex[n].hasNoTuple THEN Fail(s) ELSE WriteLoop(s, n, 0)

\* LimitExecutor::Init: limit_count_ = the plan's limit, child Init.
LimitInit(s, n) == ExecInit([s EXCEPT !.ex[n].limit = plan[n].limit], plan[n].child)

\* Mutation of LimitNext: limit_count_ >= 0, one tuple too many.
LimitNextOneMore(s, n) ==
    LET r == ExecNext(s, plan[n].child)
    IN  IF r.ok /\ s.ex[n].limit >= 0
        THEN [Ret([r.s EXCEPT !.ex[n].limit = @ - 1], TRUE, r.tup) EXCEPT !.rid = r.rid]
        ELSE Fail(r.s)

\* LimitExecutor::Next: the child's next tuple while limit_count_ > 0,
\* counted down; once it is 0 the child is still asked for one more
\* tuple, which is dropped.
LimitNext(s, n) ==
    LET r == ExecNext(s, plan[n].child)
    IN  IF r.ok /\ s.ex[n].limit > 0
        THEN [Ret([r.s EXCEPT !.ex[n].limit = @ - 1], TRUE, r.tup) EXCEPT !.rid = r.rid]
        ELSE Fail(r.s)

\* NestIndexJoinExecutor::Init: child Init.
NIJInit(s, n) == ExecInit(s, plan[n].child)

\* The rids ScanKey finds for key v in the index of table t: at most one,
\* the index being unique; a NULL key finds none.
ScanKey(s, t, v) == {e[2] : e \in {e \in s.idx[t] : e[1] = v}}

\* NestIndexJoinExecutor::Next: the child's next tuple into left_tuple_
\* (false when there is none), its key column looked up in the inner
\* table's index, and the left tuple joined with the first row found
\* (GetTuple of result_rid[0]); with none found, a LEFT join pads with
\* NULLs and an INNER join loops.
NIJNext(s, n) ==
    LET p == plan[n]
        l == ExecNext(s, p.child)
        s1 == [l.s EXCEPT !.ex[n].leftTuple = l.tup]
        rids == ScanKey(s1, p.table, l.tup[p.lcol])
    IN  CASE ~l.ok -> Fail(l.s)
          [] rids # {} -> Ret(s1, TRUE, l.tup \o s1.tab[p.table][(CHOOSE r \in rids : TRUE)[2]])
          [] p.join = "LEFT" -> Ret(s1, TRUE, l.tup \o Nulls(Arity))
          [] OTHER -> NIJNext(s1, n)

\* Init and Next of node n; an exception in flight unwinds every caller.
ExecInit(s, n) ==
    IF s.err # "none" THEN s
    ELSE CASE plan[n].kind = "scan" -> ScanInit(s, n)
           [] plan[n].kind = "sort" -> SortInit(s, n)
           [] plan[n].kind = "topn" -> TopNInit(s, n)
           [] plan[n].kind = "agg"  -> AggInit(s, n)
           [] plan[n].kind = "nlj"  -> NLJInit(s, n)
           [] plan[n].kind = "hj"   -> HJInit(s, n)
           [] plan[n].kind = "limit" -> LimitInit(s, n)
           [] plan[n].kind = "nij"  -> NIJInit(s, n)
           [] OTHER                 -> DMLInit(s, n)

ExecNext(s, n) ==
    IF s.err # "none" THEN Fail(s)
    ELSE CASE plan[n].kind = "scan" -> ScanNext(s, n)
           [] plan[n].kind = "sort" -> SortNext(s, n)
           [] plan[n].kind = "topn" -> TopNNext(s, n)
           [] plan[n].kind = "agg"  -> AggNext(s, n)
           [] plan[n].kind = "nlj"  -> NLJNext(s, n)
           [] plan[n].kind = "hj"   -> HJLoop(s, n)
           [] plan[n].kind = "limit" -> LimitNext(s, n)
           [] plan[n].kind = "nij"  -> NIJNext(s, n)
           [] OTHER                 -> DMLNext(s, n)

-----------------------------------------------------------------------------
(* ExecutionEngine::Execute, which is not under src/: the root's Init,    *)
(* then its Next until false, each result appended to the result set; an  *)
(* exception ends the query.                                               *)

MaxOut == 6           \* a bound on the result set, above any query's size

\* The index the catalog builds over a table's rows, inserting them in
\* heap order: a key already present keeps its first row.
InitIndex(rows, t) ==
    IF t \notin IndexedTables THEN {}
    ELSE {<<rows[i][KeyCol], <<t, i>>>> :
            i \in {j \in DOMAIN rows : \A h \in 1 .. j - 1 : rows[h][KeyCol] # rows[j][KeyCol]}}

\* Optimizer::OptimizeSortLimitAsTopN: a post-order walk that replaces
\* each Limit whose child is a Sort by a TopN over the Sort's child with
\* the Sort's ORDER BY and the Limit's count.  No Sort is rewritten, so
\* one pass over the nodes gives the tree the walk builds; the Sort node
\* is left unreachable.
OptimizeSortLimitAsTopN(p) ==
    [n \in DOMAIN p |->
        IF p[n].kind = "limit" /\ p[p[n].child].kind = "sort"
        THEN [kind |-> "topn", child |-> p[p[n].child].child,
              orderBy |-> p[p[n].child].orderBy, n |-> p[n].limit]
        ELSE p[n]]

Init ==
    /\ query \in Plans
    /\ plan = OptimizeSortLimitAsTopN(query)
    /\ tables \in [TableIds -> Rows]
    /\ st = [ex |-> Constructed(plan), err |-> "none",
             txn |-> [state |-> "GROWING", rows |-> {}, xrows |-> {}],
             tab |-> tables, del |-> {}, idx |-> [t \in TableIds |-> InitIndex(tables[t], t)]]
    /\ out = <<>>
    /\ pc = "init"

ExecuteInit ==
    /\ pc = "init"
    /\ \E s \in {ExecInit(st, 1)} :
        /\ st' = s
        /\ pc' = IF s.err = "none" THEN "next" ELSE "failed"
        /\ UNCHANGED <<query, plan, tables, out>>

ExecuteNext ==
    /\ pc = "next"
    /\ Len(out) < MaxOut
    /\ \E r \in {ExecNext(st, 1)} :
        /\ st' = r.s
        /\ out' = IF r.ok THEN Append(out, r.tup) ELSE out
        /\ pc' = CASE r.s.err # "none" -> "failed"
                   [] r.ok -> "next"
                   [] OTHER -> "done"
        /\ UNCHANGED <<query, plan, tables>>

Next == ExecuteInit \/ ExecuteNext

Spec == Init /\ [][Next]_vars

-----------------------------------------------------------------------------
(* What each node of the query, before the optimizer, means in SQL,     *)
(* computed from the tables.                                              *)

RECURSIVE Ref(_)
Ref(n) ==
    LET p == query[n] IN
    CASE p.kind = "scan" -> tables[p.table]
      [] p.kind = "sort" -> SortSeq(Ref(p.child), LAMBDA a, b : Compare(p.orderBy, a, b) = "before")
      [] p.kind = "topn" ->
             LET q == SortSeq(Ref(p.child), LAMBDA a, b : Compare(p.orderBy, a, b) = "before")
             IN  SubSeq(q, 1, IF p.n < Len(q) THEN p.n ELSE Len(q))
      [] p.kind = "limit" ->
             LET q == Ref(p.child) IN SubSeq(q, 1, IF p.limit < Len(q) THEN p.limit ELSE Len(q))
      [] p.kind = "agg" ->
             LET in == Ref(p.child)
                 keys == {Proj(in[i], p.groupBy) : i \in DOMAIN in}
                 count(k) == Cardinality({i \in DOMAIN in : Proj(in[i], p.groupBy) = k})
             IN  IF in = <<>> /\ p.groupBy = <<>> THEN <<<<0>>>>
                 ELSE S!SetToSeq({k \o <<count(k)>> : k \in keys})
      [] p.kind \in {"nlj", "hj"} ->
             LET L == Ref(p.left)
                 R == Ref(p.right)
                 rows(l) == LET m == SelectSeq(R, LAMBDA r : JoinPred(p, l, r))
                            IN  IF m = <<>> /\ p.join = "LEFT" THEN << l \o Nulls(Width(query, p.right)) >>
                                ELSE [j \in DOMAIN m |-> l \o m[j]]
             IN  S!FlattenSeq([i \in DOMAIN L |-> rows(L[i])])
      [] p.kind = "nij" ->
             LET rows(l) == LET m == SelectSeq(tables[p.table], LAMBDA r : JoinPred(p, l, r))
                            IN  IF m = <<>> /\ p.join = "LEFT" THEN << l \o Nulls(Arity) >>
                                ELSE [j \in DOMAIN m |-> l \o m[j]]
                 L == Ref(p.child)
             IN  S!FlattenSeq([i \in DOMAIN L |-> rows(L[i])])
      [] p.kind \in {"insert", "delete", "update"} -> << <<Len(Ref(p.child))>> >>

\* Two input tuples of an ORDER BY that no order-by column tells apart.
HasTie(ob, q) == \E i, j \in DOMAIN q : i # j /\ Compare(ob, q[i], q[j]) = "equal"

SortTie == \E n \in DOMAIN query : query[n].kind \in {"sort", "topn"}
                                   /\ HasTie(query[n].orderBy, Ref(query[n].child))

TypeOK ==
    /\ pc \in {"init", "next", "done", "failed"}
    /\ st.err \in {"none", "executor", "unreachable", "logic"}
    /\ st.txn.state \in {"GROWING", "SHRINKING", "ABORTED"}
    /\ DOMAIN st.ex = DOMAIN plan
    /\ \A n \in DOMAIN plan :
        /\ plan[n].kind = "scan" => st.ex[n].pos \in 0 .. Len(st.tab[plan[n].table]) + 1
        /\ plan[n].kind = "agg" => st.ex[n].it \in 1 .. Len(st.ex[n].aht) + 1
        /\ plan[n].kind = "hj" => st.ex[n].idx \in -1 .. Len(Bucket(st.ex[n]))
        /\ plan[n].kind = "limit" => st.ex[n].limit \in 0 .. plan[n].limit
    /\ \A t \in TableIds : st.tab[t] \in Seq([1 .. Arity -> Vals]) /\ Len(st.tab[t]) <= HeapCap
    /\ st.del \subseteq {<<t, i>> : t \in TableIds, i \in 1 .. HeapCap}
    /\ out \in Seq(Seq(Vals \cup {Null} \cup 0 .. MaxRows * MaxRows \cup 0 .. HeapCap))
    /\ Len(out) <= MaxOut

\* The inner table of every index join has no two rows with one key: the
\* index, which keeps the first row of a key, then reaches every row.
InnerKeysUnique ==
    \A n \in DOMAIN query :
        query[n].kind = "nij" =>
            LET rows == tables[query[n].table]
            IN  \A i, j \in DOMAIN rows : i # j => rows[i][KeyCol] # rows[j][KeyCol]

\* A query that ends without an exception returned what its plan means:
\* the rows of an ORDER BY or ORDER BY ... LIMIT in their order, and
\* otherwise the same rows as often as SQL says, whatever the executors'
\* members held from earlier calls (re-initialised right children of a
\* join, a Sort's tuples_, a TopN's queue_, an aggregate's has_no_tuple_).
ResultsAsPlanned ==
    pc = "done" /\ InnerKeysUnique =>
        IF query[1].kind \in {"sort", "topn", "limit"} THEN out = Ref(1)
        ELSE S!ToBag(out) = S!ToBag(Ref(1))

\* A query fails with UNREACHABLE ("doesn't support duplicate key") exactly
\* when some Sort or TopN input has two tuples with equal sort keys: the
\* bubble sort of SortTuples compares every such pair at some point, and
\* never reaches UNREACHABLE otherwise.
FailsOnlyOnTies ==
    pc \in {"done", "failed"} => ((st.err = "unreachable") <=> SortTie)

\* Every query ends before its result set reaches MaxOut rows: the root's
\* Next returns false after finitely many tuples (an Init or Next that
\* looped forever would not let TLC finish the step at all).
QueryEnds == pc = "next" => Len(out) < MaxOut

\* A transaction that is alone in the system is never aborted by the lock
\* manager while a read-only query locks and unlocks the rows it scans.
NeverAbortedAlone == st.txn.state # "ABORTED"

\* The table an INSERT, DELETE or UPDATE at the root leaves, in SQL: the
\* child's rows appended, every row its child (a scan of the table)
\* returns gone, or every row rewritten by the targets.
RefTable(t) ==
    LET p == query[1] IN
    CASE p.kind = "insert" /\ p.table = t -> tables[t] \o Ref(p.child)
      [] p.kind = "delete" /\ p.table = t -> <<>>
      [] p.kind = "update" /\ p.table = t ->
             [i \in DOMAIN tables[t] |-> GenerateUpdateTuple(p.targets, tables[t][i])]
      [] OTHER -> tables[t]

\* A query that ends without an exception leaves every table as SQL says,
\* whatever the scan under a write sees of the heap the write changes
\* (InsertTuple appending behind the iterator, MarkDelete, UpdateTuple in
\* place) and wherever the write loop breaks.
TablesAsPlanned == pc = "done" => \A t \in TableIds : Live(st, t) = RefTable(t)

\* Every entry of an index points to a row of its table that is not marked
\* deleted and whose key is the entry's, after every step of a query: the
\* index writes of Insert, Delete and Update (DeleteEntry of the old key,
\* then InsertEntry of the new) never leave an entry stale or dangling,
\* however a unique key refused by InsertEntry or a duplicate key removed
\* by DeleteEntry falls.
IndexSound ==
    \A t \in IndexedTables : \A e \in st.idx[t] :
        /\ e[2][1] = t /\ e[2][2] \in DOMAIN st.tab[t] /\ e[2] \notin st.del
        /\ st.tab[t][e[2][2]][KeyCol] = e[1]

\* A query that ends with the keys of an indexed table's rows all distinct
\* leaves every row in the index.
IndexComplete ==
    pc = "done" =>
        \A t \in IndexedTables :
            LET live == {i \in DOMAIN st.tab[t] : <<t, i>> \notin st.del}
            IN  (\A i, j \in live : i # j => st.tab[t][i][KeyCol] # st.tab[t][j][KeyCol])
                => \A i \in live : <<st.tab[t][i][KeyCol], <<t, i>>>> \in st.idx[t]
=============================================================================
