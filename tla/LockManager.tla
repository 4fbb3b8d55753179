---------------------------- MODULE LockManager ----------------------------
(***************************************************************************)
(* Table and row locks of the lock manager (src/concurrency/              *)
(* lock_manager.cpp, kept in src/bustub/src/optimizer/                    *)
(* sort_limit_as_topn.cpp) and its deadlock detector thread.  Tables and  *)
(* rows are both "resources" with a request queue each; a row belongs to  *)
(* the table RowTable[r].                                                  *)
(*                                                                         *)
(* One thread per transaction.  A LockTable call is split where the code   *)
(* gives up a latch: UpdateLock runs under the queue latch and releases   *)
(* it; LockTable then takes the queue latch again and loops on GrantLock, *)
(* waiting on the queue's condition variable between attempts.  GrantLock  *)
(* calls GetLRQueuePtr, which takes the map latch (table_lock_map_latch_  *)
(* or row_lock_map_latch_), while the caller holds the queue latch.  The  *)
(* detector holds a map latch while it takes each of its queue latches.   *)
(*                                                                         *)
(* A queue latch is held between steps only by a thread at pc "grant" on   *)
(* that table; other latch holds begin and end inside one step, so a step *)
(* that takes a latch is enabled only while nobody holds it.  The map      *)
(* latches are held between steps only by the detector (`mapHeld`).       *)
(***************************************************************************)
EXTENDS Naturals, Sequences, SequencesExt, FiniteSets, Relation

CONSTANTS
    Txns,         \* transaction ids (integers: the detector compares them)
    Tables,       \* table oids
    Rows,         \* row ids (RIDs)
    RowTable,     \* RowTable[r]: the table row r belongs to
    Modes,        \* the lock modes LockTable is called with
    RowModes,     \* the lock modes LockRow is called with
    Isolation,    \* Isolation[t]: isolation level of transaction t
    MaxRequests,  \* bound on the LockTable calls of one transaction
    NoTxn,        \* model value: INVALID_TXN_ID
    NoTable       \* model value: no LockTable call in progress

LockModes == {"IS", "IX", "S", "SIX", "X"}
Levels == {"READ_UNCOMMITTED", "READ_COMMITTED", "REPEATABLE_READ"}

ASSUME Modes \subseteq LockModes /\ Isolation \in [Txns -> Levels]
ASSUME RowModes \subseteq {"S", "X"} /\ RowTable \in [Rows -> Tables]

VARIABLES
    queue,      \* queue[o]: request_queue_ of resource o, <<[txn, mode, granted]>>
    upgrading,  \* upgrading[o]: upgrading_ of o's queue
    txnState,   \* GROWING, SHRINKING, COMMITTED or ABORTED
    lockSet,    \* lockSet[t][m]: the tables and rows t holds in mode m
    pc,         \* where transaction t's thread is
    req,        \* req[t]: [oid, mode, book] of t's current call: the queue it
                \* waits on and the resource BookKeeping records
    nreq,       \* LockTable calls t has made
    mapHeld,    \* the map latch the detector holds: "table", "row" or "none"
    dpc,        \* where the detector thread is
    dtodo,      \* tables the detector has still to visit in this pass
    waitsFor,   \* waits_for_: t -> the set of transactions t waits for
    idSet,      \* txn_id_set_: transactions whose entry is 1
    victim      \* the transaction the detector is notifying for

\* Tables and rows: the keys of table_lock_map_ and row_lock_map_.
Resources == Tables \cup Rows

\* The map latch GetLRQueuePtr takes for resource o.
MapOf(o) == IF o \in Rows THEN "row" ELSE "table"

vars == <<queue, upgrading, txnState, lockSet, pc, req, nreq, mapHeld,
          dpc, dtodo, waitsFor, idSet, victim>>

-----------------------------------------------------------------------------
(* Lock-mode tables.                                                       *)

\* Mutation of GrantCompatible: only the first mode is tested for X.
GrantCompatibleFirstOnly(m1, m2) ==
    /\ m1 # "X"
    /\ {m1, m2} # {"S", "IX"}
    /\ ~(m1 = "SIX" /\ m2 # "IS")
    /\ ~(m1 # "IS" /\ m2 = "SIX")

\* GrantCompatiable (lines 701-719): can m1 and m2 be granted together?
GrantCompatible(m1, m2) ==
    /\ m1 # "X" /\ m2 # "X"
    /\ {m1, m2} # {"S", "IX"}
    /\ ~(m1 = "SIX" /\ m2 # "IS")
    /\ ~(m1 # "IS" /\ m2 = "SIX")

\* IsCompatible (lines 678-699): the upgrades UpdateLock allows.
Upgrades == {<<"S", "X">>, <<"S", "SIX">>, <<"IX", "X">>, <<"IX", "SIX">>,
             <<"IS", "S">>, <<"IS", "X">>, <<"IS", "IX">>, <<"IS", "SIX">>,
             <<"SIX", "X">>}

IsCompatible(before, after) == <<before, after>> \in Upgrades

-----------------------------------------------------------------------------
(* Queue helpers.                                                          *)

Request(t, m) == [txn |-> t, mode |-> m, granted |-> FALSE]

\* Index of t's first request in q, 0 when there is none.
IndexOfTxn(q, t) == SelectInSeq(q, LAMBDA r : r.txn = t)

\* Index of t's first granted request in q, 0 when there is none.
IndexOfGranted(q, t) == SelectInSeq(q, LAMBDA r : r.txn = t /\ r.granted)

GrantedModes(q) == {q[i].mode : i \in {j \in 1 .. Len(q) : q[j].granted}}

\* notify_all on resource o's condition variable.
Notify(o, p) == [t \in Txns |-> IF p[t] = "wait" /\ req[t].oid = o
                                THEN "woken" ELSE p[t]]

\* BookKeeping / BookKeepingRemove (lines 806-834).
BookKeeping(s, t, m, o) == [s EXCEPT ![t][m] = @ \cup {o}]
BookKeepingRemove(s, t, m, o) == [s EXCEPT ![t][m] = @ \ {o}]

\* UnLockChangeState (lines 721-740).
UnLockChangeState(st, iso, m) ==
    LET shrinks == IF iso = "REPEATABLE_READ" THEN m \in {"S", "X"}
                   ELSE m = "X"
    IN  IF st = "GROWING" /\ shrinks THEN "SHRINKING" ELSE st

-----------------------------------------------------------------------------
(* GrantLock (lines 909-983) as a function of the queue.  The grant pass   *)
(* (step 5) walks the queue front to back and grants every waiting         *)
(* request compatible with all requests granted so far, whoever made it.   *)

RECURSIVE GrantPass(_, _, _, _)
GrantPass(q, i, gm, t) ==
    IF i > Len(q) THEN [queue |-> q, flag |-> FALSE]
    ELSE LET r == q[i] IN
         IF r.granted
         THEN LET rest == GrantPass(q, i + 1, gm, t)
              IN  [rest EXCEPT !.flag = @ \/ r.txn = t]
         ELSE IF \A g \in gm : GrantCompatible(g, r.mode)
         THEN LET rest == GrantPass([q EXCEPT ![i].granted = TRUE], i + 1,
                                    gm \cup {r.mode}, t)
              IN  [rest EXCEPT !.flag = @ \/ r.txn = t]
         ELSE GrantPass(q, i + 1, gm, t)

\* [ok, queue, upgrading] after GrantLock(t, m) on queue q.
GrantLock(q, upg, t, m) ==
    LET i == IndexOfTxn(q, t) IN
    CASE \E g \in GrantedModes(q) : ~GrantCompatible(g, m) ->
             [ok |-> FALSE, queue |-> q, upgrading |-> upg]
      [] upg = t /\ i # 0 ->
             [ok |-> TRUE, queue |-> [q EXCEPT ![i].granted = TRUE],
              upgrading |-> NoTxn]
      [] OTHER ->
             LET p == GrantPass(q, 1, GrantedModes(q), t) IN
             [ok |-> p.flag, queue |-> p.queue, upgrading |-> upg]

\* Mutation of UpdateLock: an upgrade appends the new request without
\* erasing the old one.
UpdateLockKeepsOld(q, upg, t, m) ==
    LET i == IndexOfTxn(q, t)
        same == [aborts |-> FALSE, queue |-> q, upgrading |-> upg,
                 dropped |-> "none"]
    IN  CASE i = 0 -> [same EXCEPT !.queue = Append(q, Request(t, m))]
          [] q[i].mode = m -> same
          [] upg = NoTxn /\ IsCompatible(q[i].mode, m) ->
                 [aborts |-> FALSE, queue |-> Append(q, Request(t, m)),
                  upgrading |-> t, dropped |-> q[i].mode]
          [] OTHER -> [same EXCEPT !.aborts = TRUE]

\* UpdateLock (lines 836-907) as a function of the queue: [aborts, queue,
\* upgrading, dropped], `dropped` the mode of the request an upgrade
\* erased (its BookKeepingRemove), "none" otherwise.
UpdateLock(q, upg, t, m) ==
    LET i == IndexOfTxn(q, t)
        same == [aborts |-> FALSE, queue |-> q, upgrading |-> upg,
                 dropped |-> "none"]
    IN  CASE i = 0 ->
                 [same EXCEPT !.queue = Append(q, Request(t, m))]
          [] q[i].mode = m -> same
          [] upg = NoTxn /\ IsCompatible(q[i].mode, m) ->
                 [aborts |-> FALSE,
                  queue |-> Append(RemoveAt(q, i), Request(t, m)),
                  upgrading |-> t, dropped |-> q[i].mode]
          [] OTHER -> [same EXCEPT !.aborts = TRUE]

\* UpdateLock for a row (lines 1088-1152): the table version on the row's
\* queue, except that an upgrade's BookKeepingRemove is called with the
\* requested mode, not the mode of the request it erases.
RowUpdateLock(q, upg, t, m) ==
    LET u == UpdateLock(q, upg, t, m) IN
    IF u.dropped = "none" THEN u ELSE [u EXCEPT !.dropped = m]

-----------------------------------------------------------------------------
(* The deadlock detector's algorithms.                                     *)

\* The waits-for edges RunCycleDetection adds for one table queue (lines
\* 556-573): for every pair of requests, one granted and one not, whose
\* modes conflict, an edge from the waiting to the granted transaction.
QueueEdges(q) ==
    LET conflict == {ij \in (1 .. Len(q)) \X (1 .. Len(q)) :
                        /\ ij[1] < ij[2]
                        /\ q[ij[1]].granted # q[ij[2]].granted
                        /\ ~GrantCompatible(q[ij[1]].mode, q[ij[2]].mode)}
    IN  {IF q[ij[1]].granted THEN <<q[ij[2]].txn, q[ij[1]].txn>>
                             ELSE <<q[ij[1]].txn, q[ij[2]].txn>> : ij \in conflict}

\* The edges the detector adds for resource o: the row scan (lines
\* 590-606) adds each edge from the granted to the waiting transaction.
ScanEdges(o) ==
    IF o \in Rows THEN {<<e[2], e[1]>> : e \in QueueEdges(queue[o])}
    ELSE QueueEdges(queue[o])

\* AddEdge (lines 442-447) for a set of edges.
AddEdges(g, es) == [t \in Txns |-> g[t] \cup {e[2] : e \in {x \in es : x[1] = t}}]

\* DFS (lines 455-480).  Successors are visited in increasing id order
\* (waits_for_[t] is an ordered set).  The search stops at the first edge
\* back to a transaction on the current path and returns that path.
RECURSIVE Dfs(_, _, _, _), Explore(_, _, _, _)
Dfs(g, t, stack, seen) ==
    Explore(g, SetToSortSeq(g[t], <), Append(stack, t), seen \cup {t})

Explore(g, succ, stack, seen) ==
    IF succ = <<>> THEN [found |-> FALSE, stack |-> stack, seen |-> seen]
    ELSE IF Head(succ) \in ToSet(stack)
    THEN [found |-> TRUE, stack |-> stack, seen |-> seen]
    ELSE LET r == Dfs(g, Head(succ), stack, seen) IN
         IF r.found THEN r ELSE Explore(g, Tail(succ), stack, r.seen)

\* HasCycle (lines 482-525): DFS from the smallest id of txn_id_set_ not
\* yet reached, until one finds a cycle; [found, stack].
RECURSIVE SearchFrom(_, _, _)
SearchFrom(g, ids, seen) ==
    LET left == ids \ seen IN
    IF left = {} THEN [found |-> FALSE, stack |-> <<>>, seen |-> seen]
    ELSE LET r == Dfs(g, Min(left), <<>>, seen) IN
         IF r.found THEN r ELSE SearchFrom(g, ids, r.seen)

\* The victim HasCycle reports: the largest id on the DFS path.
CycleVictim(g, ids) ==
    LET r == SearchFrom(g, ids, {}) IN
    IF r.found THEN Max(ToSet(r.stack)) ELSE NoTxn

-----------------------------------------------------------------------------
Init ==
    /\ queue = [o \in Resources |-> <<>>]
    /\ upgrading = [o \in Resources |-> NoTxn]
    /\ txnState = [t \in Txns |-> "GROWING"]
    /\ lockSet = [t \in Txns |-> [m \in LockModes |-> {}]]
    /\ pc = [t \in Txns |-> "idle"]
    /\ req = [t \in Txns |-> [oid |-> NoTable, mode |-> "IS", book |-> NoTable]]
    /\ nreq = [t \in Txns |-> 0]
    /\ mapHeld = "none"
    /\ dpc = "sleep"
    /\ dtodo = {}
    /\ waitsFor = [t \in Txns |-> {}]
    /\ idSet = {}
    /\ victim = NoTxn

\* The queue latch of resource o is free: no thread holds it across steps.
QueueLatchFree(o) == \A t \in Txns : ~(pc[t] = "grant" /\ req[t].oid = o)

\* The map latch of resource o is free: the detector does not hold it.
MapFree(o) == mapHeld # MapOf(o)

Live(t) == txnState[t] \in {"GROWING", "SHRINKING"}

\* LockTable's checks before UpdateLock (lines 73-80, 159-183): the calls
\* it refuses by aborting the transaction.
LockRefused(st, iso, m) ==
    IF st = "GROWING"
    THEN iso = "READ_UNCOMMITTED" /\ m \in {"S", "IS", "SIX"}
    ELSE iso # "READ_COMMITTED" \/ m \notin {"S", "IS"}

\* A refused call: SetState(ABORTED) and throw.
Refuse(t) ==
    /\ txnState' = [txnState EXCEPT ![t] = "ABORTED"]
    /\ UNCHANGED <<queue, upgrading, lockSet, pc>>

\* UpdateLock's result u applied to resource o's queue under its map and
\* queue latches: an upgrade's BookKeepingRemove, and either a throw that
\* aborts the transaction or on to the GrantLock loop.
Enqueue(t, o, u) ==
    /\ MapFree(o) /\ QueueLatchFree(o)
    /\ queue' = [queue EXCEPT ![o] = u.queue]
    /\ upgrading' = [upgrading EXCEPT ![o] = u.upgrading]
    /\ lockSet' = IF u.dropped = "none" THEN lockSet
                  ELSE BookKeepingRemove(lockSet, t, u.dropped, o)
    /\ IF u.aborts
       THEN /\ txnState' = [txnState EXCEPT ![t] = "ABORTED"]
            /\ UNCHANGED pc
       ELSE /\ pc' = [pc EXCEPT ![t] = "latch"]
            /\ UNCHANGED txnState

\* LockTable up to and including UpdateLock (lines 62-96, 153-189).  A
\* refused call or an UpdateLock that throws aborts the transaction and
\* returns to the caller.
LockTableCall(t, o, m) ==
    /\ pc[t] = "idle" /\ Live(t) /\ nreq[t] < MaxRequests
    /\ nreq' = [nreq EXCEPT ![t] = @ + 1]
    /\ req' = [req EXCEPT ![t] = [oid |-> o, mode |-> m, book |-> o]]
    /\ IF LockRefused(txnState[t], Isolation[t], m)
       THEN Refuse(t)
       ELSE Enqueue(t, o, UpdateLock(queue[o], upgrading[o], t, m))
    /\ UNCHANGED <<mapHeld, dpc, dtodo, waitsFor, idSet, victim>>

\* IsTableFit (lines 1044-1067): an X row lock needs IX, X or SIX on the
\* row's table; the check for S is commented out.
IsTableFit(t, m, o) ==
    m = "X" => o \in lockSet[t]["IX"] \cup lockSet[t]["X"] \cup lockSet[t]["SIX"]

\* LockRow's state and isolation checks (lines 274-283, 331-403): the calls it
\* refuses by aborting the transaction.
RowLockRefused(st, iso, m) ==
    IF st = "GROWING" THEN iso = "READ_UNCOMMITTED" /\ m # "X"
    ELSE iso # "READ_COMMITTED" \/ m # "S"

\* LockRow up to and including UpdateLock (lines 252-294, 355-365).  A
\* GROWING transaction queues on the row with the row UpdateLock.  A
\* SHRINKING READ_COMMITTED one asking for S calls the table versions of
\* UpdateLock, GetLRQueuePtr and GrantLock with the row's table oid, so it
\* queues on the table; BookKeeping then records the row either way.
LockRowCall(t, r, m) ==
    LET onRow == txnState[t] = "GROWING"
        res   == IF onRow THEN r ELSE RowTable[r]
    IN
    /\ pc[t] = "idle" /\ Live(t) /\ nreq[t] < MaxRequests
    /\ nreq' = [nreq EXCEPT ![t] = @ + 1]
    /\ req' = [req EXCEPT ![t] = [oid |-> res, mode |-> m, book |-> r]]
    /\ IF ~IsTableFit(t, m, RowTable[r]) \/ RowLockRefused(txnState[t], Isolation[t], m)
       THEN Refuse(t)
       ELSE Enqueue(t, res, IF onRow THEN RowUpdateLock(queue[r], upgrading[r], t, m)
                            ELSE UpdateLock(queue[res], upgrading[res], t, m))
    /\ UNCHANGED <<mapHeld, dpc, dtodo, waitsFor, idSet, victim>>

\* std::unique_lock on the queue latch before the GrantLock loop.
TakeQueueLatch(t) ==
    /\ pc[t] = "latch"
    /\ QueueLatchFree(req[t].oid)
    /\ pc' = [pc EXCEPT ![t] = "grant"]
    /\ UNCHANGED <<queue, upgrading, txnState, lockSet, req, nreq, mapHeld,
                   dpc, dtodo, waitsFor, idSet, victim>>

\* One test of the GrantLock loop under the queue latch (GrantLock's
\* GetLRQueuePtr needs the map latch).  Success: notify_all, release the
\* latch, BookKeeping, return true.  Failure: cv_.wait releases the latch.
TryGrant(t) ==
    LET o == req[t].oid
        m == req[t].mode
        g == GrantLock(queue[o], upgrading[o], t, m)
    IN  /\ pc[t] = "grant"
        /\ MapFree(o)
        /\ queue' = [queue EXCEPT ![o] = g.queue]
        /\ upgrading' = [upgrading EXCEPT ![o] = g.upgrading]
        /\ IF g.ok
           THEN /\ pc' = [Notify(o, pc) EXCEPT ![t] = "idle"]
                /\ lockSet' = BookKeeping(lockSet, t, m, req[t].book)
           ELSE /\ pc' = [pc EXCEPT ![t] = "wait"]
                /\ UNCHANGED lockSet
        /\ UNCHANGED <<txnState, req, nreq, mapHeld, dpc, dtodo, waitsFor,
                       idSet, victim>>

\* Return from cv_.wait: take the latch again.  An aborted transaction
\* clears upgrading_, erases its request, notifies and returns false
\* (lines 100-118); otherwise the loop tests GrantLock again.
Wake(t) ==
    LET o == req[t].oid
        i == IndexOfTxn(queue[o], t)
    IN  /\ pc[t] = "woken"
        /\ QueueLatchFree(o)
        /\ IF txnState[t] = "ABORTED" /\ i # 0
           THEN /\ upgrading' = [upgrading EXCEPT ![o] =
                                   IF @ = t THEN NoTxn ELSE @]
                /\ queue' = [queue EXCEPT ![o] = RemoveAt(@, i)]
                /\ pc' = [Notify(o, pc) EXCEPT ![t] = "idle"]
           ELSE /\ upgrading' = [upgrading EXCEPT ![o] =
                                   IF @ = t /\ txnState[t] = "ABORTED"
                                   THEN NoTxn ELSE @]
                /\ pc' = [pc EXCEPT ![t] = "grant"]
                /\ UNCHANGED queue
        /\ UNCHANGED <<txnState, lockSet, req, nreq, mapHeld, dpc, dtodo,
                       waitsFor, idSet, victim>>

\* The tables and rows t's lock sets record.
HeldBy(t) == UNION {lockSet[t][m] : m \in LockModes}

\* Mutation of Release: the request is not erased from the queue.
ReleaseKeepsRequest(t, o) ==
    LET i == IndexOfGranted(queue[o], t) IN
    /\ MapFree(o) /\ QueueLatchFree(o)
    /\ IF i # 0
       THEN LET m == queue[o][i].mode IN
            /\ txnState' = [txnState EXCEPT ![t] =
                              UnLockChangeState(@, Isolation[t], m)]
            /\ lockSet' = BookKeepingRemove(lockSet, t, m, o)
            /\ pc' = Notify(o, pc)
            /\ UNCHANGED queue
       ELSE /\ txnState' = [txnState EXCEPT ![t] = "ABORTED"]
            /\ UNCHANGED <<lockSet, queue, pc>>

\* Release t's granted request on o's queue under the queue latch:
\* UnLockChangeState, BookKeepingRemove, erase, notify_all (UnlockTable
\* lines 226-245, UnlockRow 420-433); without one, abort t.
Release(t, o) ==
    LET i == IndexOfGranted(queue[o], t) IN
    /\ MapFree(o) /\ QueueLatchFree(o)
    /\ IF i # 0
       THEN LET m == queue[o][i].mode IN
            /\ txnState' = [txnState EXCEPT ![t] =
                              UnLockChangeState(@, Isolation[t], m)]
            /\ lockSet' = BookKeepingRemove(lockSet, t, m, o)
            /\ queue' = [queue EXCEPT ![o] = RemoveAt(@, i)]
            /\ pc' = Notify(o, pc)
       ELSE /\ txnState' = [txnState EXCEPT ![t] = "ABORTED"]
            /\ UNCHANGED <<lockSet, queue, pc>>

\* t's S or X row lock sets hold a row of table o.
RowsLocked(t, o) ==
    \E r \in Rows : RowTable[r] = o /\ r \in lockSet[t]["S"] \cup lockSet[t]["X"]

\* UnlockTable (lines 215-250) of a table the transaction has locked: with
\* a row of the table still in its row lock sets the call aborts t.
UnlockTable(t, o) ==
    /\ pc[t] = "idle" /\ Live(t)
    /\ o \in HeldBy(t) \cap Tables
    /\ IF RowsLocked(t, o) THEN Refuse(t) ELSE Release(t, o)
    /\ UNCHANGED <<upgrading, req, nreq, mapHeld, dpc, dtodo, waitsFor,
                   idSet, victim>>

\* UnlockRow (lines 410-440) of a row the transaction has locked.
UnlockRow(t, r) ==
    /\ pc[t] = "idle" /\ Live(t)
    /\ r \in HeldBy(t) \cap Rows
    /\ Release(t, r)
    /\ UNCHANGED <<upgrading, req, nreq, mapHeld, dpc, dtodo, waitsFor,
                   idSet, victim>>

\* TransactionManager::Commit / Abort (not in src/): set the final state
\* and release every lock its lock sets record through UnlockRow and
\* UnlockTable, whose state change does nothing once the transaction is no
\* longer GROWING.
Finish(t, final) ==
    LET held == HeldBy(t) IN
    /\ pc[t] = "idle"
    /\ IF final = "COMMITTED" THEN Live(t) ELSE txnState[t] # "COMMITTED"
    /\ \A o \in held : MapFree(o) /\ QueueLatchFree(o)
    /\ txnState' = [txnState EXCEPT ![t] = final]
    /\ queue' = [o \in Resources |->
                   IF o \in held
                   THEN SelectSeq(queue[o], LAMBDA r : ~(r.txn = t /\ r.granted))
                   ELSE queue[o]]
    /\ lockSet' = [lockSet EXCEPT ![t] = [m \in LockModes |-> {}]]
    /\ pc' = [u \in Txns |->
                IF u = t THEN "done"
                ELSE IF pc[u] = "wait" /\ req[u].oid \in held THEN "woken"
                ELSE pc[u]]
    /\ UNCHANGED <<upgrading, req, nreq, mapHeld, dpc, dtodo, waitsFor,
                   idSet, victim>>

-----------------------------------------------------------------------------
(* RunCycleDetection (lines 543-675), one latch operation per step.        *)

ThreadVars == <<queue, upgrading, txnState, lockSet, pc, req, nreq>>

\* After the sleep: lock table_lock_map_latch_.
DetectStart ==
    /\ dpc = "sleep" /\ mapHeld = "none"
    /\ mapHeld' = "table"
    /\ dpc' = "scan"
    /\ dtodo' = Tables
    /\ UNCHANGED <<waitsFor, idSet, victim>>
    /\ UNCHANGED ThreadVars

\* Lock one queue's latch, add its edges, unlock it.
DetectScan(o) ==
    LET es == ScanEdges(o) IN
    /\ dpc = "scan" /\ o \in dtodo
    /\ QueueLatchFree(o)
    /\ waitsFor' = AddEdges(waitsFor, es)
    /\ idSet' = idSet \cup {e[1] : e \in es} \cup {e[2] : e \in es}
    /\ dtodo' = dtodo \ {o}
    /\ UNCHANGED <<mapHeld, dpc, victim>>
    /\ UNCHANGED ThreadVars

\* After the table queues, unlock table_lock_map_latch_ and lock
\* row_lock_map_latch_ (free between steps: no thread holds it across
\* one); after the row queues, unlock it.
NextMap(next) ==
    IF mapHeld = "table"
    THEN /\ mapHeld' = "row"
         /\ dtodo' = Rows
         /\ UNCHANGED dpc
    ELSE /\ mapHeld' = "none"
         /\ dpc' = next
         /\ UNCHANGED dtodo

DetectScanned ==
    /\ dpc = "scan" /\ dtodo = {}
    /\ NextMap("cycle")
    /\ UNCHANGED <<waitsFor, idSet, victim>>
    /\ UNCHANGED ThreadVars

\* HasCycle; on a cycle abort the victim, erase it from waits_for_ and go
\* to notify its queues (lines 617-629).
DetectCycle ==
    LET v == CycleVictim(waitsFor, idSet) IN
    /\ dpc = "cycle"
    /\ IF v = NoTxn
       THEN /\ dpc' = "sleep"
            /\ UNCHANGED <<txnState, waitsFor, idSet, victim>>
       ELSE /\ txnState' = [txnState EXCEPT ![v] = "ABORTED"]
            /\ idSet' = idSet \ {v}
            /\ waitsFor' = [t \in Txns |-> IF t = v THEN {} ELSE waitsFor[t] \ {v}]
            /\ victim' = v
            /\ dpc' = "notifyLock"
    /\ UNCHANGED <<mapHeld, dtodo>>
    /\ UNCHANGED <<queue, upgrading, lockSet, pc, req, nreq>>

DetectNotifyStart ==
    /\ dpc = "notifyLock" /\ mapHeld = "none"
    /\ mapHeld' = "table"
    /\ dpc' = "notify"
    /\ dtodo' = Tables
    /\ UNCHANGED <<waitsFor, idSet, victim>>
    /\ UNCHANGED ThreadVars

\* Lock one queue's latch; notify_all if the victim has a request there.
DetectNotify(o) ==
    /\ dpc = "notify" /\ o \in dtodo
    /\ QueueLatchFree(o)
    /\ pc' = IF IndexOfTxn(queue[o], victim) # 0 THEN Notify(o, pc) ELSE pc
    /\ dtodo' = dtodo \ {o}
    /\ UNCHANGED <<mapHeld, dpc, waitsFor, idSet, victim>>
    /\ UNCHANGED <<queue, upgrading, txnState, lockSet, req, nreq>>

DetectNotified ==
    /\ dpc = "notify" /\ dtodo = {}
    /\ NextMap("cycle")
    /\ UNCHANGED <<waitsFor, idSet, victim>>
    /\ UNCHANGED ThreadVars

Detector ==
    \/ DetectStart \/ DetectScanned \/ DetectCycle
    \/ DetectNotifyStart \/ DetectNotified
    \/ \E o \in Resources : DetectScan(o) \/ DetectNotify(o)

Next ==
    \/ \E t \in Txns, o \in Tables, m \in Modes : LockTableCall(t, o, m)
    \/ \E t \in Txns : TakeQueueLatch(t) \/ TryGrant(t) \/ Wake(t)
    \/ \E t \in Txns, r \in Rows, m \in RowModes : LockRowCall(t, r, m)
    \/ \E t \in Txns, o \in Tables : UnlockTable(t, o)
    \/ \E t \in Txns, r \in Rows : UnlockRow(t, r)
    \/ \E t \in Txns, f \in {"COMMITTED", "ABORTED"} : Finish(t, f)
    \/ Detector

Spec == Init /\ [][Next]_vars

-----------------------------------------------------------------------------
LockRequest == [txn : Txns, mode : LockModes, granted : BOOLEAN]

\* request_queue_ is searched by transaction id (UpdateLock, GrantLock,
\* the abort path), so it holds at most one request of each transaction.
TypeOK ==
    /\ \A o \in Resources : queue[o] \in Seq(LockRequest)
                         /\ IsInjective([i \in 1 .. Len(queue[o]) |-> queue[o][i].txn])
    /\ upgrading \in [Resources -> Txns \cup {NoTxn}]
    /\ txnState \in [Txns -> {"GROWING", "SHRINKING", "COMMITTED", "ABORTED"}]
    /\ lockSet \in [Txns -> [LockModes -> SUBSET Resources]]
    /\ pc \in [Txns -> {"idle", "latch", "grant", "wait", "woken", "done"}]
    /\ req \in [Txns -> [oid : Resources \cup {NoTable}, mode : LockModes,
                          book : Resources \cup {NoTable}]]
    /\ nreq \in [Txns -> 0 .. MaxRequests]
    /\ mapHeld \in {"none", "table", "row"}
    /\ dpc \in {"sleep", "scan", "cycle", "notifyLock", "notify"}
    /\ dtodo \subseteq Resources
    /\ waitsFor \in [Txns -> SUBSET Txns]
    /\ idSet \subseteq Txns
    /\ victim \in Txns \cup {NoTxn}

\* Every two requests granted at once on a queue have compatible modes:
\* the grant pass of one thread, the upgrade shortcut and a grant pass of
\* another thread, each run under the queue latch, never combine into a
\* conflicting pair.
GrantedCompatible ==
    \A o \in Resources : \A i, j \in 1 .. Len(queue[o]) :
        /\ i # j /\ queue[o][i].granted /\ queue[o][j].granted
        => GrantCompatible(queue[o][i].mode, queue[o][j].mode)

\* Every granted request is recorded in its transaction's lock set of its
\* mode, unless the transaction's thread is still inside the LockTable
\* or LockRow call on that queue (another thread's GrantLock pass may grant a request
\* before its own thread has run BookKeeping).  Commit and abort release
\* the queue entries of what the lock sets record, so a granted request
\* missing from them would never be released.
GrantedInLockSet ==
    \A o \in Resources : \A i \in 1 .. Len(queue[o]) :
        LET r == queue[o][i] IN
        r.granted /\ (pc[r.txn] \in {"idle", "done"} \/ req[r.txn].oid # o)
        => o \in lockSet[r.txn][r.mode]

\* A transaction has at most one request in a queue, so its lock sets name
\* each table and each row under at most one mode.  UnlockTable and
\* UnlockRow release one mode, and UnlockTable refuses while a row lock set
\* names a row of the table: a second entry outlives every unlock.
OneLockPerResource ==
    \A t \in Txns, o \in Resources :
        \A m1, m2 \in LockModes : o \in lockSet[t][m1] \cap lockSet[t][m2] => m1 = m2

\* A thread asleep on the condition variable (or about to test again)
\* whose request is already granted will pass GrantLock on its next test.
\* The code's comment in GrantLock: a granted request makes GrantLock
\* return true "and the current transaction is woken later".
GrantedWaiterCanProceed ==
    \A t \in Txns :
        LET o == req[t].oid IN
        /\ pc[t] \in {"wait", "woken"}
        /\ txnState[t] # "ABORTED"
        /\ IndexOfGranted(queue[o], t) # 0
        => GrantLock(queue[o], upgrading[o], t, req[t].mode).ok

\* The detector and a locking thread never wait for each other's latch:
\* spec.md requires the map latch before queue latches, while GrantLock
\* takes table_lock_map_latch_ under the queue latch.  In the states below
\* the detector, holding the map latch, must still lock a queue whose latch
\* a thread holds while that thread needs the map latch.
NoLatchDeadlock ==
    ~(mapHeld # "none" /\ dpc \in {"scan", "notify"}
      /\ \E t \in Txns : pc[t] = "grant" /\ req[t].oid \in dtodo)

\* The waits-for graph of the queues as they are now.
WaitsNow == UNION {QueueEdges(queue[o]) : o \in Resources}

OnWaitCycle(v) ==
    TransitiveClosure([e \in Txns \X Txns |-> e \in WaitsNow], Txns)[v, v]

\* The detector aborts only a transaction that is deadlocked: one on a
\* cycle of the waits-for graph of the lock queues when HasCycle picks it.
VictimDeadlocked ==
    [][DetectCycle /\ dpc' = "notifyLock" => OnWaitCycle(victim')]_vars
=============================================================================
