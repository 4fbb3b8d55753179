------------------------------ MODULE IndexScan ------------------------------
(***************************************************************************)
(* IndexScanExecutor (src/bustub/src/execution/sort_executor.cpp, lines   *)
(* 155-182) walking a BPlusTree through IndexIterator                      *)
(* (src/bustub/src/storage/index/index_iterator.cpp) while a writer        *)
(* thread inserts and removes keys.                                        *)
(*                                                                         *)
(* The executor's constructor builds begin_ = Begin() and end_ = End(),    *)
(* and Init assigns begin_ = Begin() again.  Each iterator keeps its leaf  *)
(* pinned and read-latched until it moves on or is destroyed, so while    *)
(* the scan is open the leaf of begin_ and the rightmost leaf of end_ are  *)
(* read-latched.  The writer's Insert or Remove is one step of BPlusTree   *)
(* unless it must write-latch a page the scan holds: then it waits.  In   *)
(* its optimistic first pass (GetLeafPage, first_pass) it waits for its    *)
(* leaf holding no write latch; if the leaf is not safe it waits in the    *)
(* pessimistic pass for the sibling that CoalesceOrRedistribute fetches,   *)
(* holding write latches on its leaf and the ancestors it changes.         *)
(* A Remove that frees a page the tree still uses (BPlusTree's            *)
(* NoFreedPageInTree) ends what the model follows, as in BPlusTree.       *)
(***************************************************************************)
EXTENDS BPlusTree

VARIABLES scan, writer

ivars == <<tree, done, scan, writer>>

\* Mutation of WLeaves: CoalesceOrRedistribute does not latch the sibling.
WLeavesNoSibling(t, t2, k) == IF t.root = Invalid THEN {} ELSE {GetLeafPage(t, t.root, k)}

\* The leaves an Insert or Remove write-latches: the leaf of the key
\* (GetLeafPage, lines 282-350) and, when that leaf underflows, the
\* sibling CoalesceOrRedistribute latches (line 667).  With leaves of at
\* most leaf_max_size - 1 = 2 items an underflowing leaf always
\* coalesces, so that sibling is the other leaf whose items or next link
\* the operation changes or which it drops.
WLeaves(t, t2, k) ==
    IF t.root = Invalid THEN {}
    ELSE {GetLeafPage(t, t.root, k)} \cup
         {x \in DOMAIN t.pages :
            /\ t.pages[x].leaf
            /\ \/ x \notin DOMAIN t2.pages
               \/ t2.pages[x].arr # t.pages[x].arr
               \/ t2.pages[x].next # t.pages[x].next}

\* The leaves the scan's iterators hold read-latched.
Latched == IF scan.pc \in {"open", "past"} THEN {scan.page, scan.endId} ELSE {}

\* GetLeftMostLeafPage and GetRightMostLeafPage (lines 205-281): descend
\* through child 0, or through the last child, to a leaf.
RECURSIVE LeftMost(_, _), RightMost(_, _)
LeftMost(t, id) == IF t.pages[id].leaf THEN id ELSE LeftMost(t, ValueAt(t.pages[id], 0))

RightMost(t, id) ==
    IF t.pages[id].leaf THEN id
    ELSE RightMost(t, ValueAt(t.pages[id], Len(t.pages[id].arr) - 1))

\* IndexIterator::operator== (lines 78-81): page_id_ and index_.
AtEnd(s) == s.pageId = s.endId /\ s.index = s.endIndex

\* Mutation of Inc: moves to the next leaf one item early.
IncEarly(s) ==
    LET p == tree.pages[s.page] IN
    IF s.index >= Len(p.arr) - 2 /\ p.next # Invalid
    THEN [s EXCEPT !.page = p.next, !.index = 0]
    ELSE [s EXCEPT !.index = @ + 1]

\* Mutation of Inc: the move to the next leaf leaves page_ unchanged.
IncStays(s) ==
    LET p == tree.pages[s.page] IN
    IF s.index = Len(p.arr) - 1 /\ p.next # Invalid
    THEN [s EXCEPT !.index = 0]
    ELSE [s EXCEPT !.index = @ + 1]

\* IndexIterator::operator++ (lines 47-75): past the last item of a leaf
\* with a next leaf, latch the next leaf, release this one, index_ 0;
\* otherwise index_ + 1.  page_id_ is not changed.
Inc(s) ==
    LET p == tree.pages[s.page] IN
    IF s.index = Len(p.arr) - 1 /\ p.next # Invalid
    THEN [s EXCEPT !.page = p.next, !.index = 0]
    ELSE [s EXCEPT !.index = @ + 1]

\* The leaf Inc moves to and must read-latch, if any.
IncTarget(s) ==
    LET p == tree.pages[s.page] IN
    IF s.index = Len(p.arr) - 1 /\ p.next # Invalid THEN {p.next} ELSE {}

\* The IndexScanExecutor's constructor and Init (lines 155-164), with
\* Begin (lines 817-830) and End (lines 861-876).  Begin and End of an
\* empty tree are the default IndexIterator, whose index_ is never set:
\* begin_ == end_ compares two uninitialised ints, and when they differ
\* Next dereferences an uninitialised page_.
ScanOpen ==
    /\ scan.pc = "idle"
    /\ writer.pc = "idle"
    /\ IF tree.root = Invalid
       THEN scan' \in {[scan EXCEPT !.pc = "done"], [scan EXCEPT !.pc = "crash"]}
       ELSE LET l == LeftMost(tree, tree.root)
                r == RightMost(tree, tree.root)
            IN  scan' = [scan EXCEPT !.pc = "open", !.page = l, !.pageId = l, !.index = 0,
                                     !.endId = r, !.endIndex = Len(tree.pages[r].arr),
                                     !.stable = Contents]
    /\ UNCHANGED <<tree, done, writer>>

\* IndexScanExecutor::Next (lines 166-182): false when begin_ == end_
\* (the executor is then destroyed and its latches go); otherwise the item
\* at begin_ and ++begin_, which waits while the next leaf is
\* write-latched.  An index_ at or past the leaf's size reads beyond its
\* items: the scan has run past the end.
ScanNext ==
    /\ scan.pc = "open"
    /\ IF AtEnd(scan)
       THEN scan' = [scan EXCEPT !.pc = "done"]
       ELSE IF scan.index >= Len(tree.pages[scan.page].arr)
       THEN scan' = [scan EXCEPT !.pc = "past"]
       ELSE /\ IncTarget(scan) \cap writer.held = {}
            /\ scan' = [Inc(scan) EXCEPT !.out = Append(@, tree.pages[scan.page].arr[scan.index + 1])]
    /\ UNCHANGED <<tree, done, writer>>

\* The result of the writer's operation on the tree.
Apply(op, k) == IF op = "insert" THEN InsertOf(tree, k) ELSE RemoveOf(tree, k)

Done(op, k) == [op |-> op, key |-> k, out |-> IF op = "insert" THEN Inserted(tree, k) ELSE FALSE]

\* The writer's Insert (lines 407-433) or Remove (lines 595-633) takes
\* effect, and keys it removes leave the set the scan must see.
Complete(op, k) ==
    /\ tree' = Apply(op, k)
    /\ done' = Done(op, k)
    /\ writer' = [pc |-> "idle", op |-> op, key |-> k, held |-> {}]
    /\ scan' = [scan EXCEPT !.stable = @ \cap Contents']

\* The writer starts an Insert or Remove of k: done at once if it latches
\* no leaf the scan holds.  Otherwise it waits: for its leaf in the first
\* pass, holding no write latch, or for the sibling in the second pass,
\* holding its own leaf write-latched.
WriterStart(op, k) ==
    LET leaf == GetLeafPage(tree, tree.root, k)
        wl == WLeaves(tree, Apply(op, k), k)
    IN  /\ writer.pc = "idle"
        /\ IF wl \cap Latched = {} THEN Complete(op, k)
           ELSE /\ writer' = [pc |-> "waiting", op |-> op, key |-> k,
                              held |-> IF leaf \in Latched THEN {} ELSE {leaf}]
                /\ UNCHANGED <<tree, done, scan>>

\* The waiting writer gets its latches once the scan has let go of them.
WriterFinish ==
    /\ writer.pc = "waiting"
    /\ WLeaves(tree, Apply(writer.op, writer.key), writer.key) \cap Latched = {}
    /\ Complete(writer.op, writer.key)

INext ==
    \/ ScanOpen
    \/ ScanNext
    \/ \E k \in Keys, op \in {"insert", "remove"} : WriterStart(op, k)
    \/ WriterFinish

IInit ==
    /\ Init
    /\ scan = [pc |-> "idle", page |-> Invalid, pageId |-> Invalid, index |-> 0,
               endId |-> Invalid, endIndex |-> 0, out |-> <<>>, stable |-> {}]
    /\ writer = [pc |-> "idle", op |-> "insert", key |-> CHOOSE k \in Keys : TRUE, held |-> {}]

ISpec == IInit /\ [][INext]_ivars

-----------------------------------------------------------------------------
ITypeOK ==
    /\ scan.pc \in {"idle", "open", "done", "past", "crash"}
    /\ scan.index \in Nat
    /\ scan.out \in Seq(Keys)
    /\ scan.stable \subseteq Keys
    /\ scan.pc \in {"open", "past"} => {scan.page, scan.endId} \subseteq DOMAIN tree.pages
    /\ writer.pc \in {"idle", "waiting"}
    /\ writer.held \subseteq DOMAIN tree.pages

\* The keys the scan returns up to the last item of the last leaf are in
\* strictly ascending order, whatever the writer inserts, splits or merges
\* ahead of it or behind it: the latch on the current leaf and the leaf
\* order of the next links keep a key from being returned twice or out of
\* order.  What Next returns after that, reading beyond the last leaf's
\* items, is ScanStopsAtEnd's question: the model stops the scan there.
ScanAscending == \A i \in 1 .. Len(scan.out) - 1 : scan.out[i] < scan.out[i + 1]

\* A scan that has walked the whole leaf chain, to end_ or to the last
\* item of the last leaf, has returned every key that was in the tree from
\* Begin to then: no split or merge by the writer moves a key behind the
\* scan.
ScanSeesStableKeys == scan.pc \in {"done", "past"} => scan.stable \subseteq S!ToSet(scan.out)

\* IndexScanExecutor::Next stops at end_: begin_ == end_ (operator==,
\* which compares page_id_ and index_) becomes true before begin_ reads
\* beyond the last item of the last leaf.
ScanStopsAtEnd == scan.pc # "past"

\* The scan and the writer never wait for each other: the scan's ++ into
\* the next leaf and the writer's latch on the scan's leaf are not both
\* blocked.
NoScanWriterDeadlock ==
    ~ /\ scan.pc = "open"
      /\ ~AtEnd(scan)
      /\ IncTarget(scan) \cap writer.held # {}
      /\ writer.pc = "waiting"
      /\ WLeaves(tree, Apply(writer.op, writer.key), writer.key) \cap Latched # {}
=============================================================================
