--------------------------- MODULE LatchCrabbing ---------------------------
(***************************************************************************)
(* Latch crabbing of the B+ tree (src/bustub/src/storage/page/             *)
(* b_plus_tree_page.cpp, lines 120-880 hold b_plus_tree.cpp): threads call *)
(* GetValue, Insert and Remove at once, and each latch they take is a step *)
(* of its own.                                                             *)
(*                                                                         *)
(* A thread takes root_latch_ in read mode and descends with              *)
(* GetLeafPage's first pass (lines 282-350): read latches, a write latch  *)
(* on the leaf for Insert and Remove, the parent's latch (or root_latch_) *)
(* released once the child's is taken.  An unsafe leaf (IsPageSafe) is    *)
(* released and the thread starts the pessimistic pass: root_latch_ in    *)
(* write mode, then write latches down the path, releasing all of them    *)
(* above a safe page.  Holding its leaf, the thread changes the tree:      *)
(* the split cascade of InsertIntoLeaf, or the Remove with                 *)
(* CoalesceOrRedistribute, which write-latches each sibling it fetches    *)
(* (line 667).  The change itself is the whole Insert or Remove of         *)
(* BPlusTree, one step; ReleaseWLatches then lets go of every latch.       *)
(*                                                                         *)
(* th[t] is thread t's state: pc, the operation and key, whether it holds  *)
(* root_latch_ in read or write mode, the pages it holds read-latched      *)
(* (rl) and write-latched (wl: its transaction's page set and the         *)
(* siblings), and cur, the page it latches next or, at "modify", its leaf. *)
(***************************************************************************)
EXTENDS BPlusTree

CONSTANT Threads

VARIABLE th

cvars == <<tree, done, th>>

Idle == [pc |-> "idle", op |-> "get", key |-> Min(Keys), rootR |-> FALSE,
         rootW |-> FALSE, rl |-> {}, wl |-> {}, cur |-> Invalid]

\* std::shared_mutex of root_latch_ and of each page (ReaderWriterLatch).
RootRFree(t) == \A u \in Threads \ {t} : ~th[u].rootW
RootWFree(t) == \A u \in Threads \ {t} : ~th[u].rootW /\ ~th[u].rootR
RFree(t, x) == \A u \in Threads \ {t} : x \notin th[u].wl
WFree(t, x) == \A u \in Threads \ {t} : x \notin th[u].wl \cup th[u].rl

\* Mutation of IsPageSafe: a leaf one below leaf_max_size_ is safe for Insert.
IsPageSafeLeafFull(p, op) ==
    CASE op = "get" -> TRUE
      [] op = "insert" -> Len(p.arr) < MaxSize(p)
      [] p.parent = Invalid -> Len(p.arr) > (IF p.leaf THEN 1 ELSE 2)
      [] OTHER -> Len(p.arr) > MinSize(p)

\* IsPageSafe (lines 150-176): the operation cannot split or merge p, nor
\* change root_page_id_ through it.  A leaf splits on reaching
\* leaf_max_size_, an internal page past internal_max_size_; a root leaf
\* must keep a key, a root internal page two children.
IsPageSafe(p, op) ==
    CASE op = "get" -> TRUE
      [] op = "insert" -> Len(p.arr) < MaxSize(p) - (IF p.leaf THEN 1 ELSE 0)
      [] p.parent = Invalid -> Len(p.arr) > (IF p.leaf THEN 1 ELSE 2)
      [] OTHER -> Len(p.arr) > MinSize(p)

\* The siblings CoalesceOrRedistribute fetches and write-latches (lines
\* 638-699), in order, for a Remove whose leaf id has lost its key in t:
\* one per underflowing page, up to a redistribution or a safe parent.
RECURSIVE SiblingsFetched(_, _)
SiblingsFetched(t, id) ==
    LET p == t.pages[id]
        pid == p.parent
        index == ValueIndex(t.pages[pid], id)
        sib == ValueAt(t.pages[pid], IF index = 0 THEN 1 ELSE index - 1)
    IN  IF pid = Invalid \/ Len(p.arr) >= MinSize(p) THEN <<>>
        ELSE <<sib>> \o (IF Len(p.arr) + Len(t.pages[sib].arr) >= MaxSize(p) THEN <<>>
                         ELSE SiblingsFetched(MergePages(t, sib, id, pid, index), pid))

\* The siblings thread t's Remove still has to latch.
Pending(t) ==
    LET x == th[t].cur
        a == tree.pages[x].arr
    IN  IF th[t].op # "remove" \/ ~LookUp(a, th[t].key) THEN <<>>
        ELSE S!SelectSeq(SiblingsFetched([tree EXCEPT !.pages[x].arr = LeafRemove(a, th[t].key)], x),
                         LAMBDA y : y \notin th[t].wl)

Set(t, r) == th' = [th EXCEPT ![t] = r]

\* GetValue (lines 371-398), Insert (lines 411-435) and Remove (lines
\* 595-603) begin: root_latch_ in read mode; on an empty tree GetValue and
\* Remove return, Insert trades the read latch for the write latch.
\* Otherwise GetLeafPage reads root_page_id_ under the read latch.
Call(t, op, k) ==
    /\ th[t].pc = "idle"
    /\ RootRFree(t)
    /\ IF tree.root = Invalid
       THEN Set(t, IF op = "insert" THEN [Idle EXCEPT !.pc = "root_w", !.op = op, !.key = k] ELSE Idle)
       ELSE Set(t, [Idle EXCEPT !.pc = "first", !.op = op, !.key = k, !.rootR = TRUE, !.cur = tree.root])
    /\ UNCHANGED <<tree, done>>

\* Mutation of InsertRootW: StartNewTree without testing IsEmpty again.
InsertRootWNoRecheck(t) ==
    /\ th[t].pc = "root_w"
    /\ RootWFree(t)
    /\ tree' = StartNewTree(tree, th[t].key)
    /\ Set(t, Idle)
    /\ UNCHANGED done

\* Insert on an empty tree (lines 419-431): under root_latch_ in write
\* mode, StartNewTree if the tree is still empty; otherwise the write
\* latch is released and the read latch taken again.
InsertRootW(t) ==
    /\ th[t].pc = "root_w"
    /\ RootWFree(t)
    /\ IF tree.root = Invalid
       THEN /\ tree' = StartNewTree(tree, th[t].key)
            /\ Set(t, Idle)
       ELSE /\ Set(t, [th[t] EXCEPT !.pc = "root_r"])
            /\ UNCHANGED tree
    /\ UNCHANGED done

\* Insert's read latch retaken (line 430), then InsertIntoLeaf's
\* GetLeafPage reads root_page_id_ without checking IsEmpty again.  If the
\* tree has been emptied meanwhile it fetches INVALID_PAGE_ID: what it
\* does then is undefined, and the thread ends in "fault" without its
\* latches, so that the other threads' steps are still explored.
InsertRootR(t) ==
    /\ th[t].pc = "root_r"
    /\ RootRFree(t)
    /\ Set(t, IF tree.root = Invalid THEN [Idle EXCEPT !.pc = "fault", !.op = "insert", !.key = th[t].key]
              ELSE [th[t] EXCEPT !.pc = "first", !.rootR = TRUE, !.cur = tree.root])
    /\ UNCHANGED <<tree, done>>

\* Mutation of DescendFirst: the parent's read latch is not released.
DescendFirstKeepsParent(t) ==
    LET x == th[t].cur
        p == tree.pages[x]
        r == [th[t] EXCEPT !.rootR = FALSE]
    IN  /\ th[t].pc = "first"
        /\ IF p.leaf /\ th[t].op # "get" THEN WFree(t, x) ELSE RFree(t, x)
        /\ Set(t, CASE ~p.leaf -> [r EXCEPT !.rl = @ \cup {x}, !.cur = ChildFor(p, th[t].key)]
                    [] th[t].op = "get" -> Idle
                    [] IsPageSafe(p, th[t].op) -> [r EXCEPT !.pc = "modify", !.wl = {x}]
                    [] OTHER -> [r EXCEPT !.pc = "pess", !.cur = Invalid])
        /\ UNCHANGED <<tree, done>>

\* A step of GetLeafPage's first pass (lines 297-350): latch cur (a write
\* latch on the leaf of an Insert or Remove, a read latch otherwise), then
\* release the parent's read latch or root_latch_.  An inner page leads on
\* to the child for the key.  GetValue reads its leaf and releases it
\* (lines 384-395).  An unsafe leaf is released and the pessimistic pass
\* begins (lines 333-336).
DescendFirst(t) ==
    LET x == th[t].cur
        p == tree.pages[x]
        r == [th[t] EXCEPT !.rootR = FALSE, !.rl = {}]
    IN  /\ th[t].pc = "first"
        /\ IF p.leaf /\ th[t].op # "get" THEN WFree(t, x) ELSE RFree(t, x)
        /\ Set(t, CASE ~p.leaf -> [r EXCEPT !.rl = {x}, !.cur = ChildFor(p, th[t].key)]
                    [] th[t].op = "get" -> Idle
                    [] IsPageSafe(p, th[t].op) -> [r EXCEPT !.pc = "modify", !.wl = {x}]
                    [] OTHER -> [r EXCEPT !.pc = "pess", !.cur = Invalid])
        /\ UNCHANGED <<tree, done>>

\* The second GetLeafPage (lines 290-293): root_latch_ in write mode, then
\* root_page_id_, which another thread may have made INVALID_PAGE_ID since
\* the first pass let go of the tree (see InsertRootR for "fault").
PessRoot(t) ==
    /\ th[t].pc = "pess"
    /\ RootWFree(t)
    /\ Set(t, IF tree.root = Invalid THEN [Idle EXCEPT !.pc = "fault", !.op = th[t].op, !.key = th[t].key]
              ELSE [th[t] EXCEPT !.pc = "second", !.rootW = TRUE, !.cur = tree.root])
    /\ UNCHANGED <<tree, done>>

\* ReleaseWLatches (lines 179-200): the page set, root_latch_ (its nullptr
\* entry) first, then every page down the path, is write-unlatched and
\* emptied.
ReleaseWLatches(r) == [r EXCEPT !.rootW = FALSE, !.wl = {}]

\* A step of the pessimistic pass (lines 318-350): write-latch cur; if it
\* is safe, ReleaseWLatches (lines 178-200) lets go of root_latch_ and
\* every ancestor first.
DescendPess(t) ==
    LET x == th[t].cur
        p == tree.pages[x]
        safe == IsPageSafe(p, th[t].op)
        h == IF safe THEN ReleaseWLatches(th[t]) ELSE th[t]
        r == [h EXCEPT !.wl = @ \cup {x}]
    IN  /\ th[t].pc = "second"
        /\ WFree(t, x)
        /\ Set(t, IF p.leaf THEN [r EXCEPT !.pc = "modify"] ELSE [r EXCEPT !.cur = ChildFor(p, th[t].key)])
        /\ UNCHANGED <<tree, done>>

\* CoalesceOrRedistribute write-latches the next sibling it fetches (line
\* 667), holding the leaf and the ancestors it changes.
LatchSibling(t) ==
    /\ th[t].pc = "modify"
    /\ Pending(t) # <<>>
    /\ WFree(t, Head(Pending(t)))
    /\ Set(t, [th[t] EXCEPT !.wl = @ \cup {Head(Pending(t))}])
    /\ UNCHANGED <<tree, done>>

\* With its latches held, InsertIntoLeaf (lines 458-492) or the rest of
\* Remove (lines 608-632) changes the tree; ReleaseWLatches then releases
\* them all.
Modify(t) ==
    /\ th[t].pc = "modify"
    /\ Pending(t) = <<>>
    /\ tree' = IF th[t].op = "insert" THEN InsertOf(tree, th[t].key) ELSE RemoveOf(tree, th[t].key)
    /\ Set(t, Idle)
    /\ UNCHANGED done

\* done, the last result of the single-client BPlusTree, is not used.
CInit ==
    /\ tree = EmptyTree
    /\ done = [op |-> "none", key |-> Min(Keys), out |-> FALSE]
    /\ th = [t \in Threads |-> Idle]

CNext ==
    \E t \in Threads :
        \/ \E op \in {"get", "insert", "remove"}, k \in Keys : Call(t, op, k)
        \/ InsertRootW(t)
        \/ InsertRootR(t)
        \/ DescendFirst(t)
        \/ PessRoot(t)
        \/ DescendPess(t)
        \/ LatchSibling(t)
        \/ Modify(t)

CSpec == CInit /\ [][CNext]_cvars

-----------------------------------------------------------------------------
\* Each thread holds at most one read latch: the first pass releases the
\* parent's latch once the child's is taken, and GetValue its leaf's.
CTypeOK ==
    \A t \in Threads :
        /\ th[t].pc \in {"idle", "root_w", "root_r", "first", "pess", "second", "modify", "fault"}
        /\ th[t].op \in {"get", "insert", "remove"}
        /\ th[t].key \in Keys
        /\ th[t].rootR \in BOOLEAN /\ th[t].rootW \in BOOLEAN
        /\ th[t].rl \cup th[t].wl \subseteq PageIds
        /\ Cardinality(th[t].rl) <= 1
        /\ th[t].cur \in PageIds \cup {Invalid}

\* The pages a thread's descent for k passes through, root to leaf.
RECURSIVE PathTo(_, _, _)
PathTo(t, id, k) == IF t.pages[id].leaf THEN {id} ELSE {id} \cup PathTo(t, ChildFor(t.pages[id], k), k)

\* The pages whose entries or next link a step changes, or which it drops.
Changed(t, t2) ==
    {x \in DOMAIN t.pages : \/ x \notin DOMAIN t2.pages
                            \/ t2.pages[x].arr # t.pages[x].arr
                            \/ t2.pages[x].next # t.pages[x].next}

\* Every page an Insert or Remove changes, splits, merges into another,
\* redistributes or drops is write-latched by that thread when it does so,
\* and root_page_id_ changes only under root_latch_ in write mode: the
\* safe-page tests of the first and the pessimistic pass never let go of a
\* latch the split or merge cascade then needs.
WritesLatched ==
    [][\A t \in Threads :
         th'[t] # th[t] =>
            /\ Changed(tree, tree') \subseteq th[t].wl
            /\ tree'.root # tree.root => th[t].rootW \/ th[t].pc = "root_w"]_cvars

\* The page a descending thread latches next is still a page of the tree
\* on the search path of its key, and the leaf an Insert or Remove holds
\* when it changes the tree is still the leaf of its key: no other thread
\* has split, merged or dropped it, or moved the key's range elsewhere,
\* since the latch it was found under was released.  (A tree that holds a
\* freed page has no search paths: see BPlusTree's NoFreedPageInTree.)
LatchedPathCurrent ==
    \A t \in Threads :
        th[t].pc \in {"first", "second", "modify"} /\ NoFreedPageInTree =>
            /\ tree.root # Invalid
            /\ th[t].cur \in PathTo(tree, tree.root, th[t].key)
            /\ th[t].pc = "modify" => tree.pages[th[t].cur].leaf

\* Insert and Remove descend from a valid root_page_id_: between the
\* IsEmpty test under one hold of root_latch_ and the read of
\* root_page_id_ under the next (Insert's latch trade, lines 428-431, or
\* the pessimistic pass after the first, line 291) no other thread has
\* emptied the tree.
NoInvalidRootFetch == \A t \in Threads : th[t].pc # "fault"
=============================================================================
