----------------------------- MODULE BPlusTree -----------------------------
(***************************************************************************)
(* The B+ tree index of src/bustub/src/storage/page/b_plus_tree_page.cpp   *)
(* (lines 120-880 hold b_plus_tree.cpp) and its leaf and internal pages,   *)
(* src/bustub/src/storage/page/b_plus_tree_leaf_page.cpp (leaf page lines  *)
(* 1-228, internal page lines 229-468).                                    *)
(*                                                                         *)
(* One client calls GetValue, Insert and Remove; each call is one step,    *)
(* with the whole split or merge cascade inside it.  The tree is one       *)
(* record `tree`:                                                          *)
(*   tree.pages    page id -> [leaf, arr, parent, next]: the tree's pages  *)
(*                 (those reachable from the root).  A leaf's arr is its  *)
(*                 keys in array_ order; an internal page's arr is its     *)
(*                 [key, child] pairs, arr[1].key being array_[0].first,   *)
(*                 which no search reads.  next is next_page_id_ (leaves). *)
(*   tree.root     root_page_id_                                           *)
(*   tree.next     the page id the buffer pool's NewPage hands out next    *)
(*   tree.deleted  the ids passed to DeletePage that the tree still uses   *)
(* Values (RIDs) are left out: the tree only moves them with their keys.   *)
(* A deleted page the tree still points at reads as a reset frame         *)
(* (ResetFrame): DeletePage zeroes it.  Any call that reaches such a page  *)
(* reads a zero-sized internal page and follows child 0, the header page;  *)
(* the model does not follow the tree past that point (the runs stop at   *)
(* it with a state constraint), and NoFreedPageInTree states that it is   *)
(* never reached.                                                          *)
(***************************************************************************)
EXTENDS Integers, Sequences, FiniteSets, FiniteSetsExt, TLC

\* SequencesExt has an operator Remove, the name of the tree's own Remove.
S == INSTANCE SequencesExt

CONSTANTS
    Keys,          \* the keys, integers ordered by the comparator
    LeafMax,       \* leaf_max_size_
    InternalMax,   \* internal_max_size_
    NoKey          \* model value: array_[0].first of an internal page

ASSUME LeafMax >= 2 /\ InternalMax >= 3

Invalid == -1      \* INVALID_PAGE_ID

VARIABLES tree, done

vars == <<tree, done>>

\* The header page takes page id 0, so the tree's pages start at 1.
EmptyTree == [pages |-> <<>>, root |-> Invalid, next |-> 1, deleted |-> {}]

\* Init of a leaf or internal page (leaf lines 33-40, internal 258-264).
NewLeaf(parent, arr) == [leaf |-> TRUE, arr |-> arr, parent |-> parent, next |-> Invalid]
NewInternal(parent, arr) == [leaf |-> FALSE, arr |-> arr, parent |-> parent, next |-> Invalid]

MaxSize(p) == IF p.leaf THEN LeafMax ELSE InternalMax

\* GetMinSize (b_plus_tree_page.cpp lines 72-79): internal pages round up.
MinSize(p) == IF p.leaf THEN LeafMax \div 2 ELSE (InternalMax + 1) \div 2

\* KeyAt, ValueAt with the code's 0-based index.
KeyAt(p, i) == IF p.leaf THEN p.arr[i + 1] ELSE p.arr[i + 1].key
ValueAt(p, i) == p.arr[i + 1].child

\* ValueIndex (internal lines 291-294): the first slot holding v, or size.
ValueIndex(p, v) ==
    LET j == S!SelectInSeq(p.arr, LAMBDA e : e.child = v) IN
    IF j = 0 THEN Len(p.arr) ELSE j - 1

\* std::lower_bound as KeyIndex, LookUp, Insert and Remove run it: the
\* binary search over array_[first, first + count).
RECURSIVE LowerBound(_, _, _, _)
LowerBound(a, k, first, count) ==
    IF count = 0 THEN first
    ELSE LET step == count \div 2 IN
         IF a[first + step + 1] < k
         THEN LowerBound(a, k, first + step + 1, count - step - 1)
         ELSE LowerBound(a, k, first, step)

KeyIndex(a, k) == LowerBound(a, k, 0, Len(a))

\* Mutation of LookUp: the key at lower_bound's position is not compared.
LookUpNoCompare(a, k) == KeyIndex(a, k) < Len(a)

\* LookUp (leaf lines 86-98).
LookUp(a, k) == KeyIndex(a, k) < Len(a) /\ a[KeyIndex(a, k) + 1] = k

\* Leaf Insert (leaf lines 102-119): a present key leaves the page as is.
LeafInsert(a, k) == IF LookUp(a, k) THEN a ELSE S!InsertAt(a, KeyIndex(a, k) + 1, k)

\* Leaf Remove (leaf lines 137-151).
LeafRemove(a, k) == IF LookUp(a, k) THEN S!RemoveAt(a, KeyIndex(a, k) + 1) ELSE a

\* Mutation of ChildFor: a key equal to a separator goes left.
ChildForGeq(p, k) ==
    LET above == {i \in 1 .. Len(p.arr) - 1 : KeyAt(p, i) >= k} IN
    IF above = {} THEN ValueAt(p, Len(p.arr) - 1) ELSE ValueAt(p, Min(above) - 1)

\* The child GetLeafPage descends to (lines 344-352): the child left of the
\* first key above k, else the last child.
ChildFor(p, k) ==
    LET above == {i \in 1 .. Len(p.arr) - 1 : KeyAt(p, i) > k} IN
    IF above = {} THEN ValueAt(p, Len(p.arr) - 1) ELSE ValueAt(p, Min(above) - 1)

\* GetLeafPage (lines 282-360) without its latches: the leaf for k.
RECURSIVE GetLeafPage(_, _, _)
GetLeafPage(t, id, k) ==
    IF t.pages[id].leaf THEN id ELSE GetLeafPage(t, ChildFor(t.pages[id], k), k)

\* NewPage of the buffer pool: the next page id, holding page p.
AddPage(t, p) == [t EXCEPT !.pages = (t.next :> p) @@ @, !.next = @ + 1]

\* SetParentPageId on each page of ids (CopyNFrom, CopyLastFrom,
\* CopyFirstFrom of internal pages, InsertIntoParent, AdjustRoot).
SetParent(t, ids, pid) ==
    [t EXCEPT !.pages = [x \in DOMAIN @ |->
                           IF x \in ids THEN [@[x] EXCEPT !.parent = pid] ELSE @[x]]]

Children(arr) == {e.child : e \in S!ToSet(arr)}

\* StartNewTree (lines 439-454): a root leaf holding k.
StartNewTree(t, k) == [AddPage(t, NewLeaf(Invalid, <<k>>)) EXCEPT !.root = t.next]

\* Split of a full leaf (lines 497-522) with MoveHalfTo (leaf lines 123-133),
\* and the next_page_id_ splice of InsertIntoLeaf (lines 480-481): the
\* entries from GetMinSize() on move to a new right sibling.
SplitLeaf(t, id) ==
    LET p == t.pages[id]
        m == MinSize(p)
        s == t.next
        t1 == AddPage(t, [NewLeaf(p.parent, SubSeq(p.arr, m + 1, Len(p.arr)))
                            EXCEPT !.next = p.next])
    IN  [t1 EXCEPT !.pages[id].arr = SubSeq(p.arr, 1, m), !.pages[id].next = s]

\* Split of an overfull internal page with MoveHalfTo (internal lines
\* 325-333) and CopyNFrom (lines 389-413): max - min + 1 entries from
\* GetMinSize() on move to a new page, which becomes their children's parent.
SplitInternal(t, id) ==
    LET p == t.pages[id]
        m == MinSize(p)
        moved == SubSeq(p.arr, m + 1, Len(p.arr))
        t1 == AddPage(t, NewInternal(p.parent, moved))
    IN  [SetParent(t1, Children(moved), t.next) EXCEPT !.pages[id].arr = SubSeq(p.arr, 1, m)]

\* PopulateNewRoot (internal lines 298-305): a new root's entries, left
\* under the unused key of index 0 and (key, right) at index 1.
PopulateNewRoot(left, key, right) ==
    << [key |-> NoKey, child |-> left], [key |-> key, child |-> right] >>

\* Internal Insert (internal lines 307-323): (key, new) goes in right
\* after the entry whose child is old, the entries behind it shifted up.
InternalInsert(p, old, key, new) ==
    S!InsertAt(p.arr, ValueIndex(p, old) + 2, [key |-> key, child |-> new])

\* InsertIntoParent (lines 526-582): a split root gets a new root holding
\* (left, key, right); otherwise the parent takes (key, right) after left
\* and, past internal_max_size_, splits and recurses.
RECURSIVE InsertIntoParent(_, _, _, _)
InsertIntoParent(t, left, key, right) ==
    IF t.pages[left].parent = Invalid
    THEN LET r == t.next
             t1 == AddPage(t, NewInternal(Invalid, PopulateNewRoot(left, key, right)))
         IN  [SetParent(t1, {left, right}, r) EXCEPT !.root = r]
    ELSE LET pid == t.pages[left].parent
             arr == InternalInsert(t.pages[pid], left, key, right)
             t1 == [t EXCEPT !.pages[pid].arr = arr]
             s == t1.next
             t2 == SplitInternal(t1, pid)
         IN  IF Len(arr) <= InternalMax THEN t1
             ELSE InsertIntoParent(t2, pid, t2.pages[s].arr[1].key, s)

\* InsertIntoLeaf (lines 458-492): a present key changes nothing; a leaf
\* that reaches leaf_max_size_ splits and its sibling's first key goes up.
InsertIntoLeaf(t, k) ==
    LET id == GetLeafPage(t, t.root, k)
        arr == LeafInsert(t.pages[id].arr, k)
        t1 == [t EXCEPT !.pages[id].arr = arr]
        s == t1.next
        t2 == SplitLeaf(t1, id)
    IN  IF arr = t.pages[id].arr \/ Len(arr) < LeafMax THEN t1
        ELSE InsertIntoParent(t2, id, t2.pages[s].arr[1], s)

\* Insert (lines 411-435): an empty tree starts a new one.
InsertOf(t, k) == IF t.root = Invalid THEN StartNewTree(t, k) ELSE InsertIntoLeaf(t, k)

\* What Insert returns: false for a key already in its leaf.
Inserted(t, k) == t.root = Invalid \/ ~LookUp(t.pages[GetLeafPage(t, t.root, k)].arr, k)

\* Mutation of AdjustRoot: an internal root with one child is kept.
AdjustRootKeepsInternal(t, id) ==
    IF t.pages[id].leaf /\ Len(t.pages[id].arr) = 0
    THEN [t |-> [t EXCEPT !.root = Invalid], del |-> TRUE]
    ELSE [t |-> t, del |-> FALSE]

\* AdjustRoot (lines 703-735): an internal root with one child hands the
\* root to it; an empty leaf root empties the tree.  `del` is the result:
\* the old root is to be deleted.
AdjustRoot(t, id) ==
    LET p == t.pages[id] IN
    CASE ~p.leaf /\ Len(p.arr) = 1 ->
            [t |-> [SetParent(t, {ValueAt(p, 0)}, Invalid) EXCEPT !.root = ValueAt(p, 0)],
             del |-> TRUE]
      [] p.leaf /\ Len(p.arr) = 0 -> [t |-> [t EXCEPT !.root = Invalid], del |-> TRUE]
      [] OTHER -> [t |-> t, del |-> FALSE]

\* Leaf MoveFirstToEnd (leaf lines 155-165).  first_item is a reference to
\* array_[0], read after the shift: it is the old second entry, or the
\* only one.
LeafMoveFirstToEnd(t, from, to) ==
    LET a == t.pages[from].arr
        item == IF Len(a) > 1 THEN a[2] ELSE a[1]
        t1 == [t EXCEPT !.pages[from].arr = Tail(a)]
    IN  [t1 EXCEPT !.pages[to].arr = Append(@, item)]

\* Leaf MoveLastToFront (leaf lines 169-178) with CopyFirstFrom (lines
\* 212-221).  last_item is a reference to array_[size - 1]; when the target
\* is the page itself, CopyFirstFrom's shift has overwritten it with the
\* entry before it by the time it is read.
LeafMoveLastToFront(t, from, to) ==
    LET a == t.pages[from].arr
        n == Len(a)
        item == IF from = to /\ n >= 2 THEN a[n - 1] ELSE a[n]
        t1 == [t EXCEPT !.pages[from].arr = S!Front(a)]
    IN  [t1 EXCEPT !.pages[to].arr = <<item>> \o @]

\* Internal MoveFirstToEnd (internal lines 347-358) with CopyLastFrom:
\* the parent's separator comes down as the moved entry's key.
InternalMoveFirstToEnd(t, from, to, middle) ==
    LET item == [t.pages[from].arr[1] EXCEPT !.key = middle] IN
    [SetParent(t, {item.child}, to) EXCEPT !.pages[to].arr = Append(@, item),
                                           !.pages[from].arr = Tail(@)]

\* Internal MoveLastToFront (internal lines 362-372) with CopyFirstFrom:
\* the separator becomes the key of the target's old first entry.
InternalMoveLastToFront(t, from, to, middle) ==
    LET item == S!Last(t.pages[from].arr) IN
    [SetParent(t, {item.child}, to)
        EXCEPT !.pages[to].arr = <<item>> \o [@ EXCEPT ![1].key = middle],
               !.pages[from].arr = S!Front(@)]

\* Redistribute (lines 740-769): one entry crosses from the sibling, and
\* the parent's separator at the boundary is reset.  For leaves the code
\* casts node, not sibling_node, as the sibling (line 745), so the leaf
\* moves an entry to itself.
Redistribute(t, sib, id, pid, index) ==
    IF t.pages[id].leaf
    THEN IF index = 0
         THEN LET t1 == LeafMoveFirstToEnd(t, id, id)
              IN  [t1 EXCEPT !.pages[pid].arr[2].key = t1.pages[id].arr[1]]
         ELSE LET t1 == LeafMoveLastToFront(t, id, id)
              IN  [t1 EXCEPT !.pages[pid].arr[index + 1].key = t1.pages[id].arr[1]]
    ELSE IF index = 0
         THEN LET t1 == InternalMoveFirstToEnd(t, sib, id, KeyAt(t.pages[pid], 1))
              IN  [t1 EXCEPT !.pages[pid].arr[2].key = t1.pages[sib].arr[1].key]
         ELSE LET t1 == InternalMoveLastToFront(t, sib, id, KeyAt(t.pages[pid], index))
              IN  [t1 EXCEPT !.pages[pid].arr[index + 1].key = t1.pages[id].arr[1].key]

\* Leaf CopyNFrom (leaf lines 192-200), called by leaf MoveAllTo (lines
\* 182-190): the items appended behind the page's entries.
CopyNFrom(arr, items) == arr \o items

\* Internal MoveAllTo (internal lines 376-388): the page's entries, handed
\* to the page on its left, with the parent's separator as the key of
\* the first one (SetKeyAt(0, middle_key)).
InternalMoveAllTo(p, middle) == [p.arr EXCEPT ![1].key = middle]

\* Internal Remove (internal lines 337-345): the entry at index goes and
\* the ones behind it shift down.
InternalRemove(p, index) == S!RemoveAt(p.arr, index + 1)

\* The page Coalesce merges into (the left one), and the page it empties.
\* std::swap(node, sibling_node) (line 779) swaps Coalesce's own pointer
\* parameters, not the caller's pages.
MergeLeft(sib, id, index) == IF index = 0 THEN id ELSE sib
MergeRight(sib, id, index) == IF index = 0 THEN sib ELSE id

\* Mutation of MergePages: the left leaf keeps its old next_page_id_.
MergePagesNoSplice(t, sib, id, pid, index) ==
    LET pki == IF index = 0 THEN 1 ELSE index
        l == MergeLeft(sib, id, index)
        r == MergeRight(sib, id, index)
        R == t.pages[r]
        moved == IF R.leaf THEN R.arr ELSE InternalMoveAllTo(R, KeyAt(t.pages[pid], pki))
        t1 == IF R.leaf THEN t ELSE SetParent(t, Children(moved), l)
    IN  [t1 EXCEPT !.pages[l].arr = CopyNFrom(@, moved),
                   !.pages[r].arr = <<>>,
                   !.pages[pid].arr = InternalRemove(t.pages[pid], pki)]

\* The merge step of Coalesce (lines 783-802): the right page's entries are
\* appended to the left page (leaf MoveAllTo with the next_page_id_ splice,
\* or internal MoveAllTo with the separator brought down), and the
\* separator at parent_key_index is removed from the parent.
MergePages(t, sib, id, pid, index) ==
    LET pki == IF index = 0 THEN 1 ELSE index
        l == MergeLeft(sib, id, index)
        r == MergeRight(sib, id, index)
        R == t.pages[r]
        moved == IF R.leaf THEN R.arr ELSE InternalMoveAllTo(R, KeyAt(t.pages[pid], pki))
        t1 == IF R.leaf THEN [t EXCEPT !.pages[l].next = R.next]
              ELSE SetParent(t, Children(moved), l)
    IN  [t1 EXCEPT !.pages[l].arr = CopyNFrom(@, moved),
                   !.pages[r].arr = <<>>,
                   !.pages[pid].arr = InternalRemove(t.pages[pid], pki)]

\* CoalesceOrRedistribute (lines 638-699) and Coalesce (lines 774-806),
\* mutually recursive.  The result's `del` says whether the caller deletes
\* `id`, the page it passed in; a parent that Coalesce's recursion says to
\* delete is added to the deleted set here (lines 684-687).
RECURSIVE CoalesceOrRedistribute(_, _), Coalesce(_, _, _, _, _)
CoalesceOrRedistribute(t, id) ==
    LET p == t.pages[id]
        pid == p.parent
        index == ValueIndex(t.pages[pid], id)
        sib == ValueAt(t.pages[pid], IF index = 0 THEN 1 ELSE index - 1)
        r == Coalesce(t, sib, id, pid, index)
    IN  CASE pid = Invalid -> AdjustRoot(t, id)
          [] Len(p.arr) >= MinSize(p) -> [t |-> t, del |-> FALSE]
          [] Len(p.arr) + Len(t.pages[sib].arr) >= MaxSize(p) ->
                [t |-> Redistribute(t, sib, id, pid, index), del |-> FALSE]
          [] OTHER ->
                [t |-> IF r.del THEN [r.t EXCEPT !.deleted = @ \cup {pid}] ELSE r.t,
                 del |-> TRUE]

Coalesce(t, sib, id, pid, index) ==
    CoalesceOrRedistribute(MergePages(t, sib, id, pid, index), pid)

\* Remove (lines 595-633): no-op on an empty tree or an absent key; else
\* the key leaves its leaf, the leaf is rebalanced, and the leaf is deleted
\* when CoalesceOrRedistribute says so.  The pages the tree no longer
\* reaches are dropped from `pages` and `deleted`: ids are never reused,
\* so nothing reads them again.
RECURSIVE Reach(_, _)
Reach(t, id) ==
    IF t.pages[id].leaf THEN {id}
    ELSE {id} \cup UNION {Reach(t, c) : c \in Children(t.pages[id].arr)}

Pages(t) == IF t.root = Invalid THEN {} ELSE Reach(t, t.root)

\* What a page id reads as after DeletePage (buffer_pool_manager_instance.cpp
\* 233-241): ResetMemory zeroes the frame, so page_type_ is
\* INVALID_INDEX_PAGE (IsLeafPage is false), size_ is 0 and
\* parent_page_id_ is 0.  A later FetchPage of the id misses the page table
\* and reads the disk, which holds zeros for a page never written back.
ResetFrame == [leaf |-> FALSE, arr |-> <<>>, parent |-> 0, next |-> Invalid]

\* Remove's DeletePage of every id of the deleted page set (lines 627-631),
\* after ReleaseWLatches has unpinned them: each freed id reads as a reset
\* frame, and the pages the root no longer reaches drop out of `pages`.
Trim(t) ==
    LET u == [t EXCEPT !.pages = [x \in DOMAIN t.pages |->
                                    IF x \in t.deleted THEN ResetFrame ELSE t.pages[x]]]
    IN  [u EXCEPT !.pages = [x \in Pages(u) |-> u.pages[x]], !.deleted = @ \cap Pages(u)]

RemoveOf(t, k) ==
    LET id == GetLeafPage(t, t.root, k)
        r == CoalesceOrRedistribute([t EXCEPT !.pages[id].arr = LeafRemove(@, k)], id)
    IN  IF t.root = Invalid \/ ~LookUp(t.pages[id].arr, k) THEN t
        ELSE Trim(IF r.del THEN [r.t EXCEPT !.deleted = @ \cup {id}] ELSE r.t)

-----------------------------------------------------------------------------
Init ==
    /\ tree = EmptyTree
    /\ done \in {[op |-> "none", key |-> k, out |-> FALSE] : k \in Keys}

\* GetValue (lines 371-398).
GetValue(k) ==
    /\ done' = [op |-> "get", key |-> k,
                out |-> tree.root # Invalid /\ LookUp(tree.pages[GetLeafPage(tree, tree.root, k)].arr, k)]
    /\ UNCHANGED tree

Insert(k) ==
    /\ tree' = InsertOf(tree, k)
    /\ done' = [op |-> "insert", key |-> k, out |-> Inserted(tree, k)]

Remove(k) ==
    /\ tree' = RemoveOf(tree, k)
    /\ done' = [op |-> "remove", key |-> k, out |-> FALSE]

Next == \E k \in Keys : GetValue(k) \/ Insert(k) \/ Remove(k)

Spec == Init /\ [][Next]_vars

-----------------------------------------------------------------------------
PageIds == Nat \ {0}

Entry == [key : Keys \cup {NoKey}, child : PageIds]

IsPage(p) ==
    \/ p = ResetFrame
    \/ /\ p \in [leaf : BOOLEAN, arr : Seq(IF p.leaf THEN Keys ELSE Entry),
                 parent : PageIds \cup {Invalid}, next : PageIds \cup {Invalid}]
       /\ ~p.leaf => p.next = Invalid

TypeOK ==
    /\ tree.root \in PageIds \cup {Invalid}
    /\ DOMAIN tree.pages \subseteq PageIds
    /\ \A x \in DOMAIN tree.pages : IsPage(tree.pages[x])
    /\ tree.deleted \subseteq DOMAIN tree.pages
    /\ \A x \in DOMAIN tree.pages :
          /\ tree.pages[x].next \in DOMAIN tree.pages \cup {Invalid}
          /\ ~tree.pages[x].leaf => Children(tree.pages[x].arr) \subseteq DOMAIN tree.pages

\* The leaves left to right, and the keys held in a subtree.
RECURSIVE LeafSeq(_, _)
LeafSeq(t, id) ==
    IF t.pages[id].leaf THEN <<id>>
    ELSE S!FlattenSeq([i \in 1 .. Len(t.pages[id].arr) |-> LeafSeq(t, t.pages[id].arr[i].child)])

\* The keys of a subtree lie in [lo, hi), and each child names its page as
\* its parent: child i of an internal page is bounded by key[i] and
\* key[i + 1] within its parent's own bounds.
RECURSIVE Bounded(_, _, _, _)
Bounded(t, id, lo, hi) ==
    LET p == t.pages[id] IN
    IF p.leaf THEN \A k \in S!ToSet(p.arr) : lo <= k /\ k < hi
    ELSE \A i \in 1 .. Len(p.arr) :
            /\ t.pages[p.arr[i].child].parent = id
            /\ Bounded(t, p.arr[i].child,
                       IF i = 1 THEN lo ELSE p.arr[i].key,
                       IF i = Len(p.arr) THEN hi ELSE p.arr[i + 1].key)

RECURSIVE LeafDepths(_, _)
LeafDepths(t, id) ==
    IF t.pages[id].leaf THEN {0}
    ELSE {d + 1 : d \in UNION {LeafDepths(t, c) : c \in Children(t.pages[id].arr)}}

Leaves == IF tree.root = Invalid THEN <<>> ELSE LeafSeq(tree, tree.root)

\* The keys the index holds: those of its leaves.  `pages` holds exactly
\* the pages the root reaches.
Contents == UNION {S!ToSet(tree.pages[x].arr) : x \in {y \in DOMAIN tree.pages : tree.pages[y].leaf}}

\* No page the tree still uses has been handed to DeletePage.  Remove
\* deletes the pages Coalesce names; when the underflowing page is its
\* parent's first child, Coalesce swaps its local pointers and names the
\* page that now holds the merged keys, whose frame DeletePage resets.
NoFreedPageInTree == tree.deleted = {}

\* The tree is a search tree after any sequence of inserts and removes
\* that has freed no page the tree still uses (spec.md section 8,
\* invariants 1-3): the keys along the leaf chain, which
\* next_page_id_ links left to right, are strictly increasing; each child of
\* an internal page holds only keys in [key[i], key[i+1]); each child names
\* the page as its parent, and the root has none.  GetValue, the iterator
\* and every later Insert and Remove descend by these facts.
SearchTreeOrdered ==
    NoFreedPageInTree /\ tree.root # Invalid =>
      /\ tree.pages[tree.root].parent = Invalid
      /\ S!IsSorted(S!FlattenSeq([i \in 1 .. Len(Leaves) |-> tree.pages[Leaves[i]].arr]), <)
      /\ \A i \in 1 .. Len(Leaves) :
            tree.pages[Leaves[i]].next = IF i = Len(Leaves) THEN Invalid ELSE Leaves[i + 1]
      /\ Bounded(tree, tree.root, Min(Keys), Max(Keys) + 1)

\* The tree stays balanced while no page it uses has been freed (spec.md
\* section 8, invariant 4): all leaves at
\* one depth, every non-root page between min_size and max_size entries,
\* no leaf left at leaf_max_size_, and an internal root with two children
\* at least.  Split, Redistribute, Coalesce and AdjustRoot keep it.
PagesBalanced ==
    NoFreedPageInTree /\ tree.root # Invalid =>
      /\ Cardinality(LeafDepths(tree, tree.root)) = 1
      /\ \A x \in Pages(tree) :
            LET p == tree.pages[x] IN
            /\ x # tree.root => MinSize(p) <= Len(p.arr)
            /\ Len(p.arr) <= MaxSize(p)
            /\ p.leaf => Len(p.arr) < LeafMax
            /\ (x = tree.root /\ ~p.leaf) => Len(p.arr) >= 2

\* The tree implements the set of unique keys of UniqueIndex: every
\* Insert, Remove and GetValue that leaves no freed page in the tree
\* returns and changes what that set says.  A Remove that frees a page the
\* tree still uses loses its keys; NoFreedPageInTree is about that step.
Abs == INSTANCE UniqueIndex WITH keys <- Contents, done <- done

ImplementsUniqueIndex == Abs!Init /\ [][NoFreedPageInTree' => Abs!Next]_<<Contents, done>>
=============================================================================
