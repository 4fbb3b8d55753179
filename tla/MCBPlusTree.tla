---------------------------- MODULE MCBPlusTree ----------------------------
(***************************************************************************)
(* Instances of BPlusTree for TLC: a few integer keys, small pages.        *)
(*                                                                         *)
(* Page ids only name pages: the tree compares them for equality, and the  *)
(* buffer pool never hands one out twice.  Two states whose trees differ   *)
(* only in the names of their pages behave alike, so TLC tells states     *)
(* apart by CanonicalView, which renames each page by its position in a    *)
(* pre-order walk from the root.  With it, the state space is finite       *)
(* without a bound on page ids.                                            *)
(***************************************************************************)
EXTENDS BPlusTree

MCKeys == 1 .. 6

RECURSIVE PreOrder(_, _)
PreOrder(t, id) ==
    IF t.pages[id].leaf THEN <<id>>
    ELSE <<id>> \o S!FlattenSeq([i \in 1 .. Len(t.pages[id].arr) |->
                                   PreOrder(t, t.pages[id].arr[i].child)])

Order == IF tree.root = Invalid THEN <<>> ELSE PreOrder(tree, tree.root)

\* A page's new name; a link to a page outside the tree becomes 0.
Rank(x) == IF x = Invalid THEN Invalid ELSE S!SelectInSeq(Order, LAMBDA y : y = x)

Renamed(p) ==
    [p EXCEPT !.parent = Rank(@), !.next = Rank(@),
              !.arr = IF p.leaf THEN @ ELSE [j \in DOMAIN @ |-> [@[j] EXCEPT !.child = Rank(@)]]]

CanonicalView ==
    << [i \in 1 .. Len(Order) |-> Renamed(tree.pages[Order[i]])],
       {Rank(x) : x \in tree.deleted},
       done >>
=============================================================================
