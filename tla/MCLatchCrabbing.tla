-------------------------- MODULE MCLatchCrabbing --------------------------
(***************************************************************************)
(* LatchCrabbing for TLC: two threads over five keys, leaves of one or   *)
(* two keys (leaf_max_size 3) and internal pages of two or three children *)
(* (internal_max_size 3), so that trees of three levels, both passes,     *)
(* leaf and internal splits, merges and redistribution happen while the   *)
(* other thread holds latches.  States are told apart by the tree's       *)
(* canonical page names (MCBPlusTree), applied to the pages the threads   *)
(* hold and latch next.                                                   *)
(***************************************************************************)
EXTENDS MCBPlusTree, LatchCrabbing

MCCrabKeys == 1 .. 5

CrabView ==
    << CanonicalView,
       [t \in Threads |-> [th[t] EXCEPT !.rl = {Rank(x) : x \in @}, !.wl = {Rank(x) : x \in @},
                                        !.cur = Rank(@)]] >>

\* The two threads run the same code: swapping their names is a symmetry.
ThreadSymmetry == Permutations(Threads)

\* States explored further: trees whose pages keep their size bounds.
\* With an odd internal_max_size, Redistribute can leave an internal page
\* below GetMinSize() (hazard at b_plus_tree_page.cpp line 675, which
\* MCBPlusTree checks); a later Remove then reads a sibling slot past the
\* parent's size.  The crabbing protocol is checked on the trees the code
\* keeps balanced, up to the first Remove that frees a page the tree still
\* uses (past it every descent reads a reset frame).
BalancedTrees == NoFreedPageInTree /\ PagesBalanced
=============================================================================
