---------------------------- MODULE MCIndexScan ----------------------------
(***************************************************************************)
(* IndexScan for TLC: five keys, leaves of one or two keys (leaf_max_size *)
(* 3), so that trees of several leaves, splits and merges happen while    *)
(* the scan is open (an underflowing leaf always merges: leaves do not    *)
(* redistribute at this size).  States are told                           *)
(* apart by the tree's canonical page names (MCBPlusTree), applied to the  *)
(* page ids the scan and the writer hold as well.                          *)
(***************************************************************************)
EXTENDS MCBPlusTree, IndexScan

MCScanKeys == 1 .. 5

ScanView ==
    << CanonicalView,
       [scan EXCEPT !.page = Rank(@), !.pageId = Rank(@), !.endId = Rank(@)],
       [writer EXCEPT !.held = {Rank(x) : x \in @}] >>
=============================================================================
