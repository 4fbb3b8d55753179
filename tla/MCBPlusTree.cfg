\* Six keys, leaf_max_size 2, internal_max_size 4 (spec.md's boundary
\* scenarios use internal_max_size 4): three levels, leaf splits and merges,
\* internal splits, merges and redistribution from either sibling.  The
\* search stops at the first Remove that frees a page the tree still uses
\* (MCBPlusTree_FreedPage.cfg reaches it): past it every call reads a reset
\* frame.
CONSTANTS
    Keys <- MCKeys
    LeafMax = 2
    InternalMax = 4
    NoKey = NoKey
SPECIFICATION Spec
VIEW CanonicalView
CONSTRAINT NoFreedPageInTree
INVARIANTS
    TypeOK
    SearchTreeOrdered
    PagesBalanced
PROPERTIES
    ImplementsUniqueIndex
