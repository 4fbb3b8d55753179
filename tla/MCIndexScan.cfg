\* One index scan and one writer over five keys, leaf_max_size 3 (leaves of
\* one or two keys), internal_max_size 4.  The scan and the writer can
\* wait for each other for ever (MCIndexScan_Deadlock.cfg), so deadlock is
\* not checked; neither can the scan stop once it has run past end_.
\* With leaves of one or two keys an underflowing leaf always coalesces:
\* leaf redistribution does not happen here.  The search stops at the
\* first Remove that frees a page the tree still uses.
CONSTANTS
    Keys <- MCScanKeys
    LeafMax = 3
    InternalMax = 4
    NoKey = NoKey
INIT IInit
NEXT INext
VIEW ScanView
CONSTRAINT NoFreedPageInTree
CHECK_DEADLOCK FALSE
INVARIANTS
    ITypeOK
    ScanAscending
    ScanSeesStableKeys
