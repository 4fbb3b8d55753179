\* Two threads, each calling GetValue, Insert or Remove again and again over
\* five keys; leaf_max_size 3 (leaves of one or two keys) and
\* internal_max_size 3, so that trees of three levels, internal splits and
\* merges happen while the other thread holds latches.
CONSTANTS
    Keys <- MCCrabKeys
    LeafMax = 3
    InternalMax = 3
    NoKey = NoKey
    Threads = {t1, t2}
INIT CInit
NEXT CNext
VIEW CrabView
SYMMETRY ThreadSymmetry
CONSTRAINT BalancedTrees
INVARIANTS
    CTypeOK
    LatchedPathCurrent
PROPERTIES
    WritesLatched
