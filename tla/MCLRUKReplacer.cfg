\* LRU-K replacer with K = 2 driven through its public interface.
CONSTANTS
    Frames <- MCFrames
    K = 2
    InitEvictable = TRUE
    NoFrame = NoFrame
SPECIFICATION Spec
INVARIANTS
    TypeOK
    SizeCountsEvictable
    ListsPartitionTracked
PROPERTIES
    ImplementsLRUK
