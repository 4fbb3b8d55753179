\* One client: the table's operations in any order, splits included.
CONSTANTS
    c1 = c1
    c2 = c2
    v1 = v1
    v2 = v2
    Keys <- MCKeys
    Values <- MCValues
    Clients <- OneClient
    BucketSize = 1
    NoValue = NoValue
SPECIFICATION Spec
INVARIANTS
    DirectoryConsistent
PROPERTIES
    ImplementsKVMap
