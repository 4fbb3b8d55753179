\* Buffer pool with two frames, three page ids and two clients.
CONSTANTS
    PoolSize = 2
    NumPages = 3
    c1 = c1
    c2 = c2
    Clients <- MCClients
    K = 2
    InitEvictable = TRUE
    MaxWrites = 1
    MaxHolds = 1
    NoFrame = NoFrame
    NoPage = NoPage
SYMMETRY ClientSymmetry
SPECIFICATION Spec
INVARIANTS
    TypeOK
    
    ReplacerMirrorsPins
    PinsHeldResident
    NoLostWrite
