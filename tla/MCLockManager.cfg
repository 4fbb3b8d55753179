\* Table and row locks of two REPEATABLE_READ transactions: IX and S on a
\* table, S and X on two of its rows (with S -> X upgrades), and the
\* detector scanning both maps.
\* Deadlock is not checked: the code can stop (see NoLatchDeadlock).
CONSTANTS
    A = A
    B = B
    r1 = r1
    r2 = r2
    Rows <- MCRows
    RowTable <- MCRowTable
    RowModes = {"S", "X"}
    Txns <- MCTxns
    Tables <- OneTable
    Modes = {"IX", "S"}
    Isolation <- BothRepeatable
    MaxRequests = 3
    NoTxn = NoTxn
    NoTable = NoTable
SYMMETRY RowSymmetry
SPECIFICATION Spec
INVARIANTS
    TypeOK
    GrantedCompatible
    GrantedInLockSet
CHECK_DEADLOCK FALSE
