\* Table locks of two transactions on two tables: VictimDeadlocked.
\* Deadlock is not checked: the code can stop (see NoLatchDeadlock).
CONSTANTS
    A = A
    B = B
    r1 = r1
    r2 = r2
    Rows <- NoRows
    RowTable <- NoRowTable
    RowModes = {}
    Txns <- MCTxns
    Tables <- MCTables
    Modes = {"IS", "S", "X"}
    Isolation <- MCIsolation
    MaxRequests = 2
    NoTxn = NoTxn
    NoTable = NoTable
SPECIFICATION Spec
PROPERTY
    VictimDeadlocked
CHECK_DEADLOCK FALSE
