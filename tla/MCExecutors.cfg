\* Every plan of MCPlans over every pair of tables, under READ_UNCOMMITTED,
\* where SeqScan takes no locks.  A query ends, so a final state is no
\* deadlock.
CONSTANTS
    Vals = {1, 2}
    Null = Null
    TableIds = {1, 2}
    MaxRows = 2
    Plans <- MCPlans
    Isolation = "READ_UNCOMMITTED"
    IndexedTables = {1}
SPECIFICATION Spec
CHECK_DEADLOCK FALSE
INVARIANT TypeOK ResultsAsPlanned FailsOnlyOnTies QueryEnds TablesAsPlanned IndexSound
