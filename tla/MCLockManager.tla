--------------------------- MODULE MCLockManager ---------------------------
(* Two transactions and two tables: enough for a deadlock across tables, *)
(* an upgrade racing another request, and the detector's passes.  The    *)
(* row configurations use one table with two rows of it.                  *)
EXTENDS LockManager, TLC

CONSTANTS A, B, r1, r2

MCTxns == {1, 2}
MCTables == {A, B}
MCIsolation == (1 :> "REPEATABLE_READ") @@ (2 :> "READ_COMMITTED")

\* The table-only configurations: no rows.
NoRows == {}
NoRowTable == [r \in NoRows |-> A]

\* The row configurations.
OneTable == {A}
MCRows == {r1, r2}
MCRowTable == [r \in MCRows |-> A]
BothRepeatable == [t \in MCTxns |-> "REPEATABLE_READ"]

\* The two rows belong to the same table and nothing orders them: the
\* detector visits row_lock_map_ in hash order, modelled as any order.
RowSymmetry == Permutations(MCRows)
=============================================================================
