----------------------------- MODULE MCExecutors -----------------------------
(***************************************************************************)
(* Two tables of up to two rows of two columns over {1, 2}, and plans     *)
(* with every executor at the root and as a join's re-initialised right    *)
(* child.  Two rows give ties, a join with zero, one and two matches, and  *)
(* a right child run to the end and started again.                         *)
(***************************************************************************)
EXTENDS Executors

Scan(t) == [kind |-> "scan", table |-> t]

Asc(c) == [type |-> "ASC", col |-> c]

Desc(c) == [type |-> "DESC", col |-> c]

Sort(c, ob) == [kind |-> "sort", child |-> c, orderBy |-> ob]

TopN(c, ob, k) == [kind |-> "topn", child |-> c, orderBy |-> ob, n |-> k]

Limit(c, k) == [kind |-> "limit", child |-> c, limit |-> k]

Agg(c, gb) == [kind |-> "agg", child |-> c, groupBy |-> gb]

Join(l, r, j, lc, rc) == [kind |-> "nlj", left |-> l, right |-> r, join |-> j, lcol |-> lc, rcol |-> rc]

HashJoin(l, r, j, lc, rc) == [kind |-> "hj", left |-> l, right |-> r, join |-> j, lcol |-> lc, rcol |-> rc]

IndexJoin(c, t, j, lc) == [kind |-> "nij", child |-> c, table |-> t, join |-> j, lcol |-> lc, rcol |-> KeyCol]

Insert(t, c) == [kind |-> "insert", table |-> t, child |-> c]

Delete(t, c) == [kind |-> "delete", table |-> t, child |-> c]

Update(t, c, tg) == [kind |-> "update", table |-> t, child |-> c, targets |-> tg]

Col(c) == [col |-> c]

Const(v) == [val |-> v]

\* Plans on which the executors are expected to agree with SQL.
MCPlans ==
    { << Sort(2, <<Asc(1)>>), Scan(1) >>,
      << Sort(2, <<Desc(2), Asc(1)>>), Scan(1) >>,
      << TopN(2, <<Asc(1)>>, 1), Scan(1) >>,
      << Limit(2, 2), Sort(3, <<Desc(1), Asc(2)>>), Scan(1) >>,
      << Agg(2, <<>>), Scan(1) >>,
      << Agg(2, <<2>>), Scan(1) >>,
      << Join(2, 3, "INNER", 1, 1), Scan(1), Scan(2) >>,
      << Join(2, 3, "LEFT", 2, 1), Scan(1), Scan(2) >>,
      << Join(2, 3, "LEFT", 1, 2), Scan(1), Sort(4, <<Asc(2)>>), Scan(2) >>,
      << Join(2, 3, "INNER", 1, 1), Scan(1), TopN(4, <<Desc(1)>>, 1), Scan(2) >>,
      << Join(2, 3, "LEFT", 2, 1), Scan(1), Limit(4, 1), Sort(5, <<Asc(2)>>), Scan(2) >>,
      << Sort(2, <<Asc(3)>>), Join(3, 4, "LEFT", 1, 1), Scan(1), Scan(2) >>,
      << Agg(2, <<1>>), Join(3, 4, "INNER", 2, 2), Scan(1), Scan(1) >>,
      << HashJoin(2, 3, "INNER", 1, 1), Scan(1), Scan(2) >>,
      << HashJoin(2, 3, "LEFT", 2, 1), Scan(1), Scan(2) >>,
      << Agg(2, <<1>>), HashJoin(3, 4, "LEFT", 1, 2), Scan(1), Scan(1) >>,
      << Limit(2, 1), Scan(1) >>,
      << Agg(2, <<>>), Limit(3, 1), Scan(2) >>,
      << Join(2, 3, "INNER", 1, 1), Scan(1), Limit(4, 1), Scan(2) >>,
      << IndexJoin(2, 1, "INNER", 2), Scan(2) >>,
      << IndexJoin(2, 1, "LEFT", 1), Scan(2) >>,
      << Agg(2, <<1>>), IndexJoin(3, 1, "LEFT", 2), Scan(1) >>,
      << Insert(1, 2), Scan(2) >>,
      << Insert(1, 2), Agg(3, <<2>>), Scan(2) >>,
      << Delete(1, 2), Scan(1) >>,
      << Update(1, 2, <<Const(2), Col(2)>>), Scan(1) >>,
      << Update(1, 2, <<Col(1), Const(1)>>), Scan(1) >>,
      << Update(1, 2, <<Col(2), Col(1)>>), Scan(1) >> }

\* A right child that must produce its rows again on every pass.
ReinitPlans ==
    { << Join(2, 3, "INNER", 1, 1), Scan(1), Agg(4, <<>>), Scan(2) >>,
      << Join(2, 3, "INNER", 1, 1), Scan(1), Join(4, 5, "INNER", 1, 1), Scan(2), Scan(2) >>,
      << Join(2, 3, "INNER", 1, 1), Scan(1), HashJoin(4, 5, "INNER", 1, 1), Scan(2), Scan(2) >> }

\* INSERT INTO t SELECT * FROM t.
SelfInsertPlans == { << Insert(1, 2), Scan(1) >> }

\* An UPDATE that swaps the key column with the other column.
SwapPlans == { << Update(1, 2, <<Col(2), Col(1)>>), Scan(1) >> }
=============================================================================
