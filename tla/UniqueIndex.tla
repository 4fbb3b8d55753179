----------------------------- MODULE UniqueIndex -----------------------------
(***************************************************************************)
(* What the B+ tree index promises (spec.md 4.4 and the round-trip laws   *)
(* of section 8): a set of unique keys.  Insert of a present key returns  *)
(* false and changes nothing; Remove of an absent key is a no-op; GetValue *)
(* reports whether the key is present.  Each call takes effect at one     *)
(* instant.  `done` is the last completed call: [op, key, out], where out  *)
(* is the returned bool (Remove returns nothing: out is FALSE).            *)
(***************************************************************************)
CONSTANTS Keys

VARIABLES keys, done

Init ==
    /\ keys = {}
    /\ done \in {[op |-> "none", key |-> k, out |-> FALSE] : k \in Keys}

Insert(k) ==
    /\ keys' = keys \cup {k}
    /\ done' = [op |-> "insert", key |-> k, out |-> k \notin keys]

Remove(k) ==
    /\ keys' = keys \ {k}
    /\ done' = [op |-> "remove", key |-> k, out |-> FALSE]

GetValue(k) ==
    /\ done' = [op |-> "get", key |-> k, out |-> k \in keys]
    /\ UNCHANGED keys

Next == \E k \in Keys : Insert(k) \/ Remove(k) \/ GetValue(k)

Spec == Init /\ [][Next]_<<keys, done>>
=============================================================================
