-------------------------------- MODULE KVMap --------------------------------
(***************************************************************************)
(* What the extendible hash table promises (spec.md 4.1): a map from keys  *)
(* to values whose find, insert and remove each take effect at one        *)
(* instant, as if the table-level mutex covered the whole call.  done[c]   *)
(* is client c's last completed call: the operation, its key, and what it  *)
(* returned (find: the value or NoValue; remove: whether it erased an     *)
(* entry) or, for insert, the value it stored.                             *)
(***************************************************************************)
CONSTANTS Keys, Values, Clients, NoValue

VARIABLES map, done

Init ==
    /\ map = [k \in Keys |-> NoValue]
    /\ done \in [Clients -> {[op |-> "none", key |-> k, out |-> NoValue] : k \in Keys}]

Put(c, k, v) ==
    /\ map' = [map EXCEPT ![k] = v]
    /\ done' = [done EXCEPT ![c] = [op |-> "insert", key |-> k, out |-> v]]

Get(c, k) ==
    /\ done' = [done EXCEPT ![c] = [op |-> "find", key |-> k, out |-> map[k]]]
    /\ UNCHANGED map

Delete(c, k) ==
    /\ map' = [map EXCEPT ![k] = NoValue]
    /\ done' = [done EXCEPT ![c] = [op |-> "remove", key |-> k, out |-> map[k] # NoValue]]

Next == \E c \in Clients, k \in Keys :
            \/ \E v \in Values : Put(c, k, v)
            \/ Get(c, k)
            \/ Delete(c, k)

Spec == Init /\ [][Next]_<<map, done>>
=============================================================================
