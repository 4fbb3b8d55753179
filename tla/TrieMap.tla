------------------------------- MODULE TrieMap -------------------------------
(***************************************************************************)
(* What Trie (p0_trie.h) promises in its header comments: a map from      *)
(* non-empty string keys to typed values.  Insert never overwrites an     *)
(* existing key; Remove succeeds exactly when the key is present and      *)
(* erases it; GetValue<T> succeeds when the key is present and its value  *)
(* has type T.  The empty key is never present.  Every call holds latch_  *)
(* throughout, so each takes effect at one instant.  done is the last     *)
(* completed call: operation, key, argument and result.                   *)
(***************************************************************************)
CONSTANTS Keys, Types, Payloads, NoValue

Values == [type : Types, val : Payloads]

VARIABLES map, done

Result(ok, v) == [success |-> ok, value |-> v]

NoCall == [op |-> "none", key |-> <<>>, arg |-> NoValue, out |-> Result(FALSE, NoValue)]

Init ==
    /\ map = [k \in Keys |-> NoValue]
    /\ done = NoCall

Insert(k, v) ==
    LET ok == k # <<>> /\ map[k] = NoValue IN
    /\ map' = IF ok THEN [map EXCEPT ![k] = v] ELSE map
    /\ done' = [op |-> "insert", key |-> k, arg |-> v, out |-> Result(ok, NoValue)]

Remove(k) ==
    LET ok == k # <<>> /\ map[k] # NoValue IN
    /\ map' = IF ok THEN [map EXCEPT ![k] = NoValue] ELSE map
    /\ done' = [op |-> "remove", key |-> k, arg |-> NoValue, out |-> Result(ok, NoValue)]

GetValue(k, T) ==
    LET ok == k # <<>> /\ map[k] # NoValue /\ map[k].type = T IN
    /\ done' = [op |-> "get", key |-> k, arg |-> T,
                out |-> IF ok THEN Result(TRUE, map[k]) ELSE Result(FALSE, NoValue)]
    /\ UNCHANGED map

Next ==
    \E k \in Keys :
        \/ \E v \in Values : Insert(k, v)
        \/ Remove(k)
        \/ \E T \in Types : GetValue(k, T)

Spec == Init /\ [][Next]_<<map, done>>
=============================================================================
