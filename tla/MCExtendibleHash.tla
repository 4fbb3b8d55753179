--------------------------- MODULE MCExtendibleHash ---------------------------
(* Page ids 0 .. 3 (two low bits, so directories of up to four slots),     *)
(* two frame ids as values, buckets of one entry so that every second     *)
(* key splits.                                                             *)
EXTENDS ExtendibleHash

CONSTANTS c1, c2, v1, v2

MCKeys == 0 .. 3
MCValues == {v1, v2}
OneClient == {c1}
TwoClients == {c1, c2}
=============================================================================
