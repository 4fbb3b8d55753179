---------------------------- MODULE MCBufferPool ----------------------------
(* Two frames and three pages, so that pages are evicted, written back,   *)
(* re-read and deleted; two clients, so that two pins meet on one page.   *)
EXTENDS BufferPool, TLC

CONSTANTS c1, c2

MCClients == {c1, c2}

\* Clients are interchangeable: no action or property names one.
ClientSymmetry == Permutations(MCClients)
=============================================================================
