--------------------------- MODULE MCLRUKReplacer ---------------------------
(* The replacer for TLC, called directly through its public interface.    *)
EXTENDS LRUKReplacer

\* Frame ids 0..pool_size-1 of a three-frame pool.
MCFrames == {0, 1, 2}
=============================================================================
