------------------------------ MODULE LRUKSpec ------------------------------
(***************************************************************************)
(* What the LRU-K replacer promises (spec.md 4.2), with no lists: each     *)
(* frame has a hit count and an evictable flag, and the tracked frames are *)
(* ordered by their most recent access.  Evict picks, among the evictable  *)
(* frames, one of the history class (fewer than K accesses) if there is    *)
(* one, else one of the cache class; within a class, the frame whose most  *)
(* recent access is oldest.                                                *)
(***************************************************************************)
EXTENDS Naturals, Sequences, SequencesExt

CONSTANTS Frames, K, NoFrame

VARIABLES
    hits,       \* hits[f] = accesses since f was last tracked, 0 = untracked
    evictable,  \* evictable[f] is meaningful only for tracked frames
    order,      \* tracked frames, most recently accessed first
    victim      \* the frame the last call evicted, NoFrame if it evicted none

\* Only "fewer than K" and "K or more" matter, so counts stop at K + 1.
Saturate(n) == IF n > K THEN K + 1 ELSE n

vars == <<hits, evictable, order, victim>>

Init ==
    /\ hits = [f \in Frames |-> 0]
    /\ evictable = [f \in Frames |-> FALSE]
    /\ order = <<>>
    /\ victim = NoFrame

\* The least recently accessed evictable frame satisfying class(f).
Oldest(class(_)) ==
    LET i == SelectLastInSeq(order, LAMBDA f : evictable[f] /\ class(f)) IN
    IF i = 0 THEN NoFrame ELSE order[i]

Chosen ==
    LET h == Oldest(LAMBDA f : hits[f] < K) IN
    IF h # NoFrame THEN h ELSE Oldest(LAMBDA f : hits[f] >= K)

\* A frame's first access may leave it evictable or not.
Access(f) ==
    /\ hits' = [hits EXCEPT ![f] = Saturate(@ + 1)]
    /\ order' = Cons(f, Remove(order, f))
    /\ IF hits[f] = 0
          THEN \E b \in BOOLEAN : evictable' = [evictable EXCEPT ![f] = b]
          ELSE UNCHANGED evictable
    /\ victim' = NoFrame

SetEvictable(f, e) ==
    /\ hits[f] > 0
    /\ evictable' = [evictable EXCEPT ![f] = e]
    /\ victim' = NoFrame
    /\ UNCHANGED <<hits, order>>

Forget(f) ==
    /\ hits' = [hits EXCEPT ![f] = 0]
    /\ evictable' = [evictable EXCEPT ![f] = FALSE]
    /\ order' = Remove(order, f)

\* Evict reports the frame it chose; with no evictable frame it reports none.
Evict ==
    /\ victim' = Chosen
    /\ IF Chosen = NoFrame THEN UNCHANGED <<hits, evictable, order>>
                           ELSE Forget(Chosen)

\* Only an evictable frame may be removed.
RemoveFrame(f) ==
    /\ hits[f] > 0
    /\ evictable[f]
    /\ Forget(f)
    /\ victim' = NoFrame

Next ==
    \/ \E f \in Frames : Access(f)
    \/ \E f \in Frames, e \in BOOLEAN : SetEvictable(f, e)
    \/ Evict
    \/ \E f \in Frames : RemoveFrame(f)

Spec == Init /\ [][Next]_vars
=============================================================================
