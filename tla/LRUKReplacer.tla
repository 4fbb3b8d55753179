---------------------------- MODULE LRUKReplacer ----------------------------
(***************************************************************************)
(* The LRU-K replacer of src/bustub/src/buffer/lru_k_replacer.cpp.        *)
(*                                                                         *)
(* Every public method takes the replacer's latch for its whole body, so   *)
(* each one is a single atomic step.  The replacer's state is one record   *)
(* `rep`; each operation is written first as an operator from a record to *)
(* a record (RecordAccessOf, SetEvictableOf, EvictOf, RemoveOf) so that    *)
(* the buffer pool module can apply several of them inside one of its own *)
(* steps, exactly as the buffer pool calls them under its own mutex.       *)
(*                                                                         *)
(*   rep.hist      hist_list_  (front = most recently pushed)              *)
(*   rep.cache     cache_list_ (front = most recently pushed)              *)
(*   rep.hits[f]   entries_[f].hit_count_; 0 means "no entry for f".  The  *)
(*                 code only compares it with 1 and k_, so counts above    *)
(*                 k_ + 1 are kept as k_ + 1 (Saturate).                   *)
(*   rep.evict[f]  entries_[f].evictable_                                  *)
(*   rep.currSize  curr_size_                                              *)
(*                                                                         *)
(* `evicted` is the frame id Evict last returned through its out          *)
(* parameter (NoFrame when it returned false, or after any other call).   *)
(*                                                                         *)
(* `recency` is an auxiliary history variable, not program state: the     *)
(* tracked frames ordered by most recent access.  It is only used to map   *)
(* the replacer onto the abstract LRU-K specification (LRUKSpec).          *)
(***************************************************************************)
EXTENDS Naturals, Sequences, SequencesExt, FiniteSets

CONSTANTS
    Frames,         \* frame ids the buffer pool hands to the replacer
    K,              \* k_
    InitEvictable,  \* evictable_ of a freshly created FrameEntry (header not in src/)
    NoFrame         \* model value: Evict found no victim

ASSUME K \in Nat \ {0}
ASSUME InitEvictable \in BOOLEAN

VARIABLES rep, evicted, recency

vars == <<rep, evicted, recency>>

EmptyReplacer ==
    [hist |-> <<>>, cache |-> <<>>,
     hits |-> [f \in Frames |-> 0],
     evict |-> [f \in Frames |-> InitEvictable],
     currSize |-> 0]

Saturate(n) == IF n > K THEN K + 1 ELSE n

Tracked(r) == {f \in Frames : r.hits[f] > 0}

\* list::erase(entries_[f].pos_) unlinks the node from whichever list it is
\* on, even when the call is made on the other list (k_ = 1 reaches this).
Unlink(r, f) == [r EXCEPT !.hist = Remove(@, f), !.cache = Remove(@, f)]

\* Mutation of RecordAccessOf: the k_-th access pushes onto cache_list_
\* without erasing the frame's old position.
RecordAccessNoUnlink(r, f) ==
    LET count == Saturate(r.hits[f] + 1)
        r1    == [r EXCEPT !.hits[f] = count]
    IN  CASE count = 1 ->
               [r1 EXCEPT !.currSize = @ + 1, !.hist = Cons(f, @),
                          !.evict[f] = InitEvictable]
          [] count >= K -> [r1 EXCEPT !.cache = Cons(f, @)]
          [] OTHER -> r1

\* LRUKReplacer::RecordAccess, lines 102-126.
RecordAccessOf(r, f) ==
    LET count == Saturate(r.hits[f] + 1)
        r1    == [r EXCEPT !.hits[f] = count]
    IN  CASE count = 1 ->
               [r1 EXCEPT !.currSize = @ + 1,
                          !.hist = Cons(f, @),
                          !.evict[f] = InitEvictable]
          [] count >= K ->
               [Unlink(r1, f) EXCEPT !.cache = Cons(f, @)]
          [] OTHER -> r1

\* Mutation of SetEvictableOf: curr_size_ follows the new flag, not the
\* transition.
SetEvictableCountsCalls(r, f, e) ==
    IF r.hits[f] = 0 THEN r
    ELSE [r EXCEPT !.currSize = IF e THEN @ + 1 ELSE @ - 1, !.evict[f] = e]

\* LRUKReplacer::SetEvictable, lines 128-145.
SetEvictableOf(r, f, e) ==
    IF r.hits[f] = 0 THEN r
    ELSE [r EXCEPT !.currSize = CASE ~r.evict[f] /\ e -> @ + 1
                                  [] r.evict[f] /\ ~e -> @ - 1
                                  [] OTHER -> @,
                   !.evict[f] = e]

\* Mutation of LastEvictable: the scan starts at the head of the list.
FirstEvictable(s, r) ==
    LET i == SelectInSeq(s, LAMBDA f : r.evict[f]) IN
    IF i = 0 THEN NoFrame ELSE s[i]

\* The frame Evict returns: scanning hist_list_ from its tail, then
\* cache_list_ from its tail, the first evictable frame (lines 66-100).
LastEvictable(s, r) ==
    LET i == SelectLastInSeq(s, LAMBDA f : r.evict[f]) IN
    IF i = 0 THEN NoFrame ELSE s[i]

Victim(r) ==
    LET h == LastEvictable(r.hist, r) IN
    IF h # NoFrame THEN h ELSE LastEvictable(r.cache, r)

\* The list erase and entries_.erase(*frame_id); curr_size_-- of Evict.
Erase(r, f) ==
    [Unlink(r, f) EXCEPT !.hits[f] = 0,
                         !.evict[f] = InitEvictable,
                         !.currSize = @ - 1]

\* LRUKReplacer::Evict, lines 66-100.
EvictOf(r) == IF Victim(r) = NoFrame THEN r ELSE Erase(r, Victim(r))

\* LRUKReplacer::Remove throws logic_error on a tracked, non-evictable frame.
RemoveThrows(r, f) == r.hits[f] > 0 /\ ~r.evict[f]

\* Mutation of RemoveOf: no early return for a frame without an entry.
RemoveUntracked(r, f) == Erase(r, f)

\* LRUKReplacer::Remove, lines 147-166 (when it does not throw).
RemoveOf(r, f) == IF r.hits[f] = 0 THEN r ELSE Erase(r, f)

-----------------------------------------------------------------------------
(* The replacer driven directly through its public interface.              *)

Init ==
    /\ rep = EmptyReplacer
    /\ evicted = NoFrame
    /\ recency = <<>>

RecordAccess(f) ==
    /\ rep' = RecordAccessOf(rep, f)
    /\ evicted' = NoFrame
    /\ recency' = Cons(f, Remove(recency, f))

SetEvictable(f, e) ==
    /\ rep' = SetEvictableOf(rep, f, e)
    /\ evicted' = NoFrame
    /\ UNCHANGED recency

Evict ==
    /\ rep' = EvictOf(rep)
    /\ evicted' = Victim(rep)
    /\ recency' = Remove(recency, Victim(rep))

\* A throwing Remove leaves the replacer as it was.
RemoveFrame(f) ==
    /\ rep' = IF RemoveThrows(rep, f) THEN rep ELSE RemoveOf(rep, f)
    /\ evicted' = NoFrame
    /\ recency' = IF RemoveThrows(rep, f) THEN recency ELSE Remove(recency, f)

Next ==
    \/ \E f \in Frames : RecordAccess(f)
    \/ \E f \in Frames, e \in BOOLEAN : SetEvictable(f, e)
    \/ Evict
    \/ \E f \in Frames : RemoveFrame(f)

Spec == Init /\ [][Next]_vars

-----------------------------------------------------------------------------
TypeOK ==
    /\ rep.hist \in Seq(Frames)
    /\ rep.cache \in Seq(Frames)
    /\ rep.hits \in [Frames -> 0..K + 1]
    /\ rep.evict \in [Frames -> BOOLEAN]
    /\ rep.currSize \in Nat
    /\ evicted \in Frames \cup {NoFrame}
    /\ recency \in Seq(Frames)

\* Size() reports the number of evictable frames: curr_size_, maintained
\* incrementally by all four operations, equals the evictable entries.
SizeCountsEvictable ==
    rep.currSize = Cardinality({f \in Tracked(rep) : rep.evict[f]})

\* Every tracked frame sits exactly once on exactly one list, and it is the
\* list its hit count selects (hist_list_ below k_ accesses, cache_list_
\* from k_ on); untracked frames are on no list.  A frame missing from both
\* lists could never be evicted; one on the wrong list is evicted too early.
ListsPartitionTracked ==
    /\ IsInjective(rep.hist \o rep.cache)
    /\ \A f \in Frames :
         /\ (f \in ToSet(rep.hist)) <=> (0 < rep.hits[f] /\ rep.hits[f] < K)
         /\ (f \in ToSet(rep.cache)) <=> (rep.hits[f] >= K)

\* The replacer implements the abstract LRU-K policy of LRUKSpec.
Abs == INSTANCE LRUKSpec WITH
           hits <- rep.hits,
           evictable <- [f \in Frames |-> rep.hits[f] > 0 /\ rep.evict[f]],
           order <- recency,
           victim <- evicted

ImplementsLRUK == Abs!Spec
=============================================================================
