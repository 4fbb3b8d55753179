----------------------------- MODULE BufferPool -----------------------------
(***************************************************************************)
(* BufferPoolManagerInstance of                                            *)
(* src/bustub/src/buffer/buffer_pool_manager_instance.cpp, with the        *)
(* clients that pin, write and unpin its pages.                            *)
(*                                                                         *)
(* Every public method holds latch_ for its whole body and calls the page  *)
(* table and the replacer inside it, so each call is one atomic step that  *)
(* applies the replacer operators of LRUKReplacer in the order the code    *)
(* calls them.  The page table (an ExtendibleHashTable) is used here as    *)
(* the map it implements; ExtendibleHash models its buckets.              *)
(*                                                                         *)
(* Page contents are version numbers: a client write stores the page's     *)
(* next version, ResetMemory stores 0 (the content of a never-written      *)
(* page on disk as well).  `latest` and `deleted` are history variables:   *)
(* the last version written to each page and the pages a DeletePage call  *)
(* has deleted.                                                            *)
(***************************************************************************)
EXTENDS Naturals, Sequences, SequencesExt, FiniteSets

CONSTANTS
    PoolSize,       \* pool_size_
    NumPages,       \* bound on next_page_id_: page ids 0 .. NumPages - 1
    Clients,        \* threads calling the buffer pool
    K,              \* replacer_k
    InitEvictable,  \* see LRUKReplacer
    MaxWrites,      \* bound on the versions written to one page
    MaxHolds,       \* bound on the pins one client holds on one page
    NoFrame,        \* model value
    NoPage          \* model value: INVALID_PAGE_ID

Frames == 0 .. PoolSize - 1
Pages == 0 .. NumPages - 1
Versions == 0 .. MaxWrites

VARIABLES
    frames,      \* pages_[f]: [page |-> page_id_, pin |-> pin_count_,
                 \*             dirty |-> is_dirty_, data |-> version]
    freeList,    \* free_list_
    pageTable,   \* page_table_: page id -> frame id, NoFrame when absent
    replacer,    \* replacer_ (the record of LRUKReplacer)
    nextPageId,  \* next_page_id_
    disk,        \* the disk manager's copy of every page
    holds,       \* holds[c][p]: pins client c holds on page p
    wrote,       \* wrote[c][p]: c wrote p since it last unpinned it dirty
    latest,      \* history: last version written to each page
    deleted      \* history: pages deleted by DeletePage

vars == <<frames, freeList, pageTable, replacer, nextPageId, disk,
          holds, wrote, latest, deleted>>

R == INSTANCE LRUKReplacer WITH rep <- replacer, evicted <- NoFrame,
                                recency <- <<>>

EmptyFrame == [page |-> NoPage, pin |-> 0, dirty |-> FALSE, data |-> 0]

Resident(p) == pageTable[p] # NoFrame

-----------------------------------------------------------------------------
(* GetAvailableFrame (lines 51-75): the head of free_list_ if there is     *)
(* one, else the replacer's victim, written back when dirty and removed    *)
(* from the page table.  Each operator is one component of its effect.     *)

FromFreeList == freeList # <<>>

AvailableFrame == IF FromFreeList THEN Head(freeList) ELSE R!Victim(replacer)

FreeListAfterGet == IF FromFreeList THEN Tail(freeList) ELSE freeList

ReplacerAfterGet == IF FromFreeList THEN replacer ELSE R!EvictOf(replacer)

Evicting == ~FromFreeList /\ AvailableFrame # NoFrame

\* Mutation of DiskAfterGet: the victim is not written back when dirty.
DiskNoWriteBack == disk

DiskAfterGet ==
    LET fr == frames[AvailableFrame] IN
    IF Evicting /\ fr.dirty THEN [disk EXCEPT ![fr.page] = fr.data] ELSE disk

PageTableAfterGet ==
    IF Evicting THEN [pageTable EXCEPT ![frames[AvailableFrame].page] = NoFrame]
    ELSE pageTable

\* Mutation of Touch: the frame is not marked non-evictable.
TouchNoPin(r, f) == R!RecordAccessOf(r, f)

\* RecordAccess then SetEvictable(frame_id, false), as NewPg and FetchPg do.
Touch(r, f) == R!SetEvictableOf(R!RecordAccessOf(r, f), f, FALSE)

-----------------------------------------------------------------------------
Init ==
    /\ frames = [f \in Frames |-> EmptyFrame]
    /\ freeList = [i \in 1 .. PoolSize |-> i - 1]
    /\ pageTable = [p \in Pages |-> NoFrame]
    /\ replacer = R!EmptyReplacer
    /\ nextPageId = 0
    /\ disk = [p \in Pages |-> 0]
    /\ holds = [c \in Clients |-> [p \in Pages |-> 0]]
    /\ wrote = [c \in Clients |-> [p \in Pages |-> FALSE]]
    /\ latest = [p \in Pages |-> 0]
    /\ deleted = {}

Pin(c, p) == holds' = [holds EXCEPT ![c][p] = @ + 1]

\* NewPgImp (lines 78-103); AllocatePage (lines 247-250).
NewPage(c) ==
    /\ nextPageId < NumPages
    /\ LET f == AvailableFrame
           pid == nextPageId
       IN  IF f = NoFrame
           THEN UNCHANGED vars
           ELSE /\ nextPageId' = nextPageId + 1
                /\ frames' = [frames EXCEPT ![f] = [page |-> pid, pin |-> 1,
                                                    dirty |-> FALSE, data |-> 0]]
                /\ freeList' = FreeListAfterGet
                /\ disk' = DiskAfterGet
                /\ pageTable' = [PageTableAfterGet EXCEPT ![pid] = f]
                /\ replacer' = Touch(ReplacerAfterGet, f)
                /\ Pin(c, pid)
                /\ UNCHANGED <<wrote, latest, deleted>>

\* FetchPgImp (lines 106-140), for a page that was allocated and not deleted.
FetchPage(c, p) ==
    /\ p < nextPageId /\ p \notin deleted
    /\ holds[c][p] < MaxHolds
    /\ IF Resident(p)
       THEN LET f == pageTable[p] IN
            /\ frames' = [frames EXCEPT ![f].pin = @ + 1]
            /\ replacer' = Touch(replacer, f)
            /\ Pin(c, p)
            /\ UNCHANGED <<freeList, pageTable, nextPageId, disk>>
       ELSE LET f == AvailableFrame IN
            IF f = NoFrame
            THEN UNCHANGED <<frames, freeList, pageTable, replacer,
                             nextPageId, disk, holds>>
            ELSE /\ frames' = [frames EXCEPT ![f] =
                                 [page |-> p, pin |-> 1, dirty |-> FALSE,
                                  data |-> DiskAfterGet[p]]]
                 /\ freeList' = FreeListAfterGet
                 /\ disk' = DiskAfterGet
                 /\ pageTable' = [PageTableAfterGet EXCEPT ![p] = f]
                 /\ replacer' = Touch(ReplacerAfterGet, f)
                 /\ Pin(c, p)
                 /\ UNCHANGED nextPageId
    /\ UNCHANGED <<wrote, latest, deleted>>

\* A client holding a pin writes the next version into the page's frame.
WritePage(c, p) ==
    /\ holds[c][p] > 0 /\ Resident(p)
    /\ latest[p] < MaxWrites
    /\ frames' = [frames EXCEPT ![pageTable[p]].data = latest[p] + 1]
    /\ latest' = [latest EXCEPT ![p] = @ + 1]
    /\ wrote' = [wrote EXCEPT ![c][p] = TRUE]
    /\ UNCHANGED <<freeList, pageTable, replacer, nextPageId, disk, holds,
                   deleted>>

\* Mutations of PinAfterUnpin: no zero check; the count reset, not decremented.
PinAfterUnpinNoCheck(pin) == pin - 1
PinAfterUnpinReset(pin) == 0

\* pin_count_ after UnpinPgImp: decremented unless already zero.
PinAfterUnpin(pin) == IF pin # 0 THEN pin - 1 ELSE 0

\* UnpinPgImp (lines 143-172).  A holder passes is_dirty = TRUE when it
\* wrote the page; any caller may also unpin a page nobody holds, which
\* only takes the early returns (and may still set is_dirty_).
UnpinPage(c, p, isDirty) ==
    /\ wrote[c][p] => isDirty
    /\ \/ holds[c][p] > 0
       \/ ~Resident(p)
       \/ Resident(p) /\ frames[pageTable[p]].pin = 0
    /\ IF ~Resident(p)
       THEN UNCHANGED <<frames, replacer, holds, wrote>>
       ELSE LET f    == pageTable[p]
                fr   == frames[f]
                pin2 == PinAfterUnpin(fr.pin)
            IN  /\ frames' = [frames EXCEPT ![f].dirty = @ \/ isDirty,
                                            ![f].pin = pin2]
                /\ replacer' = IF fr.pin # 0 /\ pin2 = 0
                                  THEN R!SetEvictableOf(replacer, f, TRUE)
                                  ELSE replacer
                /\ IF fr.pin # 0
                      THEN /\ holds' = [holds EXCEPT ![c][p] = @ - 1]
                           /\ wrote' = [wrote EXCEPT ![c][p] = FALSE]
                      ELSE UNCHANGED <<holds, wrote>>
    /\ UNCHANGED <<freeList, pageTable, nextPageId, disk, latest, deleted>>

\* FlushPgImp (lines 175-189).
FlushPage(p) ==
    /\ p < nextPageId
    /\ Resident(p)
    /\ disk' = [disk EXCEPT ![p] = frames[pageTable[p]].data]
    /\ frames' = [frames EXCEPT ![pageTable[p]].dirty = FALSE]
    /\ UNCHANGED <<freeList, pageTable, replacer, nextPageId, holds, wrote,
                   latest, deleted>>

\* FlushAllPgsImp (lines 192-212): every frame whose page_id_ the page
\* table maps is written and cleaned.
Flushed(f) == frames[f].page # NoPage /\ pageTable[frames[f].page] # NoFrame

FlushAllPages ==
    /\ disk' = [p \in Pages |->
                  IF \E f \in Frames : Flushed(f) /\ frames[f].page = p
                  THEN frames[pageTable[p]].data ELSE disk[p]]
    /\ frames' = [f \in Frames |->
                    IF Flushed(f) THEN [frames[f] EXCEPT !.dirty = FALSE]
                    ELSE frames[f]]
    /\ UNCHANGED <<freeList, pageTable, replacer, nextPageId, holds, wrote,
                   latest, deleted>>

\* DeletePgImp (lines 216-244).  A page that is not resident is reported
\* deleted at once; a pinned one is refused.  replacer_->Remove throws
\* after page_table_->Remove has already run when the frame is not
\* evictable, leaving the frame neither mapped nor free.
DeletePage(p) ==
    /\ p < nextPageId /\ p \notin deleted
    /\ IF ~Resident(p)
       THEN /\ deleted' = deleted \cup {p}
            /\ UNCHANGED <<frames, freeList, pageTable, replacer>>
       ELSE LET f == pageTable[p] IN
            IF frames[f].pin > 0
            THEN UNCHANGED <<frames, freeList, pageTable, replacer, deleted>>
            ELSE IF R!RemoveThrows(replacer, f)
            THEN /\ pageTable' = [pageTable EXCEPT ![p] = NoFrame]
                 /\ UNCHANGED <<frames, freeList, replacer, deleted>>
            ELSE /\ pageTable' = [pageTable EXCEPT ![p] = NoFrame]
                 /\ replacer' = R!RemoveOf(replacer, f)
                 /\ freeList' = Append(freeList, f)
                 /\ frames' = [frames EXCEPT ![f] = EmptyFrame]
                 /\ deleted' = deleted \cup {p}
    /\ UNCHANGED <<nextPageId, disk, holds, wrote, latest>>

Next ==
    \/ \E c \in Clients : NewPage(c)
    \/ \E c \in Clients, p \in Pages : FetchPage(c, p)
    \/ \E c \in Clients, p \in Pages : WritePage(c, p)
    \/ \E c \in Clients, p \in Pages, d \in BOOLEAN : UnpinPage(c, p, d)
    \/ \E p \in Pages : FlushPage(p)
    \/ FlushAllPages
    \/ \E p \in Pages : DeletePage(p)

Spec == Init /\ [][Next]_vars

-----------------------------------------------------------------------------
TypeOK ==
    /\ frames \in [Frames -> [page : Pages \cup {NoPage}, pin : Nat,
                              dirty : BOOLEAN, data : Versions]]
    /\ freeList \in Seq(Frames)
    /\ pageTable \in [Pages -> Frames \cup {NoFrame}]
    /\ R!TypeOK
    /\ nextPageId \in 0 .. NumPages
    /\ disk \in [Pages -> Versions]
    /\ holds \in [Clients -> [Pages -> 0 .. MaxHolds]]
    /\ wrote \in [Clients -> [Pages -> BOOLEAN]]
    /\ latest \in [Pages -> Versions]
    /\ deleted \subseteq Pages

ReplacerMirrorsPins ==
    \A f \in Frames :
        IF f \in ToSet(freeList)
        THEN replacer.hits[f] = 0
        ELSE replacer.hits[f] > 0 /\ (replacer.evict[f] <=> frames[f].pin = 0)

\* A page a client holds a pin on stays resident in the same frame, and the
\* frame's pin_count_ is the number of pins all clients hold on it.
PinsHeldResident ==
    \A p \in Pages :
        LET held == FoldFunctionOnSet(+, 0, [c \in Clients |-> holds[c][p]],
                                      Clients)
        IN  held > 0 => Resident(p) /\ frames[pageTable[p]].pin = held

\* No write is lost: for every page that exists, the last version a client
\* wrote is in its frame while it is resident and on disk while it is not,
\* across evictions (dirty write-back), re-reads and the is_dirty flags
\* of several clients unpinning the same page.
NoLostWrite ==
    \A p \in (0 .. nextPageId - 1) \ deleted :
        IF Resident(p) THEN frames[pageTable[p]].data = latest[p]
        ELSE disk[p] = latest[p]
=============================================================================
