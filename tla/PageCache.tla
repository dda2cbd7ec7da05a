------------------------------ MODULE PageCache ------------------------------
(***************************************************************************)
(* The page cache of ndfs-c/src/filesystem.c: every page the library reads *)
(* or writes goes through cache_get, which keeps a handful of pages in     *)
(* slots, evicts the least recently used unpinned one, and writes dirty    *)
(* pages back on eviction, on commit_writes and on ndfs_close.  The        *)
(* backend may refuse a transfer at any moment.                            *)
(***************************************************************************)
EXTENDS Naturals, FiniteSets

CONSTANTS
  Pages,      \* the page ids of the image, 0 .. total_pages-1
  NumSlots,   \* NDFS_CACHE_SLOTS
  PinLevels,  \* the pins one operation can hold: the sub-index page, the group index page
  Values,     \* the contents a page can be given
  Torn,       \* what a transfer that stopped half way leaves behind
  Faults      \* what the backend may do wrong

CONSTANTS Ok, NoPage, IoError   \* results: done, NULL, NDFS_ERR_IO

VARIABLES
  cache,   \* slot -> the page it holds (NoPage when invalid), dirty, pin count, buffer
  lru,     \* slot -> its rank by last touch, 0 the least recently used
  disk,    \* page -> what the backend holds
  held,    \* pin level -> the pointer the running operation holds there
  out      \* result of the last call

vars == <<cache, lru, disk, held, out>>

Slots    == 0 .. NumSlots - 1
Contents == Values \union {Torn}
Results  == Contents \union {Ok, NoPage, IoError}

(***************************************************************************)
(* "write": write_block may fail, having stored nothing or half the page.  *)
(* "read": read_block may fail without touching the buffer (a failed       *)
(* seek).  "torn_read": read_block may fail after it overwrote part of it  *)
(* (a short fread).                                                        *)
(***************************************************************************)
FaultKinds == {"write", "read", "torn_read"}

ASSUME NumSlotsAssumption == NumSlots \in Nat \ {0}
ASSUME PinLevelsAssumption ==
  IsFiniteSet(PinLevels) /\ Cardinality(PinLevels) < NumSlots
ASSUME NamesAssumption ==
  /\ Torn \notin Values
  /\ NoPage \notin Pages
  /\ {Ok, NoPage, IoError} \intersect Contents = {}
  /\ Ok # NoPage /\ IoError # NoPage
ASSUME FaultsAssumption == Faults \subseteq FaultKinds

NoPointer == [page |-> NoPage, slot |-> 0, write |-> FALSE]
Pointers  == [page : Pages, slot : Slots, write : BOOLEAN] \union {NoPointer}

SlotRecords ==
  [page : Pages \union {NoPage}, dirty : BOOLEAN, pin : Nat, buf : Contents]

EmptySlot == [page |-> NoPage, dirty |-> FALSE, pin |-> 0, buf |-> Torn]

TypeOK ==
  /\ cache \in [Slots -> SlotRecords]
  /\ lru \in [Slots -> Slots]
  /\ \A s, t \in Slots : lru[s] = lru[t] => s = t
  /\ disk \in [Pages -> Contents]
  /\ held \in [PinLevels -> Pointers]
  /\ out \in Results

FreshCache ==
  /\ cache = [s \in Slots |-> EmptySlot]
  /\ lru = [s \in Slots |-> s]
  /\ held = [l \in PinLevels |-> NoPointer]

Init ==
  /\ FreshCache
  /\ disk \in [Pages -> Values]
  /\ out = Ok

-----------------------------------------------------------------------------
Resident(p) == \E s \in Slots : cache[s].page = p
Free(s)     == cache[s].page = NoPage

\* Bug: the scan forgets to skip the pinned slots.
PinBlindVictim(s) ==
  \/ Free(s) /\ \A t \in Slots : Free(t) => s <= t
  \/ /\ \A t \in Slots : ~Free(t)
     /\ \A t \in Slots : lru[s] <= lru[t]

\* cache_victim: the first invalid slot, else the least recently used unpinned one.
IsVictim(s) ==
  \/ Free(s) /\ \A t \in Slots : Free(t) => s <= t
  \/ /\ \A t \in Slots : ~Free(t)
     /\ cache[s].pin = 0
     /\ \A t \in Slots : cache[t].pin = 0 => lru[s] <= lru[t]

\* Bug: the clock is not advanced on a touch, so the stamp is not unique.
TouchTies(s) ==
  [t \in Slots |-> IF t = s THEN NumSlots - 1 ELSE lru[t]]

\* Bug: a touch does not refresh the stamp, so slots are reused in a fixed order.
TouchNever(s) == lru

\* slot->lru = ++lru_clock: only the order of the stamps matters, so it is kept as a rank.
Touch(s) ==
  [t \in Slots |-> IF t = s THEN NumSlots - 1
                   ELSE IF lru[t] > lru[s] THEN lru[t] - 1 ELSE lru[t]]

\* cache_flush_slot of every slot of F, each store succeeding.
Flushed(F) ==
  [p \in Pages |->
     IF \E s \in F : cache[s].page = p /\ cache[s].dirty
       THEN cache[CHOOSE s \in F : cache[s].page = p /\ cache[s].dirty].buf
       ELSE disk[p]]

Clean(F) ==
  [s \in Slots |-> IF s \in F THEN [cache[s] EXCEPT !.dirty = FALSE] ELSE cache[s]]

\* A store of slot s that failed after the slots of F were stored.
FailedStore(F, s) ==
  /\ "write" \in Faults
  /\ cache[s].dirty
  /\ disk' \in {Flushed(F), [Flushed(F) EXCEPT ![cache[s].page] = Torn]}

-----------------------------------------------------------------------------
(***************************************************************************)
(* cache_get.  A caller that asked for writing (write_page_ptr) puts the   *)
(* content v into the buffer before it touches another page.               *)
(***************************************************************************)
Buffered(write, v, old) == IF write THEN v ELSE old
Answer(write, old)      == IF write THEN Ok ELSE old

\* slot->dirty is raised by a write and never lowered by a read.
Marked(s, write, b) ==
  [page |-> cache[s].page, dirty |-> cache[s].dirty \/ write, pin |-> cache[s].pin, buf |-> b]

GetHit(p, write, v) ==
  \E s \in Slots :
    /\ cache[s].page = p
    /\ cache' = [cache EXCEPT ![s] = Marked(s, write, Buffered(write, v, cache[s].buf))]
    /\ lru' = Touch(s)
    /\ out' = Answer(write, cache[s].buf)
    /\ UNCHANGED <<disk, held>>

\* Bug: the victim is reused without storing its dirty page first.
GetMissNoFlush(p, write, v) ==
  \E s \in Slots :
    /\ ~Resident(p)
    /\ IsVictim(s)
    /\ cache' = [cache EXCEPT ![s] = [page |-> p, dirty |-> write, pin |-> 0,
                                      buf |-> Buffered(write, v, disk[p])]]
    /\ lru' = Touch(s)
    /\ out' = Answer(write, disk[p])
    /\ UNCHANGED <<disk, held>>

\* Bug: a page that is already in a slot is loaded into a second one.
GetMissTwice(p, write, v) ==
  \E s \in Slots :
    /\ IsVictim(s)
    /\ disk' = Flushed({s})
    /\ cache' = [cache EXCEPT ![s] = [page |-> p, dirty |-> write, pin |-> 0,
                                      buf |-> Buffered(write, v, disk[p])]]
    /\ lru' = Touch(s)
    /\ out' = Answer(write, disk[p])
    /\ UNCHANGED held

GetMiss(p, write, v) ==
  \E s \in Slots :
    /\ ~Resident(p)
    /\ IsVictim(s)
    /\ disk' = Flushed({s})
    /\ cache' = [cache EXCEPT ![s] = [page |-> p, dirty |-> write, pin |-> 0,
                                      buf |-> Buffered(write, v, disk[p])]]
    /\ lru' = Touch(s)
    /\ out' = Answer(write, disk[p])
    /\ UNCHANGED held

\* The victim is dirty and cannot be stored: it keeps its page, the caller gets NULL.
GetMissFlushFails(p) ==
  \E s \in Slots :
    /\ ~Resident(p)
    /\ IsVictim(s)
    /\ FailedStore({}, s)
    /\ out' = NoPage
    /\ UNCHANGED <<cache, lru, held>>

\* Bug: the slot claims the new page before the load has succeeded.
GetMissReadFailsRenamed(p) ==
  \E s \in Slots :
    /\ ~Resident(p)
    /\ IsVictim(s)
    /\ Faults \intersect {"read", "torn_read"} # {}
    /\ disk' = Flushed({s})
    /\ cache' = [cache EXCEPT ![s].dirty = FALSE, ![s].page = p]
    /\ out' = NoPage
    /\ UNCHANGED <<lru, held>>

\* The victim was stored, then read_block failed: the slot still claims its old page.
GetMissReadFails(p) ==
  \E s \in Slots :
    /\ ~Resident(p)
    /\ IsVictim(s)
    /\ Faults \intersect {"read", "torn_read"} # {}
    /\ disk' = Flushed({s})
    /\ \E b \in {cache[s].buf} \union (IF "torn_read" \in Faults THEN {Torn} ELSE {}) :
         cache' = [cache EXCEPT ![s] = [@ EXCEPT !.dirty = FALSE, !.buf = b]]
    /\ out' = NoPage
    /\ UNCHANGED <<lru, held>>

\* page_id >= total_pages: refused before the cache is looked at.
GetOutOfRange ==
  /\ out' = NoPage
  /\ UNCHANGED <<cache, lru, disk, held>>

ReadPage(p) ==
  \E v \in Values : GetHit(p, FALSE, v) \/ GetMiss(p, FALSE, v)

WritePage(p, v) == GetHit(p, TRUE, v) \/ GetMiss(p, TRUE, v)

GetFails(p) == GetMissFlushFails(p) \/ GetMissReadFails(p) \/ GetOutOfRange

-----------------------------------------------------------------------------
(***************************************************************************)
(* Pins.  An operation pins the page it has just been given, at most one   *)
(* at each level, and keeps storing block pointers through that pointer    *)
(* while it loads other pages.                                             *)
(***************************************************************************)
Pin(l, write) ==
  \E s \in Slots :
    /\ held[l] = NoPointer
    /\ lru[s] = NumSlots - 1
    /\ ~Free(s)
    /\ write => cache[s].dirty
    /\ cache' = [cache EXCEPT ![s].pin = @ + 1]
    /\ held' = [held EXCEPT ![l] = [page |-> cache[s].page, slot |-> s, write |-> write]]
    /\ UNCHANGED <<lru, disk, out>>

\* Bug: an early return leaves without its cache_unpin.
UnpinLeaks(l) ==
  /\ held[l] # NoPointer
  /\ held' = [held EXCEPT ![l] = NoPointer]
  /\ UNCHANGED <<cache, lru, disk, out>>

Unpin(l) ==
  /\ held[l] # NoPointer
  /\ cache' = [s \in Slots |-> IF cache[s].page = held[l].page /\ cache[s].pin > 0
                                 THEN [cache[s] EXCEPT !.pin = @ - 1] ELSE cache[s]]
  /\ held' = [held EXCEPT ![l] = NoPointer]
  /\ UNCHANGED <<lru, disk, out>>

\* ndfs_bp_to_bytes through the pinned pointer: no cache_get, no dirty mark.
StorePinned(l, v) ==
  /\ held[l] # NoPointer
  /\ held[l].write
  /\ cache' = [cache EXCEPT ![held[l].slot].buf = v]
  /\ out' = Ok
  /\ UNCHANGED <<lru, disk, held>>

-----------------------------------------------------------------------------
NothingHeld == \A l \in PinLevels : held[l] = NoPointer

\* commit_writes at the tail of a public mutation, every store succeeding.
Commit ==
  /\ NothingHeld
  /\ disk' = Flushed(Slots)
  /\ cache' = Clean(Slots)
  /\ out' = Ok
  /\ UNCHANGED <<lru, held>>

\* Bug: the slots after the failing one are marked clean without being stored.
CommitFailsCleansAll ==
  \E s \in Slots :
    /\ NothingHeld
    /\ FailedStore(0 .. s - 1, s)
    /\ cache' = Clean(Slots \ {s})
    /\ out' = IoError
    /\ UNCHANGED <<lru, held>>

\* cache_flush_all stops at the first slot it cannot store and reports it.
CommitFails ==
  \E s \in Slots :
    /\ NothingHeld
    /\ FailedStore(0 .. s - 1, s)
    /\ cache' = Clean(0 .. s - 1)
    /\ out' = IoError
    /\ UNCHANGED <<lru, held>>

FreshHandle ==
  /\ cache' = [s \in Slots |-> EmptySlot]
  /\ lru' = [s \in Slots |-> s]
  /\ held' = [l \in PinLevels |-> NoPointer]
  /\ out' = Ok

\* ndfs_close drops the cache whether or not the flush worked; the image is opened again.
CloseAndReopen ==
  /\ NothingHeld
  /\ \/ disk' = Flushed(Slots)
     \/ \E s \in Slots : FailedStore(0 .. s - 1, s)
  /\ FreshHandle

\* The process dies, in an operation or between two, and the image is opened again.
CrashAndReopen ==
  /\ UNCHANGED disk
  /\ FreshHandle

Next ==
  \/ \E p \in Pages : ReadPage(p)
  \/ \E p \in Pages, v \in Values : WritePage(p, v)
  \/ \E p \in Pages : GetFails(p)
  \/ \E l \in PinLevels, write \in BOOLEAN : Pin(l, write)
  \/ \E l \in PinLevels : Unpin(l)
  \/ \E l \in PinLevels, v \in Values : StorePinned(l, v)
  \/ Commit
  \/ CommitFails
  \/ CloseAndReopen
  \/ CrashAndReopen

Spec == Init /\ [][Next]_vars

-----------------------------------------------------------------------------
(***************************************************************************)
(* Properties                                                              *)
(***************************************************************************)

\* No page is in two slots: the in-place aliasing of a read and a write of the
\* same page (cache comment, "a page occupies at most one slot").
OneSlotPerPage ==
  \A s, t \in Slots : cache[s].page = cache[t].page /\ ~Free(s) => s = t

\* A pointer kept under a pin still points at its page, and what is stored through a
\* pointer taken for writing is in a dirty slot, so that it reaches the disk.
HeldPointersLive ==
  \A l \in PinLevels : held[l] # NoPointer =>
    LET s == held[l].slot IN
    /\ cache[s].page = held[l].page
    /\ cache[s].pin > 0
    /\ held[l].write => cache[s].dirty

\* A slot's pin count is the number of levels whose pointer is into it, so the last unpin,
\* and no earlier one, makes it evictable.
PinsCounted ==
  \A s \in Slots :
    cache[s].pin = Cardinality({l \in PinLevels : held[l] # NoPointer /\ held[l].slot = s})

\* cache_victim never comes back empty-handed ("every slot is pinned" is a caller bug).
SomeVictim == \E s \in Slots : IsVictim(s)

\* A page the cache considers clean is exactly what the backend holds, so dropping
\* the slot, or the whole cache, loses nothing that was not pending.
CleanIsOnDisk ==
  \A s \in Slots : ~Free(s) /\ ~cache[s].dirty => cache[s].buf = disk[cache[s].page]

(***************************************************************************)
(* The cache implements the plain page memory: what a read of a page       *)
(* returns is the content of its slot when it has one.                     *)
(***************************************************************************)
View ==
  [p \in Pages |-> IF Resident(p) THEN cache[CHOOSE s \in Slots : cache[s].page = p].buf
                   ELSE disk[p]]

Pending == {p \in Pages : \E s \in Slots : cache[s].page = p /\ cache[s].dirty}

Store == INSTANCE PageStore WITH mem <- View, pending <- Pending

\* Reads return the last write or fail, a commit that reports success has everything on
\* the disk, and a page that is not pending is never rewritten.
ImplementsPageStore == Store!Spec

\* A page that cannot be read costs only itself: the failed read changes the content of
\* no other page (CHANGELOG 0.0.7, "A lost page must cost only what was written on that
\* page").
FailedReadCostsOnlyItself == [][out' = NoPage => View' = View]_vars
==============================================================================
