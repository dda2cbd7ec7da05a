--------------------------- MODULE PageCacheProofs ---------------------------
(***************************************************************************)
(* The page cache for every number of slots, pages and pin levels, one     *)
(* unpinned pointer into it, and the page memory it implements.            *)
(***************************************************************************)
EXTENDS LoosePointers, FiniteSetTheorems, WellFoundedInduction, TLAPS

\* A held pointer points into the slot of its page, which is dirty if it is written through.
HeldSlots ==
  \A l \in PinLevels : held[l] # NoPointer =>
    /\ cache[held[l].slot].page = held[l].page
    /\ held[l].write => cache[held[l].slot].dirty

\* The inductive invariant: type, aliasing and pins, for every kind of fault.
Inv == TypeOK /\ OneSlotPerPage /\ PinsCounted /\ HeldSlots

Holders(s) == {l \in PinLevels : held[l] # NoPointer /\ held[l].slot = s}

USE NumSlotsAssumption, PinLevelsAssumption, NamesAssumption

-----------------------------------------------------------------------------
\* A held pointer names a page and a slot.
LEMMA HeldType ==
  ASSUME TypeOK, NEW l \in PinLevels, held[l] # NoPointer
  PROVE  /\ held[l].page \in Pages
         /\ held[l].slot \in Slots
         /\ held[l].write \in BOOLEAN
BY DEF TypeOK, Pointers, NoPointer

\* The set of holders of a slot is finite, so its size is a number and 0 means nobody.
LEMMA HoldersFinite ==
  ASSUME NEW S \in SUBSET PinLevels
  PROVE  /\ IsFiniteSet(S)
         /\ Cardinality(S) \in Nat
         /\ Cardinality(S) = 0 <=> S = {}
<1>1. IsFiniteSet(S)
  BY FS_Subset
<1>. QED  BY <1>1, FS_CardinalityType, FS_EmptySet

\* Pins stay counted while neither a pin nor a held pointer changes.
LEMMA PinsStayCounted ==
  ASSUME PinsCounted, held' = held, \A s \in Slots : cache'[s].pin = cache[s].pin
  PROVE  PinsCounted'
<1>1. \A s \in Slots : cache[s].pin = Cardinality(Holders(s))
  BY DEF PinsCounted, Holders
<1>2. \A s \in Slots : Holders(s)' = Holders(s)
  BY DEF Holders
<1>3. \A s \in Slots : cache'[s].pin = Cardinality(Holders(s)')
  BY <1>1, <1>2
<1>. QED  BY <1>3 DEF PinsCounted, Holders, Slots

\* A slot with a holder is pinned.
LEMMA HeldIsPinned ==
  ASSUME TypeOK, PinsCounted, NEW l \in PinLevels, held[l] # NoPointer
  PROVE  cache[held[l].slot].pin > 0
<1>. DEFINE s == held[l].slot
<1>1. s \in Slots
  BY HeldType
<1>2. l \in Holders(s)
  BY DEF Holders
<1>3. cache[s].pin = Cardinality(Holders(s))
  BY <1>1 DEF PinsCounted, Holders
<1>4. Holders(s) \in SUBSET PinLevels
  BY DEF Holders
<1>. QED  BY <1>2, <1>3, <1>4, HoldersFinite

\* Nobody holds a pointer into a victim.
LEMMA VictimUnheld ==
  ASSUME Inv, NEW s \in Slots, IsVictim(s), NEW l \in PinLevels, held[l] # NoPointer
  PROVE  held[l].slot # s
<1>1. cache[held[l].slot].pin > 0
  BY HeldIsPinned DEF Inv
<1>2. cache[held[l].slot].page \in Pages
  BY HeldType DEF Inv, HeldSlots
<1>. QED  BY <1>1, <1>2 DEF IsVictim, Free

\* Some slot is unpinned: the levels are fewer than the slots.
LEMMA SomeUnpinned ==
  ASSUME Inv
  PROVE  \E s \in Slots : cache[s].pin = 0
<1>. SUFFICES ASSUME \A s \in Slots : cache[s].pin # 0
              PROVE  FALSE
  OBVIOUS
<1>. DEFINE f == [s \in Slots |-> CHOOSE l \in PinLevels : held[l] # NoPointer /\ held[l].slot = s]
<1>1. ASSUME NEW s \in Slots
      PROVE  /\ f[s] \in PinLevels
             /\ held[f[s]].slot = s
  <2>1. Cardinality(Holders(s)) # 0
    BY DEF Inv, PinsCounted, Holders
  <2>2. Holders(s) # {}
    BY <2>1, HoldersFinite DEF Holders
  <2>3. \E l \in PinLevels : held[l] # NoPointer /\ held[l].slot = s
    BY <2>2 DEF Holders
  <2>. QED  BY <2>3
<1>2. f \in [Slots -> PinLevels]
  BY <1>1
<1>3. IsFiniteSet(Slots) /\ Cardinality(Slots) = NumSlots
  BY FS_Interval DEF Slots
<1>4. \E s, t \in Slots : s # t /\ f[s] = f[t]
  <2>. HIDE DEF f
  <2>. QED  BY <1>2, <1>3, FS_PigeonHole
<1>. QED  BY <1>1, <1>4

\* A non-empty set of numbers has a least one.
LEMMA LeastNumber ==
  ASSUME NEW R \in SUBSET Nat, R # {}
  PROVE  \E m \in R : \A k \in R : m <= k
<1>1. IsWellFoundedOn(OpToRel(<, Nat), Nat)
  BY NatLessThanWellFounded
<1>2. PICK m \in R : \A k \in R : ~(<<k, m>> \in OpToRel(<, Nat))
  BY <1>1, WFMin
<1>3. \A k \in R : m <= k
  <2>. SUFFICES ASSUME NEW k \in R, k < m
                PROVE  FALSE
    OBVIOUS
  <2>1. <<k, m>> \in OpToRel(<, Nat)
    BY DEF OpToRel
  <2>. QED  BY <1>2, <2>1
<1>. QED  BY <1>3

\* A non-empty set of slots has one of least rank.
LEMMA LeastRank ==
  ASSUME TypeOK, NEW S \in SUBSET Slots, S # {}
  PROVE  \E s \in S : \A t \in S : lru[s] <= lru[t]
<1>. DEFINE R == {lru[s] : s \in S}
<1>0. \A s \in S : lru[s] \in Nat
  BY DEF TypeOK, Slots
<1>1. R \in SUBSET Nat /\ R # {}
  BY <1>0
<1>2. \E m \in R : \A k \in R : m <= k
  <2>. HIDE DEF R
  <2>. QED  BY <1>1, LeastNumber
<1>. QED  BY <1>2

-----------------------------------------------------------------------------
(***************************************************************************)
(* Cache hits and misses                                                   *)
(***************************************************************************)

\* A touch keeps the ranks distinct.
LEMMA TouchType ==
  ASSUME TypeOK, NEW s \in Slots
  PROVE  /\ Touch(s) \in [Slots -> Slots]
         /\ \A t, u \in Slots : Touch(s)[t] = Touch(s)[u] => t = u
<1>. \A t \in Slots : lru[t] \in Nat /\ lru[t] <= NumSlots - 1
  BY DEF TypeOK, Slots
<1>. NumSlots \in Nat
  OBVIOUS
<1>1. ASSUME NEW t \in Slots
      PROVE  /\ Touch(s)[t] = IF t = s THEN NumSlots - 1
                              ELSE IF lru[t] > lru[s] THEN lru[t] - 1 ELSE lru[t]
             /\ Touch(s)[t] \in Slots
  BY DEF Touch, Slots
<1>2. Touch(s) \in [Slots -> Slots]
  BY <1>1 DEF Touch
<1>3. ASSUME NEW t \in Slots, NEW u \in Slots, Touch(s)[t] = Touch(s)[u]
      PROVE  t = u
  <2>1. t # u => lru[t] # lru[u]
    BY DEF TypeOK
  <2>2. (t # s => lru[t] # lru[s]) /\ (u # s => lru[u] # lru[s])
    BY DEF TypeOK
  <2>. QED  BY <1>1, <1>3, <2>1, <2>2
<1>. QED  BY <1>2, <1>3

\* Storing dirty slots keeps the type of the disk.
LEMMA FlushedType ==
  ASSUME TypeOK, NEW F \in SUBSET Slots
  PROVE  Flushed(F) \in [Pages -> Contents]
<1>. SUFFICES ASSUME NEW p \in Pages
              PROVE  Flushed(F)[p] \in Contents
  BY DEF Flushed
<1>1. CASE \E s \in F : cache[s].page = p /\ cache[s].dirty
  <2>. DEFINE c == CHOOSE s \in F : cache[s].page = p /\ cache[s].dirty
  <2>1. c \in F
    BY <1>1
  <2>2. cache[c] \in SlotRecords
    BY <2>1 DEF TypeOK
  <2>3. cache[c].buf \in Contents
    BY <2>2 DEF SlotRecords
  <2>4. Flushed(F)[p] = cache[c].buf
    BY <1>1 DEF Flushed
  <2>. QED  BY <2>3, <2>4
<1>2. CASE ~\E s \in F : cache[s].page = p /\ cache[s].dirty
  BY <1>2 DEF Flushed, TypeOK
<1>. QED  BY <1>1, <1>2

\* So does a store that fails, whatever it left behind.
LEMMA FailedStoreType ==
  ASSUME TypeOK, NEW F \in SUBSET Slots, NEW s \in Slots, FailedStore(F, s)
  PROVE  disk' \in [Pages -> Contents]
<1>1. Flushed(F) \in [Pages -> Contents]
  BY FlushedType
<1>. QED  BY <1>1 DEF FailedStore, Contents

\* A request for a page in the cache marks its slot and touches it.
LEMMA HitKeepsInv ==
  ASSUME Inv, NEW p \in Pages, NEW write \in BOOLEAN, NEW v \in Values, GetHit(p, write, v)
  PROVE  Inv'
<1>. PICK s \in Slots :
       /\ cache[s].page = p
       /\ cache' = [cache EXCEPT ![s] = Marked(s, write, Buffered(write, v, cache[s].buf))]
       /\ lru' = Touch(s)
       /\ out' = Answer(write, cache[s].buf)
       /\ UNCHANGED <<disk, held>>
  BY DEF GetHit
<1>. DEFINE e == Marked(s, write, Buffered(write, v, cache[s].buf))
<1>a. cache[s] \in SlotRecords
  BY DEF Inv, TypeOK
<1>b. /\ e.page = cache[s].page
      /\ e.pin = cache[s].pin
      /\ cache[s].dirty => e.dirty
  BY DEF Marked
<1>c. e \in SlotRecords
  BY <1>a DEF Marked, SlotRecords, Buffered, Contents
<1>1. TypeOK'
  <2>1. cache' \in [Slots -> SlotRecords]
    BY <1>c DEF Inv, TypeOK
  <2>2. out' \in Results
    BY <1>a DEF Answer, Results, SlotRecords
  <2>. QED  BY <2>1, <2>2, TouchType DEF Inv, TypeOK
<1>2. \A t \in Slots : cache'[t].page = cache[t].page /\ cache'[t].pin = cache[t].pin
                       /\ (cache[t].dirty => cache'[t].dirty)
  BY <1>a, <1>b DEF Inv, TypeOK
<1>3. OneSlotPerPage'
  BY <1>2 DEF Inv, OneSlotPerPage, Free
<1>4. PinsCounted'
  BY <1>2, PinsStayCounted DEF Inv
<1>5. HeldSlots'
  BY <1>2, HeldType DEF Inv, HeldSlots
<1>. QED  BY <1>1, <1>3, <1>4, <1>5 DEF Inv

\* A request for another page gives it the victim's slot, which nobody holds.
LEMMA MissKeepsInv ==
  ASSUME Inv, NEW p \in Pages, NEW write \in BOOLEAN, NEW v \in Values, GetMiss(p, write, v)
  PROVE  Inv'
<1>. PICK s \in Slots :
       /\ ~Resident(p)
       /\ IsVictim(s)
       /\ disk' = Flushed({s})
       /\ cache' = [cache EXCEPT ![s] = [page |-> p, dirty |-> write, pin |-> 0,
                                         buf |-> Buffered(write, v, disk[p])]]
       /\ lru' = Touch(s)
       /\ out' = Answer(write, disk[p])
       /\ UNCHANGED held
  BY DEF GetMiss
<1>1. TypeOK'
  <2>. DEFINE e == [page |-> p, dirty |-> write, pin |-> 0, buf |-> Buffered(write, v, disk[p])]
  <2>1. disk[p] \in Contents /\ v \in Contents
    BY DEF Inv, TypeOK, Contents
  <2>2. e \in SlotRecords
    BY <2>1 DEF SlotRecords, Buffered
  <2>3. cache' \in [Slots -> SlotRecords]
    BY <2>2 DEF Inv, TypeOK
  <2>4. out' \in Results
    BY <2>1 DEF Answer, Results
  <2>. QED  BY <2>3, <2>4, TouchType, FlushedType DEF Inv, TypeOK
<1>2. \A t \in Slots : t # s => cache'[t] = cache[t]
  BY DEF Inv, TypeOK
<1>3. cache'[s].page = p /\ cache'[s].pin = 0
  BY DEF Inv, TypeOK
<1>4. OneSlotPerPage'
  BY <1>2, <1>3 DEF Inv, OneSlotPerPage, Free, Resident
<1>5. PinsCounted'
  <2>1. Holders(s) = {}
    BY VictimUnheld DEF Holders
  <2>2. Cardinality(Holders(s)) = 0
    BY <2>1, HoldersFinite DEF Holders
  <2>. QED  BY <1>2, <1>3, <2>2 DEF Inv, PinsCounted, Holders
<1>6. HeldSlots'
  BY <1>2, VictimUnheld, HeldType DEF Inv, HeldSlots
<1>. QED  BY <1>1, <1>4, <1>5, <1>6 DEF Inv

\* Whatever a request that fails leaves in its victim, no page and no pin has moved.
LEMMA FailuresKeepInv ==
  ASSUME Inv, NEW p \in Pages, GetFails(p)
  PROVE  Inv'
<1>1. CASE GetMissFlushFails(p)
  <2>1. TypeOK'
    BY <1>1, FailedStoreType DEF Inv, TypeOK, GetMissFlushFails, Results
  <2>. QED  BY <2>1, <1>1 DEF GetMissFlushFails, Inv, OneSlotPerPage, PinsCounted, HeldSlots, Free
<1>2. CASE GetMissReadFails(p)
  <2>. PICK s \in Slots :
         /\ IsVictim(s)
         /\ disk' = Flushed({s})
         /\ \E b \in {cache[s].buf} \union {Torn} :
              cache' = [cache EXCEPT ![s] = [cache[s] EXCEPT !.dirty = FALSE, !.buf = b]]
         /\ out' = NoPage
         /\ UNCHANGED <<lru, held>>
    BY <1>2 DEF GetMissReadFails
  <2>. PICK b \in {cache[s].buf} \union {Torn} :
         cache' = [cache EXCEPT ![s] = [cache[s] EXCEPT !.dirty = FALSE, !.buf = b]]
    OBVIOUS
  <2>0. cache[s] \in SlotRecords
    BY DEF Inv, TypeOK
  <2>a. b \in Contents
    BY <2>0 DEF SlotRecords, Contents
  <2>b. [cache[s] EXCEPT !.dirty = FALSE, !.buf = b] \in SlotRecords
    BY <2>0, <2>a DEF SlotRecords
  <2>c. cache' \in [Slots -> SlotRecords]
    BY <2>b DEF Inv, TypeOK
  <2>1. TypeOK'
    BY <2>c, FlushedType DEF Inv, TypeOK, Results
  <2>2. \A t \in Slots : cache'[t].page = cache[t].page /\ cache'[t].pin = cache[t].pin
                         /\ (t # s => cache'[t] = cache[t])
    BY DEF Inv, TypeOK
  <2>3. OneSlotPerPage'
    BY <2>2 DEF Inv, OneSlotPerPage, Free
  <2>4. PinsCounted'
    BY <2>2, PinsStayCounted DEF Inv
  <2>5. HeldSlots'
    BY <2>2, VictimUnheld, HeldType DEF Inv, HeldSlots
  <2>. QED  BY <2>1, <2>3, <2>5, <2>4 DEF Inv
<1>3. CASE GetOutOfRange
  BY <1>3 DEF GetOutOfRange, Inv, TypeOK, OneSlotPerPage, PinsCounted, HeldSlots, Free, Results
<1>. QED  BY <1>1, <1>2, <1>3 DEF GetFails

-----------------------------------------------------------------------------
(***************************************************************************)
(* Pins                                                                    *)
(***************************************************************************)

\* A pin adds the pin level to the holders of one slot.
LEMMA PinKeepsInv ==
  ASSUME Inv, NEW l \in PinLevels, NEW write \in BOOLEAN, Pin(l, write)
  PROVE  Inv'
<1>. PICK s \in Slots :
       /\ held[l] = NoPointer
       /\ ~Free(s)
       /\ write => cache[s].dirty
       /\ cache' = [cache EXCEPT ![s].pin = @ + 1]
       /\ held' = [held EXCEPT ![l] = [page |-> cache[s].page, slot |-> s, write |-> write]]
       /\ UNCHANGED out
       /\ UNCHANGED <<lru, disk>>
  BY DEF Pin
<1>1. cache[s] \in SlotRecords /\ cache[s].page \in Pages
  BY DEF Inv, TypeOK, SlotRecords, Free
<1>. DEFINE new == [page |-> cache[s].page, slot |-> s, write |-> write]
<1>2. new \in Pointers /\ new # NoPointer
  BY <1>1 DEF Pointers, NoPointer
<1>3. \A t \in Slots :
        /\ cache'[t].page = cache[t].page
        /\ cache'[t].dirty = cache[t].dirty
        /\ cache'[t].pin = IF t = s THEN cache[t].pin + 1 ELSE cache[t].pin
  BY DEF Inv, TypeOK
<1>4. TypeOK'
  <2>1. [cache[s] EXCEPT !.pin = @ + 1] \in SlotRecords
    BY <1>1 DEF SlotRecords
  <2>2. cache' \in [Slots -> SlotRecords]
    BY <2>1 DEF Inv, TypeOK
  <2>3. held' \in [PinLevels -> Pointers]
    BY <1>2 DEF Inv, TypeOK
  <2>. QED  BY <2>2, <2>3 DEF Inv, TypeOK, Results
<1>5. OneSlotPerPage'
  BY <1>3 DEF Inv, OneSlotPerPage, Free
<1>6. PinsCounted'
  <2>. SUFFICES ASSUME NEW t \in Slots
                PROVE  cache'[t].pin = Cardinality(Holders(t)')
    BY DEF PinsCounted, Holders
  <2>1. IsFiniteSet(Holders(t)) /\ l \notin Holders(t)
    BY HoldersFinite DEF Holders
  <2>2. Holders(t)' = IF t = s THEN Holders(t) \union {l} ELSE Holders(t)
    BY <1>2 DEF Holders, Inv, TypeOK
  <2>3. cache[t].pin = Cardinality(Holders(t))
    BY DEF Inv, PinsCounted, Holders
  <2>4. Cardinality(Holders(t) \union {l}) = Cardinality(Holders(t)) + 1
    BY <2>1, FS_AddElement
  <2>. QED  BY <1>3, <2>2, <2>3, <2>4
<1>7. HeldSlots'
  BY <1>1, <1>3, HeldType DEF Inv, HeldSlots, TypeOK
<1>. QED  BY <1>4, <1>5, <1>6, <1>7 DEF Inv

\* An unpin takes it away again.
LEMMA UnpinKeepsInv ==
  ASSUME Inv, NEW l \in PinLevels, Unpin(l)
  PROVE  Inv'
<1>. DEFINE s == held[l].slot
<1>1. /\ held[l] # NoPointer
      /\ s \in Slots
      /\ cache[s].page = held[l].page
      /\ held[l].page \in Pages
      /\ cache[s].pin > 0
  BY HeldType, HeldIsPinned DEF Unpin, Inv, HeldSlots
<1>2. \A t \in Slots : cache[t].page = held[l].page <=> t = s
  BY <1>1 DEF Inv, OneSlotPerPage, Free
<1>3. \A t \in Slots :
        cache'[t] = IF t = s THEN [cache[t] EXCEPT !.pin = @ - 1] ELSE cache[t]
  BY <1>1, <1>2 DEF Unpin
<1>4. \A t \in Slots : cache[t] \in SlotRecords
  BY DEF Inv, TypeOK
<1>5. \A t \in Slots :
        /\ cache'[t] \in SlotRecords
        /\ cache'[t].page = cache[t].page
        /\ cache'[t].dirty = cache[t].dirty
        /\ cache'[t].pin = IF t = s THEN cache[t].pin - 1 ELSE cache[t].pin
  <2>. SUFFICES ASSUME NEW t \in Slots
                PROVE  /\ cache'[t] \in SlotRecords
                       /\ cache'[t].page = cache[t].page
                       /\ cache'[t].dirty = cache[t].dirty
                       /\ cache'[t].pin = IF t = s THEN cache[t].pin - 1 ELSE cache[t].pin
    OBVIOUS
  <2>1. cache[t].pin \in Nat /\ cache[t] \in SlotRecords
    BY <1>4 DEF SlotRecords
  <2>2. CASE t = s
    <3>1. cache'[t] = [cache[t] EXCEPT !.pin = @ - 1] /\ cache[t].pin - 1 \in Nat
      BY <1>1, <1>3, <2>1, <2>2
    <3>. QED  BY <2>1, <2>2, <3>1 DEF SlotRecords
  <2>3. CASE t # s
    BY <1>3, <2>1, <2>3
  <2>. QED  BY <2>2, <2>3
<1>6. held' = [held EXCEPT ![l] = NoPointer]
  BY DEF Unpin
<1>7. TypeOK'
  <2>1. cache' \in [Slots -> SlotRecords]
    BY <1>5 DEF Unpin
  <2>2. held' \in [PinLevels -> Pointers]
    BY <1>6 DEF Inv, TypeOK, Pointers
  <2>. QED  BY <2>1, <2>2 DEF Unpin, Inv, TypeOK, Results
<1>8. OneSlotPerPage'
  BY <1>5 DEF Inv, OneSlotPerPage, Free
<1>9. PinsCounted'
  <2>. SUFFICES ASSUME NEW t \in Slots
                PROVE  cache'[t].pin = Cardinality(Holders(t)')
    BY DEF PinsCounted, Holders
  <2>1. IsFiniteSet(Holders(t)) /\ (l \in Holders(t) <=> t = s)
    BY <1>1, HoldersFinite DEF Holders
  <2>2. Holders(t)' = Holders(t) \ {l}
    BY <1>6 DEF Holders, Inv, TypeOK
  <2>3. cache[t].pin = Cardinality(Holders(t))
    BY DEF Inv, PinsCounted, Holders
  <2>4. Cardinality(Holders(t) \ {l})
          = IF t = s THEN Cardinality(Holders(t)) - 1 ELSE Cardinality(Holders(t))
    BY <2>1, FS_RemoveElement
  <2>. QED  BY <1>5, <2>2, <2>3, <2>4
<1>10. HeldSlots'
  <2>. SUFFICES ASSUME NEW k \in PinLevels, held'[k] # NoPointer
                PROVE  /\ cache'[held'[k].slot].page = held'[k].page
                       /\ held'[k].write => cache'[held'[k].slot].dirty
    BY DEF HeldSlots
  <2>1. held'[k] = held[k] /\ held[k] # NoPointer
    BY <1>6 DEF Inv, TypeOK
  <2>. QED  BY <1>5, <2>1, HeldType DEF Inv, HeldSlots
<1>. QED  BY <1>7, <1>8, <1>9, <1>10 DEF Inv

\* A store through a pinned pointer finds its slot dirty.
LEMMA StorePinnedKeepsInv ==
  ASSUME Inv, NEW l \in PinLevels, NEW v \in Values, StorePinned(l, v)
  PROVE  Inv'
<1>. DEFINE s == held[l].slot
<1>1. s \in Slots /\ cache[s] \in SlotRecords
  BY HeldType DEF StorePinned, Inv, TypeOK
<1>2. [cache[s] EXCEPT !.buf = v] \in SlotRecords
  BY <1>1 DEF SlotRecords, Contents
<1>3. cache' = [cache EXCEPT ![s] = [cache[s] EXCEPT !.buf = v]]
  BY DEF StorePinned
<1>4. \A t \in Slots : /\ cache'[t].page = cache[t].page
                       /\ cache'[t].pin = cache[t].pin
                       /\ cache'[t].dirty = cache[t].dirty
  BY <1>3 DEF Inv, TypeOK
<1>5. TypeOK'
  BY <1>2, <1>3 DEF Inv, TypeOK, StorePinned, Results
<1>6. OneSlotPerPage'
  BY <1>4 DEF Inv, OneSlotPerPage, Free
<1>7. PinsCounted'
  BY <1>4, PinsStayCounted DEF Inv, StorePinned
<1>8. HeldSlots'
  BY <1>4, HeldType DEF Inv, HeldSlots, StorePinned
<1>. QED  BY <1>5, <1>6, <1>7, <1>8 DEF Inv

-----------------------------------------------------------------------------
(***************************************************************************)
(* Commit, close and crash: no operation holds a pointer across them.      *)
(***************************************************************************)

\* Marking slots clean changes nothing else of them.
LEMMA CleanType ==
  ASSUME Inv, NEW F \in SUBSET Slots
  PROVE  /\ Clean(F) \in [Slots -> SlotRecords]
         /\ \A s \in Slots : /\ Clean(F)[s].page = cache[s].page
                             /\ Clean(F)[s].pin = cache[s].pin
                             /\ Clean(F)[s].buf = cache[s].buf
                             /\ Clean(F)[s].dirty <=> cache[s].dirty /\ s \notin F
<1>. SUFFICES ASSUME NEW s \in Slots
              PROVE  /\ Clean(F)[s] \in SlotRecords
                     /\ Clean(F)[s].page = cache[s].page
                     /\ Clean(F)[s].pin = cache[s].pin
                     /\ Clean(F)[s].buf = cache[s].buf
                     /\ Clean(F)[s].dirty <=> cache[s].dirty /\ s \notin F
  BY DEF Clean
<1>1. cache[s] \in SlotRecords
  BY DEF Inv, TypeOK
<1>. QED  BY <1>1 DEF Clean, SlotRecords

\* A commit, complete or not, marks slots clean while nothing is held.
LEMMA FlushKeepsInv ==
  ASSUME Inv, Commit \/ CommitFails
  PROVE  Inv'
<1>1. PICK F \in SUBSET Slots : cache' = Clean(F)
  BY DEF Commit, CommitFails, Slots
<1>2. NothingHeld /\ UNCHANGED <<lru, held>>
  BY DEF Commit, CommitFails
<1>3. disk' \in [Pages -> Contents] /\ out' \in Results
  <2>1. CASE Commit
    BY <2>1, FlushedType DEF Commit, Inv, Results
  <2>2. CASE CommitFails
    <3>. PICK s \in Slots : FailedStore(0 .. s - 1, s) /\ out' = IoError
      BY <2>2 DEF CommitFails
    <3>1. 0 .. s - 1 \in SUBSET Slots
      BY DEF Slots
    <3>. QED  BY <3>1, FailedStoreType DEF Inv, Results
  <2>. QED  BY <2>1, <2>2
<1>4. TypeOK'
  BY <1>1, <1>2, <1>3, CleanType DEF Inv, TypeOK
<1>5. OneSlotPerPage'
  BY <1>1, CleanType DEF Inv, OneSlotPerPage, Free
<1>6. PinsCounted'
  <2>1. \A s \in Slots : cache'[s].pin = cache[s].pin
    BY <1>1, CleanType DEF Inv
  <2>. QED  BY <1>2, <2>1, PinsStayCounted DEF Inv
<1>7. HeldSlots'
  BY <1>2 DEF NothingHeld, HeldSlots
<1>. QED  BY <1>4, <1>5, <1>6, <1>7 DEF Inv

\* A fresh handle holds nothing and has every slot free.
LEMMA FreshInv ==
  FreshCache /\ disk \in [Pages -> Contents] /\ out \in Results => Inv
<1>. SUFFICES ASSUME FreshCache, disk \in [Pages -> Contents], out \in Results
              PROVE  Inv
  OBVIOUS
<1>1. EmptySlot \in SlotRecords
  BY DEF EmptySlot, SlotRecords, Contents
<1>2. TypeOK
  BY <1>1 DEF FreshCache, TypeOK, Pointers, Slots
<1>3. OneSlotPerPage
  BY DEF FreshCache, OneSlotPerPage, Free, EmptySlot
<1>4. PinsCounted
  <2>1. \A s \in Slots : Holders(s) = {}
    BY DEF Holders, FreshCache
  <2>. QED  BY <2>1, FS_EmptySet DEF PinsCounted, Holders, FreshCache, EmptySlot
<1>5. HeldSlots
  BY DEF FreshCache, HeldSlots
<1>. QED  BY <1>2, <1>3, <1>4, <1>5 DEF Inv

\* An empty cache holds nothing.
LEMMA InitInv == Init => Inv
<1>1. Init => disk \in [Pages -> Contents] /\ out \in Results
  BY DEF Init, Contents, Results
<1>. QED  BY <1>1, FreshInv DEF Init

\* So does a cache after closing or crashing.
LEMMA ReopenKeepsInv ==
  ASSUME Inv, CloseAndReopen \/ CrashAndReopen
  PROVE  Inv'
<1>1. disk' \in [Pages -> Contents]
  <2>1. CASE UNCHANGED disk
    BY <2>1 DEF Inv, TypeOK
  <2>2. CASE disk' = Flushed(Slots)
    BY <2>2, FlushedType DEF Inv
  <2>3. CASE \E s \in Slots : FailedStore(0 .. s - 1, s)
    <3>. PICK s \in Slots : FailedStore(0 .. s - 1, s)
      BY <2>3
    <3>1. 0 .. s - 1 \in SUBSET Slots
      BY DEF Slots
    <3>. QED  BY <3>1, FailedStoreType DEF Inv
  <2>. QED  BY <2>1, <2>2, <2>3 DEF CloseAndReopen, CrashAndReopen
<1>2. FreshCache' /\ out' \in Results
  BY DEF CloseAndReopen, CrashAndReopen, FreshHandle, FreshCache, Results
<1>3. (FreshCache /\ disk \in [Pages -> Contents] /\ out \in Results => Inv)'
  BY FreshInv, PTL
<1>. QED  BY <1>1, <1>2, <1>3

-----------------------------------------------------------------------------
\* Every step keeps the invariant.
LEMMA NextKeepsInv == Inv /\ [Next]_vars => Inv'
<1>. SUFFICES ASSUME Inv, [Next]_vars
              PROVE  Inv'
  OBVIOUS
<1>1. ASSUME NEW p \in Pages, ReadPage(p)
      PROVE  Inv'
  BY <1>1, HitKeepsInv, MissKeepsInv DEF ReadPage
<1>2. ASSUME NEW p \in Pages, NEW v \in Values, WritePage(p, v)
      PROVE  Inv'
  BY <1>2, HitKeepsInv, MissKeepsInv DEF WritePage
<1>3. ASSUME NEW p \in Pages, GetFails(p)
      PROVE  Inv'
  BY <1>3, FailuresKeepInv
<1>4. ASSUME NEW l \in PinLevels, NEW write \in BOOLEAN, Pin(l, write)
      PROVE  Inv'
  BY <1>4, PinKeepsInv
<1>5. ASSUME NEW l \in PinLevels, Unpin(l)
      PROVE  Inv'
  BY <1>5, UnpinKeepsInv
<1>6. ASSUME NEW l \in PinLevels, NEW v \in Values, StorePinned(l, v)
      PROVE  Inv'
  BY <1>6, StorePinnedKeepsInv
<1>7. CASE Commit \/ CommitFails
  BY <1>7, FlushKeepsInv
<1>8. CASE CloseAndReopen \/ CrashAndReopen
  BY <1>8, ReopenKeepsInv
<1>9. CASE UNCHANGED vars
  BY <1>9 DEF vars, Inv, TypeOK, OneSlotPerPage, PinsCounted, HeldSlots, Free
<1>. QED  BY <1>1, <1>2, <1>3, <1>4, <1>5, <1>6, <1>7, <1>8, <1>9 DEF Next

\* The inductive invariant holds for every kind of backend fault.
THEOREM SpecInv == Spec => []Inv
BY InitInv, NextKeepsInv, PTL DEF Spec

\* Type correctness of the page cache.
THEOREM TypeCorrect == Spec => []TypeOK
<1>1. Inv => TypeOK
  BY DEF Inv
<1>. QED  BY <1>1, SpecInv, PTL

\* No page is ever in two slots: a read and a write of one page alias the same buffer.
THEOREM Aliasing == Spec => []OneSlotPerPage
<1>1. Inv => OneSlotPerPage
  BY DEF Inv
<1>. QED  BY <1>1, SpecInv, PTL

\* Pins and unpins balance at every level: no slot stays pinned by nobody.
THEOREM PinCountsExact == Spec => []PinsCounted
<1>1. Inv => PinsCounted
  BY DEF Inv
<1>. QED  BY <1>1, SpecInv, PTL

\* A pointer under a pin stays valid until its unpin, and stores through it are not lost.
THEOREM PinsHold == Spec => []HeldPointersLive
<1>1. Inv => HeldPointersLive
  BY HeldIsPinned DEF Inv, HeldPointersLive, HeldSlots
<1>. QED  BY <1>1, SpecInv, PTL

\* Eviction always finds a slot, because the pin levels are fewer than the slots.
THEOREM VictimExists == Spec => []SomeVictim
<1>1. ASSUME Inv
      PROVE  SomeVictim
  <2>1. CASE \A s \in Slots : ~Free(s)
    <3>. DEFINE S == {s \in Slots : cache[s].pin = 0}
    <3>1. S # {} /\ S \in SUBSET Slots
      BY <1>1, SomeUnpinned
    <3>2. \E s \in S : \A t \in S : lru[s] <= lru[t]
      <4>. HIDE DEF S
      <4>. QED  BY <1>1, <3>1, LeastRank DEF Inv
    <3>. QED  BY <2>1, <3>2 DEF SomeVictim, IsVictim
  <2>2. CASE \E s \in Slots : Free(s)
    <3>. DEFINE S == {s \in Slots : Free(s)}
    <3>1. S \in SUBSET Nat /\ S # {}
      BY <2>2 DEF Slots
    <3>2. \E s \in S : \A t \in S : s <= t
      <4>. HIDE DEF S
      <4>. QED  BY <3>1, LeastNumber
    <3>. QED  BY <3>2 DEF SomeVictim, IsVictim
  <2>. QED  BY <2>1, <2>2
<1>. QED  BY <1>1, SpecInv, PTL

-----------------------------------------------------------------------------
(***************************************************************************)
(* What the cache holds against what the backend holds, for a backend      *)
(* whose failed reads leave the buffer alone.                              *)
(***************************************************************************)
Coherent == Inv /\ CleanIsOnDisk

\* What one store, or several, does to the disk, slot by slot.
LEMMA FlushedAt ==
  ASSUME Inv, NEW F \in SUBSET Slots, NEW p \in Pages
  PROVE  /\ \A s \in F : cache[s].page = p /\ cache[s].dirty => Flushed(F)[p] = cache[s].buf
         /\ (\A s \in F : ~(cache[s].page = p /\ cache[s].dirty)) => Flushed(F)[p] = disk[p]
<1>1. ASSUME NEW s \in F, cache[s].page = p, cache[s].dirty
      PROVE  Flushed(F)[p] = cache[s].buf
  <2>. DEFINE c == CHOOSE t \in F : cache[t].page = p /\ cache[t].dirty
  <2>1. c \in F /\ cache[c].page = p
    BY <1>1
  <2>2. c = s
    BY <1>1, <2>1 DEF Inv, OneSlotPerPage, Free
  <2>. QED  BY <1>1, <2>2 DEF Flushed
<1>2. (\A s \in F : ~(cache[s].page = p /\ cache[s].dirty)) => Flushed(F)[p] = disk[p]
  BY DEF Flushed
<1>. QED  BY <1>1, <1>2

\* A failed store leaves every page as a successful one would, but for the page it tore.
LEMMA FailedStoreAt ==
  ASSUME Inv, NEW F \in SUBSET Slots, NEW s \in Slots, FailedStore(F, s), NEW p \in Pages
  PROVE  disk'[p] = Flushed(F)[p] \/ (p = cache[s].page /\ disk'[p] = Torn)
<1>1. Flushed(F) \in [Pages -> Contents]
  BY FlushedType DEF Inv
<1>. QED  BY <1>1 DEF FailedStore

\* A hit changes a buffer only together with the dirty bit.
LEMMA HitKeepsClean ==
  ASSUME Coherent, NEW p \in Pages, NEW write \in BOOLEAN, NEW v \in Values,
         GetHit(p, write, v)
  PROVE  CleanIsOnDisk'
<1>. PICK s \in Slots :
       /\ cache' = [cache EXCEPT ![s] = Marked(s, write, Buffered(write, v, cache[s].buf))]
       /\ UNCHANGED <<disk, held>>
  BY DEF GetHit
<1>1. \A t \in Slots : t # s => cache'[t] = cache[t]
  BY DEF Coherent, Inv, TypeOK
<1>2. cache'[s] = Marked(s, write, Buffered(write, v, cache[s].buf))
  BY DEF Coherent, Inv, TypeOK
<1>3. ASSUME ~cache'[s].dirty
      PROVE  cache'[s].buf = cache[s].buf /\ cache'[s].page = cache[s].page /\ ~cache[s].dirty
  <2>0. Marked(s, write, Buffered(write, v, cache[s].buf)).dirty = (cache[s].dirty \/ write)
    BY Zenon DEF Marked
  <2>1. cache[s].dirty => cache'[s].dirty
    BY <1>2, <2>0, Zenon
  <2>2. write => cache'[s].dirty
    BY <1>2, <2>0, Zenon
  <2>3. cache'[s].buf = Buffered(write, v, cache[s].buf) /\ cache'[s].page = cache[s].page
    BY <1>2 DEF Marked
  <2>. QED  BY <1>3, <2>1, <2>2, <2>3 DEF Buffered
<1>4. cache'[s].page = cache[s].page
  BY <1>2 DEF Marked
<1>. QED  BY <1>1, <1>3, <1>4 DEF Coherent, CleanIsOnDisk, Free

\* A miss fills the slot from the disk.
LEMMA MissKeepsClean ==
  ASSUME Coherent, NEW p \in Pages, NEW write \in BOOLEAN, NEW v \in Values,
         GetMiss(p, write, v)
  PROVE  CleanIsOnDisk'
<1>. PICK s \in Slots :
       /\ ~Resident(p)
       /\ disk' = Flushed({s})
       /\ cache' = [cache EXCEPT ![s] = [page |-> p, dirty |-> write, pin |-> 0,
                                         buf |-> Buffered(write, v, disk[p])]]
  BY DEF GetMiss
<1>. SUFFICES ASSUME NEW t \in Slots, ~Free(t)', ~cache'[t].dirty
              PROVE  cache'[t].buf = disk'[cache'[t].page]
  BY DEF CleanIsOnDisk
<1>1. CASE t = s
  <2>1. cache'[t] = [page |-> p, dirty |-> write, pin |-> 0, buf |-> Buffered(write, v, disk[p])]
    BY <1>1 DEF Coherent, Inv, TypeOK
  <2>2. cache'[t].buf = disk[p] /\ cache'[t].page = p
    BY <2>1 DEF Buffered
  <2>3. Flushed({s})[p] = disk[p]
    BY FlushedAt DEF Resident, Coherent
  <2>. QED  BY <2>2, <2>3
<1>2. CASE t # s
  <2>1. cache'[t] = cache[t]
    BY <1>2 DEF Coherent, Inv, TypeOK
  <2>2. cache[t].page \in Pages /\ ~Free(t)
    BY <2>1 DEF Coherent, Inv, TypeOK, SlotRecords, Free
  <2>3. cache[s].page # cache[t].page
    BY <1>2, <2>2 DEF Coherent, Inv, OneSlotPerPage
  <2>4. disk'[cache[t].page] = disk[cache[t].page]
    BY <2>2, <2>3, FlushedAt DEF Coherent
  <2>. QED  BY <2>1, <2>2, <2>4 DEF Coherent, CleanIsOnDisk
<1>. QED  BY <1>1, <1>2

\* An eviction that fails tears only the page of a dirty slot.
LEMMA FlushFailsKeepsClean ==
  ASSUME Coherent, NEW p \in Pages, GetMissFlushFails(p)
  PROVE  CleanIsOnDisk'
<1>. PICK s \in Slots : FailedStore({}, s)
  BY DEF GetMissFlushFails
<1>. SUFFICES ASSUME NEW t \in Slots, ~Free(t), ~cache[t].dirty
              PROVE  cache[t].buf = disk'[cache[t].page]
  BY DEF CleanIsOnDisk, GetMissFlushFails, Free
<1>1. cache[t].page \in Pages
  BY DEF Coherent, Inv, TypeOK, SlotRecords, Free
<1>2. cache[s].page # cache[t].page
  BY DEF FailedStore, Coherent, Inv, OneSlotPerPage, Free
<1>3. Flushed({})[cache[t].page] = disk[cache[t].page]
  BY <1>1, FlushedAt DEF Coherent
<1>4. disk'[cache[t].page] = disk[cache[t].page]
  BY <1>1, <1>2, <1>3, FailedStoreAt DEF Coherent
<1>. QED  BY <1>4 DEF Coherent, CleanIsOnDisk

\* A read that fails without tearing leaves the slot what was stored.
LEMMA ReadFailsKeepsClean ==
  ASSUME Coherent, "torn_read" \notin Faults, NEW p \in Pages, GetMissReadFails(p)
  PROVE  CleanIsOnDisk'
<1>. PICK s \in Slots :
       /\ disk' = Flushed({s})
       /\ cache' = [cache EXCEPT ![s] = [cache[s] EXCEPT !.dirty = FALSE, !.buf = cache[s].buf]]
  BY DEF GetMissReadFails
<1>. SUFFICES ASSUME NEW t \in Slots, ~Free(t)', ~cache'[t].dirty
              PROVE  cache'[t].buf = disk'[cache'[t].page]
  BY DEF CleanIsOnDisk
<1>1. cache'[t].page = cache[t].page /\ cache'[t].buf = cache[t].buf
      /\ (t # s => cache'[t].dirty = cache[t].dirty)
  <2>1. \A u \in Slots : cache[u] \in SlotRecords
    BY DEF Coherent, Inv, TypeOK
  <2>2. CASE t = s
    <3>1. cache'[t] = [cache[t] EXCEPT !.dirty = FALSE, !.buf = cache[t].buf]
      BY <2>2 DEF Coherent, Inv, TypeOK
    <3>. QED  BY <2>1, <2>2, <3>1 DEF SlotRecords
  <2>3. CASE t # s
    BY <2>3 DEF Coherent, Inv, TypeOK
  <2>. QED  BY <2>2, <2>3
<1>2. cache[t].page \in Pages /\ ~Free(t)
  BY <1>1 DEF Coherent, Inv, TypeOK, SlotRecords, Free
<1>3. CASE t = s /\ cache[s].dirty
  BY <1>1, <1>2, <1>3, FlushedAt DEF Coherent
<1>4. CASE t = s /\ ~cache[s].dirty
  BY <1>1, <1>2, <1>4, FlushedAt DEF Coherent, CleanIsOnDisk
<1>5. CASE t # s
  <2>1. cache[s].page # cache[t].page
    BY <1>2, <1>5 DEF Coherent, Inv, OneSlotPerPage
  <2>. QED  BY <1>1, <1>2, <1>5, <2>1, FlushedAt DEF Coherent, CleanIsOnDisk
<1>. QED  BY <1>3, <1>4, <1>5

\* Pins change neither buffers nor the disk.
LEMMA PinsKeepClean ==
  ASSUME Coherent, NEW l \in PinLevels, NEW write \in BOOLEAN, Pin(l, write) \/ Unpin(l)
  PROVE  CleanIsOnDisk'
<1>1. ASSUME NEW t \in Slots
      PROVE  cache'[t].page = cache[t].page /\ cache'[t].buf = cache[t].buf
             /\ cache'[t].dirty = cache[t].dirty
  <2>1. cache[t] \in SlotRecords /\ cache \in [Slots -> SlotRecords]
    BY DEF Coherent, Inv, TypeOK
  <2>2. CASE Pin(l, write)
    <3>. PICK s \in Slots : cache' = [cache EXCEPT ![s].pin = @ + 1]
      BY <2>2 DEF Pin
    <3>. QED  BY <2>1 DEF SlotRecords
  <2>3. CASE Unpin(l)
    <3>1. cache'[t] = cache[t] \/ cache'[t] = [cache[t] EXCEPT !.pin = @ - 1]
      BY <2>3 DEF Unpin
    <3>. QED  BY <2>1, <3>1 DEF SlotRecords
  <2>. QED  BY <2>2, <2>3
<1>2. UNCHANGED disk
  BY DEF Pin, Unpin
<1>. QED  BY <1>1, <1>2 DEF Coherent, CleanIsOnDisk, Free

\* What is stored through a pinned pointer lands in a dirty slot.
LEMMA StorePinnedKeepsClean ==
  ASSUME Coherent, NEW l \in PinLevels, NEW v \in Values, StorePinned(l, v)
  PROVE  CleanIsOnDisk'
<1>. DEFINE s == held[l].slot
<1>1. cache[s].dirty
  BY DEF StorePinned, Coherent, Inv, HeldSlots
<1>2. cache' = [cache EXCEPT ![s].buf = v] /\ UNCHANGED disk
  BY DEF StorePinned
<1>3. \A t \in Slots : cache'[t].page = cache[t].page /\ cache'[t].dirty = cache[t].dirty
                       /\ (t # s => cache'[t].buf = cache[t].buf)
  BY <1>2 DEF Coherent, Inv, TypeOK
<1>. QED  BY <1>1, <1>2, <1>3 DEF Coherent, CleanIsOnDisk, Free

\* After the slots of F were stored, a clean slot is on the disk, unless a later store tore its page.
LEMMA StoredIsOnDisk ==
  ASSUME Coherent, NEW F \in SUBSET Slots, NEW t \in Slots, ~Free(t),
         cache[t].dirty => t \in F
  PROVE  cache[t].buf = Flushed(F)[cache[t].page]
<1>1. cache[t].page \in Pages
  BY DEF Coherent, Inv, TypeOK, SlotRecords, Free
<1>2. CASE cache[t].dirty
  BY <1>1, <1>2, FlushedAt DEF Coherent
<1>3. CASE ~cache[t].dirty
  <2>1. \A s \in F : ~(cache[s].page = cache[t].page /\ cache[s].dirty)
    BY <1>3 DEF Coherent, Inv, OneSlotPerPage, Free
  <2>. QED  BY <1>1, <1>3, <2>1, FlushedAt DEF Coherent, CleanIsOnDisk
<1>. QED  BY <1>2, <1>3

\* A slot a commit marks clean is one it has stored.
LEMMA CommitKeepsClean ==
  ASSUME Coherent, Commit \/ CommitFails
  PROVE  CleanIsOnDisk'
<1>1. CASE Commit
  <2>. SUFFICES ASSUME NEW t \in Slots, ~Free(t)', ~cache'[t].dirty
                PROVE  cache'[t].buf = disk'[cache'[t].page]
    BY DEF CleanIsOnDisk
  <2>. QED  BY <1>1, CleanType, StoredIsOnDisk DEF Commit, Coherent, Free
<1>2. CASE CommitFails
  <2>. PICK s \in Slots : FailedStore(0 .. s - 1, s) /\ cache' = Clean(0 .. s - 1)
    BY <1>2 DEF CommitFails
  <2>. DEFINE F == 0 .. s - 1
  <2>1. F \in SUBSET Slots /\ s \notin F
    BY DEF Slots
  <2>. SUFFICES ASSUME NEW t \in Slots, ~Free(t)', ~cache'[t].dirty
                PROVE  cache'[t].buf = disk'[cache'[t].page]
    BY DEF CleanIsOnDisk
  <2>2. /\ cache'[t].page = cache[t].page /\ cache'[t].buf = cache[t].buf
        /\ (cache[t].dirty => t \in F)
    BY <2>1, CleanType DEF Coherent
  <2>3. cache[s].dirty
    BY DEF FailedStore
  <2>4. cache[t].page # cache[s].page
    BY <2>1, <2>2, <2>3 DEF Coherent, Inv, OneSlotPerPage, Free
  <2>5. cache[t].page \in Pages /\ ~Free(t)
    BY <2>2 DEF Coherent, Inv, TypeOK, SlotRecords, Free
  <2>. HIDE DEF F
  <2>6. disk'[cache[t].page] = Flushed(F)[cache[t].page]
    BY <2>1, <2>4, <2>5, FailedStoreAt DEF Coherent, F
  <2>. QED  BY <2>1, <2>2, <2>5, <2>6, StoredIsOnDisk
<1>. QED  BY <1>1, <1>2

\* An empty cache has no clean slot.
LEMMA ReopenKeepsClean ==
  ASSUME CloseAndReopen \/ CrashAndReopen
  PROVE  CleanIsOnDisk'
BY DEF CloseAndReopen, CrashAndReopen, FreshHandle, CleanIsOnDisk, Free, EmptySlot

\* Without torn reads every step keeps clean slots equal to the disk.
LEMMA NextKeepsClean ==
  "torn_read" \notin Faults => (Coherent /\ [Next]_vars => Coherent')
<1>. SUFFICES ASSUME "torn_read" \notin Faults, Coherent, [Next]_vars
              PROVE  CleanIsOnDisk'
  BY NextKeepsInv DEF Coherent
<1>1. ASSUME NEW p \in Pages, ReadPage(p)
      PROVE  CleanIsOnDisk'
  BY <1>1, HitKeepsClean, MissKeepsClean DEF ReadPage
<1>2. ASSUME NEW p \in Pages, NEW v \in Values, WritePage(p, v)
      PROVE  CleanIsOnDisk'
  BY <1>2, HitKeepsClean, MissKeepsClean DEF WritePage
<1>3. ASSUME NEW p \in Pages, GetFails(p)
      PROVE  CleanIsOnDisk'
  <2>1. CASE GetOutOfRange
    BY <2>1 DEF GetOutOfRange, Coherent, CleanIsOnDisk, Free
  <2>. QED  BY <1>3, <2>1, FlushFailsKeepsClean, ReadFailsKeepsClean DEF GetFails
<1>4. ASSUME NEW l \in PinLevels, NEW write \in BOOLEAN, Pin(l, write) \/ Unpin(l)
      PROVE  CleanIsOnDisk'
  BY <1>4, PinsKeepClean
<1>5. ASSUME NEW l \in PinLevels, NEW v \in Values, StorePinned(l, v)
      PROVE  CleanIsOnDisk'
  BY <1>5, StorePinnedKeepsClean
<1>6. CASE Commit \/ CommitFails
  BY <1>6, CommitKeepsClean
<1>7. CASE CloseAndReopen \/ CrashAndReopen
  BY <1>7, ReopenKeepsClean
<1>8. CASE UNCHANGED vars
  BY <1>8 DEF vars, Coherent, CleanIsOnDisk, Free
<1>. QED  BY <1>1, <1>2, <1>3, <1>4, <1>5, <1>6, <1>7, <1>8 DEF Next

\* When a failed read leaves the buffer alone, a clean slot holds what the backend holds:
\* evicting it, closing or crashing loses nothing that was not pending.
THEOREM CleanSlotsStored == "torn_read" \notin Faults => (Spec => []CleanIsOnDisk)
<1>. SUFFICES ASSUME "torn_read" \notin Faults
              PROVE  Spec => []CleanIsOnDisk
  OBVIOUS
<1>1. Init => Coherent
  BY InitInv DEF Coherent, Init, FreshCache, CleanIsOnDisk, Free, EmptySlot
<1>2. Coherent /\ [Next]_vars => Coherent'
  BY NextKeepsClean
<1>3. Coherent => CleanIsOnDisk
  BY DEF Coherent
<1>. QED  BY <1>1, <1>2, <1>3, PTL DEF Spec

-----------------------------------------------------------------------------
(***************************************************************************)
(* A pointer without a pin (module LoosePointers).                         *)
(***************************************************************************)
\* The slot of the pointer followed holds its page, and whatever has been used since is a page
\* that was asked for since.
Watched ==
  watch # NotWatching =>
    /\ watch \in [page : Pages, slot : Slots, since : SUBSET Pages]
    /\ cache[watch.slot].page = watch.page
    /\ IsFiniteSet(watch.since) /\ Cardinality(watch.since) <= Reach
    /\ \A s \in Slots : lru[s] > lru[watch.slot] /\ ~Free(s) => cache[s].page \in watch.since

LooseInv == Inv /\ Watched

\* The slots under a pin are no more than the pins there can be.
LEMMA PinnedFew ==
  ASSUME Inv, NEW S, S = {s \in Slots : cache[s].pin # 0}
  PROVE  IsFiniteSet(S) /\ Cardinality(S) <= Cardinality(PinLevels)
<1>. DEFINE f == [s \in S |-> CHOOSE l \in PinLevels : held[l] # NoPointer /\ held[l].slot = s]
<1>1. ASSUME NEW s \in S
      PROVE  f[s] \in PinLevels /\ held[f[s]].slot = s
  <2>1. Cardinality(Holders(s)) # 0
    BY DEF Inv, PinsCounted, Holders
  <2>2. Holders(s) # {}
    BY <2>1, HoldersFinite DEF Holders
  <2>3. \E l \in PinLevels : held[l] # NoPointer /\ held[l].slot = s
    BY <2>2 DEF Holders
  <2>. QED  BY <2>3
<1>2. f \in [S -> PinLevels]
  BY <1>1
<1>. HIDE DEF f
<1>3. ASSUME NEW s \in S, NEW t \in S, f[s] = f[t]
      PROVE  s = t
  <2>1. held[f[s]].slot = s
    BY <1>1
  <2>2. held[f[t]].slot = t
    BY <1>1
  <2>. QED  BY <1>3, <2>1, <2>2
<1>4. f \in Injection(S, PinLevels)
  BY <1>2, <1>3 DEF Injection, IsInjective
<1>. QED  BY <1>4, FS_Injection

\* A load that takes the slot of the pointer followed is one page more than its holder may ask
\* for: the pointer is given up.
LEMMA VictimGivesUp ==
  ASSUME LooseInv, watch # NotWatching, NEW p \in Pages, ~Resident(p), IsVictim(watch.slot)
  PROVE  AskedFor(p) = NotWatching
<1>. DEFINE w      == watch.slot
            pinned == {s \in Slots : cache[s].pin # 0}
            recent == {s \in Slots : lru[s] > lru[w]}
            old    == watch.since \ {p}
<1>1. /\ w \in Slots /\ cache[w].page \in Pages /\ IsFiniteSet(watch.since)
      /\ Cardinality(watch.since) <= Reach
      /\ \A s \in recent : ~Free(s) => cache[s].page \in watch.since
  BY DEF LooseInv, Watched
<1>2. /\ \A t \in Slots : ~Free(t)
      /\ \A t \in Slots : cache[t].pin = 0 => lru[w] <= lru[t]
  BY <1>1 DEF IsVictim, Free
<1>3. Slots = pinned \union recent \union {w}
  <2>1. \A s, t \in Slots : lru[s] = lru[t] => s = t
    BY DEF LooseInv, Inv, TypeOK
  <2>2. \A s \in Slots : lru[s] \in Nat
    BY DEF LooseInv, Inv, TypeOK, Slots
  <2>. QED  BY <1>1, <1>2, <2>1, <2>2
<1>4. IsFiniteSet(Slots) /\ Cardinality(Slots) = NumSlots
  BY FS_Interval DEF Slots
<1>5. IsFiniteSet(pinned) /\ Cardinality(pinned) <= Cardinality(PinLevels)
  BY PinnedFew DEF LooseInv
<1>6. IsFiniteSet(old) /\ IsFiniteSet(watch.since \union {p}) /\ Cardinality(old) \in Nat
      /\ Cardinality(watch.since \union {p}) = Cardinality(old) + 1
  <2>. HIDE DEF old
  <2>1. IsFiniteSet(old) /\ p \notin old /\ watch.since \union {p} = old \union {p}
    BY <1>1, FS_RemoveElement DEF old
  <2>. QED  BY <2>1, FS_AddElement, FS_CardinalityType
<1>7. IsFiniteSet(recent) /\ Cardinality(recent) <= Cardinality(old)
  <2>. DEFINE f == [s \in recent |-> cache[s].page]
  <2>1. \A s \in recent : cache[s].page \in watch.since /\ cache[s].page # p
    BY <1>1, <1>2 DEF Resident
  <2>2. f \in [recent -> old]
    BY <2>1
  <2>3. \A s, t \in recent : f[s] = f[t] => s = t
    BY <1>2 DEF LooseInv, Inv, OneSlotPerPage
  <2>. HIDE DEF f, recent, old
  <2>4. f \in Injection(recent, old)
    BY <2>2, <2>3 DEF Injection, IsInjective
  <2>. QED  BY <1>6, <2>4, FS_Injection
<1>. HIDE DEF pinned, recent, old
<1>8. IsFiniteSet(pinned \union recent)
      /\ Cardinality(pinned \union recent) <= Cardinality(pinned) + Cardinality(recent)
  <2>1. /\ IsFiniteSet(pinned \union recent)
        /\ Cardinality(pinned \union recent)
             = Cardinality(pinned) + Cardinality(recent) - Cardinality(pinned \intersect recent)
    BY <1>5, <1>7, FS_Union
  <2>2. Cardinality(pinned \intersect recent) \in Nat
    BY <1>5, FS_Intersection, FS_CardinalityType
  <2>3. Cardinality(pinned) \in Nat /\ Cardinality(recent) \in Nat
    BY <1>5, <1>7, FS_CardinalityType
  <2>. QED  BY <2>1, <2>2, <2>3
<1>9. NumSlots <= Cardinality(pinned \union recent) + 1
  <2>1. Cardinality((pinned \union recent) \union {w})
          = IF w \in pinned \union recent THEN Cardinality(pinned \union recent)
            ELSE Cardinality(pinned \union recent) + 1
    BY <1>8, FS_AddElement
  <2>2. Cardinality(pinned \union recent) \in Nat
    BY <1>8, FS_CardinalityType
  <2>. QED  BY <1>3, <1>4, <2>1, <2>2
<1>10. /\ Cardinality(pinned) \in Nat /\ Cardinality(recent) \in Nat
       /\ Cardinality(pinned \union recent) \in Nat /\ Cardinality(PinLevels) \in Nat
  BY <1>5, <1>7, <1>8, FS_CardinalityType
<1>11. Cardinality(watch.since \union {p}) > Reach
  BY <1>5, <1>6, <1>7, <1>8, <1>9, <1>10 DEF Reach
<1>. QED  BY <1>11 DEF AskedFor

\* What asking for one more page leaves of the pointer followed.
LEMMA Asked ==
  ASSUME LooseInv, watch # NotWatching, NEW p \in Pages, AskedFor(p) # NotWatching
  PROVE  /\ AskedFor(p) = [watch EXCEPT !.since = watch.since \union {p}]
         /\ IsFiniteSet(watch.since \union {p}) /\ Cardinality(watch.since \union {p}) <= Reach
<1>1. AskedFor(p) = [watch EXCEPT !.since = watch.since \union {p}]
  BY DEF AskedFor
<1>2. ~(Cardinality(watch.since \union {p}) > Reach)
  BY DEF AskedFor
<1>3. IsFiniteSet(watch.since)
  BY DEF LooseInv, Watched
<1>4. IsFiniteSet(watch.since \union {p})
  BY <1>3, FS_AddElement
<1>5. Cardinality(watch.since \union {p}) \in Nat /\ Cardinality(PinLevels) \in Nat
  BY <1>4, FS_CardinalityType
<1>. QED  BY <1>1, <1>2, <1>4, <1>5 DEF Reach

\* A touched slot becomes the latest one; the others keep their order.
LEMMA TouchOrder ==
  ASSUME TypeOK, NEW s \in Slots
  PROVE  /\ \A t \in Slots : ~(Touch(s)[t] > Touch(s)[s])
         /\ \A t, u \in Slots : u # s /\ Touch(s)[t] > Touch(s)[u] => t = s \/ lru[t] > lru[u]
<1>1. \A t \in Slots : lru[t] \in Nat /\ lru[t] <= NumSlots - 1
  BY DEF TypeOK, Slots
<1>2. \A t \in Slots : t # s => lru[t] # lru[s]
  BY DEF TypeOK
<1>3. \A t \in Slots : Touch(s)[t] = IF t = s THEN NumSlots - 1
                                     ELSE IF lru[t] > lru[s] THEN lru[t] - 1 ELSE lru[t]
  BY DEF Touch
<1>. QED  BY <1>1, <1>2, <1>3

\* Nothing is asked for yet when a pointer is taken or renewed.
LEMMA NoneAsked == IsFiniteSet({}) /\ Cardinality({}) <= Reach
<1>1. Cardinality(PinLevels) \in Nat
  BY FS_CardinalityType
<1>. QED  BY <1>1, FS_EmptySet DEF Reach

\* A page was handed out in slot s.
LEMMA GivenWatched ==
  ASSUME LooseInv, Inv', NEW p \in Pages, NEW s \in Slots, Given(p),
         cache'[s].page = p, \A t \in Slots : t # s => cache'[t].page = cache[t].page,
         lru' = Touch(s),
         watch # NotWatching /\ watch.slot = s /\ watch.page # p => AskedFor(p) = NotWatching
  PROVE  Watched'
<1>1. \A t \in Slots : ~(lru'[t] > lru'[s])
  BY TouchOrder DEF LooseInv, Inv
<1>2. \A t \in Slots : cache'[t].page = p => t = s
  BY DEF Inv, OneSlotPerPage, Free
<1>3. CASE watch' = NotWatching
  BY <1>3 DEF Watched
<1>4. CASE watch' = [page |-> p, slot |-> s, since |-> {}]
  <2>1. watch'.page = p /\ watch'.slot = s /\ watch'.since = {}
    BY <1>4
  <2>2. watch' \in [page : Pages, slot : Slots, since : SUBSET Pages]
    BY <1>4
  <2>3. IsFiniteSet(watch'.since) /\ Cardinality(watch'.since) <= Reach
    BY <2>1, NoneAsked
  <2>4. \A t \in Slots : ~(lru'[t] > lru'[watch'.slot])
    BY <1>1, <2>1
  <2>5. cache'[watch'.slot].page = watch'.page
    BY <2>1
  <2>. QED  BY <2>2, <2>3, <2>4, <2>5 DEF Watched, Reach
<1>5. ASSUME watch # NotWatching, watch.page = p, watch' = [watch EXCEPT !.since = {}]
      PROVE  Watched'
  <2>1. watch.slot = s
    <3>1. watch.slot \in Slots /\ cache[watch.slot].page = p
      BY <1>5 DEF LooseInv, Watched
    <3>2. watch.slot # s => cache'[watch.slot].page = p
      BY <3>1
    <3>. QED  BY <1>2, <3>1, <3>2
  <2>2. watch'.page = p /\ watch'.slot = s /\ watch'.since = {}
        /\ watch' \in [page : Pages, slot : Slots, since : SUBSET Pages]
    BY <1>5, <2>1 DEF LooseInv, Watched
  <2>. QED  BY <1>1, <2>2, NoneAsked DEF Watched
<1>6. ASSUME watch # NotWatching, watch.page # p, watch' = AskedFor(p), watch' # NotWatching
      PROVE  Watched'
  <2>. DEFINE w == watch.slot
  <2>1. /\ watch \in [page : Pages, slot : Slots, since : SUBSET Pages]
        /\ cache[w].page = watch.page
        /\ \A t \in Slots : lru[t] > lru[w] /\ ~Free(t) => cache[t].page \in watch.since
    BY <1>6 DEF LooseInv, Watched
  <2>2. w \in Slots /\ w # s
    BY <1>6, <2>1
  <2>3. /\ AskedFor(p) = [watch EXCEPT !.since = watch.since \union {p}]
        /\ IsFiniteSet(watch.since \union {p}) /\ Cardinality(watch.since \union {p}) <= Reach
    BY <1>6, Asked
  <2>4. /\ watch'.page = watch.page /\ watch'.slot = w /\ watch'.since = watch.since \union {p}
        /\ watch' \in [page : Pages, slot : Slots, since : SUBSET Pages]
    BY <1>6, <2>1, <2>3
  <2>5. ASSUME NEW t \in Slots, lru'[t] > lru'[w], ~Free(t)'
        PROVE  cache'[t].page \in watch.since \union {p}
    <3>1. t = s \/ lru[t] > lru[w]
      BY <2>2, <2>5, TouchOrder DEF LooseInv, Inv
    <3>. QED  BY <2>1, <2>5, <3>1 DEF Free
  <2>6. cache'[w].page = watch.page
    BY <2>1, <2>2
  <2>. QED  BY <2>3, <2>4, <2>5, <2>6 DEF Watched
<1>7. Given(p) => \/ watch' = NotWatching
                  \/ \E t \in Slots : cache'[t].page = p
                                       /\ watch' = [page |-> p, slot |-> t, since |-> {}]
                  \/ /\ watch # NotWatching
                     /\ watch' = IF watch.page = p THEN [watch EXCEPT !.since = {}] ELSE AskedFor(p)
  BY DEF Given
<1>. QED  BY <1>2, <1>3, <1>4, <1>5, <1>6, <1>7

\* A page found in the cache, or loaded into it, and handed out.
LEMMA GetKeepsWatched ==
  ASSUME LooseInv, Inv', NEW p \in Pages, NEW write \in BOOLEAN, NEW v \in Values,
         GetHit(p, write, v) \/ GetMiss(p, write, v), Given(p)
  PROVE  Watched'
<1>1. CASE GetHit(p, write, v)
  <2>1. PICK s \in Slots :
          /\ cache[s].page = p
          /\ cache' = [cache EXCEPT ![s] = Marked(s, write, Buffered(write, v, cache[s].buf))]
          /\ lru' = Touch(s)
    BY <1>1 DEF GetHit
  <2>2. \A t \in Slots : cache'[t].page = cache[t].page
    BY <2>1 DEF LooseInv, Inv, TypeOK, Marked
  <2>3. watch # NotWatching /\ watch.slot = s => watch.page = p
    BY <2>1 DEF LooseInv, Watched
  <2>. QED  BY <2>1, <2>2, <2>3, GivenWatched
<1>2. CASE GetMiss(p, write, v)
  <2>1. PICK s \in Slots :
          /\ ~Resident(p)
          /\ IsVictim(s)
          /\ cache' = [cache EXCEPT ![s] = [page |-> p, dirty |-> write, pin |-> 0,
                                            buf |-> Buffered(write, v, disk[p])]]
          /\ lru' = Touch(s)
    BY <1>2 DEF GetMiss
  <2>2. cache'[s].page = p /\ \A t \in Slots : t # s => cache'[t].page = cache[t].page
    BY <2>1 DEF LooseInv, Inv, TypeOK
  <2>3. watch # NotWatching /\ watch.slot = s => AskedFor(p) = NotWatching
    BY <2>1, VictimGivesUp
  <2>. QED  BY <2>1, <2>2, <2>3, GivenWatched
<1>. QED  BY <1>1, <1>2

\* A load that failed has evicted nothing, and counts as a page asked for.
LEMMA FailKeepsWatched ==
  ASSUME LooseInv, NEW p \in Pages, GiveFails(p)
  PROVE  Watched'
<1>1. lru' = lru /\ \A t \in Slots : cache'[t].page = cache[t].page
  <2>1. CASE GetMissFlushFails(p)
    BY <2>1 DEF GetMissFlushFails
  <2>2. CASE GetMissReadFails(p)
    <3>0. PICK s \in Slots :
            \E b : cache' = [cache EXCEPT ![s] = [cache[s] EXCEPT !.dirty = FALSE, !.buf = b]]
      BY <2>2 DEF GetMissReadFails
    <3>1. PICK b : cache' = [cache EXCEPT ![s] = [cache[s] EXCEPT !.dirty = FALSE, !.buf = b]]
      BY <3>0
    <3>2. cache[s] \in SlotRecords
      BY DEF LooseInv, Inv, TypeOK
    <3>3. [cache[s] EXCEPT !.dirty = FALSE, !.buf = b].page = cache[s].page
      BY <3>2 DEF SlotRecords
    <3>4. lru' = lru
      BY <2>2 DEF GetMissReadFails
    <3>. QED  BY <3>1, <3>3, <3>4 DEF LooseInv, Inv, TypeOK
  <2>. QED  BY <2>1, <2>2 DEF GiveFails
<1>2. watch' = AskedFor(p)
  BY DEF GiveFails
<1>3. CASE watch' = NotWatching
  BY <1>3 DEF Watched
<1>4. CASE watch' # NotWatching
  <2>1. watch # NotWatching
    BY <1>2, <1>4 DEF AskedFor
  <2>2. /\ AskedFor(p) = [watch EXCEPT !.since = watch.since \union {p}]
        /\ IsFiniteSet(watch.since \union {p}) /\ Cardinality(watch.since \union {p}) <= Reach
    BY <1>2, <1>4, <2>1, Asked
  <2>3. /\ watch \in [page : Pages, slot : Slots, since : SUBSET Pages]
        /\ cache[watch.slot].page = watch.page
        /\ \A t \in Slots : lru[t] > lru[watch.slot] /\ ~Free(t) => cache[t].page \in watch.since
    BY <2>1 DEF LooseInv, Watched
  <2>4. /\ watch'.page = watch.page /\ watch'.slot = watch.slot /\ watch'.since = watch.since \union {p}
        /\ watch' \in [page : Pages, slot : Slots, since : SUBSET Pages]
    BY <1>2, <2>2, <2>3
  <2>. QED  BY <1>1, <2>2, <2>3, <2>4 DEF Watched, Free
<1>. QED  BY <1>3, <1>4

\* Pins, stores through them and commits move no page.
LEMMA PinsMoveNothing ==
  ASSUME Inv, PinsAndCommits
  PROVE  lru' = lru /\ \A t \in Slots : cache'[t].page = cache[t].page
<1>0. cache \in [Slots -> SlotRecords]
  BY DEF Inv, TypeOK
<1>1. ASSUME NEW l \in PinLevels, NEW write \in BOOLEAN, Pin(l, write)
      PROVE  lru' = lru /\ \A t \in Slots : cache'[t].page = cache[t].page
  BY <1>0, <1>1 DEF Pin, SlotRecords
<1>2. ASSUME NEW l \in PinLevels, Unpin(l)
      PROVE  lru' = lru /\ \A t \in Slots : cache'[t].page = cache[t].page
  BY <1>0, <1>2 DEF Unpin, SlotRecords
<1>3. ASSUME NEW l \in PinLevels, NEW v \in Values, StorePinned(l, v)
      PROVE  lru' = lru /\ \A t \in Slots : cache'[t].page = cache[t].page
  BY <1>0, <1>3 DEF StorePinned, SlotRecords
<1>4. CASE Commit \/ CommitFails
  BY <1>0, <1>4 DEF Commit, CommitFails, Clean, SlotRecords
<1>. QED  BY <1>1, <1>2, <1>3, <1>4 DEF PinsAndCommits

\* A step of the cache, whatever the holder of the pointer does.
LEMMA LooseStep == [LooseNext]_loose => [Next]_vars
BY DEF LooseNext, loose, vars, Next, GiveRead, GiveWrite, GiveFails, GetFails, PinsAndCommits

\* Every step keeps the pointer followed alive.
LEMMA LooseNextKeeps ==
  ASSUME LooseInv, [LooseNext]_loose
  PROVE  LooseInv'
<1>1. Inv'
  BY LooseStep, NextKeepsInv DEF LooseInv
<1>2. ASSUME NEW p \in Pages, GiveRead(p)
      PROVE  Watched'
  BY <1>1, <1>2, GetKeepsWatched DEF GiveRead, ReadPage
<1>3. ASSUME NEW p \in Pages, NEW v \in Values, GiveWrite(p, v)
      PROVE  Watched'
  BY <1>1, <1>3, GetKeepsWatched DEF GiveWrite, WritePage
<1>4. ASSUME NEW p \in Pages, GiveFails(p)
      PROVE  Watched'
  BY <1>4, FailKeepsWatched
<1>5. CASE PinsAndCommits
  <2>1. lru' = lru /\ watch' = watch /\ \A t \in Slots : cache'[t].page = cache[t].page
    BY <1>5, PinsMoveNothing DEF LooseInv, PinsAndCommits
  <2>2. Watched'
    BY <2>1 DEF LooseInv, Watched, Free, Reach
  <2>. QED  BY <1>1, <2>2 DEF LooseInv
<1>6. CASE watch' = NotWatching
  <2>1. Watched'
    BY <1>6 DEF Watched
  <2>. QED  BY <1>1, <2>1 DEF LooseInv
<1>7. CASE UNCHANGED loose
  <2>1. Watched'
    BY <1>7 DEF loose, LooseInv, Watched, Free, Reach
  <2>. QED  BY <1>1, <2>1 DEF LooseInv
<1>. QED  BY <1>1, <1>2, <1>3, <1>4, <1>5, <1>6, <1>7 DEF LooseNext, LooseInv

\* Every behaviour of the cache with one unpinned pointer followed.
LEMMA LooseInvariant == LooseSpec => []LooseInv
<1>1. LooseInit => LooseInv
  BY InitInv DEF LooseInit, LooseInv, Watched
<1>2. LooseInv /\ [LooseNext]_loose => LooseInv'
  BY LooseNextKeeps
<1>. QED  BY <1>1, <1>2, PTL DEF LooseSpec

\* The rule the library's raw pointers rest on: an unpinned pointer stays valid as long as its
\* holder has asked for fewer other pages than there are slots no pin can take, for every
\* number of slots and pins, whatever is loaded, stored or fails meanwhile.
THEOREM UnpinnedPointersLive == LooseSpec => []LoosePointerLive
<1>1. LooseInv => LoosePointerLive
  BY DEF LooseInv, Watched, LoosePointerLive
<1>. QED  BY <1>1, LooseInvariant, PTL

\* Nor has a load that failed half way touched the buffer it points into.
THEOREM UnpinnedBuffersIntact == LooseSpec => LooseBufferIntact
<1>1. ASSUME LooseInv, [LooseNext]_loose, watch # NotWatching, watch'.page = watch.page,
             cache[watch.slot].buf # Torn
      PROVE  cache'[watch.slot].buf # Torn
  <2>. DEFINE w == watch.slot
  <2>0. /\ w \in Slots /\ watch.page \in Pages /\ cache[w].page = watch.page
        /\ cache \in [Slots -> SlotRecords] /\ NotWatching.page = NoPage
    BY <1>1 DEF LooseInv, Inv, TypeOK, Watched, NotWatching
  <2>1. watch' # NotWatching
    BY <1>1, <2>0
  <2>2. \A v \in Values : v # Torn
    OBVIOUS
  <2>3. ASSUME NEW p \in Pages, NEW write \in BOOLEAN, NEW v \in Values,
               GetHit(p, write, v)
        PROVE  cache'[w].buf # Torn
    BY <1>1, <2>0, <2>2, <2>3 DEF GetHit, Marked, Buffered, SlotRecords
  <2>4. ASSUME NEW p \in Pages, NEW write \in BOOLEAN, NEW v \in Values,
               GetMiss(p, write, v), Given(p)
        PROVE  cache'[w].buf # Torn
    <3>1. PICK s \in Slots :
            /\ ~Resident(p)
            /\ IsVictim(s)
            /\ cache' = [cache EXCEPT ![s] = [page |-> p, dirty |-> write, pin |-> 0,
                                              buf |-> Buffered(write, v, disk[p])]]
      BY <2>4 DEF GetMiss
    <3>2. watch.page # p
      BY <2>0, <3>1 DEF Resident
    <3>3. watch' = AskedFor(p)
      BY <1>1, <2>4, <3>2 DEF Given
    <3>4. s # w
      BY <1>1, <2>1, <3>1, <3>3, VictimGivesUp
    <3>. QED  BY <1>1, <2>0, <3>1, <3>4
  <2>5. ASSUME NEW p \in Pages, GiveFails(p)
        PROVE  cache'[w].buf # Torn
    <3>1. CASE GetMissFlushFails(p)
      BY <1>1, <3>1 DEF GetMissFlushFails
    <3>2. CASE GetMissReadFails(p)
      <4>0. PICK s \in Slots :
              /\ ~Resident(p)
              /\ IsVictim(s)
              /\ \E b : cache' = [cache EXCEPT ![s] = [cache[s] EXCEPT !.dirty = FALSE, !.buf = b]]
        BY <3>2 DEF GetMissReadFails
      <4>1. PICK b :
              /\ ~Resident(p)
              /\ IsVictim(s)
              /\ cache' = [cache EXCEPT ![s] = [cache[s] EXCEPT !.dirty = FALSE, !.buf = b]]
        BY <4>0
      <4>2. watch' = AskedFor(p)
        BY <2>5 DEF GiveFails
      <4>3. s # w
        BY <1>1, <2>1, <4>1, <4>2, VictimGivesUp
      <4>. QED  BY <1>1, <2>0, <4>1, <4>3
    <3>. QED  BY <2>5, <3>1, <3>2 DEF GiveFails
  <2>6. CASE PinsAndCommits
    <3>1. ASSUME NEW l \in PinLevels, NEW write \in BOOLEAN, Pin(l, write)
          PROVE  cache'[w].buf # Torn
      BY <1>1, <2>0, <3>1 DEF Pin, SlotRecords
    <3>2. ASSUME NEW l \in PinLevels, Unpin(l)
          PROVE  cache'[w].buf # Torn
      BY <1>1, <2>0, <3>2 DEF Unpin, SlotRecords
    <3>3. ASSUME NEW l \in PinLevels, NEW v \in Values, StorePinned(l, v)
          PROVE  cache'[w].buf # Torn
      BY <1>1, <2>0, <2>2, <3>3 DEF StorePinned, SlotRecords
    <3>4. CASE Commit \/ CommitFails
      BY <1>1, <2>0, <3>4 DEF Commit, CommitFails, Clean, SlotRecords
    <3>. QED  BY <2>6, <3>1, <3>2, <3>3, <3>4 DEF PinsAndCommits
  <2>7. CASE UNCHANGED loose
    BY <1>1, <2>7 DEF loose
  <2>. QED  BY <1>1, <2>1, <2>3, <2>4, <2>5, <2>6, <2>7
            DEF LooseNext, GiveRead, GiveWrite, ReadPage, WritePage
<1>2. LooseInv /\ [LooseNext]_loose
      => [/\ watch # NotWatching
          /\ watch'.page = watch.page
          /\ cache[watch.slot].buf # Torn
          => cache'[watch.slot].buf # Torn]_loose
  BY <1>1
<1>. QED  BY <1>2, LooseInvariant, PTL DEF LooseSpec, LooseBufferIntact

-----------------------------------------------------------------------------
(***************************************************************************)
(* The cache implements the plain page memory of PageStore, when a failed  *)
(* read leaves the buffer alone.  Every step of the cache is a read, a     *)
(* write, a commit or a loss of the page memory, or leaves it unchanged.   *)
(***************************************************************************)
\* A resident page reads as its slot's buffer, any other as the disk.
LEMMA ViewAt ==
  Inv => \A p \in Pages :
           /\ \A s \in Slots : cache[s].page = p => View[p] = cache[s].buf
           /\ ~Resident(p) => View[p] = disk[p]
<1>. SUFFICES ASSUME Inv, NEW p \in Pages
              PROVE  /\ \A s \in Slots : cache[s].page = p => View[p] = cache[s].buf
                     /\ ~Resident(p) => View[p] = disk[p]
  OBVIOUS
<1>1. ASSUME NEW s \in Slots, cache[s].page = p
      PROVE  View[p] = cache[s].buf
  <2>. DEFINE c == CHOOSE t \in Slots : cache[t].page = p
  <2>1. c \in Slots /\ cache[c].page = p
    BY <1>1
  <2>2. c = s
    BY <1>1, <2>1 DEF Inv, OneSlotPerPage, Free
  <2>3. Resident(p)
    BY <1>1 DEF Resident
  <2>. QED  BY <2>2, <2>3 DEF View
<1>. QED  BY <1>1 DEF View

\* The same after a step.
LEMMA ViewAtNext ==
  Inv' => \A p \in Pages :
           /\ \A s \in Slots : cache'[s].page = p => View'[p] = cache'[s].buf
           /\ ~Resident(p)' => View'[p] = disk'[p]
<1>1. (Inv => \A p \in Pages :
           /\ \A s \in Slots : cache[s].page = p => View[p] = cache[s].buf
           /\ ~Resident(p) => View[p] = disk[p])'
  BY ViewAt, PTL
<1>. QED  BY <1>1 DEF Slots, Resident

\* What is seen has the type of a disk.
LEMMA ViewType ==
  Inv => View \in [Pages -> Contents] /\ Pending \in SUBSET Pages
<1>. SUFFICES ASSUME Inv, NEW p \in Pages
              PROVE  View[p] \in Contents
  BY DEF View, Pending
<1>1. disk[p] \in Contents /\ \A s \in Slots : cache[s].buf \in Contents
  BY DEF Inv, TypeOK, SlotRecords
<1>. QED  BY <1>1, ViewAt DEF Resident

\* A page that is not pending reads as the disk.
LEMMA NotPendingOnDisk ==
  ASSUME Coherent, NEW p \in Pages, p \notin Pending
  PROVE  View[p] = disk[p]
<1>1. CASE Resident(p)
  <2>. PICK s \in Slots : cache[s].page = p
    BY <1>1 DEF Resident
  <2>1. ~cache[s].dirty
    BY DEF Pending
  <2>2. ~Free(s)
    BY DEF Free
  <2>. QED  BY <2>1, <2>2, ViewAt DEF Coherent, CleanIsOnDisk
<1>2. CASE ~Resident(p)
  BY <1>2, ViewAt DEF Coherent
<1>. QED  BY <1>1, <1>2

\* After the slots of F were stored, what every page holds on the disk.
LEMMA FlushedView ==
  ASSUME Coherent, NEW F \in SUBSET Slots, NEW p \in Pages
  PROVE  /\ Flushed(F)[p] = View[p] \/ (p \in Pending /\ Flushed(F)[p] = disk[p])
         /\ (\A s \in Slots : cache[s].page = p /\ cache[s].dirty => s \in F)
              => Flushed(F)[p] = View[p]
<1>1. CASE \E s \in F : cache[s].page = p /\ cache[s].dirty
  BY <1>1, FlushedAt, ViewAt DEF Coherent
<1>2. CASE \A s \in F : ~(cache[s].page = p /\ cache[s].dirty)
  <2>1. Flushed(F)[p] = disk[p]
    BY <1>2, FlushedAt DEF Coherent
  <2>2. p \notin Pending => View[p] = disk[p]
    BY NotPendingOnDisk
  <2>3. p \in Pending => \E s \in Slots : cache[s].page = p /\ cache[s].dirty
    BY DEF Pending
  <2>. QED  BY <1>2, <2>1, <2>2, <2>3
<1>. QED  BY <1>1, <1>2

\* So it has after a step.
LEMMA TypesNext == Inv' => /\ View' \in [Pages -> Contents]
                           /\ disk' \in [Pages -> Contents]
                           /\ Pending' \in SUBSET Pages
<1>1. (Inv => View \in [Pages -> Contents] /\ Pending \in SUBSET Pages)'
  BY ViewType, PTL
<1>. QED  BY <1>1 DEF Inv, TypeOK, Contents

\* What has to be shown of the disk, page by page.
LEMMA DiskSettles ==
  ASSUME Inv',
         \A q \in Pages : q \notin Pending => disk'[q] = disk[q],
         \A q \in Pages : q \in Pending /\ q \notin Pending' => disk'[q] = View[q],
         \A q \in Pages : q \in Pending /\ q \in Pending' => disk'[q] \in {disk[q], Torn}
  PROVE  Store!Settles
<1>1. ASSUME NEW q \in Pages
      PROVE  disk'[q] \in Store!MaySettle(q)
  BY DEF Store!MaySettle
<1>. QED  BY <1>1, TypesNext DEF Store!Settles, Store!Contents, Contents

\* A step that leaves the disk alone settles nothing, if what was pending stays pending.
LEMMA SameDiskSettles ==
  ASSUME Inv', UNCHANGED disk, Pending \subseteq Pending'
  PROVE  Store!Settles
BY DiskSettles

\* A hit is a read or a write of the store.
LEMMA HitImplements ==
  ASSUME Coherent, Inv', NEW p \in Pages, NEW write \in BOOLEAN, NEW v \in Values,
         GetHit(p, write, v)
  PROVE  IF write THEN Store!Write(p, v) ELSE Store!Read(p)
<1>. PICK s \in Slots :
       /\ cache[s].page = p
       /\ cache' = [cache EXCEPT ![s] = Marked(s, write, Buffered(write, v, cache[s].buf))]
       /\ out' = Answer(write, cache[s].buf)
       /\ UNCHANGED <<disk, held>>
  BY DEF GetHit
<1>1. cache'[s] = Marked(s, write, Buffered(write, v, cache[s].buf))
      /\ \A t \in Slots : t # s => cache'[t] = cache[t]
  BY DEF Coherent, Inv, TypeOK
<1>2. cache'[s].page = p /\ cache'[s].buf = Buffered(write, v, cache[s].buf)
  BY <1>1 DEF Marked
<1>3. cache'[s].dirty = (cache[s].dirty \/ write)
  <2>1. Marked(s, write, Buffered(write, v, cache[s].buf)).dirty = (cache[s].dirty \/ write)
    BY Zenon DEF Marked
  <2>. QED  BY <1>1, <2>1, Zenon
<1>4. \A t \in Slots : cache'[t].page = cache[t].page
  BY <1>1, <1>2
<1>5. ASSUME NEW q \in Pages, q # p
      PROVE  View'[q] = View[q] /\ (q \in Pending' <=> q \in Pending)
  <2>1. CASE Resident(q)
    <3>. PICK t \in Slots : cache[t].page = q
      BY <2>1 DEF Resident
    <3>1. cache'[t] = cache[t]
      BY <1>1, <1>5
    <3>. QED  BY <1>1, <1>2, <1>5, <3>1, ViewAt, ViewAtNext DEF Coherent, Pending
  <2>2. CASE ~Resident(q)
    <3>1. ~Resident(q)'
      BY <1>4, <2>2 DEF Resident
    <3>. QED  BY <1>4, <2>2, <3>1, ViewAt, ViewAtNext DEF Coherent, Pending, Resident
  <2>. QED  BY <2>1, <2>2
<1>6. View'[p] = Buffered(write, v, View[p]) /\ out' = Answer(write, View[p])
  BY <1>2, ViewAt, ViewAtNext DEF Coherent
<1>7. write => p \in Pending'
  BY <1>2, <1>3 DEF Pending
<1>8. p \in Pending => p \in Pending'
  <2>. SUFFICES ASSUME p \in Pending
                PROVE  p \in Pending'
    OBVIOUS
  <2>1. cache[s].dirty
    BY DEF Pending, Coherent, Inv, OneSlotPerPage, Free
  <2>2. cache'[s].dirty
    BY <1>3, <2>1, Zenon
  <2>. QED  BY <1>2, <2>2 DEF Pending
<1>9. ~write => p \notin Pending' \/ p \in Pending
  <2>. SUFFICES ASSUME ~write, p \in Pending'
                PROVE  p \in Pending
    OBVIOUS
  <2>1. PICK t \in Slots : cache'[t].page = p /\ cache'[t].dirty
    BY DEF Pending
  <2>2. t = s
    BY <1>4, <2>1 DEF Coherent, Inv, OneSlotPerPage, Free
  <2>3. cache[s].dirty
    BY <1>3, <2>1, <2>2, Zenon
  <2>. QED  BY <2>3 DEF Pending
<1>10. Pending \in SUBSET Pages /\ Pending' \in SUBSET Pages
       /\ View \in [Pages -> Contents] /\ View' \in [Pages -> Contents]
  BY TypesNext, ViewType DEF Coherent
<1>11. Store!Settles
  BY <1>5, <1>8, <1>10, SameDiskSettles
<1>12. CASE write
  <2>1. View' = [View EXCEPT ![p] = v]
    BY <1>5, <1>6, <1>10, <1>12 DEF Buffered
  <2>2. Pending' \subseteq Pending \union {p}
    BY <1>5, <1>10
  <2>. QED  BY <1>6, <1>7, <1>11, <1>12, <2>1, <2>2 DEF Store!Write, Answer
<1>13. CASE ~write
  <2>1. View' = View
    BY <1>5, <1>6, <1>10, <1>13 DEF Buffered
  <2>2. Pending' \subseteq Pending
    BY <1>5, <1>9, <1>10, <1>13
  <2>. QED  BY <1>6, <1>11, <1>13, <2>1, <2>2 DEF Store!Read, Answer
<1>. QED  BY <1>12, <1>13

\* So is a miss, its eviction a step the store does not see.
LEMMA MissImplements ==
  ASSUME Coherent, Inv', NEW p \in Pages, NEW write \in BOOLEAN, NEW v \in Values,
         GetMiss(p, write, v)
  PROVE  IF write THEN Store!Write(p, v) ELSE Store!Read(p)
<1>. DEFINE new == [page |-> p, dirty |-> write, pin |-> 0, buf |-> Buffered(write, v, disk[p])]
<1>. PICK s \in Slots :
       /\ ~Resident(p)
       /\ disk' = Flushed({s})
       /\ cache' = [cache EXCEPT ![s] = new]
       /\ out' = Answer(write, disk[p])
  BY DEF GetMiss
<1>1. cache'[s] = new /\ \A t \in Slots : t # s => cache'[t] = cache[t]
  BY DEF Coherent, Inv, TypeOK
<1>2. ASSUME NEW q \in Pages, q # p
      PROVE  /\ View'[q] = View[q]
             /\ q \in Pending' => q \in Pending
             /\ q \notin Pending => disk'[q] = disk[q]
             /\ q \notin Pending' => disk'[q] = View[q]
             /\ q \in Pending' => disk'[q] = disk[q]
  <2>1. CASE cache[s].page = q
    <3>1. ~Resident(q)' /\ q \notin Pending'
      BY <1>1, <1>2, <2>1 DEF Coherent, Inv, OneSlotPerPage, Free, Resident, Pending
    <3>2. disk'[q] = View[q]
      BY <2>1, FlushedView DEF Coherent, Inv, OneSlotPerPage, Free
    <3>. QED  BY <3>1, <3>2, ViewAtNext, NotPendingOnDisk
  <2>2. CASE cache[s].page # q
    <3>1. disk'[q] = disk[q]
      BY <2>2, FlushedAt DEF Coherent
    <3>2. q \in Pending' <=> q \in Pending
      BY <1>1, <1>2, <2>2 DEF Pending
    <3>3. View'[q] = View[q]
      <4>1. CASE Resident(q)
        <5>. PICK t \in Slots : cache[t].page = q
          BY <4>1 DEF Resident
        <5>1. cache'[t] = cache[t]
          BY <1>1, <2>2
        <5>. QED  BY <5>1, ViewAt, ViewAtNext DEF Coherent
      <4>2. CASE ~Resident(q)
        <5>1. ~Resident(q)'
          BY <1>1, <1>2, <4>2 DEF Resident
        <5>. QED  BY <3>1, <4>2, <5>1, ViewAt, ViewAtNext DEF Coherent
      <4>. QED  BY <4>1, <4>2
    <3>. QED  BY <3>1, <3>2, <3>3, NotPendingOnDisk
  <2>. QED  BY <2>1, <2>2
<1>3. View[p] = disk[p] /\ p \notin Pending
  BY ViewAt DEF Coherent, Resident, Pending
<1>4. View'[p] = Buffered(write, v, View[p])
  BY <1>1, <1>3, ViewAtNext
<1>5. disk'[p] = disk[p]
  BY FlushedAt DEF Resident, Coherent
<1>6. (write => p \in Pending') /\ (p \in Pending' => write)
  <2>1. write => p \in Pending'
    BY <1>1 DEF Pending
  <2>2. p \in Pending' => write
    BY <1>1 DEF Pending, Resident
  <2>. QED  BY <2>1, <2>2
<1>7. Pending \in SUBSET Pages /\ Pending' \in SUBSET Pages
      /\ View \in [Pages -> Contents] /\ View' \in [Pages -> Contents]
  BY TypesNext, ViewType DEF Coherent
<1>8. Store!Settles
  BY <1>2, <1>3, <1>5, DiskSettles
<1>9. CASE write
  <2>1. View' = [View EXCEPT ![p] = v]
    BY <1>2, <1>4, <1>7, <1>9 DEF Buffered
  <2>2. Pending' \subseteq Pending \union {p}
    BY <1>2, <1>7
  <2>. QED  BY <1>6, <1>8, <1>9, <2>1, <2>2 DEF Store!Write, Answer
<1>10. CASE ~write
  <2>1. View' = View
    BY <1>2, <1>4, <1>7, <1>10 DEF Buffered
  <2>2. Pending' \subseteq Pending
    BY <1>2, <1>6, <1>7, <1>10
  <2>. QED  BY <1>3, <1>8, <1>10, <2>1, <2>2 DEF Store!Read, Answer
<1>. QED  BY <1>9, <1>10

-----------------------------------------------------------------------------
\* A step that moves no page and changes no buffer, and touches only pending pages of the
\* disk, leaves every page reading as before.
LEMMA SameView ==
  ASSUME Coherent, Inv',
         \A t \in Slots : cache'[t].page = cache[t].page /\ cache'[t].buf = cache[t].buf,
         \A q \in Pages : q \notin Pending => disk'[q] = disk[q]
  PROVE  View' = View
<1>1. ASSUME NEW q \in Pages
      PROVE  View'[q] = View[q]
  <2>1. CASE Resident(q)
    <3>. PICK t \in Slots : cache[t].page = q
      BY <2>1 DEF Resident
    <3>. QED  BY ViewAt, ViewAtNext DEF Coherent
  <2>2. CASE ~Resident(q)
    <3>1. ~Resident(q)' /\ q \notin Pending
      BY <2>2 DEF Resident, Pending
    <3>. QED  BY <2>2, <3>1, ViewAt, ViewAtNext DEF Coherent
  <2>. QED  BY <2>1, <2>2
<1>. QED  BY <1>1, ViewType, TypesNext DEF Coherent

\* An eviction that fails may tear a pending page.
LEMMA FlushFailsImplements ==
  ASSUME Coherent, Inv', NEW p \in Pages, GetMissFlushFails(p)
  PROVE  Store!Read(p)
<1>. PICK s \in Slots : FailedStore({}, s)
  BY DEF GetMissFlushFails
<1>1. UNCHANGED cache /\ out' = NoPage
  BY DEF GetMissFlushFails
<1>2. Pending' = Pending
  BY <1>1 DEF Pending
<1>3. \A q \in Pages : disk'[q] = disk[q] \/ (q \in Pending /\ disk'[q] = Torn)
  BY FailedStoreAt, FlushedAt DEF Coherent, Pending, FailedStore
<1>4. View' = View
  BY <1>1, <1>2, <1>3, NotPendingOnDisk, SameView
<1>5. Store!Settles
  <2>1. \A q \in Pages : q \notin Pending => disk'[q] = disk[q]
    BY <1>3
  <2>. QED  BY <1>2, <1>3, <2>1, DiskSettles
<1>. QED  BY <1>1, <1>2, <1>4, <1>5 DEF Store!Read

\* A read that fails is a read.
LEMMA ReadFailsImplements ==
  ASSUME Coherent, Inv', "torn_read" \notin Faults, NEW p \in Pages, GetMissReadFails(p)
  PROVE  Store!Read(p)
<1>. PICK s \in Slots :
       /\ disk' = Flushed({s})
       /\ cache' = [cache EXCEPT ![s] = [cache[s] EXCEPT !.dirty = FALSE, !.buf = cache[s].buf]]
       /\ out' = NoPage
  BY DEF GetMissReadFails
<1>1. ASSUME NEW t \in Slots
      PROVE  /\ cache'[t].page = cache[t].page /\ cache'[t].buf = cache[t].buf
             /\ t # s => cache'[t].dirty = cache[t].dirty
             /\ t = s => cache'[t].dirty = FALSE
  <2>1. cache[t] \in SlotRecords /\ cache \in [Slots -> SlotRecords]
    BY DEF Coherent, Inv, TypeOK
  <2>. QED  BY <2>1 DEF SlotRecords
<1>2. ASSUME NEW q \in Pages
      PROVE  /\ q \in Pending' => q \in Pending /\ disk'[q] = disk[q]
             /\ q \in Pending /\ q \notin Pending' => disk'[q] = View[q]
             /\ q \notin Pending => disk'[q] = disk[q]
  <2>1. q \in Pending' => \E t \in Slots : t # s /\ cache[t].page = q /\ cache[t].dirty
    BY <1>1 DEF Pending
  <2>2. q \in Pending' => cache[s].page # q
    BY <2>1 DEF Coherent, Inv, OneSlotPerPage, Free
  <2>3. q \in Pending /\ q \notin Pending'
          => \A t \in Slots : cache[t].page = q /\ cache[t].dirty => t \in {s}
    BY <1>1 DEF Pending
  <2>4. q \in Pending' => disk'[q] = disk[q]
    BY <2>2, FlushedAt DEF Coherent
  <2>5. q \in Pending /\ q \notin Pending' => disk'[q] = View[q]
    BY <2>3, FlushedView
  <2>6. q \notin Pending => disk'[q] = disk[q]
    BY FlushedView, NotPendingOnDisk
  <2>7. q \in Pending' => q \in Pending
    BY <2>1 DEF Pending
  <2>. QED  BY <2>4, <2>5, <2>6, <2>7
<1>3. View' = View
  BY <1>1, <1>2, SameView
<1>4. Store!Settles
  BY <1>2, DiskSettles
<1>5. Pending' \subseteq Pending
  BY <1>2, TypesNext
<1>. QED  BY <1>3, <1>4, <1>5 DEF Store!Read

-----------------------------------------------------------------------------
\* Taking and dropping a pin is invisible: the pages read as before.
LEMMA PinsStutter ==
  ASSUME Coherent, Inv', NEW l \in PinLevels, NEW write \in BOOLEAN, Pin(l, write) \/ Unpin(l)
  PROVE  UNCHANGED Store!vars
<1>1. ASSUME NEW t \in Slots
      PROVE  cache'[t].page = cache[t].page /\ cache'[t].buf = cache[t].buf
             /\ cache'[t].dirty = cache[t].dirty
  <2>1. cache[t] \in SlotRecords /\ cache \in [Slots -> SlotRecords]
    BY DEF Coherent, Inv, TypeOK
  <2>2. CASE Pin(l, write)
    <3>. PICK s \in Slots : cache' = [cache EXCEPT ![s].pin = @ + 1]
      BY <2>2 DEF Pin
    <3>. QED  BY <2>1 DEF SlotRecords
  <2>3. CASE Unpin(l)
    <3>1. cache'[t] = cache[t] \/ cache'[t] = [cache[t] EXCEPT !.pin = @ - 1]
      BY <2>3 DEF Unpin
    <3>. QED  BY <2>1, <3>1 DEF SlotRecords
  <2>. QED  BY <2>2, <2>3
<1>2. UNCHANGED <<disk, out>>
  BY DEF Pin, Unpin
<1>3. View' = View
  BY <1>1, <1>2, SameView
<1>4. Pending' = Pending
  BY <1>1 DEF Pending
<1>. QED  BY <1>2, <1>3, <1>4 DEF Store!vars

\* A store through a pinned pointer is a write of the held page.
LEMMA StorePinnedImplements ==
  ASSUME Coherent, Inv', NEW l \in PinLevels, NEW v \in Values, StorePinned(l, v)
  PROVE  Store!Write(held[l].page, v)
<1>. DEFINE s == held[l].slot
            p == held[l].page
<1>1. s \in Slots /\ p \in Pages /\ cache[s].page = p /\ cache[s].dirty
  BY HeldType DEF StorePinned, Coherent, Inv, HeldSlots
<1>2. cache' = [cache EXCEPT ![s].buf = v] /\ UNCHANGED disk /\ out' = Ok
  BY DEF StorePinned
<1>3. /\ cache'[s].buf = v
      /\ \A t \in Slots : cache'[t].page = cache[t].page /\ cache'[t].dirty = cache[t].dirty
                          /\ (t # s => cache'[t].buf = cache[t].buf)
  BY <1>1, <1>2 DEF Coherent, Inv, TypeOK, SlotRecords
<1>4. Pending' = Pending /\ p \in Pending
  BY <1>1, <1>3 DEF Pending
<1>5. ASSUME NEW q \in Pages, q # p
      PROVE  View'[q] = View[q]
  <2>1. CASE Resident(q)
    <3>. PICK t \in Slots : cache[t].page = q
      BY <2>1 DEF Resident
    <3>. QED  BY <1>1, <1>3, <1>5, ViewAt, ViewAtNext DEF Coherent
  <2>2. CASE ~Resident(q)
    <3>1. ~Resident(q)'
      BY <1>3, <2>2 DEF Resident
    <3>. QED  BY <1>2, <2>2, <3>1, ViewAt, ViewAtNext DEF Coherent
  <2>. QED  BY <2>1, <2>2
<1>6. View'[p] = v
  BY <1>1, <1>3, ViewAtNext
<1>7. View' = [View EXCEPT ![p] = v]
  <2>1. View \in [Pages -> Contents] /\ View' \in [Pages -> Contents]
    BY ViewType, TypesNext DEF Coherent
  <2>. HIDE DEF p
  <2>. QED  BY <1>1, <1>5, <1>6, <2>1
<1>8. Store!Settles
  BY <1>2, <1>4, SameDiskSettles
<1>9. Pending' \subseteq Pending \union {p}
  BY <1>4
<1>. QED  BY <1>2, <1>4, <1>7, <1>8, <1>9 DEF Store!Write

-----------------------------------------------------------------------------
\* A commit makes the disk what is seen.
LEMMA CommitImplements ==
  ASSUME Coherent, Inv', Commit
  PROVE  Store!Commit
<1>1. cache' = Clean(Slots) /\ disk' = Flushed(Slots) /\ out' = Ok
  BY DEF Commit
<1>2. Pending' = {}
  BY <1>1, CleanType DEF Pending, Coherent
<1>3. \A q \in Pages : disk'[q] = View[q]
  BY <1>1, FlushedView
<1>4. disk' = View
  BY <1>3, ViewType, TypesNext DEF Coherent
<1>5. View' = View
  <2>1. \A t \in Slots : cache'[t].page = cache[t].page /\ cache'[t].buf = cache[t].buf
    BY <1>1, CleanType DEF Coherent
  <2>. QED  BY <1>3, <2>1, NotPendingOnDisk, SameView
<1>. QED  BY <1>1, <1>2, <1>4, <1>5 DEF Store!Commit

\* What a flush that stopped at slot s left on the disk, page by page.
LEMMA StoppedFlush ==
  ASSUME Coherent, NEW s \in Slots, FailedStore(0 .. s - 1, s), NEW q \in Pages
  PROVE  /\ q \notin Pending => disk'[q] = disk[q]
         /\ disk'[q] \in {View[q], disk[q], Torn}
         /\ q \in Pending /\ (\A t \in Slots : cache[t].page = q /\ cache[t].dirty => t \in 0 .. s - 1)
              => disk'[q] = View[q]
         /\ q \in Pending /\ (\E t \in Slots : cache[t].page = q /\ cache[t].dirty /\ t \notin 0 .. s - 1)
              => disk'[q] \in {disk[q], Torn}
<1>. DEFINE F == 0 .. s - 1
<1>1. F \in SUBSET Slots /\ s \notin F
  BY DEF Slots
<1>. HIDE DEF F
<1>2. disk'[q] = Flushed(F)[q] \/ (q = cache[s].page /\ disk'[q] = Torn)
  BY <1>1, FailedStoreAt DEF Coherent, F
<1>3. cache[s].dirty
  BY DEF FailedStore
<1>4. q = cache[s].page => q \in Pending
  BY <1>3 DEF Pending
<1>5. q \notin Pending => disk'[q] = disk[q]
  BY <1>1, <1>2, <1>4, FlushedView, NotPendingOnDisk
<1>6. disk'[q] \in {View[q], disk[q], Torn}
  BY <1>1, <1>2, FlushedView
<1>7. ASSUME q \in Pending, \A t \in Slots : cache[t].page = q /\ cache[t].dirty => t \in F
      PROVE  disk'[q] = View[q]
  <2>1. q # cache[s].page
    BY <1>1, <1>3, <1>7
  <2>. QED  BY <1>1, <1>2, <1>7, <2>1, FlushedView
<1>8. ASSUME NEW t \in Slots, cache[t].page = q, cache[t].dirty, t \notin F
      PROVE  disk'[q] \in {disk[q], Torn}
  <2>1. \A u \in F : ~(cache[u].page = q /\ cache[u].dirty)
    BY <1>1, <1>8 DEF Coherent, Inv, OneSlotPerPage, Free
  <2>. QED  BY <1>1, <1>2, <2>1, FlushedAt DEF Coherent
<1>. QED  BY <1>5, <1>6, <1>7, <1>8 DEF F

\* A commit that fails makes part of it so.
LEMMA CommitFailsImplements ==
  ASSUME Coherent, Inv', CommitFails
  PROVE  Store!CommitFails
<1>. PICK s \in Slots : FailedStore(0 .. s - 1, s) /\ cache' = Clean(0 .. s - 1) /\ out' = IoError
  BY DEF CommitFails
<1>. DEFINE F == 0 .. s - 1
<1>0. F \in SUBSET Slots /\ cache' = Clean(F)
  BY DEF Slots
<1>1. \A t \in Slots : /\ cache'[t].page = cache[t].page /\ cache'[t].buf = cache[t].buf
                       /\ cache'[t].dirty <=> cache[t].dirty /\ t \notin F
  <2>. HIDE DEF F
  <2>. QED  BY <1>0, CleanType DEF Coherent
<1>2. \A q \in Pages : q \in Pending' <=>
        \E t \in Slots : cache[t].page = q /\ cache[t].dirty /\ t \notin 0 .. s - 1
  BY <1>1 DEF Pending
<1>3. Pending' \subseteq Pending
  BY <1>2, TypesNext DEF Pending
<1>4. View' = View
  BY <1>1, StoppedFlush, SameView
<1>5. Store!Settles
  <2>1. \A q \in Pages : q \in Pending /\ q \notin Pending' => disk'[q] = View[q]
    BY <1>2, StoppedFlush
  <2>2. \A q \in Pages : q \in Pending /\ q \in Pending' => disk'[q] \in {disk[q], Torn}
    BY <1>2, StoppedFlush
  <2>. QED  BY <2>1, <2>2, StoppedFlush, DiskSettles
<1>. QED  BY <1>3, <1>4, <1>5 DEF Store!CommitFails

\* A new handle reads the disk: what was pending is there, torn, or lost.
LEMMA ReopenImplements ==
  ASSUME Coherent, Inv', CloseAndReopen \/ CrashAndReopen
  PROVE  Store!Lose
<1>1. FreshHandle
  BY DEF CloseAndReopen, CrashAndReopen
<1>2. \A q \in Pages : disk'[q] \in {disk[q]} \union (IF q \in Pending THEN {View[q], Torn} ELSE {})
  <2>1. CASE CrashAndReopen
    BY <2>1 DEF CrashAndReopen
  <2>2. CASE disk' = Flushed(Slots)
    BY <2>2, FlushedView, NotPendingOnDisk
  <2>3. CASE \E s \in Slots : FailedStore(0 .. s - 1, s)
    BY <2>3, StoppedFlush
  <2>. QED  BY <2>1, <2>2, <2>3 DEF CloseAndReopen
<1>3. \A s \in Slots : cache'[s] = [page |-> NoPage, dirty |-> FALSE, pin |-> 0, buf |-> Torn]
  BY <1>1 DEF FreshHandle, EmptySlot
<1>4. Pending' = {}
  BY <1>3 DEF Pending
<1>5. \A q \in Pages : View'[q] = disk'[q]
  BY <1>3, ViewAtNext DEF Resident
<1>6. View' = disk' /\ disk' \in [Pages -> Contents]
  BY <1>5, TypesNext
<1>7. out' = Ok
  BY <1>1 DEF FreshHandle
<1>. QED  BY <1>2, <1>4, <1>6, <1>7 DEF Store!Lose, Store!Contents, Contents

-----------------------------------------------------------------------------
\* Every step of the cache is one of the store.
LEMMA StepImplements ==
  ASSUME "torn_read" \notin Faults, Coherent, Inv', [Next]_vars
  PROVE  [Store!Next]_(Store!vars)
<1>1. ASSUME NEW p \in Pages, ReadPage(p)
      PROVE  Store!Next
  <2>1. Store!Read(p)
    BY <1>1, HitImplements, MissImplements DEF ReadPage
  <2>. QED  BY <2>1 DEF Store!Next
<1>2. ASSUME NEW p \in Pages, NEW v \in Values, WritePage(p, v)
      PROVE  Store!Next
  <2>1. Store!Write(p, v)
    BY <1>2, HitImplements, MissImplements DEF WritePage
  <2>. QED  BY <2>1 DEF Store!Next
<1>3. ASSUME NEW p \in Pages, GetFails(p)
      PROVE  Store!Next
  <2>1. CASE GetOutOfRange
    <3>1. UNCHANGED <<cache, disk>> /\ out' = NoPage
      BY <2>1 DEF GetOutOfRange
    <3>2. Pending' = Pending
      BY <3>1 DEF Pending
    <3>3. View' = View
      BY <3>1, SameView
    <3>4. Store!Settles
      BY <3>1, <3>2, SameDiskSettles
    <3>5. Store!Read(p)
      BY <3>1, <3>2, <3>3, <3>4 DEF Store!Read
    <3>. QED  BY <3>5 DEF Store!Next
  <2>2. CASE GetMissFlushFails(p) \/ GetMissReadFails(p)
    <3>1. Store!Read(p)
      BY <2>2, FlushFailsImplements, ReadFailsImplements
    <3>. QED  BY <3>1 DEF Store!Next
  <2>. QED  BY <1>3, <2>1, <2>2 DEF GetFails
<1>4. ASSUME NEW l \in PinLevels, NEW write \in BOOLEAN, Pin(l, write) \/ Unpin(l)
      PROVE  UNCHANGED Store!vars
  BY <1>4, PinsStutter
<1>5. ASSUME NEW l \in PinLevels, NEW v \in Values, StorePinned(l, v)
      PROVE  Store!Next
  <2>1. Store!Write(held[l].page, v) /\ held[l].page \in Pages
    BY <1>5, StorePinnedImplements, HeldType DEF StorePinned, Coherent, Inv
  <2>. QED  BY <2>1 DEF Store!Next
<1>6. CASE Commit
  BY <1>6, CommitImplements DEF Store!Next
<1>7. CASE CommitFails
  BY <1>7, CommitFailsImplements DEF Store!Next
<1>8. CASE CloseAndReopen \/ CrashAndReopen
  BY <1>8, ReopenImplements DEF Store!Next
<1>9. CASE UNCHANGED vars
  <2>1. UNCHANGED <<cache, disk, out>>
    BY <1>9 DEF vars
  <2>2. Pending' = Pending
    BY <2>1 DEF Pending
  <2>3. View' = View
    BY <2>1, SameView
  <2>. QED  BY <2>1, <2>2, <2>3 DEF Store!vars
<1>. QED  BY <1>1, <1>2, <1>3, <1>4, <1>5, <1>6, <1>7, <1>8, <1>9 DEF Next

\* An empty cache shows the disk.
LEMMA InitImplements == Init => Store!Init
<1>. SUFFICES ASSUME Init
              PROVE  Store!Init
  OBVIOUS
<1>1. Inv
  BY InitInv
<1>2. \A s \in Slots : cache[s] = [page |-> NoPage, dirty |-> FALSE, pin |-> 0, buf |-> Torn]
  BY DEF Init, FreshCache, EmptySlot
<1>3. Pending = {}
  BY <1>2 DEF Pending
<1>4. \A q \in Pages : View[q] = disk[q]
  BY <1>1, <1>2, ViewAt DEF Resident
<1>5. disk \in [Pages -> Values] /\ View \in [Pages -> Contents] /\ out = Ok
  BY <1>1, ViewType DEF Init
<1>6. View = disk
  BY <1>4, <1>5
<1>. QED  BY <1>3, <1>5, <1>6 DEF Store!Init

\* Behind slots, pins, eviction and failing transfers, the page layer is a page memory:
\* reads return the last write or fail, a successful commit leaves everything on the disk.
THEOREM CacheImplementsStore == "torn_read" \notin Faults => (Spec => ImplementsPageStore)
<1>. SUFFICES ASSUME "torn_read" \notin Faults
              PROVE  Spec => ImplementsPageStore
  OBVIOUS
<1>1. Init => Coherent /\ Store!Init
  BY InitInv, InitImplements DEF Coherent, Init, FreshCache, CleanIsOnDisk, Free, EmptySlot
<1>2. Coherent /\ [Next]_vars => Coherent' /\ [Store!Next]_(Store!vars)
  <2>. SUFFICES ASSUME Coherent, [Next]_vars
                PROVE  Coherent' /\ [Store!Next]_(Store!vars)
    OBVIOUS
  <2>1. Coherent'
    BY NextKeepsClean
  <2>. QED  BY <2>1, StepImplements DEF Coherent
<1>. QED  BY <1>1, <1>2, PTL DEF Spec, ImplementsPageStore, Store!Spec

\* A page that cannot be read costs only itself: the failed read changes the content of no
\* other page, whichever slot it had chosen and whatever it had stored before it failed.
THEOREM FailedReadsLocal == "torn_read" \notin Faults => (Spec => FailedReadCostsOnlyItself)
<1>. SUFFICES ASSUME "torn_read" \notin Faults
              PROVE  Spec => FailedReadCostsOnlyItself
  OBVIOUS
<1>. DEFINE Costs == out' = NoPage => View' = View
<1>1. Init => Coherent
  BY InitInv DEF Coherent, Init, FreshCache, CleanIsOnDisk, Free, EmptySlot
<1>2. Coherent /\ [Next]_vars => Coherent'
  BY NextKeepsClean
<1>3. Coherent /\ [Next]_vars => Costs
  <2>. SUFFICES ASSUME Coherent, [Next]_vars, out' = NoPage
                PROVE  View' = View
    OBVIOUS
  <2>1. [Store!Next]_(Store!vars)
    BY <1>2, StepImplements DEF Coherent
  <2>. QED  BY <2>1 DEF Store!Next, Store!Read, Store!Write, Store!Commit, Store!CommitFails,
                              Store!Lose, Store!vars
<1>4. [][Costs]_vars => FailedReadCostsOnlyItself
  BY DEF FailedReadCostsOnlyItself
<1>. HIDE DEF Costs
<1>. QED  BY <1>1, <1>2, <1>3, <1>4, PTL DEF Spec

\* Whatever has been evicted, committed or lost to a failing backend, the disk is behind what
\* reads return only on pages with a write that is not stored yet.
THEOREM DiskLagsOnPending == "torn_read" \notin Faults => (Spec => []Store!LagIsPending)
<1>. SUFFICES ASSUME "torn_read" \notin Faults
              PROVE  Spec => []Store!LagIsPending
  OBVIOUS
<1>1. Init => Coherent
  BY InitInv DEF Coherent, Init, FreshCache, CleanIsOnDisk, Free, EmptySlot
<1>2. Coherent /\ [Next]_vars => Coherent'
  BY NextKeepsClean
<1>3. Coherent => Store!LagIsPending
  BY NotPendingOnDisk DEF Store!LagIsPending
<1>. QED  BY <1>1, <1>2, <1>3, PTL DEF Spec
===============================================================================
