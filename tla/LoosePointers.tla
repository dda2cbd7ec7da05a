---------------------------- MODULE LoosePointers ----------------------------
(***************************************************************************)
(* Pointers kept WITHOUT a pin (rule 1 of the page-cache comment in        *)
(* filesystem.c).  read_page and write_page_ptr hand out raw pointers into *)
(* a slot; the library keeps many of them over a few more page accesses    *)
(* and relies on least-recently-used eviction to leave the slot alone.     *)
(* This module follows one such pointer, any one, next to the cache.       *)
(***************************************************************************)
EXTENDS PageCache

VARIABLE watch   \* the pointer followed: its page, slot, and the pages asked for since

loose == <<cache, lru, disk, held, out, watch>>

NotWatching == [page |-> NoPage, slot |-> 0, since |-> {}]

\* How many other pages a holder may ask for: the slots that cannot be pinned, less its own.
Reach == NumSlots - Cardinality(PinLevels) - 1

LooseInit == Init /\ watch = NotWatching

\* The holder gives the pointer up once it has asked for more pages than Reach.
AskedFor(p) ==
  LET since == watch.since \union {p} IN
  IF watch = NotWatching \/ Cardinality(since) > Reach THEN NotWatching
  ELSE [watch EXCEPT !.since = since]

\* A page was handed out: it may become the pointer followed, or renews it.
Given(p) ==
  \/ watch = NotWatching /\ UNCHANGED watch
  \/ /\ watch = NotWatching
     /\ \E s \in Slots : cache'[s].page = p
                         /\ watch' = [page |-> p, slot |-> s, since |-> {}]
  \/ /\ watch # NotWatching
     /\ watch' = IF watch.page = p THEN [watch EXCEPT !.since = {}] ELSE AskedFor(p)

GiveRead(p)     == ReadPage(p) /\ Given(p)
GiveWrite(p, v) == WritePage(p, v) /\ Given(p)

\* A miss that returns NULL has chosen a victim all the same.
GiveFails(p) ==
  /\ GetMissFlushFails(p) \/ GetMissReadFails(p)
  /\ watch' = AskedFor(p)

PinsAndCommits ==
  /\ \/ \E l \in PinLevels, write \in BOOLEAN : Pin(l, write)
     \/ \E l \in PinLevels : Unpin(l)
     \/ \E l \in PinLevels, v \in Values : StorePinned(l, v)
     \/ Commit
     \/ CommitFails
  /\ UNCHANGED watch

LooseNext ==
  \/ \E p \in Pages : GiveRead(p)
  \/ \E p \in Pages, v \in Values : GiveWrite(p, v)
  \/ \E p \in Pages : GiveFails(p)
  \/ PinsAndCommits
  \/ (CloseAndReopen \/ CrashAndReopen) /\ watch' = NotWatching

LooseSpec == LooseInit /\ [][LooseNext]_loose

-----------------------------------------------------------------------------
\* The slot of an unpinned pointer still holds its page while fewer other pages have been
\* asked for than there are slots no pin can take.
LoosePointerLive == watch # NotWatching => cache[watch.slot].page = watch.page

\* Not even a load that failed half way, which scribbles over its victim, has touched the
\* buffer such a pointer points into.
LooseBufferIntact ==
  [][/\ watch # NotWatching
     /\ watch'.page = watch.page
     /\ cache[watch.slot].buf # Torn
     => cache'[watch.slot].buf # Torn]_loose
==============================================================================
