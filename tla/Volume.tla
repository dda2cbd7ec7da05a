-------------------------------- MODULE Volume --------------------------------
(***************************************************************************)
(* An open NDFS volume: the public mutations of filesystem.c, each as one  *)
(* action that makes every change the call makes, in its order, down to    *)
(* the pages it writes.  The pages are the ones the page cache returns     *)
(* (module PageStore): here no transfer fails.                             *)
(***************************************************************************)
EXTENDS FileTree

CONSTANTS
  Names,       \* file names (OBJECT:TYPE)
  Contents,    \* what a file can be written with
  Lengths,     \* the lengths written, in pages; an empty content is one zero byte
  HoleSets,    \* the pages a caller may declare to be holes
  Spans,       \* the first and last page of the regions patched
  Callers,     \* the users that paths start with, and NoUser for a path without user
  NoUser,
  Managed,     \* the users whose quota and object blocks are changed, or who are removed
  Quotas       \* the reservations given to users

ASSUME VolumeAssumption ==
  /\ Lengths \subseteq Nat
  /\ HoleSets \subseteq SUBSET Nat /\ {} \in HoleSets
  /\ Spans \subseteq Nat \X Nat
  /\ Callers \subseteq UserIds \union {NoUser} /\ NoUser \notin UserIds
  /\ Managed \subseteq UserIds
  /\ Quotas \subseteq Nat
  /\ Zeros \notin Contents

VARIABLES
  fs,     \* struct ndfs_filesystem, see ObjectFile
  out,    \* the result of the last call
  want,   \* slot -> what the pages of the file there were last written with
  hurt    \* a call has left a file or the directory without its pages, see Update and Reopen

vars == <<fs, out, want, hurt>>

Users == DOMAIN fs.users

NewUser(quota) == [reserved |-> quota, used |-> 0, max |-> 1, alloc |-> 1]

-----------------------------------------------------------------------------
(***************************************************************************)
(* ndfs_create_image, opened: the user SYSTEM, no file, and a free count   *)
(* on page 0 that is the size of the volume.                               *)
(***************************************************************************)
FreshMem ==
  [p \in Pages |->
     CASE p = MasterPage  -> Holding({[root |-> [sub |-> FALSE, page |-> ObjectIndex],
                                       free |-> TotalPages]})
       [] p = BitPage     -> Holding(FixedPages)
       [] p = ObjectIndex -> [Blank EXCEPT !.ptrs[0] = ObjectPage0]
       [] p = UserIndex   -> [Blank EXCEPT !.ptrs[0] = UserPage0]
       [] p = UserPage0   -> Holding({[id |-> 0, entry |-> NewUser(0)]})
       [] OTHER           -> Blank]

Init ==
  /\ fs = Load(FreshMem)
  /\ out = "ok"
  /\ want = [s \in {} |-> 0]
  /\ hurt = FALSE

-----------------------------------------------------------------------------
(***************************************************************************)
(* Paths.  A path without user name belongs to the first user, and finds   *)
(* the files of all of them.                                               *)
(***************************************************************************)
Payers(who) ==
  IF who = NoUser THEN {u \in Users : \A v \in Users : u <= v} ELSE Users \intersect {who}

\* find_object.  The order of the array is not kept: any match may be the first.
Found(who, name) ==
  {o \in fs.objects : o.name = name /\ (who = NoUser \/ (o.user = who /\ o.named))}

-----------------------------------------------------------------------------
(***************************************************************************)
(* Quota.  The reservation is raised before anything else is done.         *)
(***************************************************************************)
Missing(u, extra) ==
  LET avail == fs.users[u].reserved - fs.users[u].used
  IN IF extra <= 0 \/ avail >= extra THEN 0 ELSE IF avail > 0 THEN extra - avail ELSE extra

HasRoom(u, extra) == CountFree(fs.used) >= Missing(u, extra)

Reserving(u, extra) == [fs EXCEPT !.users[u].reserved = @ + Missing(u, extra)]

\* A refund never takes the count below zero.
Less(a, b) == IF a >= b THEN a - b ELSE 0

-----------------------------------------------------------------------------
(***************************************************************************)
(* Creating an entry: the quota, the slot, the directory page.             *)
(***************************************************************************)
FreeSlot(u) ==
  FindFreeUserSlot(fs.objects, Users, u, fs.users[u].max, fs.users[u].alloc)

WithSlot(u, extra) ==
  [Reserving(u, extra) EXCEPT !.users[u].alloc =
     BlocksWith(fs.objects, u, FreeSlot(u), fs.users[u].max)]

WithDir(u, extra) == EnsureDir(WithSlot(u, extra), FreeSlot(u))

Entry(u, name, kind, page, pages, size) ==
  [slot |-> FreeSlot(u), user |-> u, name |-> name, kind |-> kind, page |-> page,
   pages |-> pages, size |-> size, num |-> NumberAtCreate(FreeSlot(u), u), named |-> TRUE]

\* Bug: the owner's user page is not written, so the charge is lost on the next mount.
SavedWithoutUser(h, slot, u) == WriteBitFile(WriteObjectPage(h, slot))

\* The metadata a mutation writes: the entry's page, the owner's page, the bit file.
Saved(h, slot, u) == WriteBitFile(WriteUserPage(WriteObjectPage(h, slot), u))

\* The new entry is in the table, its pages are charged to the user who pays.
Entered(h, u, o) ==
  Saved([h EXCEPT !.objects = @ \union {o}, !.users[u].used = @ + o.pages], o.slot, u)

Expected(n, holes, v) == [i \in 0 .. n - 1 |-> IF i \in holes THEN {} ELSE Item(v, i)]

Wanting(slot, content) ==
  want' = [s \in DOMAIN want \union {slot} |-> IF s = slot THEN content ELSE want[s]]

\* A call that is refused, having changed the volume to h.
Refused(h, result) ==
  /\ fs' = h
  /\ out' = result
  /\ UNCHANGED <<want, hurt>>

\* What every write and creation tries first, and how it is refused.
NoRoom(u, extra)    == ~HasRoom(u, extra) /\ Refused(fs, "no_space")
NoSlotLeft(u, extra) ==
  /\ HasRoom(u, extra)
  /\ FreeSlot(u) = NoSlot
  /\ Refused(Reserving(u, extra), "blocks_full")
NoDirPage(u, extra) ==
  /\ HasRoom(u, extra)
  /\ FreeSlot(u) # NoSlot
  /\ WithDir(u, extra).page = Null
  /\ Refused(WithDir(u, extra).h, "no_space")
HasEntry(u, extra) ==
  /\ HasRoom(u, extra)
  /\ FreeSlot(u) # NoSlot
  /\ WithDir(u, extra).page # Null

-----------------------------------------------------------------------------
(***************************************************************************)
(* write_file_impl for a path that names no file: create_new_file.         *)
(***************************************************************************)
\* Bug: holes are charged like any other page.
RealLogical(n, holes) == n

Real(n, holes) == Cardinality((0 .. n - 1) \ holes)

\* An empty content is written as one page of zeros with a length of one byte.
AtLeastOne(n)  == IF n = 0 THEN 1 ELSE n
Written(n, v)  == IF n = 0 THEN Zeros ELSE v

Create(who, name, len, holes, v) ==
  LET n == AtLeastOne(len) IN
  \E u \in Payers(who) :
    LET b == Build(WithDir(u, Real(n, holes)).h, n, holes, Written(len, v))
        o == Entry(u, name, KindFor(n), b.page, Real(n, holes), n) IN
    /\ Found(who, name) = {}
    /\ n <= MaxFilePages
    /\ HasEntry(u, Real(n, holes))
    /\ b.page # Null
    /\ fs' = Entered(b.h, u, o)
    /\ Wanting(o.slot, Expected(n, holes, Written(len, v)))
    /\ out' = "ok"
    /\ UNCHANGED hurt

\* The tree did not fit: the pages it took stay marked, and no entry names them.
CreateNoSpace(who, name, len, holes, v) ==
  LET n == AtLeastOne(len) IN
  \E u \in Payers(who) :
    LET b == Build(WithDir(u, Real(n, holes)).h, n, holes, Written(len, v)) IN
    /\ Found(who, name) = {}
    /\ n <= MaxFilePages
    /\ HasEntry(u, Real(n, holes))
    /\ b.page = Null
    /\ Refused(b.h, "no_space")

CreateRefused(who, name, len, holes) ==
  LET n == AtLeastOne(len) IN
  \E u \in Payers(who) :
    /\ Found(who, name) = {}
    /\ \/ NoRoom(u, Real(n, holes))
       \/ n > MaxFilePages /\ HasRoom(u, Real(n, holes))
            /\ Refused(Reserving(u, Real(n, holes)), "no_space")
       \/ n <= MaxFilePages /\ NoSlotLeft(u, Real(n, holes))
       \/ n <= MaxFilePages /\ NoDirPage(u, Real(n, holes))

-----------------------------------------------------------------------------
(***************************************************************************)
(* write_file_impl for an existing file: update_existing_file.             *)
(***************************************************************************)
Extra(o, n, holes) ==
  IF o.kind = "contiguous" THEN 0 ELSE Real(n, holes) - RealPages(fs.mem, o)

\* Bug: the old pages are given back after the new ones have been taken, from the new tree.
WithoutOldLeaking(h, o, u) ==
  [h EXCEPT !.used = @ \ {o.page}, !.users[u].used = Less(@, RealPages(h.mem, o))]

\* The old pages are free and refunded before the new ones are taken.
WithoutOld(h, o, u) ==
  [h EXCEPT !.used = @ \ PagesOf(h.mem, o), !.users[u].used = Less(@, RealPages(h.mem, o))]

Replace(h, o, new) == [h EXCEPT !.objects = (@ \ {o}) \union {new}]

Update(who, name, len, holes, v) ==
  LET n == AtLeastOne(len) IN
  \E u \in Payers(who), o \in Found(who, name) :
    LET b   == Build(WithoutOld(Reserving(u, Extra(o, n, holes)), o, u), n, holes, Written(len, v))
        new == [o EXCEPT !.kind = KindFor(n), !.page = b.page, !.pages = Real(n, holes), !.size = n] IN
    /\ o.kind # "contiguous"
    /\ n <= MaxFilePages
    /\ HasRoom(u, Extra(o, n, holes))
    /\ b.page # Null
    /\ fs' = Saved([Replace(b.h, o, new) EXCEPT !.users[u].used = @ + new.pages], o.slot, u)
    /\ Wanting(o.slot, Expected(n, holes, Written(len, v)))
    /\ out' = "ok"
    /\ UNCHANGED hurt

\* The new tree did not fit: the entry still names the old pages, which are free now.
UpdateNoSpace(who, name, len, holes, v) ==
  LET n == AtLeastOne(len) IN
  \E u \in Payers(who), o \in Found(who, name) :
    LET b == Build(WithoutOld(Reserving(u, Extra(o, n, holes)), o, u), n, holes, Written(len, v)) IN
    /\ o.kind # "contiguous"
    /\ n <= MaxFilePages
    /\ HasRoom(u, Extra(o, n, holes))
    /\ b.page = Null
    /\ fs' = b.h
    /\ out' = "no_space"
    /\ hurt' = TRUE
    /\ UNCHANGED want

\* update_existing_contiguous_file: the whole run is rewritten in place.
UpdateContiguous(who, name, len, v) ==
  \E u \in Payers(who), o \in Found(who, name) :
    LET new == [o EXCEPT !.size = len]
        mem == RunContent(fs.mem, o.page, o.pages, len, v) IN
    /\ o.kind = "contiguous"
    /\ len <= o.pages
    /\ fs' = WriteObjectPage([Replace(fs, o, new) EXCEPT !.mem = mem], o.slot)
    /\ Wanting(o.slot, [i \in 0 .. o.pages - 1 |-> IF i < len THEN Item(v, i) ELSE {}])
    /\ out' = "ok"
    /\ UNCHANGED hurt

\* Bug: the old pages are freed before the new size is checked.
UpdateRefusedLate(who, name, len, holes) ==
  LET n == AtLeastOne(len) IN
  \E u \in Payers(who), o \in Found(who, name) :
    /\ HasRoom(u, Extra(o, n, holes))
    /\ o.kind # "contiguous" /\ n > MaxFilePages
    /\ Refused(WithoutOld(Reserving(u, Extra(o, n, holes)), o, u), "no_space")

UpdateRefused(who, name, len, holes) ==
  LET n == AtLeastOne(len) IN
  \E u \in Payers(who), o \in Found(who, name) :
    \/ NoRoom(u, Extra(o, n, holes))
    \/ /\ HasRoom(u, Extra(o, n, holes))
       /\ IF o.kind = "contiguous" THEN len > o.pages ELSE n > MaxFilePages
       /\ Refused(Reserving(u, Extra(o, n, holes)), "no_space")

(***************************************************************************)
(* ndfs_patch_file_region over whole pages.  The span is checked against   *)
(* the length first; a hole in it stops the call at that page.             *)
(***************************************************************************)
Patch(who, name, first, last, v) ==
  \E o \in Found(who, name) :
    LET page(i) == {r[2] : r \in {r \in Refs(fs.mem, o) : r[1] = RoleOfPage(fs.mem, o, i)}}
        reached == {i \in first .. last : \A j \in first .. i : page(j) # {}}
        hit     == UNION {page(i) : i \in reached} IN
    /\ last < IF o.kind = "contiguous" THEN o.pages ELSE o.size
    /\ fs' = [fs EXCEPT !.mem = [p \in Pages |->
                IF p \in hit THEN Holding(Item(v, CHOOSE i \in reached : p \in page(i)))
                ELSE fs.mem[p]]]
    /\ Wanting(o.slot, [i \in DOMAIN want[o.slot] |->
                          IF i \in reached THEN Item(v, i) ELSE want[o.slot][i]])
    /\ out' = IF reached = first .. last THEN "ok" ELSE "corrupt"
    /\ UNCHANGED hurt

-----------------------------------------------------------------------------
(***************************************************************************)
(* ndfs_create_contiguous_file                                             *)
(***************************************************************************)
CreateContiguous(who, name, n) ==
  \E u \in Payers(who) :
    LET d     == WithDir(u, n).h
        first == FindFreeRange(d.used, n)
        o     == Entry(u, name, "contiguous", first, n, 0)
        h     == [d EXCEPT !.used = @ \union (first .. first + n - 1),
                           !.mem = RunContent(@, first, n, 0, Zeros)] IN
    /\ Found(who, name) = {}
    /\ HasEntry(u, n)
    /\ HasFreeRange(d.used, n)
    /\ fs' = Entered(h, u, o)
    /\ Wanting(o.slot, Expected(n, {}, Zeros))
    /\ out' = "ok"
    /\ UNCHANGED hurt

ContiguousRefused(who, name, n) ==
  \E u \in Payers(who) :
    /\ Found(who, name) = {}
    /\ \/ NoRoom(u, n)
       \/ NoSlotLeft(u, n)
       \/ NoDirPage(u, n)
       \/ HasEntry(u, n) /\ ~HasFreeRange(WithDir(u, n).h.used, n)
            /\ Refused(WithDir(u, n).h, "no_space")

-----------------------------------------------------------------------------
(***************************************************************************)
(* ndfs_delete_file and ndfs_rename                                        *)
(***************************************************************************)
\* Bug: nothing is refunded.
WithoutEntryUnrefunded(h, o) ==
  [h EXCEPT !.used = @ \ PagesOf(h.mem, o), !.objects = @ \ {o}]

WithoutEntry(h, o) ==
  LET refunded == [u \in DOMAIN h.users |->
        IF u = o.user THEN [h.users[u] EXCEPT !.used = Less(@, RealPages(h.mem, o))] ELSE h.users[u]]
  IN [h EXCEPT !.used = @ \ PagesOf(h.mem, o), !.objects = @ \ {o}, !.users = refunded]

Delete(who, name) ==
  \E o \in Found(who, name) :
    /\ fs' = Saved(WithoutEntry(fs, o), o.slot, o.user)
    /\ want' = [s \in DOMAIN want \ {o.slot} |-> want[s]]
    /\ out' = "ok"
    /\ UNCHANGED hurt

\* No file of the new name is looked for.
Rename(who, name, new) ==
  \E o \in Found(who, name) :
    /\ fs' = WriteObjectPage(Replace(fs, o, [o EXCEPT !.name = new]), o.slot)
    /\ out' = "ok"
    /\ UNCHANGED <<want, hurt>>

-----------------------------------------------------------------------------
(***************************************************************************)
(* Users and their object blocks                                           *)
(***************************************************************************)

\* The next user of h, in memory, on its page when that could be made, and the bit file.
Adding(h, quota) ==
  LET u == Least(UserIds \ DOMAIN h.users)
      g == [h EXCEPT !.users = [v \in DOMAIN h.users \union {u} |->
              IF v = u THEN NewUser(quota) ELSE h.users[v]]]
  IN WriteBitFile(WriteUserPage(EnsureUserPage(g, u).h, u))

\* ndfs_add_user: the lowest free index.  That its page could not be made is not noticed.
AddUser(quota) ==
  /\ Users # UserIds
  /\ fs' = Adding(fs, quota)
  /\ out' = "ok"
  /\ UNCHANGED <<want, hurt>>

\* Bug: the files of the user are not looked for.
RemoveUserUnchecked(u) ==
  /\ u \in Users
  /\ fs' = WriteUserPage([fs EXCEPT !.users = [v \in Users \ {u} |-> @[v]]], u)
  /\ out' = "ok"
  /\ UNCHANGED <<want, hurt>>

\* ndfs_remove_user
RemoveUser(u) ==
  /\ u \in Users
  /\ \A o \in fs.objects : o.user # u
  /\ fs' = WriteUserPage([fs EXCEPT !.users = [v \in Users \ {u} |-> @[v]]], u)
  /\ out' = "ok"
  /\ UNCHANGED <<want, hurt>>

\* ndfs_update_user_quota
SetQuota(u, quota) ==
  /\ u \in Users
  /\ fs' = WriteUserPage([fs EXCEPT !.users[u].reserved = quota], u)
  /\ out' = "ok"
  /\ UNCHANGED <<want, hurt>>

SetMax(u, max) ==
  /\ fs' = WriteUserPage([fs EXCEPT !.users[u].max = max], u)
  /\ out' = "ok"
  /\ UNCHANGED <<want, hurt>>

\* ndfs_give_object_blocks, one block at a time
GiveObjectBlock(u) ==
  /\ u \in Users
  /\ fs.users[u].max < MaxBlocks
  /\ SetMax(u, fs.users[u].max + 1)

\* Bug: a block can be taken although it is allocated.
TakeAllocatedBlock(u) ==
  /\ u \in Users
  /\ fs.users[u].max > 1
  /\ SetMax(u, fs.users[u].max - 1)

\* ndfs_take_object_blocks, one block at a time
TakeObjectBlock(u) ==
  /\ u \in Users
  /\ fs.users[u].max - 1 >= fs.users[u].alloc
  /\ SetMax(u, fs.users[u].max - 1)

-----------------------------------------------------------------------------
(***************************************************************************)
(* ndfs_close, every page stored, and ndfs_open.  Three things a volume in *)
(* memory can have and a reload cannot see: a page that is referred to but *)
(* not yet marked in the stored bit file, a user whose page was never      *)
(* made, and entries beyond a group of the object file that has no index   *)
(* page.  A volume reloaded from such a state is not followed further.     *)
(***************************************************************************)
FileRefs(h) == UNION {{<<o.slot, r[1], r[2]>> : r \in Refs(h.mem, o)} : o \in h.objects}

Referenced(h) ==
  {r[3] : r \in DirectoryRefs(h)} \union {r[3] : r \in FileRefs(h)} \union RootPages

BitsBehind(h)   == ~(Referenced(h) \subseteq h.mem[BitPage].items)
PagelessUser(h) == \E u \in DOMAIN h.users : Ptr(h, UserIndex, u \div EntriesPerPage) = Null
SkippedGroup(h) ==
  h.root.sub /\ \E f, g \in Indexes : f < g /\ Ptr(h, h.root.page, f) = Null
                                            /\ Ptr(h, h.root.page, g) # Null

ReloadLoses(h) == BitsBehind(h) \/ PagelessUser(h) \/ SkippedGroup(h)

Reopen ==
  /\ fs' = Load(fs.mem)
  /\ want' = [s \in {o.slot : o \in fs'.objects} |->
                IF s \in DOMAIN want THEN want[s] ELSE Expected(0, {}, Zeros)]
  /\ out' = "opened"
  /\ hurt' = (hurt \/ ReloadLoses(fs))

\* The state of a volume that is hurt is not explored further.
Abandoned == hurt /\ UNCHANGED vars

FileCall(who, name) ==
  \/ \E n \in Lengths, holes \in HoleSets, v \in Contents :
       \/ Create(who, name, n, holes, v)
       \/ CreateNoSpace(who, name, n, holes, v)
       \/ Update(who, name, n, holes, v)
       \/ UpdateNoSpace(who, name, n, holes, v)
  \/ \E n \in Lengths, holes \in HoleSets :
       CreateRefused(who, name, n, holes) \/ UpdateRefused(who, name, n, holes)
  \/ \E n \in Lengths, v \in Contents : UpdateContiguous(who, name, n, v)
  \/ \E n \in Lengths \ {0} : CreateContiguous(who, name, n) \/ ContiguousRefused(who, name, n)
  \/ \E span \in Spans, v \in Contents : Patch(who, name, span[1], span[2], v)
  \/ Delete(who, name)
  \/ \E new \in Names : Rename(who, name, new)

UserCall ==
  \/ \E q \in Quotas : AddUser(q)
  \/ \E u \in Managed : RemoveUser(u) \/ GiveObjectBlock(u) \/ TakeObjectBlock(u)
  \/ \E u \in Managed, q \in Quotas : SetQuota(u, q)

Next ==
  \/ ~hurt /\ \E who \in Callers, name \in Names : FileCall(who, name)
  \/ ~hurt /\ UserCall
  \/ ~hurt /\ Reopen
  \/ Abandoned

Spec == Init /\ [][Next]_vars

-----------------------------------------------------------------------------
(***************************************************************************)
(* Properties                                                              *)
(***************************************************************************)

\* Every page the directory or a file refers to is marked used, so that no allocation can
\* hand it out (ndfs_fsck phase 3: "blocks referenced by files but marked FREE in bitmap").
ReferencedIsUsed == ~hurt => Referenced(fs) \subseteq fs.used

OnePlaceEach(refs) == \A r, s \in refs : r[3] = s[3] => r = s

LinkedOnce(h) ==
  /\ OnePlaceEach(DirectoryRefs(h))
  /\ OnePlaceEach(FileRefs(h))
  /\ {r[3] : r \in FileRefs(h)} \intersect ({r[3] : r \in DirectoryRefs(h)} \union RootPages) = {}

\* No page belongs to two files, twice to one file, or to a file and the directory (ndfs_fsck
\* phase 2, cross-linked blocks).
NoCrossLinks == ~hurt => LinkedOnce(fs)

\* Every file reads as it was last written, holes as zeros, across every other call and
\* every reload.
ReadsBack ==
  ~hurt => \A o \in fs.objects : \A i \in 0 .. o.size - 1 : ReadPage(fs.mem, o, i) = want[o.slot][i]

\* A user is charged exactly the pages his files occupy, index pages and holes excluded
\* (comment of count_real_data_pages_in_buffer), when every path names its user.
QuotaIsRealPages ==
  ~hurt => \A u \in Users :
    fs.users[u].used = Cardinality(UNION {DataPages(fs.mem, o) : o \in {o \in fs.objects : o.user = u}})

\* No two entries share a slot, and each is in its owner's row, at home or above.
EntriesPlaced ==
  ~hurt => /\ \A o, p \in fs.objects : o.slot = p.slot => o = p
           /\ \A o \in fs.objects :
                /\ GroupOf(o.slot) >= Home(o.user)
                /\ \E k \in 0 .. FilesPerBlock - 1 :
                     o.slot = PhysicalSlot(o.user, GroupOf(o.slot), k)

\* The blocks a user's entries are in.
Occupied(u) == {g \in Groups : UsesGroup(fs.objects, u, g)}

\* Above his home a user's entries are in at most as many blocks as he is recorded to have
\* allocated, and those are at most his maximum: @TAKE-OBJECT-BLOCKS strands no such block.
\* (Of his home the record says nothing: it can be filled without being counted.)
BlocksCounted ==
  ~hurt => \A u \in Users :
    /\ Cardinality(Occupied(u) \ {Home(u)}) <= fs.users[u].alloc
    /\ fs.users[u].alloc <= fs.users[u].max

\* No file has a page above the declared capacity or below the first allocatable one.
InsideCapacity ==
  ~hurt => \A r \in FileRefs(fs) :
    /\ FirstAlloc <= r[3] /\ r[3] < TotalPages
    /\ Ceiling > 0 => r[3] < Ceiling

\* What a user of the volume sees: the files, where they are and what they hold, the charges.
Stored(o)  == [o EXCEPT !.num = 0, !.size = IF @ = 0 THEN 1 ELSE @]
Visible(h) ==
  [files |-> {<<Stored(o), ReadFile(h.mem, Stored(o))>> : o \in h.objects},
   charged |-> [u \in DOMAIN h.users |-> h.users[u].used]]

\* Between any two calls the pages alone give back every file and every charge, except in
\* the three states a reload is known to lose something from.
ReloadSame == ~hurt /\ ~ReloadLoses(fs) => Visible(Load(fs.mem)) = Visible(fs)

Orphans(h) == h.used \ Referenced(h)

\* A call that succeeds loses no page: every page marked used and referred to by nothing was
\* already so before it.
SuccessLeaksNothing == [][out' = "ok" => Orphans(fs') \subseteq Orphans(fs)]_vars

-----------------------------------------------------------------------------
(***************************************************************************)
(* What a comment of the source says and the code does not do              *)
(***************************************************************************)

\* "so a rejected write leaves the existing file (and its accounting) untouched" (comment of
\* update_existing_file), whatever it is rejected for.
RejectedWriteUntouched == [][out' = "no_space" => Visible(fs)' = Visible(fs)]_vars
==============================================================================
