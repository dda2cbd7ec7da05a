------------------------------ MODULE ObjectFile ------------------------------
(***************************************************************************)
(* The directory of a volume, as load_structures reads it from the pages   *)
(* and as the surgical writers of filesystem.c put it back.                *)
(*                                                                         *)
(* A page is a table of pointers (0: none) or a set of items: the entries  *)
(* of an object or user page, the used pages of the bit file, the one      *)
(* record of the master block, what a file stored on a data page.  A       *)
(* zeroed page is both empty.                                              *)
(*                                                                         *)
(* "h" is struct ndfs_filesystem: used (bit_file), users (the valid ones), *)
(* objects (the loaded entries), root (master_block.object_file_ptr) and   *)
(* mem (page -> content, what the page cache returns).                     *)
(***************************************************************************)
EXTENDS BitMap, ObjectBlocks

CONSTANT BitPage   \* bit_file_ptr.block_id, a place in the middle of the volume (ALBIT)

ASSUME LayoutAssumption == BitPage \in Nat \ {0} /\ BitPage + 4 < TotalPages

Null == 0   \* block_id 0

Indexes == 0 .. PtrsPerPage - 1
Blank   == [ptrs |-> [i \in Indexes |-> Null], items |-> {}]
Holding(S) == [Blank EXCEPT !.items = S]

\* The pages ndfs_create_image lays out and marks used, with a bit file of one page.
MasterPage  == 0
ObjectIndex == BitPage + 1
ObjectPage0 == BitPage + 2
UserIndex   == BitPage + 3
UserPage0   == BitPage + 4
FixedPages  == {MasterPage} \union BitPage .. UserPage0

\* The pages the master block refers to for good, and itself.
RootPages   == {MasterPage, BitPage, UserIndex}

Ptr(h, index, i)       == h.mem[index].ptrs[i]
SetPtr(h, index, i, p) == [h EXCEPT !.mem[index].ptrs[i] = p]

-----------------------------------------------------------------------------
(***************************************************************************)
(* Allocation.  A stage returns the state it leaves behind and the page it *)
(* found, Null when the disk is full: nothing is undone then.              *)
(***************************************************************************)
Failed(h) == [h |-> h, page |-> Null]

\* Bug: the page found is not marked used.
TakeUnmarked(h) ==
  IF FreePages(h.used) = {} THEN Failed(h)
  ELSE [h |-> [h EXCEPT !.mem[FindFree(h.used)] = Blank], page |-> FindFree(h.used)]

\* ndfs_bf_find_free, ndfs_bf_mark_used, write_page_ptr, memset.
Take(h) ==
  IF FreePages(h.used) = {} THEN Failed(h)
  ELSE LET p == FindFree(h.used) IN
       [h |-> [h EXCEPT !.used = @ \union {p}, !.mem[p] = Blank], page |-> p]

\* The page slot i of an index page points at, allocated and linked when there is none.
LinkedAt(h, index, i) ==
  LET t == Take(h) IN
  IF Ptr(h, index, i) # Null THEN [h |-> h, page |-> Ptr(h, index, i)]
  ELSE IF t.page = Null THEN t
  ELSE [t EXCEPT !.h = SetPtr(t.h, index, i, t.page)]

MasterRecord(h) == [root |-> h.root, free |-> CountFree(h.used)]

\* persist_master_block: the root pointer and the free count, refreshed from the bitmap.
PersistMaster(h) == [h EXCEPT !.mem[MasterPage] = Holding({MasterRecord(h)})]

WriteBitFile(h) == PersistMaster([h EXCEPT !.mem[BitPage] = Holding(h.used)])

\* Bug: the index block there was is not linked into the new sub-index.
WrappedUnlinked(h) ==
  LET t == Take(h) IN
  IF t.page = Null THEN t
  ELSE [t EXCEPT !.h = PersistMaster([t.h EXCEPT !.root = [sub |-> TRUE, page |-> t.page]])]

\* The one-time conversion of ensure_object_dir_page: the index block becomes group 0
\* of a new sub-index, at once on page 0.
Wrapped(h) ==
  LET t == Take(h) IN
  IF t.page = Null THEN t
  ELSE [t EXCEPT !.h = PersistMaster(
          [SetPtr(t.h, t.page, 0, h.root.page) EXCEPT !.root = [sub |-> TRUE, page |-> t.page]])]

Inner(slot) == PageOf(slot) % PtrsPerPage

\* ensure_object_dir_page
EnsureDir(h, slot) ==
  LET root  == IF ~h.root.sub /\ GroupOf(slot) > 0 THEN Wrapped(h)
               ELSE [h |-> h, page |-> h.root.page]
      group == IF root.page = Null \/ ~root.h.root.sub THEN root
               ELSE LinkedAt(root.h, root.page, GroupOf(slot))
  IN IF group.page = Null THEN group ELSE LinkedAt(group.h, group.page, Inner(slot))

EnsureUserPage(h, u) == LinkedAt(h, UserIndex, u \div EntriesPerPage)

-----------------------------------------------------------------------------
(***************************************************************************)
(* The surgical writers: each rebuilds one page from the loaded entries.   *)
(***************************************************************************)

\* Bug: the group is ignored once there is a sub-index.
DirPageFlat(h, slot) ==
  LET group == IF h.root.sub THEN Ptr(h, h.root.page, 0) ELSE h.root.page
  IN IF group = Null THEN Null ELSE Ptr(h, group, Inner(slot))

\* object_page_block
DirPage(h, slot) ==
  LET group == IF h.root.sub THEN Ptr(h, h.root.page, GroupOf(slot))
               ELSE IF GroupOf(slot) = 0 THEN h.root.page ELSE Null
  IN IF group = Null THEN Null ELSE Ptr(h, group, Inner(slot))

\* ndfs_oe_to_bytes: the file number is not stored, and a length of 0 becomes 1 because
\* the length is stored less one.
OnDisk(o) ==
  [at |-> o.slot % EntriesPerPage, user |-> o.user, name |-> o.name, kind |-> o.kind,
   page |-> o.page, pages |-> o.pages, size |-> IF o.size = 0 THEN 1 ELSE o.size]

\* Bug: only the entry that was changed is put back on its page.
WriteObjectPageAlone(h, slot) ==
  LET p == DirPage(h, slot) IN
  IF p = Null THEN h
  ELSE [h EXCEPT !.mem[p] = Holding({OnDisk(o) : o \in {o \in h.objects : o.slot = slot}})]

\* write_object_page: an entry whose page does not exist is silently not written.
WriteObjectPage(h, slot) ==
  LET p == DirPage(h, slot) IN
  IF p = Null THEN h
  ELSE [h EXCEPT !.mem[p] =
          Holding({OnDisk(o) : o \in {o \in h.objects : PageOf(o.slot) = PageOf(slot)}})]

UserRecord(h, u) == [id |-> u, entry |-> h.users[u]]

\* write_user_page
WriteUserPage(h, u) ==
  LET p      == Ptr(h, UserIndex, u \div EntriesPerPage)
      onPage == {v \in DOMAIN h.users : v \div EntriesPerPage = u \div EntriesPerPage}
  IN IF p = Null THEN h ELSE [h EXCEPT !.mem[p] = Holding({UserRecord(h, v) : v \in onPage})]

-----------------------------------------------------------------------------
(***************************************************************************)
(* load_structures.  "bad" are the pages the backend cannot read: each     *)
(* costs what is on it, except the top index page of the object file (see  *)
(* Mountable) and the one of the user file (see UsersOn).                  *)
(***************************************************************************)
\* The pages an index page points at, those that cannot be read left out.
Below(mem, index, bad) == {mem[index].ptrs[i] : i \in Indexes} \ ({Null} \union bad)

IsUserRecord(r) == "id" \in DOMAIN r

\* A user index page that cannot be read costs every user, and is not counted as damage.
UsersOn(mem, bad) ==
  LET recs == IF UserIndex \in bad THEN {}
              ELSE UNION {mem[p].items : p \in Below(mem, UserIndex, bad)}
      kept == {r \in recs : IsUserRecord(r)}
  IN [u \in {r.id : r \in kept} |-> (CHOOSE r \in kept : r.id = u).entry]

\* The index blocks to walk, in the order of the walk: a null group pointer, and a group
\* index page that cannot be read, are skipped without counting their slots.
IndexBlocks(mem, root, bad) ==
  IF ~root.sub THEN {<<0, root.page>>}
  ELSE LET ptrs == mem[root.page].ptrs
           some == {g \in Indexes : ptrs[g] \notin {Null} \union bad}
       IN {<<Cardinality({f \in some : f < g}), ptrs[g]>> : g \in some}

\* The entries on a page: what a stale page holds of file contents or user records is none.
EntriesOf(page) == {d \in page.items : "name" \in DOMAIN d}

LoadedEntry(d, slot, users) ==
  [slot |-> slot, user |-> d.user, name |-> d.name, kind |-> d.kind, page |-> d.page,
   pages |-> d.pages, size |-> d.size, num |-> 0, named |-> d.user \in DOMAIN users]

\* Bug: the slots of an unreadable page are not counted.
EntriesOnShifting(mem, root, users, bad) ==
  UNION {LET some == {i \in Indexes : mem[b[2]].ptrs[i] \notin bad} IN
         UNION {{LoadedEntry(d, (b[1] * PtrsPerPage + Cardinality({j \in some : j < i}))
                                  * EntriesPerPage + d.at, users) :
                   d \in EntriesOf(mem[mem[b[2]].ptrs[i]])} :
                i \in {i \in some : mem[b[2]].ptrs[i] # Null}} :
         b \in IndexBlocks(mem, root, bad)}

EntriesOn(mem, root, users, bad) ==
  UNION {UNION {{LoadedEntry(d, (b[1] * PtrsPerPage + i) * EntriesPerPage + d.at, users) :
                   d \in EntriesOf(mem[mem[b[2]].ptrs[i]])} :
                i \in {i \in Indexes : mem[b[2]].ptrs[i] \notin {Null} \union bad}} :
         b \in IndexBlocks(mem, root, bad)}

\* assign_file_numbers
Numbered(objects) == {[o EXCEPT !.num = NumberAtLoad(objects, o)] : o \in objects}

RootOn(mem) == (CHOOSE m \in mem[MasterPage].items : TRUE).root

\* What has to be readable for a mount to succeed.
Mountable(mem, bad) == MasterPage \notin bad /\ RootOn(mem).page \notin bad

\* "bits" is what the buffer of an unreadable bit-file page happens to hold.
LoadFrom(mem, bad, bits) ==
  LET users == UsersOn(mem, bad)
  IN [used |-> IF BitPage \in bad THEN bits ELSE mem[BitPage].items,
      users |-> users, root |-> RootOn(mem), mem |-> mem,
      objects |-> Numbered(EntriesOn(mem, RootOn(mem), users, bad))]

Load(mem) == LoadFrom(mem, {}, {})

\* ndfs_get_damage_report: pages met on the walk that could not be read.
DamageReport(mem, bad) ==
  LET root   == RootOn(mem)
      groups == IF root.sub THEN {mem[root.page].ptrs[g] : g \in Indexes} \ {Null} ELSE {}
      blocks == {b[2] : b \in IndexBlocks(mem, root, bad)}
      onWalk == groups \union UNION {Below(mem, b, {}) : b \in blocks}
  IN [object_pages   |-> Cardinality(onWalk \intersect bad),
      user_pages     |-> IF UserIndex \in bad THEN 0 ELSE Cardinality(Below(mem, UserIndex, {}) \intersect bad),
      bit_file_pages |-> Cardinality({BitPage} \intersect bad)]

-----------------------------------------------------------------------------
(***************************************************************************)
(* The pages the directory itself occupies, each with the place that       *)
(* refers to it.                                                           *)
(***************************************************************************)
LinksOf(h, index) == {<<index, i, Ptr(h, index, i)>> : i \in Indexes}

DirectoryRefs(h) ==
  LET groups == IF h.root.sub THEN LinksOf(h, h.root.page) ELSE {}
      blocks == IF h.root.sub THEN {r[3] : r \in groups} \ {Null} ELSE {h.root.page}
      all    == groups \union LinksOf(h, UserIndex) \union UNION {LinksOf(h, b) : b \in blocks}
  IN {<<Null, 0, h.root.page>>} \union {r \in all : r[3] # Null}
==============================================================================
