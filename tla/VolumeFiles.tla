------------------------------ MODULE VolumeFiles ------------------------------
(***************************************************************************)
(* What the calls on a volume do to its files: the content of each, the    *)
(* pages it is charged for, the pages that belong to nothing, and what all *)
(* of it amounts to for those who use the volume.                          *)
(***************************************************************************)
EXTENDS VolumeProofs

-----------------------------------------------------------------------------
(***************************************************************************)
(* A file that is left alone reads as it did.                              *)
(***************************************************************************)
IsKind(o) == o.kind \in {"contiguous", "indexed", "subindexed"}

FileKept(mem, mem2, o) == \A p \in PagesOf(mem, o) : mem2[p] = mem[p]

\* The files of h are where they were and as they were.
FilesKept(h, h2) == \A p \in FilePages(h) : h2.mem[p] = h.mem[p]

\* What is read through the references found for a page.
ReadFrom(mem, found) == IF found = {} THEN {} ELSE mem[(CHOOSE r \in found : TRUE)[2]].items

LEMMA ReadThrough ==
  ASSUME NEW mem, NEW o, NEW i
  PROVE  ReadPage(mem, o, i) = ReadFrom(mem, RefsAt(mem, o, i))
BY DEF ReadPage, ReadFrom, RefsAt

\* Through the only one, when there is one.
LEMMA ReadSingle ==
  ASSUME NEW mem, NEW role, NEW p
  PROVE  ReadFrom(mem, {<<role, p>>}) = mem[p].items
<1>. DEFINE found == {<<role, p>>}
<1>1. (CHOOSE r \in found : TRUE) = <<role, p>>
  OBVIOUS
<1>. QED  BY <1>1 DEF ReadFrom

\* What is read of a file is on its pages.
LEMMA KeptFile ==
  ASSUME NEW mem, NEW mem2, NEW o, IsKind(o), FileKept(mem, mem2, o)
  PROVE  /\ Refs(mem2, o) = Refs(mem, o) /\ PagesOf(mem2, o) = PagesOf(mem, o)
         /\ DataPages(mem2, o) = DataPages(mem, o)
         /\ \A i : ReadPage(mem2, o, i) = ReadPage(mem, o, i)
<1>1. SamePtrs(mem, mem2, IndexOf(mem, o))
  BY DEF SamePtrs, IndexOf, PagesOf, FileKept
<1>2. Refs(mem2, o) = Refs(mem, o) /\ PagesOf(mem2, o) = PagesOf(mem, o)
  BY <1>1, SameRefs DEF IsKind
<1>3. DataPages(mem2, o) = DataPages(mem, o)
  BY <1>2 DEF DataPages
<1>4. \A i : RoleOfPage(mem2, o, i) = RoleOfPage(mem, o, i)
  <2>1. CASE o.kind # "subindexed"
    BY <2>1 DEF RoleOfPage
  <2>2. CASE o.kind = "subindexed"
    <3>1. <<TopRole, o.page>> \in Refs(mem, o)
      BY <2>2 DEF Refs
    <3>2. o.page \in PagesOf(mem, o)
      BY <3>1 DEF PagesOf
    <3>3. mem2[o.page] = mem[o.page]
      BY <3>2 DEF FileKept
    <3>. QED  BY <2>2, <3>3 DEF RoleOfPage
  <2>. QED  BY <2>1, <2>2
<1>5. ASSUME NEW i
      PROVE  ReadPage(mem2, o, i) = ReadPage(mem, o, i)
  <2>. DEFINE found == RefsAt(mem, o, i)
  <2>1. RefsAt(mem2, o, i) = found
    BY <1>2, <1>4 DEF RefsAt
  <2>2. \A r \in found : mem2[r[2]] = mem[r[2]]
    BY DEF RefsAt, PagesOf, FileKept
  <2>. HIDE DEF found
  <2>3. ReadFrom(mem2, found) = ReadFrom(mem, found)
    BY <2>2 DEF ReadFrom
  <2>. QED  BY <2>1, <2>3, ReadThrough DEF found
<1>. QED  BY <1>2, <1>3, <1>5

\* A file kept twice is kept.
LEMMA KeptTwice ==
  ASSUME NEW mem, NEW mem2, NEW mem3, NEW o, IsKind(o), FileKept(mem, mem2, o), FileKept(mem2, mem3, o)
  PROVE  FileKept(mem, mem3, o)
BY KeptFile DEF FileKept

\* Where a file is and what it reads does not depend on its name or length.
LEMMA SameReading ==
  ASSUME NEW mem, NEW o, NEW q, q.kind = o.kind, q.page = o.page, q.pages = o.pages
  PROVE  /\ DataPages(mem, q) = DataPages(mem, o) /\ RealPages(mem, q) = RealPages(mem, o)
         /\ \A i : RoleOfPage(mem, q, i) = RoleOfPage(mem, o, i)
         /\ \A i : ReadPage(mem, q, i) = ReadPage(mem, o, i)
<1>1. Refs(mem, q) = Refs(mem, o)
  BY SameWalk
<1>2. \A i : RoleOfPage(mem, q, i) = RoleOfPage(mem, o, i)
  BY DEF RoleOfPage
<1>3. \A i : ReadPage(mem, q, i) = ReadPage(mem, o, i)
  <2>1. \A i : RefsAt(mem, q, i) = RefsAt(mem, o, i)
    BY <1>1, <1>2 DEF RefsAt
  <2>. QED  BY <2>1, ReadThrough
<1>. QED  BY <1>1, <1>2, <1>3 DEF DataPages, RealPages

\* The surgical writers write no page of a file: write_object_page,
LEMMA ObjectPageSpares ==
  ASSUME NEW h, Apart(h), NEW s \in Slots
  PROVE  FilesKept(h, WriteObjectPage(h, s))
<1>. DEFINE p == DirPage(h, s)
            S == {OnDisk(o) : o \in {o \in h.objects : PageOf(o.slot) = PageOf(s)}}
<1>1. GroupOf(s) \in Indexes /\ Inner(s) \in Indexes
  BY SlotParts
<1>2. p = DirAt(h, GroupOf(s), Inner(s))
  BY DEF DirPage, DirAt
<1>3. WriteObjectPage(h, s) = IF p = Null THEN h ELSE Put(h, p, S)
  BY DEF WriteObjectPage, Put
<1>. HIDE DEF p, S
<1>4. CASE p # Null
  <2>1. p \in Pages \ (IndexPages(h) \union RootPages \union FilePages(h))
    BY <1>1, <1>2, <1>4, EntryPage
  <2>2. \A q \in Pages : q # p => Put(h, p, S).mem[q] = h.mem[q]
    BY <2>1, LeafWritten
  <2>3. FilePages(h) \subseteq Pages
    BY WindowType DEF Apart, FilesApart, FileApart, FilePages, PagesOf
  <2>. QED  BY <1>3, <1>4, <2>1, <2>2, <2>3 DEF FilesKept
<1>. QED  BY <1>3, <1>4 DEF FilesKept

\* write_user_page,
LEMMA UserPageSpares ==
  ASSUME NEW h, Apart(h), NEW u \in UserIds
  PROVE  FilesKept(h, WriteUserPage(h, u))
<1>. DEFINE i == u \div EntriesPerPage
            p == Ptr(h, UserIndex, i)
            S == {UserRecord(h, v) : v \in {v \in DOMAIN h.users : v \div EntriesPerPage = u \div EntriesPerPage}}
<1>1. i \in Indexes
  BY UserPart
<1>2. WriteUserPage(h, u) = IF p = Null THEN h ELSE Put(h, p, S)
  BY DEF WriteUserPage, Put
<1>. HIDE DEF i, S
<1>3. CASE p # Null
  <2>1. p \in Pages \ (IndexPages(h) \union RootPages \union FilePages(h))
    BY <1>1, <1>3, UserPage
  <2>. HIDE DEF p
  <2>2. \A q \in Pages : q # p => Put(h, p, S).mem[q] = h.mem[q]
    BY <2>1, LeafWritten
  <2>3. FilePages(h) \subseteq Pages
    BY WindowType DEF Apart, FilesApart, FileApart, FilePages, PagesOf
  <2>. QED  BY <1>2, <1>3, <2>1, <2>2, <2>3 DEF FilesKept
<1>. QED  BY <1>2, <1>3 DEF FilesKept

\* and write_bit_file.
LEMMA BitFileSpares ==
  ASSUME NEW h, Apart(h)
  PROVE  FilesKept(h, WriteBitFile(h))
<1>. DEFINE a == Put(h, BitPage, h.used)
            b == Put(a, MasterPage, {MasterRecord(a)})
<1>1. WriteBitFile(h) = b
  BY DEF WriteBitFile, PersistMaster, Put
<1>2. /\ MasterPage \in Pages \ (IndexPages(h) \union FilePages(h))
      /\ BitPage \in Pages \ (IndexPages(h) \union FilePages(h))
  BY FixedLeaf
<1>3. (\A q \in Pages : q # BitPage => a.mem[q] = h.mem[q]) /\ Apart(a) /\ FilePages(h) \subseteq Pages
  <2>1. (\A q \in Pages : q # BitPage => a.mem[q] = h.mem[q]) /\ Apart(a)
    BY <1>2, LeafWritten
  <2>2. FilePages(h) \subseteq Pages
    BY WindowType DEF Apart, FilesApart, FileApart, FilePages, PagesOf
  <2>. QED  BY <2>1, <2>2
<1>. HIDE DEF a
<1>4. MasterPage \in Pages \ (IndexPages(a) \union FilePages(a))
  BY <1>3, FixedLeaf
<1>5. \A q \in Pages : q # MasterPage => b.mem[q] = a.mem[q]
  BY <1>3, <1>4, LeafWritten
<1>. HIDE DEF b
<1>. QED  BY <1>1, <1>2, <1>3, <1>5 DEF FilesKept

\* Metadata is written: nothing but pages of the directory changes.
Settled(h, h2) == SameButMem(h, h2) /\ SameDirectory(h, h2) /\ FilesKept(h, h2)

\* The files and the pages that belong to nothing are the same then.
LEMMA SettledFiles ==
  ASSUME NEW h, WellFormed(h), NEW h2, Settled(h, h2)
  PROVE  /\ \A o \in h.objects : IsKind(o) /\ FileKept(h.mem, h2.mem, o)
         /\ FilePages(h2) = FilePages(h) /\ Orphans(h2) = Orphans(h)
<1>1. \A o \in h.objects : IsKind(o) /\ FileKept(h.mem, h2.mem, o)
  BY DEF WellFormed, IsEntry, IsKind, Settled, FilesKept, FilePages, FileKept
<1>2. h2.objects = h.objects /\ h2.used = h.used /\ h2.root = h.root /\ DirPages(h2) = DirPages(h)
  BY DEF Settled, SameButMem, SameDirectory
<1>3. FilePages(h2) = FilePages(h)
  <2>1. \A o \in h.objects : PagesOf(h2.mem, o) = PagesOf(h.mem, o)
    BY <1>1, KeptFile
  <2>. QED  BY <1>2, <2>1 DEF FilePages
<1>4. Referenced(h2) = Referenced(h)
  <2>1. h.root.sub \in BOOLEAN /\ h2.root.sub \in BOOLEAN
    BY <1>2 DEF WellFormed
  <2>2. Referenced(h) = DirPages(h) \union FilePages(h) \union RootPages
    BY ONLY <2>1, ReferencedPages
  <2>3. Referenced(h2) = DirPages(h2) \union FilePages(h2) \union RootPages
    BY ONLY <2>1, ReferencedPages
  <2>. QED  BY ONLY <1>2, <1>3, <2>2, <2>3
<1>. QED  BY <1>1, <1>2, <1>3, <1>4 DEF Orphans

\* Writing metadata twice is writing metadata.
LEMMA SettledTwice ==
  ASSUME NEW h, WellFormed(h), NEW h2, NEW h3, Settled(h, h2), Settled(h2, h3)
  PROVE  Settled(h, h3)
<1>1. FilePages(h2) = FilePages(h)
  BY SettledFiles
<1>2. FilesKept(h, h3)
  BY <1>1 DEF Settled, FilesKept
<1>. QED  BY <1>2, SameTwice DEF Settled

\* An entry's page written.
LEMMA ObjectPageSettles ==
  ASSUME NEW h, Apart(h), NEW s \in Slots, NEW U, MirroredBut(h, {Pos(s)}, U)
  PROVE  Settled(h, WriteObjectPage(h, s))
<1>. DEFINE h2 == WriteObjectPage(h, s)
<1>1. FilesKept(h, h2)
  BY ObjectPageSpares
<1>. HIDE DEF h2
<1>2. Apart(h2) /\ MirroredBut(h2, {}, U) /\ SameButMem(h, h2) /\ SameDirectory(h, h2)
  BY ObjectPageWritten DEF h2
<1>3. Settled(h, h2)
  BY <1>1, <1>2 DEF Settled
<1>. QED  BY <1>3 DEF h2

\* The metadata of a mutation written.
LEMMA SavedSettles ==
  ASSUME NEW h, Apart(h), NEW s \in Slots, NEW u \in UserIds,
         MirroredBut(h, {Pos(s)}, {u \div EntriesPerPage})
  PROVE  Settled(h, Saved(h, s, u))
<1>. DEFINE a == WriteObjectPage(h, s)
            b == WriteUserPage(a, u)
            c == WriteBitFile(b)
<1>1. Saved(h, s, u) = c
  BY DEF Saved
<1>2. Settled(h, a) /\ FilesKept(a, b) /\ FilesKept(b, c) /\ Apart(a) /\ Apart(b)
      /\ SameButMem(a, b) /\ SameDirectory(a, b) /\ SameButMem(b, c) /\ SameDirectory(b, c)
  <2>1. Settled(h, a)
    BY ObjectPageSettles
  <2>. HIDE DEF a
  <2>2. Apart(a) /\ MirroredBut(a, {}, {u \div EntriesPerPage}) /\ SameButMem(h, a) /\ SameDirectory(h, a)
    BY ObjectPageWritten DEF a
  <2>3. FilesKept(a, b)
    BY <2>2, UserPageSpares
  <2>. HIDE DEF b
  <2>4. Apart(b) /\ MirroredBut(b, {}, {}) /\ SameButMem(a, b) /\ SameDirectory(a, b)
    BY <2>2, UserPageWritten DEF b
  <2>5. FilesKept(b, c)
    BY <2>4, BitFileSpares
  <2>. HIDE DEF c
  <2>6. Apart(c) /\ MirroredBut(c, {}, {}) /\ SameButMem(b, c) /\ SameDirectory(b, c)
    BY <2>4, BitFileWritten DEF c
  <2>. QED  BY <2>1, <2>2, <2>3, <2>4, <2>5, <2>6
<1>. HIDE DEF a, b, c
<1>3. Settled(a, b) /\ Settled(b, c) /\ WellFormed(h) /\ WellFormed(a)
  BY <1>2 DEF Settled, Apart
<1>4. Settled(h, b)
  BY <1>2, <1>3, SettledTwice
<1>5. Settled(h, c)
  BY <1>3, <1>4, SettledTwice
<1>. QED  BY <1>1, <1>5

-----------------------------------------------------------------------------
(***************************************************************************)
(* What a call does to the files of a volume.                              *)
(***************************************************************************)
\* The entries K stay, with their files as they were, the entries N come in.
Exchanges(h, h2, K, N) ==
  /\ K \subseteq h.objects /\ h2.objects = K \union N
  /\ \A o \in K : IsKind(o) /\ FileKept(h.mem, h2.mem, o)

\* The pages that belong to nothing.
LEMMA OrphanPages ==
  ASSUME NEW h, WellFormed(h)
  PROVE  Orphans(h) = h.used \ (DirPages(h) \union FilePages(h) \union RootPages)
<1>1. h.root.sub \in BOOLEAN
  BY DEF WellFormed
<1>. QED  BY <1>1, ReferencedPages DEF Orphans

\* The user u is charged n pages more.
ChargedMore(h, h2, u, n) ==
  /\ u \in DOMAIN h.users /\ DOMAIN h2.users = DOMAIN h.users
  /\ \A v \in DOMAIN h.users :
       h2.users[v].used = IF v = u THEN h.users[v].used + n ELSE h.users[v].used

\* A creation adds one file, charged to its owner, and leaves no page behind.
FileAdded(h, h2, u, o, g) ==
  /\ Exchanges(h, h2, h.objects, {o}) /\ Orphans(h2) \subseteq Orphans(h)
  /\ IsKind(o) /\ FileKept(g.mem, h2.mem, o) /\ ChargedMore(h, h2, u, o.pages)
  /\ o.user = u /\ \A q \in h.objects : q.slot # o.slot

LEMMA CreationEffect ==
  ASSUME NEW h, Sound(h), NEW h2, NEW u, NEW o, NEW T, NEW d, NEW g, Creation(h, h2, u, o, T, d, g)
  PROVE  FileAdded(h, h2, u, o, g)
<1>. DEFINE a == Added(g, u, o)
<1>1. /\ Sound(d) /\ Extended(d, g, T) /\ EntryShape(d, o) /\ ~SlotInUse(d.objects, o.slot)
      /\ Occupies(g.mem, o, T) /\ o.user = u /\ u \in DOMAIN d.users
  BY DEF Creation, Prepared, EntryShape
<1>2. h2 = Saved(a, o.slot, u)
  BY DEF Creation, Entered, Added
<1>3. /\ d.objects = h.objects /\ UsersLike(h, d, {})
      /\ h.used \subseteq d.used /\ d.used \subseteq h.used \union DirPages(d)
      /\ DirPages(h) \subseteq DirPages(d)
      /\ \A q \in FilePages(h) : d.mem[q] = h.mem[q]
  BY DEF Creation, Prepared
<1>4. WellFormed(h) /\ WellFormed(d) /\ Apart(h) /\ Apart(d)
  BY <1>1 DEF Sound, Apart
<1>5. /\ a.objects = h.objects \union {o} /\ a.used = d.used \union T /\ a.mem = g.mem
      /\ DOMAIN a.users = DOMAIN d.users
      /\ \A v \in DOMAIN d.users :
           a.users[v].used = IF v = u THEN d.users[v].used + o.pages ELSE d.users[v].used
  <2>1. /\ DOMAIN g = VolumeFields /\ g.users = d.users /\ g.objects = h.objects /\ g.used = d.used \union T
    BY <1>1, <1>3 DEF Extended
  <2>2. \A v \in DOMAIN d.users : DOMAIN d.users[v] = UserFields
    BY <1>4 DEF WellFormed
  <2>. QED  BY <1>1, <2>1, <2>2 DEF Added, VolumeFields, UserFields
<1>6. /\ Apart(a) /\ MirroredBut(a, {Pos(o.slot)}, {u \div EntriesPerPage})
      /\ SameDirectory(d, a) /\ o.slot \in Slots /\ u \in UserIds
  BY <1>1, AddedSound
<1>. HIDE DEF a
<1>7. Settled(a, h2) /\ WellFormed(a)
  BY <1>2, <1>6, SavedSettles DEF Apart
<1>8. /\ \A q \in a.objects : IsKind(q) /\ FileKept(a.mem, h2.mem, q)
      /\ FilePages(h2) = FilePages(a) /\ Orphans(h2) = Orphans(a)
  BY <1>7, SettledFiles
<1>9. ASSUME NEW q \in h.objects
      PROVE  IsKind(q) /\ FileKept(h.mem, a.mem, q)
  <2>1. ASSUME NEW p \in PagesOf(h.mem, q)
        PROVE  a.mem[p] = h.mem[p]
    <3>1. p \in FilePages(h)
      BY DEF FilePages
    <3>2. p \in h.used /\ p \in Pages
      BY <1>4, <3>1, InUse DEF WellFormed
    <3>3. p \notin T
      BY <1>1, <1>3, <3>2 DEF Extended, FreePages
    <3>4. g.mem[p] = d.mem[p]
      BY <1>1, <3>2, <3>3 DEF Extended
    <3>. QED  BY <1>3, <1>5, <3>1, <3>4
  <2>2. IsKind(q)
    BY <1>4 DEF WellFormed, IsEntry, IsKind
  <2>. QED  BY <2>1, <2>2 DEF FileKept
<1>10. Exchanges(h, h2, h.objects, {o})
  <2>1. \A q \in h.objects : FileKept(h.mem, h2.mem, q)
    BY <1>5, <1>8, <1>9, KeptTwice
  <2>2. h2.objects = h.objects \union {o}
    BY <1>5, <1>7 DEF Settled, SameButMem
  <2>. QED  BY <1>9, <2>1, <2>2 DEF Exchanges
<1>11. Orphans(a) \subseteq Orphans(h)
  <2>1. FilePages(h) \subseteq FilePages(a)
    <3>1. \A q \in h.objects : PagesOf(a.mem, q) = PagesOf(h.mem, q)
      BY <1>9, KeptFile
    <3>. QED  BY <1>5, <3>1 DEF FilePages
  <2>2. T \subseteq FilePages(a)
    BY <1>1, <1>5 DEF FilePages, Occupies
  <2>3. DirPages(a) = DirPages(d)
    BY <1>6 DEF SameDirectory
  <2>4. Orphans(a) = a.used \ (DirPages(a) \union FilePages(a) \union RootPages)
    BY <1>7, OrphanPages
  <2>5. Orphans(h) = h.used \ (DirPages(h) \union FilePages(h) \union RootPages)
    BY <1>4, OrphanPages
  <2>. QED  BY ONLY <1>3, <1>5, <2>1, <2>2, <2>3, <2>4, <2>5
<1>12. ChargedMore(h, h2, u, o.pages)
  BY <1>1, <1>3, <1>5, <1>7 DEF ChargedMore, UsersLike, Settled, SameButMem
<1>13. IsKind(o) /\ FileKept(g.mem, h2.mem, o)
  BY <1>5, <1>8
<1>14. \A q \in h.objects : q.slot # o.slot
  BY <1>1, <1>3 DEF SlotInUse
<1>. QED  BY <1>1, <1>8, <1>10, <1>11, <1>12, <1>13, <1>14 DEF FileAdded

\* What is known of a volume with one entry revised.
LEMMA RevisionSwaps ==
  ASSUME NEW h, Sound(h), NEW g, NEW o, NEW new, NEW T, NEW U, Revision(h, g, o, new, T, U)
  PROVE  /\ Apart(g) /\ MirroredBut(g, {Pos(o.slot)}, U) /\ SameDirectory(h, g) /\ o.slot \in Slots
         /\ WellFormed(g) /\ o \in h.objects /\ new.slot = o.slot /\ new.user = o.user /\ IsKind(new)
<1>1. /\ o \in h.objects /\ Swapped(h, g, o, new, T) /\ UsersLike(h, g, U)
      /\ EntryShape(h, new) /\ new.slot = o.slot /\ new.user = o.user /\ Occupies(g.mem, new, T)
  BY DEF Revision
<1>2. Apart(g) /\ MirroredBut(g, {Pos(o.slot)}, U) /\ SameDirectory(h, g) /\ o.slot \in Slots
  BY <1>1, SwappedSound
<1>. QED  BY <1>1, <1>2 DEF Apart, EntryShape, IsKind

\* Its metadata is stored.
LEMMA RevisionSettles ==
  ASSUME NEW h, Sound(h), NEW g, NEW o, NEW new, NEW T, NEW U, Revision(h, g, o, new, T, U)
  PROVE  /\ Settled(g, WriteObjectPage(g, o.slot))
         /\ \A u \in UserIds : U = {u \div EntriesPerPage} => Settled(g, Saved(g, o.slot, u))
<1>1. /\ Apart(g) /\ MirroredBut(g, {Pos(o.slot)}, U) /\ SameDirectory(h, g) /\ o.slot \in Slots
      /\ WellFormed(g) /\ o \in h.objects /\ new.slot = o.slot /\ new.user = o.user /\ IsKind(new)
  BY RevisionSwaps
<1>2. Settled(g, WriteObjectPage(g, o.slot))
  BY <1>1, ObjectPageSettles
<1>3. ASSUME NEW u \in UserIds, U = {u \div EntriesPerPage}
      PROVE  Settled(g, Saved(g, o.slot, u))
  <2>1. MirroredBut(g, {Pos(o.slot)}, {u \div EntriesPerPage})
    BY <1>1, <1>3
  <2>. QED  BY <1>1, <2>1, SavedSettles
<1>. QED  BY <1>2, <1>3

\* A revision replaces one file, keeps the others and leaves no page behind.
LEMMA RevisionEffect ==
  ASSUME NEW h, Sound(h), NEW g, NEW o, NEW new, NEW T, NEW U, Revision(h, g, o, new, T, U),
         NEW h2, Settled(g, h2)
  PROVE  /\ Exchanges(h, h2, h.objects \ {o}, {new}) /\ Orphans(h2) \subseteq Orphans(h)
         /\ IsKind(new) /\ FileKept(g.mem, h2.mem, new) /\ h2.users = g.users
<1>1. /\ Apart(g) /\ MirroredBut(g, {Pos(o.slot)}, U) /\ SameDirectory(h, g) /\ o.slot \in Slots
      /\ WellFormed(g) /\ o \in h.objects /\ new.slot = o.slot /\ new.user = o.user /\ IsKind(new)
  BY RevisionSwaps
<1>2. Apart(h) /\ WellFormed(h)
  BY DEF Sound, Apart
<1>3. /\ \A q \in g.objects : IsKind(q) /\ FileKept(g.mem, h2.mem, q)
      /\ FilePages(h2) = FilePages(g) /\ Orphans(h2) = Orphans(g)
  BY <1>1, SettledFiles
<1>4. /\ g.objects = (h.objects \ {o}) \union {new} /\ g.used = (h.used \ PagesOf(h.mem, o)) \union T
      /\ T \intersect (h.used \ PagesOf(h.mem, o)) = {} /\ PagesOf(g.mem, new) = T
      /\ \A q \in Pages \ T : g.mem[q] = h.mem[q]
  BY DEF Revision, Swapped, Occupies
<1>5. ASSUME NEW q \in h.objects \ {o}
      PROVE  IsKind(q) /\ FileKept(h.mem, g.mem, q)
  <2>1. PagesOf(h.mem, q) \subseteq h.used /\ h.used \subseteq Pages
    BY <1>2, InUse DEF FilePages, WellFormed
  <2>2. PagesOf(h.mem, q) \intersect PagesOf(h.mem, o) = {}
    BY <1>1, <1>2 DEF Apart, FilesApart
  <2>3. PagesOf(h.mem, q) \subseteq Pages \ T
    BY <1>4, <2>1, <2>2
  <2>4. IsKind(q)
    BY <1>2 DEF WellFormed, IsEntry, IsKind
  <2>. QED  BY <1>4, <2>3, <2>4 DEF FileKept
<1>6. Exchanges(h, h2, h.objects \ {o}, {new})
  <2>1. \A q \in h.objects \ {o} : FileKept(h.mem, h2.mem, q)
    BY <1>3, <1>4, <1>5, KeptTwice
  <2>2. h2.objects = (h.objects \ {o}) \union {new}
    BY <1>4 DEF Settled, SameButMem
  <2>. QED  BY <1>5, <2>1, <2>2 DEF Exchanges
<1>7. Orphans(g) \subseteq Orphans(h)
  <2>1. FilePages(h) \subseteq PagesOf(h.mem, o) \union FilePages(g)
    <3>1. \A q \in h.objects \ {o} : PagesOf(g.mem, q) = PagesOf(h.mem, q)
      BY <1>5, KeptFile
    <3>. QED  BY <1>4, <3>1 DEF FilePages
  <2>2. T \subseteq FilePages(g)
    BY <1>4 DEF FilePages
  <2>3. DirPages(g) = DirPages(h)
    BY <1>1 DEF SameDirectory
  <2>4. Orphans(g) = g.used \ (DirPages(g) \union FilePages(g) \union RootPages)
    BY <1>1, OrphanPages
  <2>5. Orphans(h) = h.used \ (DirPages(h) \union FilePages(h) \union RootPages)
    BY <1>2, OrphanPages
  <2>. QED  BY ONLY <1>4, <2>1, <2>2, <2>3, <2>4, <2>5
<1>8. FileKept(g.mem, h2.mem, new) /\ h2.users = g.users
  BY <1>3, <1>4 DEF Settled, SameButMem
<1>. QED  BY <1>1, <1>3, <1>6, <1>7, <1>8

\* The pages nobody has: those marked used with nothing referring to them.
LEMMA SameOrphans ==
  ASSUME NEW h, WellFormed(h), NEW h2, WellFormed(h2), h2.used \subseteq h.used \union DirPages(h2),
         DirPages(h) \subseteq DirPages(h2), h2.objects = h.objects, FilesKept(h, h2)
  PROVE  Orphans(h2) \subseteq Orphans(h)
<1>1. FilePages(h2) = FilePages(h)
  <2>1. \A o \in h.objects : IsKind(o) /\ FileKept(h.mem, h2.mem, o)
    BY DEF WellFormed, IsEntry, IsKind, FilesKept, FilePages, FileKept
  <2>2. \A o \in h.objects : PagesOf(h2.mem, o) = PagesOf(h.mem, o)
    BY <2>1, KeptFile
  <2>. QED  BY <2>2 DEF FilePages
<1>2. Orphans(h) = h.used \ (DirPages(h) \union FilePages(h) \union RootPages)
  BY OrphanPages
<1>3. Orphans(h2) = h2.used \ (DirPages(h2) \union FilePages(h2) \union RootPages)
  BY OrphanPages
<1>. QED  BY <1>1, <1>2, <1>3

\* No file changes and no charge, but users may come and go, those who come owing nothing.
Untouched(h, h2) ==
  /\ h2.objects = h.objects /\ FilesKept(h, h2)
  /\ \A v \in DOMAIN h2.users : h2.users[v].used = IF v \in DOMAIN h.users THEN h.users[v].used ELSE 0

\* A user's page written does neither.
LEMMA UserPageSettles ==
  ASSUME NEW h, Apart(h), NEW u \in UserIds, NEW G, MirroredBut(h, G, {u \div EntriesPerPage})
  PROVE  Settled(h, WriteUserPage(h, u))
<1>. DEFINE h2 == WriteUserPage(h, u)
<1>1. FilesKept(h, h2)
  BY UserPageSpares
<1>. HIDE DEF h2
<1>2. Apart(h2) /\ MirroredBut(h2, G, {}) /\ SameButMem(h, h2) /\ SameDirectory(h, h2)
  BY UserPageWritten DEF h2
<1>3. Settled(h, h2)
  BY <1>1, <1>2 DEF Settled
<1>. QED  BY <1>3 DEF h2

\* A user's figures are changed and written.
LEMMA UserEditEffect ==
  ASSUME NEW h, Sound(h), NEW u \in UserIds, NEW g, EditedUsers(h, g), Apart(g),
         MirroredBut(g, {}, {u \div EntriesPerPage}),
         \A v \in DOMAIN g.users : g.users[v].used = IF v \in DOMAIN h.users THEN h.users[v].used ELSE 0,
         NEW h2, h2 = WriteUserPage(g, u)
  PROVE  Untouched(h, h2) /\ Orphans(h2) \subseteq Orphans(h)
<1>1. Settled(g, h2) /\ WellFormed(g) /\ WellFormed(h)
  BY UserPageSettles DEF Apart, Sound
<1>2. Orphans(h2) = Orphans(g)
  BY <1>1, SettledFiles
<1>3. /\ h2.objects = g.objects /\ h2.users = g.users
      /\ g.objects = h.objects /\ g.mem = h.mem /\ g.used = h.used /\ g.root = h.root
  BY <1>1 DEF Settled, SameButMem, EditedUsers
<1>4. FilesKept(h, g) /\ FilesKept(h, h2)
  BY <1>1, <1>3 DEF Settled, FilesKept, FilePages
<1>5. DirPages(g) = DirPages(h)
  BY <1>3 DEF DirPages, IndexPages, GroupPages, Ptr
<1>6. Orphans(g) \subseteq Orphans(h)
  BY <1>1, <1>3, <1>4, <1>5, SameOrphans
<1>. QED  BY <1>2, <1>3, <1>4, <1>6 DEF Untouched

\* So are his quota
LEMMA SetQuotaEffect ==
  ASSUME NEW u, NEW quota, Sound(fs), SetQuota(u, quota)
  PROVE  Untouched(fs, fs') /\ Orphans(fs') \subseteq Orphans(fs)
<1>. DEFINE g == [fs EXCEPT !.users[u].reserved = quota]
<1>1. WellFormed(fs) /\ u \in UserIds /\ u \in DOMAIN fs.users
  BY DEF Sound, Apart, WellFormed, SetQuota, Users
<1>2. EditedUsers(fs, g) /\ UsersLike(fs, g, {}) /\ UsersLike(fs, g, {u \div EntriesPerPage})
  BY <1>1 DEF WellFormed, EditedUsers, UsersLike, VolumeFields, UserFields
<1>3. fs' = WriteUserPage(g, u)
  BY DEF SetQuota
<1>. HIDE DEF g
<1>4. Apart(g) /\ MirroredBut(g, {}, {u \div EntriesPerPage})
  BY <1>2, UsersEdited
<1>5. \A v \in DOMAIN g.users : g.users[v].used = IF v \in DOMAIN fs.users THEN fs.users[v].used ELSE 0
  BY <1>2 DEF UsersLike
<1>. QED  BY <1>1, <1>2, <1>3, <1>4, <1>5, UserEditEffect

\* and his object blocks.
LEMMA SetMaxEffect ==
  ASSUME NEW u \in Users, NEW max, Sound(fs), SetMax(u, max)
  PROVE  Untouched(fs, fs') /\ Orphans(fs') \subseteq Orphans(fs)
<1>. DEFINE g == [fs EXCEPT !.users[u].max = max]
<1>1. WellFormed(fs) /\ u \in UserIds /\ u \in DOMAIN fs.users
  BY DEF Sound, Apart, WellFormed, Users
<1>2. EditedUsers(fs, g) /\ UsersLike(fs, g, {}) /\ UsersLike(fs, g, {u \div EntriesPerPage})
  BY <1>1 DEF WellFormed, EditedUsers, UsersLike, VolumeFields, UserFields
<1>3. fs' = WriteUserPage(g, u)
  BY DEF SetMax
<1>. HIDE DEF g
<1>4. Apart(g) /\ MirroredBut(g, {}, {u \div EntriesPerPage})
  BY <1>2, UsersEdited
<1>5. \A v \in DOMAIN g.users : g.users[v].used = IF v \in DOMAIN fs.users THEN fs.users[v].used ELSE 0
  BY <1>2 DEF UsersLike
<1>. QED  BY <1>1, <1>2, <1>3, <1>4, <1>5, UserEditEffect

\* A user who leaves, having no file, takes nothing with him.
LEMMA RemoveUserEffect ==
  ASSUME NEW u, Sound(fs), RemoveUser(u)
  PROVE  Untouched(fs, fs') /\ Orphans(fs') \subseteq Orphans(fs)
<1>1. PICK g : RemovalOf(u, g)
  BY RemoveUserDoes
<1>2. /\ EditedUsers(fs, g) /\ Apart(g) /\ MirroredBut(g, {}, {u \div EntriesPerPage})
      /\ u \in UserIds /\ fs' = WriteUserPage(g, u)
      /\ \A v \in DOMAIN g.users : g.users[v].used = IF v \in DOMAIN fs.users THEN fs.users[v].used ELSE 0
  BY <1>1 DEF RemovalOf
<1>. QED  BY <1>2, UserEditEffect

\* A user who comes may find a page of the directory made for him.
LEMMA AddUserEffect ==
  ASSUME NEW quota, Sound(fs), AddUser(quota)
  PROVE  Untouched(fs, fs') /\ Orphans(fs') \subseteq Orphans(fs)
<1>1. PICK u, g, h : AdditionOf(u, g, h)
  BY AddUserDoes
<1>2. /\ u \in UserIds /\ Apart(g) /\ Apart(h) /\ MirroredBut(h, {}, {u \div EntriesPerPage})
      /\ EditedUsers(fs, g) /\ Grown(g, h)
      /\ \A v \in DOMAIN g.users : g.users[v].used = IF v \in DOMAIN fs.users THEN fs.users[v].used ELSE 0
  BY <1>1 DEF AdditionOf
<1>. DEFINE w == WriteUserPage(h, u)
<1>3. Settled(h, w)
  BY <1>2, UserPageSettles
<1>4. Apart(w) /\ MirroredBut(w, {}, {})
  BY <1>2, UserPageWritten
<1>5. fs' = WriteBitFile(w)
  BY <1>1 DEF AdditionOf
<1>. HIDE DEF w
<1>6. Settled(w, fs')
  <2>1. FilesKept(w, fs')
    BY <1>4, <1>5, BitFileSpares
  <2>2. SameButMem(w, fs') /\ SameDirectory(w, fs')
    BY <1>4, <1>5, BitFileWritten
  <2>. QED  BY <2>1, <2>2 DEF Settled
<1>7. WellFormed(g) /\ WellFormed(h) /\ WellFormed(fs)
  BY <1>2 DEF Apart, Sound
<1>8. Settled(h, fs')
  BY <1>3, <1>6, <1>7, SettledTwice
<1>9. Orphans(fs') = Orphans(h)
  BY <1>7, <1>8, SettledFiles
<1>10. /\ g.objects = fs.objects /\ g.mem = fs.mem /\ g.used = fs.used /\ g.root = fs.root
       /\ h.users = g.users /\ h.objects = g.objects
  BY <1>2 DEF EditedUsers, Grown
<1>11. DirPages(g) = DirPages(fs) /\ FilePages(g) = FilePages(fs)
  BY <1>10 DEF DirPages, IndexPages, GroupPages, Ptr, FilePages
<1>12. FilesKept(fs, h)
  BY <1>2, <1>10, <1>11 DEF Grown, FilesKept
<1>13. Orphans(h) \subseteq Orphans(fs)
  <2>1. h.used \subseteq fs.used \union DirPages(h) /\ DirPages(fs) \subseteq DirPages(h)
    BY <1>2, <1>10, <1>11 DEF Grown
  <2>. QED  BY <1>7, <1>10, <1>12, <2>1, SameOrphans
<1>14. FilesKept(fs, fs') /\ fs'.users = h.users /\ fs'.objects = h.objects
  <2>1. FilesKept(h, fs') /\ FilePages(h) = FilePages(fs)
    <3>1. \A o \in fs.objects : IsKind(o) /\ FileKept(fs.mem, h.mem, o)
      BY <1>7, <1>12 DEF WellFormed, IsEntry, IsKind, FilesKept, FilePages, FileKept
    <3>2. \A o \in fs.objects : PagesOf(h.mem, o) = PagesOf(fs.mem, o)
      BY <3>1, KeptFile
    <3>. QED  BY <1>8, <1>10, <3>2 DEF FilePages, Settled
  <2>. QED  BY <1>8, <1>12, <2>1 DEF Settled, SameButMem, FilesKept
<1>. QED  BY <1>2, <1>9, <1>10, <1>13, <1>14 DEF Untouched

\* A refused call changes no file and no charge.
LEMMA RefusedEffect ==
  ASSUME Sound(fs), NEW u \in Users, NEW extra,
         \/ fs' = fs \/ fs' = Reserving(u, extra)
         \/ FreeSlot(u) # NoSlot /\ fs' = WithDir(u, extra).h
  PROVE  Untouched(fs, fs') /\ DOMAIN fs'.users = DOMAIN fs.users
<1>1. CASE fs' = fs
  BY <1>1 DEF Untouched, FilesKept
<1>2. CASE fs' = Reserving(u, extra)
  <2>1. EditedUsers(fs, fs') /\ UsersLike(fs, fs', {})
    BY <1>2, ReservingEdits DEF Sound, Apart
  <2>. QED  BY <2>1 DEF Untouched, FilesKept, EditedUsers, UsersLike
<1>3. CASE FreeSlot(u) # NoSlot /\ fs' = WithDir(u, extra).h
  <2>1. Prepared(fs, fs')
    BY <1>3, WithDirKeeps
  <2>. QED  BY <2>1 DEF Prepared, Untouched, UsersLike, FilesKept
<1>. QED  BY <1>1, <1>2, <1>3

\* Nor does a tree that did not fit.
LEMMA ExtendedEffect ==
  ASSUME NEW h, Sound(h), NEW d, Prepared(h, d), NEW T, NEW g, Extended(d, g, T)
  PROVE  Untouched(h, g) /\ DOMAIN g.users = DOMAIN h.users
<1>1. Apart(h) /\ FilePages(h) \subseteq Pages
  BY WindowType DEF Sound, Apart, FilesApart, FileApart, FilePages, PagesOf
<1>2. FilePages(h) \subseteq h.used
  BY <1>1, InUse
<1>3. T \intersect FilePages(h) = {}
  BY <1>2 DEF Prepared, Extended, FreePages
<1>4. FilesKept(h, g)
  BY <1>1, <1>3 DEF FilesKept, Prepared, Extended
<1>. QED  BY <1>4 DEF Untouched, Prepared, Extended, UsersLike

\* A call that changes no file: one on a user, or one that is refused.
QuietCall ==
  /\ Untouched(fs, fs') /\ want' = want /\ hurt' = hurt
  /\ out' = "ok" => Orphans(fs') \subseteq Orphans(fs)
  /\ out' # "ok" => DOMAIN fs'.users = DOMAIN fs.users

\* All calls on users are such,
LEMMA UserCallQuiet ==
  ASSUME Sound(fs), UserCall
  PROVE  QuietCall
<1>1. ASSUME NEW u, GiveObjectBlock(u) \/ TakeObjectBlock(u)
      PROVE  QuietCall
  <2>1. u \in Users /\ \E max : SetMax(u, max)
    BY <1>1 DEF GiveObjectBlock, TakeObjectBlock
  <2>2. PICK max : SetMax(u, max)
    BY <2>1
  <2>3. Untouched(fs, fs') /\ Orphans(fs') \subseteq Orphans(fs)
    BY <2>1, <2>2, SetMaxEffect
  <2>. QED  BY <2>2, <2>3 DEF QuietCall, SetMax
<1>2. ASSUME NEW u, RemoveUser(u)
      PROVE  QuietCall
  <2>1. Untouched(fs, fs') /\ Orphans(fs') \subseteq Orphans(fs)
    BY <1>2, RemoveUserEffect
  <2>. QED  BY <1>2, <2>1 DEF QuietCall, RemoveUser
<1>3. ASSUME NEW u, NEW q, SetQuota(u, q)
      PROVE  QuietCall
  <2>1. Untouched(fs, fs') /\ Orphans(fs') \subseteq Orphans(fs)
    BY <1>3, SetQuotaEffect
  <2>. QED  BY <1>3, <2>1 DEF QuietCall, SetQuota
<1>4. ASSUME NEW q, AddUser(q)
      PROVE  QuietCall
  <2>1. Untouched(fs, fs') /\ Orphans(fs') \subseteq Orphans(fs)
    BY <1>4, AddUserEffect
  <2>. QED  BY <1>4, <2>1 DEF QuietCall, AddUser
<1>. QED  BY <1>1, <1>2, <1>3, <1>4 DEF UserCall

\* and a creation or an update that is refused,
LEMMA RefusedQuiet ==
  ASSUME NEW who, NEW name, NEW len, NEW holes, Sound(fs),
         \/ CreateRefused(who, name, len, holes) \/ UpdateRefused(who, name, len, holes)
         \/ ContiguousRefused(who, name, len)
  PROVE  QuietCall
<1>1. \E u \in Users : \E extra :
        \/ fs' = fs \/ fs' = Reserving(u, extra)
        \/ FreeSlot(u) # NoSlot /\ fs' = WithDir(u, extra).h
  <2>1. CASE CreateRefused(who, name, len, holes)
    BY <2>1, PayersAreUsers DEF CreateRefused, NoRoom, NoSlotLeft, NoDirPage, Refused
  <2>2. CASE UpdateRefused(who, name, len, holes)
    BY <2>2, PayersAreUsers DEF UpdateRefused, NoRoom, Refused
  <2>3. CASE ContiguousRefused(who, name, len)
    BY <2>3, PayersAreUsers DEF ContiguousRefused, NoRoom, NoSlotLeft, NoDirPage, HasEntry, Refused
  <2>. QED  BY <2>1, <2>2, <2>3
<1>2. out' # "ok" /\ UNCHANGED <<want, hurt>>
  BY DEF CreateRefused, UpdateRefused, ContiguousRefused, NoRoom, NoSlotLeft, NoDirPage, Refused
<1>3. Untouched(fs, fs') /\ DOMAIN fs'.users = DOMAIN fs.users
  BY <1>1, RefusedEffect
<1>. QED  BY <1>2, <1>3 DEF QuietCall

\* also one whose tree did not fit.
LEMMA CreateNoSpaceQuiet ==
  ASSUME NEW who, NEW name, NEW len \in Nat, NEW holes, NEW v, Sound(fs),
         CreateNoSpace(who, name, len, holes, v)
  PROVE  QuietCall
<1>. DEFINE n == AtLeastOne(len)
            x == Real(n, holes)
<1>1. PICK u \in Payers(who) :
        LET b == Build(WithDir(u, x).h, n, holes, Written(len, v)) IN
        n <= MaxFilePages /\ HasEntry(u, x) /\ fs' = b.h
  BY DEF CreateNoSpace, Refused
<1>. DEFINE d == WithDir(u, x).h
            b == Build(d, n, holes, Written(len, v))
<1>2. n \in Nat \ {0}
  BY Counts
<1>3. n <= MaxFilePages /\ HasEntry(u, x) /\ fs' = b.h
  BY <1>1
<1>4. u \in Users
  BY PayersAreUsers
<1>. HIDE DEF n, x, b
<1>5. Prepared(fs, d)
  BY <1>3, <1>4, WithDirKeeps DEF HasEntry
<1>. HIDE DEF d
<1>6. DOMAIN d = VolumeFields /\ IsMem(d.mem)
  BY <1>5 DEF Prepared, Sound, Apart, WellFormed
<1>7. PICK T : Extended(d, b.h, T)
  BY <1>2, <1>3, <1>6, BuildShape DEF b, Built
<1>8. Untouched(fs, fs') /\ DOMAIN fs'.users = DOMAIN fs.users
  BY <1>3, <1>5, <1>7, ExtendedEffect
<1>9. out' # "ok" /\ UNCHANGED <<want, hurt>>
  BY DEF CreateNoSpace, Refused
<1>. QED  BY <1>8, <1>9 DEF QuietCall

\* A deletion takes one file away and leaves no page behind.
LEMMA DeletionEffect ==
  ASSUME NEW who, NEW name, NEW o, NEW g, Sound(fs), DeletionOf(who, name, o, g)
  PROVE  /\ o \in fs.objects /\ Exchanges(fs, fs', fs.objects \ {o}, {})
         /\ Orphans(fs') \subseteq Orphans(fs) /\ fs'.users = g.users
<1>1. /\ Apart(g) /\ MirroredBut(g, {Pos(o.slot)}, {o.user \div EntriesPerPage})
      /\ DirPages(g) = DirPages(fs) /\ o.slot \in Slots /\ o.user \in UserIds
      /\ g.used = fs.used \ PagesOf(fs.mem, o) /\ g.objects = fs.objects \ {o} /\ g.mem = fs.mem
      /\ fs' = Saved(g, o.slot, o.user)
  BY DEF DeletionOf, SameDirectory
<1>2. o \in fs.objects
  BY FoundIsEntry DEF DeletionOf
<1>3. Settled(g, fs') /\ WellFormed(g) /\ WellFormed(fs)
  BY <1>1, SavedSettles DEF Apart, Sound
<1>4. /\ \A q \in g.objects : IsKind(q) /\ FileKept(g.mem, fs'.mem, q)
      /\ Orphans(fs') = Orphans(g)
  BY <1>3, SettledFiles
<1>5. fs'.objects = g.objects /\ fs'.users = g.users
  BY <1>3 DEF Settled, SameButMem
<1>6. Orphans(g) \subseteq Orphans(fs)
  <2>1. FilePages(fs) \subseteq PagesOf(fs.mem, o) \union FilePages(g)
    BY <1>1 DEF FilePages
  <2>2. Orphans(g) = g.used \ (DirPages(g) \union FilePages(g) \union RootPages)
    BY <1>3, OrphanPages
  <2>3. Orphans(fs) = fs.used \ (DirPages(fs) \union FilePages(fs) \union RootPages)
    BY <1>3, OrphanPages
  <2>. QED  BY ONLY <1>1, <2>1, <2>2, <2>3
<1>. QED  BY <1>1, <1>2, <1>4, <1>5, <1>6 DEF Exchanges

\* A patch moves no file, and leaves no page behind.
LEMMA PatchingEffect ==
  ASSUME NEW who, NEW name, NEW first \in Nat, NEW last, NEW v, NEW o, NEW S, Sound(fs),
         PatchingOf(who, name, first, last, v, o, S)
  PROVE  /\ o \in fs.objects /\ fs'.objects = fs.objects /\ fs'.users = fs.users
         /\ Exchanges(fs, fs', fs.objects \ {o}, {o}) /\ Orphans(fs') = Orphans(fs)
         /\ Refs(fs'.mem, o) = Refs(fs.mem, o) /\ DataPages(fs'.mem, o) = DataPages(fs.mem, o)
         /\ IsKind(o) /\ SamePtrs(fs.mem, fs'.mem, IndexOf(fs.mem, o))
<1>1. o \in fs.objects
  BY FoundIsEntry DEF PatchingOf
<1>2. /\ fs'.objects = fs.objects /\ fs'.users = fs.users /\ fs'.used = fs.used /\ fs'.root = fs.root
      /\ DirPages(fs') = DirPages(fs)
  BY DEF PatchingOf, SameDirectory, SameButMem
<1>3. WellFormed(fs) /\ WellFormed(fs') /\ Apart(fs)
  BY DEF PatchingOf, Sound, Apart
<1>4. \A q \in fs.objects : IsKind(q)
  BY <1>3 DEF WellFormed, IsEntry, IsKind
<1>5. ASSUME NEW i \in S, NEW r \in RefsAt(fs.mem, o, i), NEW q \in fs.objects
      PROVE  r[2] \notin IndexOf(fs.mem, q)
  <2>1. i \in Nat
    BY DEF PatchingOf
  <2>2. r \in Refs(fs.mem, o) /\ r[1] = RoleOfPage(fs.mem, o, i)
    BY DEF RefsAt
  <2>3. IsData(r[1])
    BY <2>1, <2>2, ContentRole
  <2>. QED  BY <1>1, <2>2, <2>3, DataPageApart
<1>6. ASSUME NEW q \in fs.objects
      PROVE  /\ Refs(fs'.mem, q) = Refs(fs.mem, q) /\ PagesOf(fs'.mem, q) = PagesOf(fs.mem, q)
             /\ SamePtrs(fs.mem, fs'.mem, IndexOf(fs.mem, q))
  <2>1. \A p \in IndexOf(fs.mem, q) : p \in Pages
    BY <1>3, WindowType DEF IndexOf, Apart, FilesApart, FileApart
  <2>2. \A p \in IndexOf(fs.mem, q) : fs'.mem[p] = fs.mem[p]
    BY <1>5, <2>1 DEF PatchingOf
  <2>3. SamePtrs(fs.mem, fs'.mem, IndexOf(fs.mem, q))
    BY <2>2 DEF SamePtrs
  <2>. QED  BY <1>4, <2>3, SameRefs DEF IsKind
<1>7. ASSUME NEW q \in fs.objects \ {o}
      PROVE  FileKept(fs.mem, fs'.mem, q)
  <2>1. PagesOf(fs.mem, q) \subseteq Pages
    BY <1>3, WindowType DEF PagesOf, Apart, FilesApart, FileApart
  <2>2. PagesOf(fs.mem, q) \intersect PagesOf(fs.mem, o) = {}
    BY <1>1, <1>3 DEF Apart, FilesApart
  <2>3. \A i \in S : \A r \in RefsAt(fs.mem, o, i) : r[2] \in PagesOf(fs.mem, o)
    BY DEF RefsAt, PagesOf
  <2>. QED  BY <2>1, <2>2, <2>3 DEF PatchingOf, FileKept
<1>8. Orphans(fs') = Orphans(fs)
  <2>1. FilePages(fs') = FilePages(fs)
    BY <1>2, <1>6 DEF FilePages
  <2>2. Orphans(fs) = fs.used \ (DirPages(fs) \union FilePages(fs) \union RootPages)
    BY <1>3, OrphanPages
  <2>3. Orphans(fs') = fs'.used \ (DirPages(fs') \union FilePages(fs') \union RootPages)
    BY <1>3, OrphanPages
  <2>. QED  BY ONLY <1>2, <2>1, <2>2, <2>3
<1>9. Exchanges(fs, fs', fs.objects \ {o}, {o})
  BY <1>1, <1>2, <1>4, <1>7 DEF Exchanges
<1>. QED  BY <1>1, <1>2, <1>4, <1>6, <1>8, <1>9 DEF DataPages

-----------------------------------------------------------------------------
(***************************************************************************)
(* Every call on a file, by what it does.                                  *)
(***************************************************************************)
Creating(who, name) ==
  \E len \in Nat : \E holes, v, u, o, T, d, g : CreationOf(who, name, len, holes, v, u, o, T, d, g)
Running(who, name)  == \E n \in Nat \ {0} : \E u, o, T, d, g : RunOf(who, name, n, u, o, T, d, g)
Updating(who, name) ==
  \E len \in Nat : \E holes, v, u, o, new, T, g : UpdatingOf(who, name, len, holes, v, u, o, new, T, g)
Rewriting(who, name) == \E len \in Nat : \E v, o, new, T, g : RewritingOf(who, name, len, v, o, new, T, g)
Renaming(who, name) == want' = want /\ \E to, o, new, T, g : RenamingOf(who, name, to, o, new, T, g)
Deleting(who, name) == \E o, g : DeletionOf(who, name, o, g)
Patching(who, name) ==
  \E first \in Nat : \E last \in Nat : \E v, o, S : PatchingOf(who, name, first, last, v, o, S)

Succeeding(who, name) ==
  \/ Creating(who, name) \/ Running(who, name) \/ Updating(who, name) \/ Rewriting(who, name)
  \/ Renaming(who, name) \/ Deleting(who, name)

\* The calls that fail and change no file.
Declining(who, name) ==
  \/ \E len \in Nat : \E holes, v : CreateNoSpace(who, name, len, holes, v)
  \/ \E len, holes : \/ CreateRefused(who, name, len, holes) \/ UpdateRefused(who, name, len, holes)
                    \/ ContiguousRefused(who, name, len)

\* A call changes no file, or hurts the volume, or succeeds, or patches a file as far as it gets.
LEMMA FileCallDoes ==
  ASSUME NEW who, NEW name, Sound(fs), FileCall(who, name)
  PROVE  \/ QuietCall /\ Declining(who, name)
         \/ out' = "no_space" /\ hurt'
         \/ out' = "ok" /\ hurt' = hurt /\ Succeeding(who, name)
         \/ out' \in {"ok", "corrupt"} /\ hurt' = hurt /\ Patching(who, name)
<1>1. Lengths \subseteq Nat /\ Spans \subseteq Nat \X Nat
  BY VolumeAssumption
<1>2. ASSUME NEW n \in Lengths, NEW holes \in HoleSets, NEW v \in Contents,
             Create(who, name, n, holes, v)
      PROVE  out' = "ok" /\ hurt' = hurt /\ Creating(who, name)
  <2>1. \E u, o, T, d, g : CreationOf(who, name, n, holes, v, u, o, T, d, g)
    BY <1>1, <1>2, CreateDoes
  <2>2. Creating(who, name)
    BY <1>1, <2>1 DEF Creating
  <2>. QED  BY <1>2, <2>2 DEF Create
<1>3. ASSUME NEW n \in Lengths, NEW holes \in HoleSets, NEW v \in Contents,
             CreateNoSpace(who, name, n, holes, v)
      PROVE  QuietCall /\ Declining(who, name)
  BY <1>1, <1>3, CreateNoSpaceQuiet DEF Declining
<1>4. ASSUME NEW n \in Lengths, NEW holes \in HoleSets, NEW v \in Contents,
             Update(who, name, n, holes, v)
      PROVE  out' = "ok" /\ hurt' = hurt /\ Updating(who, name)
  <2>1. \E u, o, new, T, g : UpdatingOf(who, name, n, holes, v, u, o, new, T, g)
    BY <1>1, <1>4, UpdateDoes
  <2>2. Updating(who, name)
    BY <1>1, <2>1 DEF Updating
  <2>. QED  BY <1>4, <2>2 DEF Update
<1>5. ASSUME NEW n \in Lengths, NEW holes \in HoleSets, NEW v \in Contents,
             UpdateNoSpace(who, name, n, holes, v)
      PROVE  out' = "no_space" /\ hurt'
  BY <1>5 DEF UpdateNoSpace
<1>6. ASSUME NEW n, NEW holes,
             CreateRefused(who, name, n, holes) \/ UpdateRefused(who, name, n, holes)
      PROVE  QuietCall /\ Declining(who, name)
  BY <1>6, RefusedQuiet DEF Declining
<1>7. ASSUME NEW n \in Lengths, NEW v \in Contents, UpdateContiguous(who, name, n, v)
      PROVE  out' = "ok" /\ hurt' = hurt /\ Rewriting(who, name)
  <2>1. \E o, new, T, g : RewritingOf(who, name, n, v, o, new, T, g)
    BY <1>7, UpdateContiguousDoes
  <2>2. Rewriting(who, name)
    BY <1>1, <2>1 DEF Rewriting
  <2>. QED  BY <1>7, <2>2 DEF UpdateContiguous
<1>8. ASSUME NEW n \in Lengths \ {0}, CreateContiguous(who, name, n)
      PROVE  out' = "ok" /\ hurt' = hurt /\ Running(who, name)
  <2>1. n \in Nat \ {0}
    BY <1>1
  <2>2. \E u, o, T, d, g : RunOf(who, name, n, u, o, T, d, g)
    BY <1>8, <2>1, CreateContiguousDoes
  <2>3. Running(who, name)
    BY <2>1, <2>2 DEF Running
  <2>. QED  BY <1>8, <2>3 DEF CreateContiguous
<1>9. ASSUME NEW n, ContiguousRefused(who, name, n)
      PROVE  QuietCall /\ Declining(who, name)
  BY <1>9, RefusedQuiet DEF Declining
<1>10. ASSUME NEW span \in Spans, NEW v \in Contents, Patch(who, name, span[1], span[2], v)
       PROVE  out' \in {"ok", "corrupt"} /\ hurt' = hurt /\ Patching(who, name)
  <2>1. span[1] \in Nat /\ span[2] \in Nat
    BY <1>1
  <2>2. \E o, S : PatchingOf(who, name, span[1], span[2], v, o, S)
    BY <1>10, <2>1, PatchDoes
  <2>3. Patching(who, name)
    BY <2>1, <2>2 DEF Patching
  <2>4. out' \in {"ok", "corrupt"} /\ hurt' = hurt
    BY <1>10 DEF Patch
  <2>. QED  BY <2>3, <2>4
<1>11. ASSUME NEW to \in Names, Rename(who, name, to)
       PROVE  out' = "ok" /\ hurt' = hurt /\ Renaming(who, name)
  <2>1. \E o, new, T, g : RenamingOf(who, name, to, o, new, T, g)
    BY <1>11, RenameDoes
  <2>2. out' = "ok" /\ hurt' = hurt /\ want' = want
    BY <1>11 DEF Rename
  <2>. QED  BY <2>1, <2>2 DEF Renaming
<1>12. ASSUME Delete(who, name)
       PROVE  out' = "ok" /\ hurt' = hurt /\ Deleting(who, name)
  <2>1. Deleting(who, name)
    BY <1>12, DeleteDoes DEF Deleting
  <2>. QED  BY <1>12, <2>1 DEF Delete
<1>. QED  BY <1>2, <1>3, <1>4, <1>5, <1>6, <1>7, <1>8, <1>9, <1>10, <1>11, <1>12 DEF FileCall, Succeeding

-----------------------------------------------------------------------------
(***************************************************************************)
(* No page is lost.                                                        *)
(***************************************************************************)
\* The effect of an update,
LEMMA UpdatingEffect ==
  ASSUME NEW who, NEW name, NEW len, NEW holes, NEW v, NEW u, NEW o, NEW new, NEW T, NEW g, Sound(fs),
         UpdatingOf(who, name, len, holes, v, u, o, new, T, g)
  PROVE  /\ Exchanges(fs, fs', fs.objects \ {o}, {new}) /\ Orphans(fs') \subseteq Orphans(fs)
         /\ IsKind(new) /\ FileKept(g.mem, fs'.mem, new) /\ fs'.users = g.users
         /\ u \in UserIds
<1>1. /\ Revision(fs, g, o, new, T, {u \div EntriesPerPage}) /\ fs' = Saved(g, o.slot, u)
      /\ u \in Payers(who)
  BY DEF UpdatingOf
<1>2. u \in UserIds
  BY <1>1, PayersAreUsers DEF Users, Sound, Apart, WellFormed
<1>3. Settled(g, fs')
  BY <1>1, <1>2, RevisionSettles
<1>. QED  BY <1>1, <1>2, <1>3, RevisionEffect

\* of a run written again,
LEMMA RewritingEffect ==
  ASSUME NEW who, NEW name, NEW len, NEW v, NEW o, NEW new, NEW T, NEW g, Sound(fs),
         RewritingOf(who, name, len, v, o, new, T, g)
  PROVE  /\ Exchanges(fs, fs', fs.objects \ {o}, {new}) /\ Orphans(fs') \subseteq Orphans(fs)
         /\ IsKind(new) /\ FileKept(g.mem, fs'.mem, new) /\ fs'.users = fs.users
<1>1. Revision(fs, g, o, new, T, {}) /\ fs' = WriteObjectPage(g, o.slot) /\ g.users = fs.users
  BY DEF RewritingOf
<1>2. Settled(g, fs')
  BY <1>1, RevisionSettles
<1>. QED  BY <1>1, <1>2, RevisionEffect

\* and of a renaming.
LEMMA RenamingEffect ==
  ASSUME NEW who, NEW name, NEW to, NEW o, NEW new, NEW T, NEW g, Sound(fs),
         RenamingOf(who, name, to, o, new, T, g)
  PROVE  /\ Exchanges(fs, fs', fs.objects \ {o}, {new}) /\ Orphans(fs') \subseteq Orphans(fs)
         /\ IsKind(new) /\ FileKept(g.mem, fs'.mem, new) /\ fs'.users = fs.users
<1>1. Revision(fs, g, o, new, T, {}) /\ fs' = WriteObjectPage(g, o.slot) /\ g.users = fs.users
  BY DEF RenamingOf
<1>2. Settled(g, fs')
  BY <1>1, RevisionSettles
<1>. QED  BY <1>1, <1>2, RevisionEffect

\* A call that succeeds loses no page.
LEMMA SucceedingKeepsPages ==
  ASSUME NEW who, NEW name, Sound(fs), Succeeding(who, name)
  PROVE  Orphans(fs') \subseteq Orphans(fs)
<1>1. CASE Creating(who, name)
  <2>1. \E u, o, T, d, g : Creation(fs, fs', u, o, T, d, g)
    BY <1>1 DEF Creating, CreationOf
  <2>. QED  BY <2>1, CreationEffect DEF FileAdded
<1>2. CASE Running(who, name)
  <2>1. \E u, o, T, d, g : Creation(fs, fs', u, o, T, d, g)
    BY <1>2 DEF Running, RunOf
  <2>. QED  BY <2>1, CreationEffect DEF FileAdded
<1>3. CASE Updating(who, name)
  BY <1>3, UpdatingEffect DEF Updating
<1>4. CASE Rewriting(who, name)
  BY <1>4, RewritingEffect DEF Rewriting
<1>5. CASE Renaming(who, name)
  BY <1>5, RenamingEffect DEF Renaming
<1>6. CASE Deleting(who, name)
  BY <1>6, DeletionEffect DEF Deleting
<1>. QED  BY <1>1, <1>2, <1>3, <1>4, <1>5, <1>6 DEF Succeeding

\* Every step keeps that.
LEMMA NextLeaksNothing ==
  ASSUME SoundUntilHurt, [Next]_vars, out' = "ok"
  PROVE  Orphans(fs') \subseteq Orphans(fs)
<1>1. ASSUME ~hurt, NEW who, NEW name, FileCall(who, name)
      PROVE  Orphans(fs') \subseteq Orphans(fs)
  <2>1. Sound(fs)
    BY <1>1 DEF SoundUntilHurt
  <2>2. CASE QuietCall
    BY <2>2 DEF QuietCall
  <2>3. CASE Succeeding(who, name)
    BY <2>1, <2>3, SucceedingKeepsPages
  <2>4. CASE Patching(who, name)
    BY <2>1, <2>4, PatchingEffect DEF Patching
  <2>. QED  BY <1>1, <2>1, <2>2, <2>3, <2>4, FileCallDoes
<1>2. ASSUME ~hurt, UserCall
      PROVE  Orphans(fs') \subseteq Orphans(fs)
  BY <1>2, UserCallQuiet DEF SoundUntilHurt, QuietCall
<1>3. ~Reopen
  BY DEF Reopen
<1>4. CASE UNCHANGED vars
  BY <1>4 DEF vars
<1>. QED  BY <1>1, <1>2, <1>3, <1>4 DEF Next, Abandoned

\* A call that succeeds never leaves behind a page that is marked used and that nothing refers
\* to: not on the way to a longer file or a wider directory, not when a file shrinks, is
\* replaced, renamed or deleted.
THEOREM NothingLeaksOnSuccess == Spec => SuccessLeaksNothing
<1>1. SoundUntilHurt /\ [Next]_vars => [out' = "ok" => Orphans(fs') \subseteq Orphans(fs)]_vars
  BY NextLeaksNothing
<1>. QED  BY <1>1, VolumeSound, PTL DEF Spec, SuccessLeaksNothing

-----------------------------------------------------------------------------
(***************************************************************************)
(* What a file reads as.                                                   *)
(***************************************************************************)
\* The pages of content a file has room for.
Length(o) == IF o.kind = "contiguous" THEN o.pages ELSE o.size

\* The groups of a subindexed file that have an index page are the first ones, as many as its
\* length needs: none is stepped over when it is read.
GroupsFilled(mem, o) ==
  o.kind = "subindexed" =>
    /\ o.size <= MaxFilePages
    /\ \A g \in Indexes : mem[o.page].ptrs[g] # Null <=> g <= (o.size - 1) \div PtrsPerPage

\* A file tells w, page for page.
Tells(mem, o, w) ==
  /\ o.size \in Nat /\ Length(o) \in Nat \ {0} /\ o.size <= Length(o)
  /\ GroupsFilled(mem, o)
  /\ DOMAIN w = 0 .. Length(o) - 1
  /\ \A i \in 0 .. Length(o) - 1 : ReadPage(mem, o, i) = w[i]

\* A page of content in a group that is there: its role is where it comes in its group.
PlainRole(o, i) == IF o.kind # "subindexed" THEN <<0, i>> ELSE <<i \div PtrsPerPage, i % PtrsPerPage>>

LEMMA RoleIsPlain ==
  ASSUME NEW mem, NEW o, GroupsFilled(mem, o), Length(o) \in Nat, NEW i \in 0 .. Length(o) - 1
  PROVE  RoleOfPage(mem, o, i) = PlainRole(o, i)
<1>1. CASE o.kind # "subindexed"
  BY <1>1 DEF RoleOfPage, PlainRole
<1>2. CASE o.kind = "subindexed"
  <2>. DEFINE P    == PtrsPerPage
              n    == o.size
              m    == (n - 1) \div P
              k    == i \div P
              some == {g \in Indexes : mem[o.page].ptrs[g] # Null}
              good(g) == Cardinality({f \in some : f < g}) = k /\ (g \in some \/ g = P)
  <2>1. P \in Nat \ {0} /\ n \in Nat \ {0} /\ n <= P * P /\ i \in 0 .. n - 1
    BY <1>2, Layout DEF GroupsFilled, Length, MaxFilePages
  <2>2. m \in Nat /\ k \in Nat /\ k <= m /\ m < P
    <3>. HIDE DEF P, n
    <3>1. n - 1 \in Nat /\ i \in Nat /\ i <= n - 1
      BY <2>1
    <3>2. /\ n - 1 = P * m + ((n - 1) % P) /\ (n - 1) % P \in 0 .. P - 1 /\ m \in Nat
          /\ i = P * k + (i % P) /\ i % P \in 0 .. P - 1 /\ k \in Nat
      BY <2>1, <3>1, DivMod
    <3>. HIDE DEF m, k
    <3>3. m < P
      BY <2>1, <3>2, Z3
    <3>4. k <= m
      BY <2>1, <3>1, <3>2, Z3
    <3>. QED  BY <3>2, <3>3, <3>4
  <2>3. \A g : g \in some <=> g \in 0 .. m
    BY <1>2, <2>1, <2>2 DEF GroupsFilled, Indexes
  <2>. HIDE DEF some, m, k, n
  <2>4. Indexes = 0 .. P - 1
    BY DEF Indexes
  <2>5. k \in Indexes
    BY <2>1, <2>2, <2>4
  <2>. HIDE DEF P
  <2>6. ASSUME NEW g \in 0 .. m
        PROVE  Cardinality({f \in some : f < g}) = g
    <3>1. some \in SUBSET Indexes /\ g \in Indexes /\ \A f \in Indexes : f < g => f \in some
      BY <2>1, <2>2, <2>3, <2>4
    <3>. QED  BY <3>1, GroupsCounted
  <2>7. Cardinality({f \in some : f < P}) = m + 1
    <3>1. {f \in some : f < P} = 0 .. m
      BY <2>1, <2>2, <2>3
    <3>2. Cardinality(0 .. m) = m + 1
      BY <2>2, FS_Interval
    <3>. QED  BY <3>1, <3>2
  <2>8. good(k) /\ k \in Indexes \union {P}
    BY <2>2, <2>3, <2>5, <2>6
  <2>9. ASSUME NEW g \in Indexes \union {P}, good(g)
        PROVE  g = k
    BY <2>2, <2>3, <2>6, <2>7, <2>9
  <2>10. (CHOOSE g \in Indexes \union {P} : good(g)) = k
    <3>. HIDE DEF good
    <3>. QED  BY <2>8, <2>9
  <2>11. RoleOfPage(mem, o, i) = <<CHOOSE g \in Indexes \union {P} : good(g), i % P>>
    BY <1>2 DEF RoleOfPage, some, k, P
  <2>. QED  BY <1>2, <2>10, <2>11 DEF PlainRole, k, P
<1>. QED  BY <1>1, <1>2

\* No two pages of content have one role.
LEMMA PlainRolesApart ==
  ASSUME NEW o, NEW i \in Nat, NEW j \in Nat, PlainRole(o, i) = PlainRole(o, j)
  PROVE  i = j
<1>1. CASE o.kind # "subindexed"
  BY <1>1 DEF PlainRole
<1>2. CASE o.kind = "subindexed"
  <2>1. i \div PtrsPerPage = j \div PtrsPerPage /\ i % PtrsPerPage = j % PtrsPerPage
    BY <1>2 DEF PlainRole
  <2>2. /\ i = PtrsPerPage * (i \div PtrsPerPage) + (i % PtrsPerPage)
        /\ j = PtrsPerPage * (j \div PtrsPerPage) + (j % PtrsPerPage)
    BY Layout, DivMod
  <2>. QED  BY <2>1, <2>2
<1>. QED  BY <1>1, <1>2

\* A file that is kept tells what it told.
LEMMA TellsKept ==
  ASSUME NEW mem, NEW mem2, NEW o, IsKind(o), FileKept(mem, mem2, o), NEW w, Tells(mem, o, w)
  PROVE  Tells(mem2, o, w)
<1>1. \A i : ReadPage(mem2, o, i) = ReadPage(mem, o, i)
  BY KeptFile
<1>2. GroupsFilled(mem2, o)
  <2>1. CASE o.kind = "subindexed"
    <3>1. <<TopRole, o.page>> \in Refs(mem, o)
      BY <2>1 DEF Refs
    <3>2. o.page \in PagesOf(mem, o)
      BY <3>1 DEF PagesOf
    <3>. QED  BY <3>2 DEF FileKept, Tells, GroupsFilled
  <2>. QED  BY <2>1 DEF GroupsFilled
<1>. QED  BY <1>1, <1>2 DEF Tells

\* So does one of another name in the same place.
LEMMA TellsRenamed ==
  ASSUME NEW mem, NEW o, NEW q, q.kind = o.kind, q.page = o.page, q.pages = o.pages,
         NEW w, Tells(mem, o, w), q.size \in {o.size, IF o.size = 0 THEN 1 ELSE o.size}
  PROVE  Tells(mem, q, w)
<1>1. \A i : ReadPage(mem, q, i) = ReadPage(mem, o, i)
  BY SameReading
<1>2. Length(q) = Length(o) /\ q.size \in Nat /\ q.size <= Length(q)
  BY DEF Tells, Length
<1>3. o.kind = "subindexed" => q.size = o.size
  BY DEF Tells, Length
<1>4. GroupsFilled(mem, q)
  BY <1>3 DEF Tells, GroupsFilled
<1>. QED  BY <1>1, <1>2, <1>4 DEF Tells

\* A file written as a tree tells what was written.
LEMMA TreeTells ==
  ASSUME NEW mem, NEW o, NEW n \in Nat \ {0}, n <= MaxFilePages, NEW holes, NEW v,
         TreeOf(mem, o, n, holes, v), o.kind = KindFor(n), o.size = n,
         \A r \in Refs(mem, o) : r[2] # Null
  PROVE  Tells(mem, o, Expected(n, holes, v))
<1>. DEFINE P     == PtrsPerPage
            R     == RolesFor(n, holes)
            whole == 0 .. n - 1
<1>1. PICK at : TreeAt(mem, o, n, holes, v, at)
  BY DEF TreeOf
<1>2. /\ DOMAIN at = R /\ \A x : x \in Refs(mem, o) <=> \E r \in R : x = <<r, at[r]>>
      /\ \A r \in R : mem[at[r]] = TreeContent(n, v, r, at) /\ at[r] # Null
  <2>1. /\ DOMAIN at = R /\ Refs(mem, o) = {<<r, at[r]>> : r \in R}
        /\ \A r \in R : mem[at[r]] = TreeContent(n, v, r, at)
    BY <1>1 DEF TreeAt
  <2>. HIDE DEF R
  <2>2. \A x : x \in Refs(mem, o) <=> \E r \in R : x = <<r, at[r]>>
    BY <2>1
  <2>3. ASSUME NEW r \in R
        PROVE  at[r] # Null
    <3>1. <<r, at[r]>> \in Refs(mem, o)
      BY <2>2
    <3>2. <<r, at[r]>>[2] # Null
      BY <3>1
    <3>. QED  BY <3>2
  <2>. QED  BY <2>1, <2>2, <2>3
<1>3. /\ Length(o) = n /\ o.kind \in {"indexed", "subindexed"}
      /\ n <= P * P /\ P \in Nat \ {0} /\ \A i \in whole : i \in Nat
  BY Layout DEF Length, KindFor, MaxFilePages
<1>4. \A i \in whole : DataRole(n, i) = PlainRole(o, i)
  BY <1>3 DEF DataRole, PlainRole
<1>5. ASSUME NEW i \in whole
      PROVE  DataRole(n, i)[2] \in Nat
  <2>1. i % P \in Nat
    BY <1>3, DivMod
  <2>. QED  BY <1>3, <2>1 DEF DataRole
<1>6. ASSUME NEW i \in whole
      PROVE  DataRole(n, i) \in R <=> i \notin holes
  <2>1. i \notin holes => DataRole(n, i) \in R
    BY DEF RolesFor
  <2>2. ASSUME DataRole(n, i) \in R
        PROVE  i \notin holes
    <3>1. DataRole(n, i) # TopRole /\ \A g : DataRole(n, i) # GroupRole(g)
      BY <1>5 DEF TopRole, GroupRole
    <3>2. PICK j \in whole \ holes : DataRole(n, i) = DataRole(n, j)
      BY <2>2, <3>1 DEF RolesFor
    <3>3. i = j
      BY <1>3, <1>4, <3>2, PlainRolesApart
    <3>. QED  BY <3>2, <3>3
  <2>. QED  BY <2>1, <2>2
<1>7. GroupsFilled(mem, o)
  <2>1. SUFFICES ASSUME o.kind = "subindexed", NEW g \in Indexes
                 PROVE  mem[o.page].ptrs[g] # Null <=> g <= (n - 1) \div P
    BY <1>3 DEF GroupsFilled, MaxFilePages
  <2>2. <<TopRole, o.page>> \in Refs(mem, o)
    BY <2>1 DEF Refs
  <2>3. TopRole \in R /\ o.page = at[TopRole]
    BY <1>2, <2>2
  <2>4. mem[o.page].ptrs[g] = IF GroupRole(g) \in R THEN at[GroupRole(g)] ELSE Null
    <3>. HIDE DEF R
    <3>1. mem[o.page] = TreeContent(n, v, TopRole, at) /\ DOMAIN at = R
      BY <1>2, <2>3
    <3>2. KindFor(n) = "subindexed"
      BY <2>1
    <3>. QED  BY <3>1, <3>2, SubindexedTop
  <2>5. mem[o.page].ptrs[g] # Null <=> GroupRole(g) \in R
    BY <1>2, <2>4
  <2>6. g \in Nat /\ n - 1 \in Nat /\ (n - 1) \div P \in Nat
    <3>1. g \in Nat /\ n - 1 \in Nat /\ P \in Nat \ {0}
      BY Layout
    <3>. HIDE DEF P
    <3>. QED  BY <3>1, DivMod
  <2>7. GroupRole(g) \in R <=> g \in 0 .. (n - 1) \div P
    <3>1. GroupRole(g) # TopRole /\ \A i \in whole : GroupRole(g) # DataRole(n, i)
      BY <1>5, <2>6 DEF TopRole, GroupRole
    <3>2. GroupRole(g) \in R <=> \E f \in 0 .. (n - 1) \div P : GroupRole(g) = GroupRole(f)
      BY <2>1, <3>1 DEF RolesFor
    <3>3. \A f : GroupRole(g) = GroupRole(f) <=> g = f
      BY DEF GroupRole
    <3>. QED  BY <3>2, <3>3
  <2>. QED  BY <2>5, <2>6, <2>7
<1>8. ASSUME NEW i \in whole
      PROVE  ReadPage(mem, o, i) = Expected(n, holes, v)[i]
  <2>. DEFINE role  == DataRole(n, i)
              found == RefsAt(mem, o, i)
  <2>1. RoleOfPage(mem, o, i) = role
    BY <1>3, <1>4, <1>7, RoleIsPlain
  <2>2. \A x : x \in found <=> role \in R /\ x = <<role, at[role]>>
    <3>. HIDE DEF role
    <3>. QED  BY <1>2, <2>1 DEF RefsAt
  <2>3. ReadPage(mem, o, i) = ReadFrom(mem, found)
    BY ReadThrough
  <2>4. Expected(n, holes, v)[i] = IF i \in holes THEN {} ELSE Item(v, i)
    BY DEF Expected
  <2>5. CASE i \in holes
    <3>1. found = {}
      BY <1>6, <2>2, <2>5
    <3>2. ReadFrom(mem, found) = {}
      BY <3>1 DEF ReadFrom
    <3>. QED  BY <2>3, <2>4, <2>5, <3>2
  <2>6. CASE i \notin holes
    <3>1. found = {<<role, at[role]>>} /\ role \in R
      BY <1>6, <2>2, <2>6
    <3>. HIDE DEF role, found
    <3>2. ReadFrom(mem, found) = mem[at[role]].items
      <4>1. ReadFrom(mem, {<<role, at[role]>>}) = mem[at[role]].items
        BY ReadSingle
      <4>. QED  BY <3>1, <4>1
    <3>3. mem[at[role]] = TreeContent(n, v, role, at)
      BY <1>2, <3>1
    <3>4. role[1] * P + role[2] = i /\ IsData(role)
      <4>1. i = P * (i \div P) + (i % P) /\ i \div P \in Nat /\ i % P \in Nat
        BY <1>3, DivMod
      <4>. QED  BY <1>3, <4>1 DEF role, DataRole, IsData
    <3>5. TreeContent(n, v, role, at) = Holding(Item(v, i))
      BY <3>4 DEF TreeContent
    <3>6. Holding(Item(v, i)).items = Item(v, i)
      BY PageContent
    <3>. QED  BY <2>3, <2>4, <2>6, <3>2, <3>3, <3>5, <3>6
  <2>. QED  BY <2>5, <2>6
<1>9. DOMAIN Expected(n, holes, v) = whole
  BY DEF Expected
<1>. QED  BY <1>3, <1>7, <1>8, <1>9 DEF Tells

\* A run of k pages, n of them written, and how it is stored.
RunText(k, n, v)            == [i \in 0 .. k - 1 |-> IF i < n THEN Item(v, i) ELSE {}]
RunStored(mem, old, o, n, v) == mem = RunContent(old, o.page, o.pages, n, v)

\* It tells the n pages written to it, and zeros.
LEMMA RunTells ==
  ASSUME NEW mem, NEW old, NEW o, o.kind = "contiguous", o.page \in Pages, o.pages \in Nat \ {0},
         NEW n \in Nat, NEW v, RunStored(mem, old, o, n, v),
         o.page .. o.page + o.pages - 1 \subseteq Pages, o.size \in Nat, o.size <= o.pages
  PROVE  Tells(mem, o, RunText(o.pages, n, v))
<1>. DEFINE w == RunText(o.pages, n, v)
<1>1. o.page \in Int /\ Length(o) = o.pages /\ o.page \in Nat
  <2>1. Pages \subseteq Nat
    BY Layout
  <2>2. o.page \in Nat
    BY <2>1
  <2>3. Length(o) = o.pages
    BY DEF Length
  <2>. QED  BY <2>2, <2>3
<1>2. GroupsFilled(mem, o)
  BY DEF GroupsFilled
<1>3. ASSUME NEW i \in 0 .. o.pages - 1
      PROVE  ReadPage(mem, o, i) = w[i]
  <2>. DEFINE found == RefsAt(mem, o, i)
              p     == o.page + i
  <2>1. \A x : x \in Refs(mem, o) <=> \E j \in 0 .. o.pages - 1 : x = <<<<0, j>>, o.page + j>>
    BY <1>1, RunRefs
  <2>2. RoleOfPage(mem, o, i) = <<0, i>>
    BY DEF RoleOfPage
  <2>3. found = {<<<<0, i>>, p>>}
    BY <2>1, <2>2 DEF RefsAt
  <2>4. ReadPage(mem, o, i) = ReadFrom(mem, found)
    BY ReadThrough
  <2>5. ReadFrom(mem, found) = mem[p].items
    <3>. HIDE DEF p, found
    <3>1. ReadFrom(mem, {<<<<0, i>>, p>>}) = mem[p].items
      BY ReadSingle
    <3>. QED  BY <2>3, <3>1
  <2>6. p \in o.page .. o.page + o.pages - 1 /\ p - o.page = i
    BY <1>1
  <2>7. p \in Pages
    BY <2>6
  <2>8. mem[p] = IF i < n THEN Holding(Item(v, i)) ELSE Blank
    <3>. HIDE DEF p
    <3>. QED  BY <2>6, <2>7 DEF RunContent, RunStored
  <2>9. mem[p].items = IF i < n THEN Item(v, i) ELSE {}
    <3>. HIDE DEF p
    <3>. QED  BY <2>8, PageContent
  <2>10. w[i] = IF i < n THEN Item(v, i) ELSE {}
    BY DEF RunText
  <2>. QED  BY <2>4, <2>5, <2>9, <2>10
<1>4. DOMAIN w = 0 .. o.pages - 1
  BY DEF RunText
<1>. HIDE DEF w
<1>5. Tells(mem, o, w)
  BY <1>1, <1>2, <1>3, <1>4 DEF Tells
<1>. QED  BY <1>5 DEF w

-----------------------------------------------------------------------------
(***************************************************************************)
(* Every file tells what was last written to it.                           *)
(***************************************************************************)
Told(h, w)  == \A o \in h.objects : o.slot \in DOMAIN w /\ Tells(h.mem, o, w[o.slot])
ToldRight   == ~hurt => Told(fs, want)

\* The pages of an entry that was written are none of them page 0.
LEMMA NoNullRefs ==
  ASSUME NEW mem, NEW o, NEW T, Occupies(mem, o, T), T \subseteq Window
  PROVE  \A r \in Refs(mem, o) : r[2] # Null
<1>1. \A r \in Refs(mem, o) : r[2] \in T
  BY DEF Occupies, PagesOf
<1>. QED  BY <1>1, WindowType DEF Null

\* The other slots want what they wanted.
LEMMA WantingOthers ==
  ASSUME NEW slot, NEW c, Wanting(slot, c)
  PROVE  /\ slot \in DOMAIN want' /\ want'[slot] = c
         /\ \A s \in DOMAIN want : s \in DOMAIN want' /\ (s # slot => want'[s] = want[s])
BY DEF Wanting

\* The files that stay still tell what they told.
LEMMA ToldOfKept ==
  ASSUME NEW h, NEW h2, NEW K, NEW N, NEW w, NEW w2, Exchanges(h, h2, K, N), Told(h, w),
         \A o \in K : o.slot \in DOMAIN w2 /\ w2[o.slot] = w[o.slot],
         \A o \in N : o.slot \in DOMAIN w2 /\ Tells(h2.mem, o, w2[o.slot])
  PROVE  Told(h2, w2)
<1>1. ASSUME NEW o \in K
      PROVE  o.slot \in DOMAIN w2 /\ Tells(h2.mem, o, w2[o.slot])
  <2>1. IsKind(o) /\ FileKept(h.mem, h2.mem, o) /\ Tells(h.mem, o, w[o.slot])
    BY DEF Exchanges, Told
  <2>2. Tells(h2.mem, o, w[o.slot])
    BY <2>1, TellsKept
  <2>. QED  BY <2>2
<1>2. h2.objects = K \union N
  BY DEF Exchanges
<1>. QED  BY <1>1, <1>2 DEF Told

\* One that comes in tells what it was written with.
LEMMA ToldOfNew ==
  ASSUME NEW K, NEW new, Exchanges(fs, fs', K, {new}), Told(fs, want), \A q \in K : q.slot # new.slot,
         NEW c, Wanting(new.slot, c), NEW mem, Tells(mem, new, c),
         IsKind(new), FileKept(mem, fs'.mem, new)
  PROVE  Told(fs', want')
<1>1. /\ new.slot \in DOMAIN want' /\ want'[new.slot] = c
      /\ \A s \in DOMAIN want : s \in DOMAIN want' /\ (s # new.slot => want'[s] = want[s])
  BY WantingOthers
<1>2. Tells(fs'.mem, new, c)
  BY TellsKept
<1>3. \A q \in K : q.slot \in DOMAIN want
  BY DEF Exchanges, Told
<1>4. \A q \in K : q.slot \in DOMAIN want' /\ want'[q.slot] = want[q.slot]
  BY <1>1, <1>3
<1>5. \A q \in {new} : q.slot \in DOMAIN want' /\ Tells(fs'.mem, q, want'[q.slot])
  BY <1>1, <1>2
<1>. QED  BY <1>4, <1>5, ToldOfKept

\* What a creation does to the files.
LEMMA CreationSwaps ==
  ASSUME Sound(fs), NEW u, NEW o, NEW T, NEW d, NEW g, Creation(fs, fs', u, o, T, d, g)
  PROVE  /\ Exchanges(fs, fs', fs.objects, {o}) /\ IsKind(o) /\ FileKept(g.mem, fs'.mem, o)
         /\ \A q \in fs.objects : q.slot # o.slot
<1>1. Sound(fs)
  OBVIOUS
<1>2. Creation(fs, fs', u, o, T, d, g)
  OBVIOUS
<1>3. FileAdded(fs, fs', u, o, g)
  BY ONLY <1>1, <1>2, CreationEffect
<1>. QED  BY <1>3 DEF FileAdded

\* A file created as a tree,
LEMMA CreatingTells ==
  ASSUME NEW who, NEW name, Sound(fs), Told(fs, want), Creating(who, name)
  PROVE  Told(fs', want')
<1>1. PICK len \in Nat : \E holes, v, u, o, T, d, g : CreationOf(who, name, len, holes, v, u, o, T, d, g)
  BY DEF Creating
<1>. DEFINE n == AtLeastOne(len)
<1>2. PICK holes, v, u, o, T, d, g : CreationOf(who, name, len, holes, v, u, o, T, d, g)
  BY <1>1
<1>3. /\ n <= MaxFilePages /\ Creation(fs, fs', u, o, T, d, g) /\ o.kind = KindFor(n) /\ o.size = n
      /\ TreeOf(g.mem, o, n, holes, Written(len, v))
      /\ Wanting(o.slot, Expected(n, holes, Written(len, v)))
  BY <1>2 DEF CreationOf
<1>. HIDE DEF n
<1>4. n \in Nat \ {0}
  BY Counts DEF n
<1>5. /\ Exchanges(fs, fs', fs.objects, {o}) /\ IsKind(o) /\ FileKept(g.mem, fs'.mem, o)
      /\ \A q \in fs.objects : q.slot # o.slot
  BY <1>3, CreationSwaps
<1>6. Occupies(g.mem, o, T) /\ T \subseteq Window
  BY <1>3 DEF Creation, Extended, FreePages
<1>7. \A r \in Refs(g.mem, o) : r[2] # Null
  BY <1>6, NoNullRefs
<1>8. Tells(g.mem, o, Expected(n, holes, Written(len, v)))
  BY <1>3, <1>4, <1>7, TreeTells
<1>. QED  BY <1>3, <1>5, <1>8, ToldOfNew

\* or as a run,
LEMMA RunningTells ==
  ASSUME NEW who, NEW name, Sound(fs), Told(fs, want), Running(who, name)
  PROVE  Told(fs', want')
<1>1. PICK n \in Nat \ {0} : \E u, o, T, d, g : RunOf(who, name, n, u, o, T, d, g)
  BY DEF Running
<1>2. PICK u, o, T, d, g : RunOf(who, name, n, u, o, T, d, g)
  BY <1>1
<1>. DEFINE w == Expected(n, {}, Zeros)
<1>3. /\ Creation(fs, fs', u, o, T, d, g) /\ o.kind = "contiguous" /\ o.pages = n /\ o.size = 0
      /\ g.mem = RunContent(d.mem, o.page, n, 0, Zeros)
      /\ Wanting(o.slot, w)
  BY <1>2 DEF RunOf
<1>4. /\ Exchanges(fs, fs', fs.objects, {o}) /\ IsKind(o) /\ FileKept(g.mem, fs'.mem, o)
      /\ \A q \in fs.objects : q.slot # o.slot
  BY <1>3, CreationSwaps
<1>5. Occupies(g.mem, o, T) /\ T \subseteq Window /\ o.page \in Pages
  BY <1>3 DEF Creation, Extended, FreePages, EntryShape
<1>6. o.page .. o.page + o.pages - 1 \subseteq Pages
  <2>1. o.page \in Int /\ o.pages \in Nat
    <3>1. Pages \subseteq Nat
      BY Layout
    <3>2. o.page \in Nat
      BY <1>5, <3>1
    <3>. QED  BY <1>3, <3>2
  <2>2. Occupies(g.mem, o, o.page .. o.page + o.pages - 1)
    BY <1>3, <2>1, RunRefs
  <2>. QED  BY <1>5, <2>2, WindowType DEF Occupies
<1>7. w = RunText(o.pages, 0, Zeros)
  <2>1. \A k \in Nat : [i \in 0 .. k - 1 |-> IF i < 0 THEN Item(Zeros, i) ELSE {}] = [i \in 0 .. k - 1 |-> {}]
    OBVIOUS
  <2>2. w = [i \in 0 .. n - 1 |-> {}]
    BY DEF Expected, Item
  <2>. QED  BY <1>3, <2>1, <2>2 DEF RunText
<1>. HIDE DEF w
<1>8. RunStored(g.mem, d.mem, o, 0, Zeros)
  BY <1>3 DEF RunStored
<1>9. o.pages \in Nat \ {0} /\ o.size \in Nat /\ o.size <= o.pages
  BY <1>3
<1>10. Tells(g.mem, o, w)
  BY <1>3, <1>5, <1>6, <1>7, <1>8, <1>9, RunTells
<1>. QED  BY <1>3, <1>4, <1>10, ToldOfNew

\* one written again,
LEMMA UpdatingTells ==
  ASSUME NEW who, NEW name, Sound(fs), Told(fs, want), Updating(who, name)
  PROVE  Told(fs', want')
<1>1. PICK len \in Nat :
        \E holes, v, u, o, new, T, g : UpdatingOf(who, name, len, holes, v, u, o, new, T, g)
  BY DEF Updating
<1>. DEFINE n == AtLeastOne(len)
<1>2. PICK holes, v, u, o, new, T, g : UpdatingOf(who, name, len, holes, v, u, o, new, T, g)
  BY <1>1
<1>3. /\ n <= MaxFilePages /\ Revision(fs, g, o, new, T, {u \div EntriesPerPage})
      /\ new = [o EXCEPT !.kind = KindFor(n), !.page = new.page, !.pages = Real(n, holes), !.size = n]
      /\ TreeOf(g.mem, new, n, holes, Written(len, v))
      /\ Wanting(o.slot, Expected(n, holes, Written(len, v)))
  BY <1>2 DEF UpdatingOf
<1>4. n \in Nat \ {0}
  BY Counts
<1>. HIDE DEF n
<1>5. /\ Exchanges(fs, fs', fs.objects \ {o}, {new}) /\ Orphans(fs') \subseteq Orphans(fs)
      /\ IsKind(new) /\ FileKept(g.mem, fs'.mem, new) /\ fs'.users = g.users
      /\ u \in UserIds
  BY <1>2, UpdatingEffect
<1>6. o \in fs.objects /\ new.slot = o.slot /\ Occupies(g.mem, new, T) /\ T \subseteq Window
  BY <1>3 DEF Revision, Swapped
<1>7. DOMAIN o = EntryFields
  BY <1>6 DEF Sound, Apart, WellFormed, IsEntry
<1>8. new.kind = KindFor(n) /\ new.size = n
  BY <1>3, <1>7 DEF EntryFields
<1>9. \A r \in Refs(g.mem, new) : r[2] # Null
  BY <1>6, NoNullRefs
<1>10. Tells(g.mem, new, Expected(n, holes, Written(len, v)))
  BY <1>3, <1>4, <1>8, <1>9, TreeTells
<1>11. \A q \in fs.objects \ {o} : q.slot # new.slot
  BY <1>6 DEF Sound, Apart, SlotsApart
<1>. QED  BY <1>3, <1>5, <1>6, <1>10, <1>11, ToldOfNew

\* in place,
LEMMA RewritingTells ==
  ASSUME NEW who, NEW name, Sound(fs), Told(fs, want), Rewriting(who, name)
  PROVE  Told(fs', want')
<1>1. PICK len \in Nat : \E v, o, new, T, g : RewritingOf(who, name, len, v, o, new, T, g)
  BY DEF Rewriting
<1>2. PICK v, o, new, T, g : RewritingOf(who, name, len, v, o, new, T, g)
  BY <1>1
<1>. DEFINE w == [i \in 0 .. o.pages - 1 |-> IF i < len THEN Item(v, i) ELSE {}]
<1>3. /\ o.kind = "contiguous" /\ len <= o.pages /\ Revision(fs, g, o, new, T, {})
      /\ g.mem = RunContent(fs.mem, o.page, o.pages, len, v) /\ new = [o EXCEPT !.size = len]
      /\ Wanting(o.slot, w)
  BY <1>2 DEF RewritingOf
<1>4. /\ Exchanges(fs, fs', fs.objects \ {o}, {new}) /\ Orphans(fs') \subseteq Orphans(fs)
      /\ IsKind(new) /\ FileKept(g.mem, fs'.mem, new) /\ fs'.users = fs.users
  BY <1>2, RewritingEffect
<1>5. o \in fs.objects /\ new.slot = o.slot /\ Occupies(g.mem, new, T) /\ T \subseteq Window
  BY <1>3 DEF Revision, Swapped
<1>6. DOMAIN o = EntryFields /\ o.page \in Pages /\ o.pages \in Nat
  BY <1>5 DEF Sound, Apart, WellFormed, IsEntry
<1>7. /\ new.kind = "contiguous" /\ new.page = o.page /\ new.pages = o.pages /\ new.size = len
  BY <1>3, <1>6 DEF EntryFields
<1>8. new.pages \in Nat \ {0} /\ new.size \in Nat /\ new.size <= new.pages /\ new.page \in Pages
  <2>1. Length(o) \in Nat \ {0}
    BY <1>5 DEF Told, Tells
  <2>. QED  BY <1>3, <1>6, <1>7, <2>1 DEF Length
<1>9. new.page .. new.page + new.pages - 1 \subseteq Pages
  <2>1. new.page \in Int /\ new.pages \in Nat
    <3>1. Pages \subseteq Nat
      BY Layout
    <3>2. new.page \in Nat
      BY <1>8, <3>1
    <3>. QED  BY <1>8, <3>2
  <2>2. Occupies(g.mem, new, new.page .. new.page + new.pages - 1)
    BY <1>7, <2>1, RunRefs
  <2>. QED  BY <1>5, <2>2, WindowType DEF Occupies
<1>10. RunStored(g.mem, fs.mem, new, len, v) /\ Wanting(new.slot, w) /\ w = RunText(new.pages, len, v)
  BY <1>3, <1>5, <1>7 DEF RunStored, RunText
<1>. HIDE DEF w
<1>11. Tells(g.mem, new, w)
  BY <1>7, <1>8, <1>9, <1>10, RunTells
<1>12. \A q \in fs.objects \ {o} : q.slot # new.slot
  BY <1>5 DEF Sound, Apart, SlotsApart
<1>. QED  BY <1>4, <1>10, <1>11, <1>12, ToldOfNew

\* or renamed tells what is wanted of it;
LEMMA RenamingTells ==
  ASSUME NEW who, NEW name, Sound(fs), Told(fs, want), Renaming(who, name)
  PROVE  Told(fs', want')
<1>1. PICK to, o, new, T, g : RenamingOf(who, name, to, o, new, T, g)
  BY DEF Renaming
<1>2. /\ Revision(fs, g, o, new, T, {}) /\ g.mem = fs.mem /\ new = [o EXCEPT !.name = to]
      /\ want' = want
  BY <1>1 DEF RenamingOf, Renaming
<1>3. /\ Exchanges(fs, fs', fs.objects \ {o}, {new}) /\ Orphans(fs') \subseteq Orphans(fs)
      /\ IsKind(new) /\ FileKept(g.mem, fs'.mem, new) /\ fs'.users = fs.users
  BY <1>1, RenamingEffect
<1>4. o \in fs.objects /\ new.slot = o.slot
  BY <1>2 DEF Revision
<1>5. DOMAIN o = EntryFields
  BY <1>4 DEF Sound, Apart, WellFormed, IsEntry
<1>6. new.kind = o.kind /\ new.page = o.page /\ new.pages = o.pages /\ new.size = o.size
  BY <1>2, <1>5 DEF EntryFields
<1>7. o.slot \in DOMAIN want /\ Tells(fs.mem, o, want[o.slot])
  BY <1>4 DEF Told
<1>8. Tells(fs.mem, new, want[o.slot])
  <2>1. new.size \in {o.size, IF o.size = 0 THEN 1 ELSE o.size}
    BY <1>6
  <2>. QED  BY <1>6, <1>7, <2>1, TellsRenamed
<1>9. Tells(fs'.mem, new, want[o.slot])
  BY <1>2, <1>3, <1>8, TellsKept
<1>10. \A q \in {new} : q.slot \in DOMAIN want' /\ Tells(fs'.mem, q, want'[q.slot])
  BY <1>2, <1>4, <1>7, <1>9
<1>11. \A q \in fs.objects \ {o} : q.slot \in DOMAIN want' /\ want'[q.slot] = want[q.slot]
  BY <1>2 DEF Told
<1>. QED  BY <1>3, <1>10, <1>11, ToldOfKept

\* one that is deleted takes its own wishes away and no other's,
LEMMA DeletingTells ==
  ASSUME NEW who, NEW name, Sound(fs), Told(fs, want), Deleting(who, name)
  PROVE  Told(fs', want')
<1>1. PICK o, g : DeletionOf(who, name, o, g)
  BY DEF Deleting
<1>2. /\ o \in fs.objects /\ Exchanges(fs, fs', fs.objects \ {o}, {})
      /\ Orphans(fs') \subseteq Orphans(fs) /\ fs'.users = g.users
  BY <1>1, DeletionEffect
<1>3. want' = [s \in DOMAIN want \ {o.slot} |-> want[s]]
  BY <1>1 DEF DeletionOf
<1>4. \A q \in fs.objects \ {o} : q.slot # o.slot /\ q.slot \in DOMAIN want
  BY <1>2 DEF Sound, Apart, SlotsApart, Told
<1>5. \A q \in fs.objects \ {o} : q.slot \in DOMAIN want' /\ want'[q.slot] = want[q.slot]
  BY <1>3, <1>4
<1>. QED  BY <1>2, <1>5, ToldOfKept

\* and each page of content of a file is one place of its own,
LEMMA ContentApart ==
  ASSUME NEW h, Sound(h), NEW o \in h.objects, GroupsFilled(h.mem, o), Length(o) \in Nat,
         NEW i \in 0 .. Length(o) - 1, NEW j \in 0 .. Length(o) - 1,
         NEW r \in RefsAt(h.mem, o, i), NEW s \in RefsAt(h.mem, o, j), s[2] = r[2]
  PROVE  i = j
<1>1. FileApart(h, o)
  BY DEF Sound, Apart, FilesApart
<1>2. r = s
  BY <1>1 DEF RefsAt, FileApart
<1>3. RoleOfPage(h.mem, o, i) = RoleOfPage(h.mem, o, j)
  BY <1>2 DEF RefsAt
<1>4. RoleOfPage(h.mem, o, i) = PlainRole(o, i)
  BY RoleIsPlain
<1>5. RoleOfPage(h.mem, o, j) = PlainRole(o, j)
  BY RoleIsPlain
<1>6. i \in Nat /\ j \in Nat
  OBVIOUS
<1>. QED  BY <1>3, <1>4, <1>5, <1>6, PlainRolesApart

\* so that a patch changes the pages it reaches and no other of them.
LEMMA PatchingTells ==
  ASSUME NEW who, NEW name, Sound(fs), Told(fs, want), Patching(who, name)
  PROVE  Told(fs', want')
<1>1. PICK first \in Nat : \E last \in Nat : \E v, o, S : PatchingOf(who, name, first, last, v, o, S)
  BY DEF Patching
<1>2. PICK last \in Nat : \E v, o, S : PatchingOf(who, name, first, last, v, o, S)
  BY <1>1
<1>3. PICK v, o, S : PatchingOf(who, name, first, last, v, o, S)
  BY <1>2
<1>. DEFINE w == want[o.slot]
            c == [i \in DOMAIN w |-> IF i \in S THEN Item(v, i) ELSE w[i]]
<1>4. /\ last < Length(o) /\ S \subseteq first .. last /\ Wanting(o.slot, c)
      /\ \A i \in S : RefsAt(fs.mem, o, i) # {}
      /\ \A p \in Pages : \/ fs'.mem[p] = fs.mem[p]
                          \/ \E i \in S : \E r \in RefsAt(fs.mem, o, i) : r[2] = p
      /\ \A i \in S : \A r \in RefsAt(fs.mem, o, i) :
           \E j \in S : \E s \in RefsAt(fs.mem, o, j) : s[2] = r[2] /\ fs'.mem[r[2]].items = Item(v, j)
  BY <1>3 DEF PatchingOf, Length
<1>5. /\ o \in fs.objects /\ fs'.objects = fs.objects /\ fs'.users = fs.users
      /\ Exchanges(fs, fs', fs.objects \ {o}, {o}) /\ Orphans(fs') = Orphans(fs)
      /\ Refs(fs'.mem, o) = Refs(fs.mem, o) /\ DataPages(fs'.mem, o) = DataPages(fs.mem, o)
      /\ IsKind(o) /\ SamePtrs(fs.mem, fs'.mem, IndexOf(fs.mem, o))
  BY <1>3, PatchingEffect
<1>6. o.slot \in DOMAIN want /\ Tells(fs.mem, o, w)
  BY <1>5 DEF Told
<1>. HIDE DEF w
<1>7. /\ o.size \in Nat /\ Length(o) \in Nat \ {0} /\ o.size <= Length(o)
      /\ GroupsFilled(fs.mem, o) /\ DOMAIN w = 0 .. Length(o) - 1
      /\ \A i \in 0 .. Length(o) - 1 : ReadPage(fs.mem, o, i) = w[i]
  BY <1>6 DEF Tells
<1>8. GroupsFilled(fs'.mem, o)
  <2>1. SUFFICES ASSUME o.kind = "subindexed"
                 PROVE  GroupsFilled(fs'.mem, o)
    BY DEF GroupsFilled
  <2>2. <<TopRole, o.page>> \in Refs(fs.mem, o) /\ ~IsData(TopRole)
    BY <2>1 DEF Refs, IsData, TopRole
  <2>3. o.page \in IndexOf(fs.mem, o)
    BY <2>2 DEF IndexOf
  <2>. QED  BY <1>5, <1>7, <2>3 DEF SamePtrs, GroupsFilled
<1>9. S \subseteq 0 .. Length(o) - 1
  BY <1>4, <1>7
<1>10. ASSUME NEW i \in 0 .. Length(o) - 1
       PROVE  ReadPage(fs'.mem, o, i) = c[i]
  <2>. DEFINE found == RefsAt(fs.mem, o, i)
              r     == CHOOSE r \in found : TRUE
  <2>1. RefsAt(fs'.mem, o, i) = found
    <3>1. RoleOfPage(fs.mem, o, i) = PlainRole(o, i)
      BY <1>7, RoleIsPlain
    <3>2. RoleOfPage(fs'.mem, o, i) = PlainRole(o, i)
      BY <1>7, <1>8, RoleIsPlain
    <3>. QED  BY <1>5, <3>1, <3>2 DEF RefsAt
  <2>2. /\ ReadPage(fs'.mem, o, i) = ReadFrom(fs'.mem, RefsAt(fs'.mem, o, i))
        /\ ReadPage(fs.mem, o, i) = ReadFrom(fs.mem, found)
    BY ReadThrough
  <2>3. c[i] = IF i \in S THEN Item(v, i) ELSE w[i]
    BY <1>7
  <2>4. \A j \in S : \A t \in found : \A s \in RefsAt(fs.mem, o, j) : s[2] = t[2] => j = i
    <3>1. SUFFICES ASSUME NEW j \in S, NEW t \in found, NEW s \in RefsAt(fs.mem, o, j), s[2] = t[2]
                   PROVE  i = j
      OBVIOUS
    <3>2. j \in 0 .. Length(o) - 1 /\ o \in fs.objects /\ GroupsFilled(fs.mem, o) /\ Length(o) \in Nat
      BY <1>5, <1>7, <1>9
    <3>. QED  BY <3>1, <3>2, ContentApart
  <2>. HIDE DEF found, c
  <2>5. CASE found = {}
    <3>1. ReadPage(fs'.mem, o, i) = ReadPage(fs.mem, o, i)
      BY <2>1, <2>2, <2>5 DEF ReadFrom
    <3>2. i \notin S
      BY <1>4, <2>5 DEF found
    <3>. QED  BY <1>7, <2>3, <3>1, <3>2
  <2>6. CASE found # {}
    <3>1. r \in found
      BY <2>6
    <3>2. /\ ReadPage(fs'.mem, o, i) = fs'.mem[r[2]].items
          /\ ReadPage(fs.mem, o, i) = fs.mem[r[2]].items
      BY <2>1, <2>2, <2>6 DEF ReadFrom
    <3>. HIDE DEF r
    <3>3. CASE i \in S
      <4>1. PICK j \in S : \E s \in RefsAt(fs.mem, o, j) : s[2] = r[2] /\ fs'.mem[r[2]].items = Item(v, j)
        BY <1>4, <3>1, <3>3 DEF found
      <4>2. j = i
        BY <2>4, <3>1, <4>1
      <4>. QED  BY <2>3, <3>2, <3>3, <4>1, <4>2
    <3>4. CASE i \notin S
      <4>1. r[2] \in Pages
        <5>1. r \in Refs(fs.mem, o) /\ FileApart(fs, o)
          BY <1>5, <3>1 DEF found, RefsAt, Sound, Apart, FilesApart
        <5>. QED  BY <5>1, WindowType DEF FileApart
      <4>2. fs'.mem[r[2]] = fs.mem[r[2]]
        BY <1>4, <2>4, <3>1, <3>4, <4>1
      <4>. QED  BY <1>7, <2>3, <3>2, <3>4, <4>2
    <3>. QED  BY <3>3, <3>4
  <2>. QED  BY <2>5, <2>6
<1>11. DOMAIN c = 0 .. Length(o) - 1
  BY <1>7
<1>. HIDE DEF c
<1>12. Tells(fs'.mem, o, c)
  BY <1>7, <1>8, <1>10, <1>11 DEF Tells
<1>13. /\ o.slot \in DOMAIN want' /\ want'[o.slot] = c
       /\ \A s \in DOMAIN want : s \in DOMAIN want' /\ (s # o.slot => want'[s] = want[s])
  BY <1>4, WantingOthers
<1>14. \A q \in {o} : q.slot \in DOMAIN want' /\ Tells(fs'.mem, q, want'[q.slot])
  BY <1>12, <1>13
<1>15. \A q \in fs.objects \ {o} : q.slot # o.slot /\ q.slot \in DOMAIN want
  BY <1>5 DEF Sound, Apart, SlotsApart, Told
<1>16. \A q \in fs.objects \ {o} : q.slot \in DOMAIN want' /\ want'[q.slot] = want[q.slot]
  BY <1>13, <1>15
<1>. QED  BY <1>5, <1>14, <1>16, ToldOfKept

\* Nothing changes for a file in a quiet call, nor when the volume is opened again.
LEMMA QuietTells ==
  ASSUME Sound(fs), Told(fs, want), QuietCall
  PROVE  Told(fs', want')
<1>1. fs'.objects = fs.objects /\ FilesKept(fs, fs') /\ want' = want
  BY DEF QuietCall, Untouched
<1>2. \A o \in fs.objects : IsKind(o) /\ FileKept(fs.mem, fs'.mem, o)
  BY <1>1 DEF Sound, Apart, WellFormed, IsEntry, IsKind, FilesKept, FilePages, FileKept
<1>3. Exchanges(fs, fs', fs.objects, {})
  BY <1>1, <1>2 DEF Exchanges
<1>4. \A o \in fs.objects : o.slot \in DOMAIN want' /\ want'[o.slot] = want[o.slot]
  BY <1>1 DEF Told
<1>. QED  BY <1>3, <1>4, ToldOfKept

LEMMA ReopeningTells ==
  ASSUME Sound(fs), Told(fs, want), Reopen, ~hurt'
  PROVE  Told(fs', want')
<1>1. fs' = Load(fs.mem) /\ ~ReloadLoses(fs)
  BY DEF Reopen
<1>2. /\ DOMAIN fs' = VolumeFields /\ fs'.used = fs.mem[BitPage].items
      /\ fs'.root = fs.root /\ fs'.mem = fs.mem /\ UsersLike(fs, fs', {})
      /\ fs'.objects = {Renumbered(fs, o) : o \in fs.objects}
  BY <1>1, ReloadParts DEF ReloadLoses
<1>3. want' = [s \in {o.slot : o \in fs'.objects} |->
                 IF s \in DOMAIN want THEN want[s] ELSE Expected(0, {}, Zeros)]
  BY DEF Reopen
<1>4. ASSUME NEW q \in fs'.objects
      PROVE  q.slot \in DOMAIN want' /\ Tells(fs'.mem, q, want'[q.slot])
  <2>1. PICK o \in fs.objects : q = Renumbered(fs, o)
    BY <1>2
  <2>2. IsEntry(fs, o)
    BY DEF Sound, Apart, WellFormed
  <2>3. SameFile(q, o)
    BY <2>1, <2>2, RenumberedFields
  <2>4. o.slot \in DOMAIN want /\ Tells(fs.mem, o, want[o.slot])
    BY DEF Told
  <2>5. /\ q.kind = o.kind /\ q.page = o.page /\ q.pages = o.pages /\ q.slot = o.slot
        /\ q.size \in {o.size, IF o.size = 0 THEN 1 ELSE o.size}
    BY <2>3 DEF SameFile
  <2>6. Tells(fs.mem, q, want[o.slot])
    BY <2>4, <2>5, TellsRenamed
  <2>7. q.slot \in {o_1.slot : o_1 \in fs'.objects}
    OBVIOUS
  <2>8. q.slot \in DOMAIN want' /\ want'[q.slot] = want[o.slot]
    BY <1>3, <2>4, <2>5, <2>7
  <2>. QED  BY <1>2, <2>6, <2>8
<1>. QED  BY <1>4 DEF Told

\* Every step leaves it so.
LEMMA NextTells ==
  ASSUME SoundUntilHurt, ToldRight, [Next]_vars
  PROVE  ToldRight'
<1>. SUFFICES ASSUME ~hurt'
              PROVE  Told(fs', want')
  BY DEF ToldRight, Told
<1>1. ASSUME ~hurt
      PROVE  Sound(fs) /\ Told(fs, want)
  BY <1>1 DEF SoundUntilHurt, ToldRight
<1>2. ASSUME ~hurt, NEW who, NEW name, FileCall(who, name)
      PROVE  Told(fs', want')
  <2>1. Sound(fs) /\ Told(fs, want)
    BY <1>1, <1>2
  <2>2. CASE QuietCall
    BY <2>1, <2>2, QuietTells
  <2>3. CASE Succeeding(who, name)
    BY <2>1, <2>3, CreatingTells, RunningTells, UpdatingTells, RewritingTells, RenamingTells,
       DeletingTells DEF Succeeding
  <2>4. CASE Patching(who, name)
    BY <2>1, <2>4, PatchingTells
  <2>. QED  BY <1>2, <2>1, <2>2, <2>3, <2>4, FileCallDoes
<1>3. ASSUME ~hurt, UserCall
      PROVE  Told(fs', want')
  BY <1>1, <1>3, UserCallQuiet, QuietTells
<1>4. ASSUME ~hurt, Reopen
      PROVE  Told(fs', want')
  BY <1>1, <1>4, ReopeningTells
<1>5. CASE UNCHANGED vars
  BY <1>1, <1>5 DEF vars
<1>. QED  BY <1>2, <1>3, <1>4, <1>5 DEF Next, Abandoned

\* Every file reads as it was last written, holes as zeros, whatever was called since for it or
\* for others, refused or not, and through every reload that loses nothing.
THEOREM FilesReadBack == Spec => []ReadsBack
<1>1. Init => ToldRight
  <2>1. SUFFICES ASSUME Init
                 PROVE  fs.objects = {}
    BY DEF ToldRight, Told
  <2>2. fs = Load(FreshMem)
    BY <2>1 DEF Init
  <2>. QED  BY <2>2, FreshLoaded
<1>2. SoundUntilHurt /\ ToldRight /\ [Next]_vars => ToldRight'
  BY NextTells
<1>3. ToldRight => ReadsBack
  <2>1. SUFFICES ASSUME ToldRight, ~hurt, NEW o \in fs.objects, NEW i \in 0 .. o.size - 1
                 PROVE  ReadPage(fs.mem, o, i) = want[o.slot][i]
    BY DEF ReadsBack
  <2>2. Tells(fs.mem, o, want[o.slot])
    BY <2>1 DEF ToldRight, Told
  <2>3. i \in 0 .. Length(o) - 1
    BY <2>2 DEF Tells
  <2>. QED  BY <2>2, <2>3 DEF Tells
<1>. QED  BY <1>1, <1>2, <1>3, VolumeSound, PTL DEF Spec

-----------------------------------------------------------------------------
(***************************************************************************)
(* Every user is charged the pages his files have.                         *)
(***************************************************************************)
\* The pages of the entries S that the user u is charged for.
ChargedFor(mem, S, u) == UNION {DataPages(mem, o) : o \in {o \in S : o.user = u}}

Charged(h) == \A u \in DOMAIN h.users : h.users[u].used = Cardinality(ChargedFor(h.mem, h.objects, u))

ChargedRight == ~hurt => Charged(fs)

\* Two sets matched one to one are the same size.
LEMMA Matched ==
  ASSUME NEW S, NEW T, IsFiniteSet(S), NEW f, f \in [S -> T],
         \A x, y \in S : f[x] = f[y] => x = y, \A t \in T : \E x \in S : f[x] = t
  PROVE  IsFiniteSet(T) /\ Cardinality(T) = Cardinality(S)
<1>1. f \in Injection(S, T)
  BY DEF Injection, IsInjective
<1>2. f \in Surjection(S, T)
  BY DEF Surjection
<1>3. ExistsBijection(S, T)
  BY <1>1, <1>2 DEF ExistsBijection, Bijection
<1>. QED  BY <1>3, FS_Bijection

\* The data pages of a file are as many as count_real_data_pages_in_object counts.
LEMMA CountedPages ==
  ASSUME NEW h, Sound(h), NEW o \in h.objects
  PROVE  /\ DataPages(h.mem, o) \subseteq PagesOf(h.mem, o)
         /\ IsFiniteSet(DataPages(h.mem, o)) /\ PagesOf(h.mem, o) \subseteq Pages
         /\ RealPages(h.mem, o) = Cardinality(DataPages(h.mem, o)) /\ RealPages(h.mem, o) \in Nat
<1>. DEFINE T    == DataPages(h.mem, o)
            R    == {r \in Refs(h.mem, o) : IsData(r[1])}
            f    == [p \in T |-> CHOOSE r \in R : r[2] = p]
<1>1. FileApart(h, o)
  BY DEF Sound, Apart, FilesApart
<1>2. T = {r[2] : r \in R} /\ T \subseteq PagesOf(h.mem, o)
  BY DEF DataPages, PagesOf
<1>3. PagesOf(h.mem, o) \subseteq Pages
  BY <1>1, WindowType DEF FileApart, PagesOf
<1>4. IsFiniteSet(T)
  BY <1>2, <1>3, WindowType, FS_Subset
<1>5. \A r, s \in R : r[2] = s[2] => r = s
  BY <1>1 DEF FileApart
<1>. HIDE DEF R, T
<1>6. \A p \in T : f[p] \in R /\ f[p][2] = p
  BY <1>2
<1>7. \A r \in R : r[2] \in T /\ f[r[2]] = r
  BY <1>2, <1>5, <1>6
<1>8. f \in [T -> R]
  BY <1>6
<1>. HIDE DEF f
<1>9. (\A x, y \in T : f[x] = f[y] => x = y) /\ \A r \in R : \E x \in T : f[x] = r
  BY <1>6, <1>7
<1>10. Cardinality(R) = Cardinality(T)
  BY <1>4, <1>8, <1>9, Matched
<1>11. RealPages(h.mem, o) = Cardinality(R)
  BY DEF RealPages, R
<1>12. Cardinality(T) \in Nat
  BY <1>4, FS_CardinalityType
<1>. QED  BY <1>2, <1>3, <1>4, <1>10, <1>11, <1>12 DEF T

\* What one user is charged without one of his files.
LEMMA ChargeWithout ==
  ASSUME NEW h, Sound(h), NEW o \in h.objects, NEW u
  PROVE  /\ Cardinality(ChargedFor(h.mem, h.objects, u)) \in Nat
         /\ Cardinality(ChargedFor(h.mem, h.objects \ {o}, u)) \in Nat
         /\ Cardinality(ChargedFor(h.mem, h.objects, u)) =
              IF o.user = u
                THEN Cardinality(ChargedFor(h.mem, h.objects \ {o}, u)) + RealPages(h.mem, o)
                ELSE Cardinality(ChargedFor(h.mem, h.objects \ {o}, u))
<1>. DEFINE all  == ChargedFor(h.mem, h.objects, u)
            rest == ChargedFor(h.mem, h.objects \ {o}, u)
            own  == DataPages(h.mem, o)
<1>1. \A q \in h.objects : DataPages(h.mem, q) \subseteq PagesOf(h.mem, q) /\ PagesOf(h.mem, q) \subseteq Pages
  BY CountedPages
<1>2. all \subseteq Pages /\ rest \subseteq Pages
  BY <1>1 DEF ChargedFor
<1>3. IsFiniteSet(all) /\ IsFiniteSet(rest)
  <2>. HIDE DEF all, rest
  <2>1. IsFiniteSet(all)
    BY <1>2, WindowType, FS_Subset
  <2>2. IsFiniteSet(rest)
    BY <1>2, WindowType, FS_Subset
  <2>. QED  BY <2>1, <2>2
<1>4. Cardinality(all) \in Nat /\ Cardinality(rest) \in Nat
  BY <1>3, FS_CardinalityType
<1>5. IsFiniteSet(own) /\ RealPages(h.mem, o) = Cardinality(own) /\ RealPages(h.mem, o) \in Nat
  BY CountedPages
<1>6. ASSUME o.user = u
      PROVE  Cardinality(all) = Cardinality(rest) + RealPages(h.mem, o)
  <2>1. all = rest \union own
    BY <1>6 DEF ChargedFor
  <2>2. rest \intersect own = {}
    <3>1. \A q \in h.objects \ {o} : PagesOf(h.mem, q) \intersect PagesOf(h.mem, o) = {}
      BY DEF Sound, Apart, FilesApart
    <3>2. \A q \in h.objects \ {o} : DataPages(h.mem, q) \intersect own = {}
      BY <1>1, <3>1
    <3>. HIDE DEF own
    <3>. QED  BY <3>2 DEF ChargedFor
  <2>. HIDE DEF all, rest, own
  <2>3. Cardinality(all) = Cardinality(rest) + Cardinality(own) - Cardinality({})
    BY <1>3, <1>5, <2>1, <2>2, FS_Union
  <2>4. Cardinality({}) = 0
    BY FS_EmptySet
  <2>. QED  BY <1>4, <1>5, <2>3, <2>4
<1>7. ASSUME o.user # u
      PROVE  all = rest
  BY <1>7 DEF ChargedFor
<1>. QED  BY <1>4, <1>6, <1>7

\* What a user is charged for files that are kept.
LEMMA ChargeKept ==
  ASSUME NEW mem, NEW mem2, NEW K, NEW u, \A o \in K : IsKind(o) /\ FileKept(mem, mem2, o)
  PROVE  ChargedFor(mem2, K, u) = ChargedFor(mem, K, u)
<1>1. \A o \in K : DataPages(mem2, o) = DataPages(mem, o)
  BY KeptFile
<1>. QED  BY <1>1 DEF ChargedFor

\* One file comes in, charged to its owner.
LEMMA ChargeMore ==
  ASSUME Sound(fs), Sound(fs'), Charged(fs), NEW o, Exchanges(fs, fs', fs.objects, {o}),
         \A q \in fs.objects : q.slot # o.slot,
         ChargedMore(fs, fs', o.user, RealPages(fs'.mem, o))
  PROVE  Charged(fs')
<1>1. o \in fs'.objects /\ fs'.objects \ {o} = fs.objects
  BY DEF Exchanges
<1>2. ASSUME NEW v \in DOMAIN fs'.users
      PROVE  fs'.users[v].used = Cardinality(ChargedFor(fs'.mem, fs'.objects, v))
  <2>1. ChargedFor(fs'.mem, fs.objects, v) = ChargedFor(fs.mem, fs.objects, v)
    BY ChargeKept DEF Exchanges
  <2>2. /\ Cardinality(ChargedFor(fs'.mem, fs'.objects, v)) \in Nat
        /\ Cardinality(ChargedFor(fs'.mem, fs'.objects \ {o}, v)) \in Nat
        /\ Cardinality(ChargedFor(fs'.mem, fs'.objects, v)) =
             IF o.user = v
               THEN Cardinality(ChargedFor(fs'.mem, fs'.objects \ {o}, v)) + RealPages(fs'.mem, o)
               ELSE Cardinality(ChargedFor(fs'.mem, fs'.objects \ {o}, v))
    BY <1>1, ChargeWithout
  <2>3. /\ v \in DOMAIN fs.users
        /\ fs'.users[v].used = IF v = o.user THEN fs.users[v].used + RealPages(fs'.mem, o)
                                             ELSE fs.users[v].used
    BY DEF ChargedMore
  <2>4. fs.users[v].used = Cardinality(ChargedFor(fs.mem, fs.objects, v))
    BY <2>3 DEF Charged
  <2>. QED  BY <1>1, <2>1, <2>2, <2>3, <2>4
<1>. QED  BY <1>2 DEF Charged

\* A file is charged no more than its owner is.
LEMMA OwnPagesCharged ==
  ASSUME NEW h, Sound(h), Charged(h), NEW o \in h.objects
  PROVE  /\ o.user \in DOMAIN h.users /\ RealPages(h.mem, o) \in Nat
         /\ Cardinality(ChargedFor(h.mem, h.objects \ {o}, o.user)) \in Nat
         /\ h.users[o.user].used =
              Cardinality(ChargedFor(h.mem, h.objects \ {o}, o.user)) + RealPages(h.mem, o)
<1>1. o.user \in DOMAIN h.users
  BY DEF Sound, Apart, WellFormed, IsEntry
<1>2. RealPages(h.mem, o) \in Nat
  BY CountedPages
<1>3. /\ Cardinality(ChargedFor(h.mem, h.objects, o.user)) \in Nat
      /\ Cardinality(ChargedFor(h.mem, h.objects \ {o}, o.user)) \in Nat
      /\ Cardinality(ChargedFor(h.mem, h.objects, o.user)) =
           IF o.user = o.user
             THEN Cardinality(ChargedFor(h.mem, h.objects \ {o}, o.user)) + RealPages(h.mem, o)
             ELSE Cardinality(ChargedFor(h.mem, h.objects \ {o}, o.user))
  BY ChargeWithout
<1>4. h.users[o.user].used = Cardinality(ChargedFor(h.mem, h.objects, o.user))
  BY <1>1 DEF Charged
<1>. QED  BY <1>1, <1>2, <1>3, <1>4

\* The owner of o is refunded what it cost, and charged n.
Recharged(h, h2, o, n) ==
  /\ DOMAIN h2.users = DOMAIN h.users
  /\ \A v \in DOMAIN h.users :
       h2.users[v].used = IF v = o.user THEN Less(h.users[v].used, RealPages(h.mem, o)) + n
                                        ELSE h.users[v].used

\* One file is replaced by another of its owner,
LEMMA ChargeSwapped ==
  ASSUME Sound(fs), Sound(fs'), Charged(fs), NEW o \in fs.objects, NEW new,
         Exchanges(fs, fs', fs.objects \ {o}, {new}), new.user = o.user, new.slot = o.slot,
         Recharged(fs, fs', o, RealPages(fs'.mem, new))
  PROVE  Charged(fs')
<1>1. \A q \in fs.objects \ {o} : q.slot # new.slot
  BY DEF Sound, Apart, SlotsApart
<1>2. new \in fs'.objects /\ fs'.objects \ {new} = fs.objects \ {o}
  BY <1>1 DEF Exchanges
<1>3. ASSUME NEW v \in DOMAIN fs'.users
      PROVE  fs'.users[v].used = Cardinality(ChargedFor(fs'.mem, fs'.objects, v))
  <2>. DEFINE rest == Cardinality(ChargedFor(fs.mem, fs.objects \ {o}, v))
  <2>1. ChargedFor(fs'.mem, fs.objects \ {o}, v) = ChargedFor(fs.mem, fs.objects \ {o}, v)
    BY ChargeKept DEF Exchanges
  <2>2. /\ Cardinality(ChargedFor(fs'.mem, fs'.objects, v)) \in Nat
        /\ Cardinality(ChargedFor(fs'.mem, fs'.objects \ {new}, v)) \in Nat
        /\ Cardinality(ChargedFor(fs'.mem, fs'.objects, v)) =
             IF new.user = v
               THEN Cardinality(ChargedFor(fs'.mem, fs'.objects \ {new}, v)) + RealPages(fs'.mem, new)
               ELSE Cardinality(ChargedFor(fs'.mem, fs'.objects \ {new}, v))
    BY <1>2, ChargeWithout
  <2>3. v \in DOMAIN fs.users
    BY DEF Recharged
  <2>4. CASE v = o.user
    <3>1. /\ o.user \in DOMAIN fs.users /\ RealPages(fs.mem, o) \in Nat
          /\ Cardinality(ChargedFor(fs.mem, fs.objects \ {o}, o.user)) \in Nat
          /\ fs.users[o.user].used =
               Cardinality(ChargedFor(fs.mem, fs.objects \ {o}, o.user)) + RealPages(fs.mem, o)
      BY OwnPagesCharged
    <3>2. Less(fs.users[v].used, RealPages(fs.mem, o)) = rest
      BY <2>4, <3>1 DEF Less
    <3>3. fs'.users[v].used = rest + RealPages(fs'.mem, new)
      BY <2>3, <2>4, <3>2 DEF Recharged
    <3>. QED  BY <1>2, <2>1, <2>2, <2>4, <3>3
  <2>5. CASE v # o.user
    <3>1. fs'.users[v].used = fs.users[v].used
      BY <2>3, <2>5 DEF Recharged
    <3>2. fs.users[v].used = Cardinality(ChargedFor(fs.mem, fs.objects, v))
      BY <2>3 DEF Charged
    <3>3. ChargedFor(fs.mem, fs.objects, v) = ChargedFor(fs.mem, fs.objects \ {o}, v)
      BY <2>5 DEF ChargedFor
    <3>. QED  BY <1>2, <2>1, <2>2, <2>5, <3>1, <3>2, <3>3
  <2>. QED  BY <2>4, <2>5
<1>. QED  BY <1>3 DEF Charged

\* or taken away.
LEMMA ChargeLess ==
  ASSUME Sound(fs), Charged(fs), NEW o \in fs.objects,
         Exchanges(fs, fs', fs.objects \ {o}, {}), Recharged(fs, fs', o, 0)
  PROVE  Charged(fs')
<1>1. fs'.objects = fs.objects \ {o}
  BY DEF Exchanges
<1>2. ASSUME NEW v \in DOMAIN fs'.users
      PROVE  fs'.users[v].used = Cardinality(ChargedFor(fs'.mem, fs'.objects, v))
  <2>. DEFINE rest == Cardinality(ChargedFor(fs.mem, fs.objects \ {o}, v))
  <2>1. ChargedFor(fs'.mem, fs'.objects, v) = ChargedFor(fs.mem, fs.objects \ {o}, v)
    BY <1>1, ChargeKept DEF Exchanges
  <2>2. v \in DOMAIN fs.users
    BY DEF Recharged
  <2>3. CASE v = o.user
    <3>1. /\ o.user \in DOMAIN fs.users /\ RealPages(fs.mem, o) \in Nat
          /\ Cardinality(ChargedFor(fs.mem, fs.objects \ {o}, o.user)) \in Nat
          /\ fs.users[o.user].used =
               Cardinality(ChargedFor(fs.mem, fs.objects \ {o}, o.user)) + RealPages(fs.mem, o)
      BY OwnPagesCharged
    <3>2. Less(fs.users[v].used, RealPages(fs.mem, o)) = rest /\ rest \in Nat
      BY <2>3, <3>1 DEF Less
    <3>3. fs'.users[v].used = rest + 0
      BY <2>2, <2>3, <3>2 DEF Recharged
    <3>. QED  BY <2>1, <3>2, <3>3
  <2>4. CASE v # o.user
    <3>1. fs'.users[v].used = fs.users[v].used
      BY <2>2, <2>4 DEF Recharged
    <3>2. fs.users[v].used = Cardinality(ChargedFor(fs.mem, fs.objects, v))
      BY <2>2 DEF Charged
    <3>3. ChargedFor(fs.mem, fs.objects, v) = ChargedFor(fs.mem, fs.objects \ {o}, v)
      BY <2>4 DEF ChargedFor
    <3>. QED  BY <2>1, <3>1, <3>2, <3>3
  <2>. QED  BY <2>3, <2>4
<1>. QED  BY <1>2 DEF Charged

\* A tree has as many data pages as its length without the holes,
LEMMA TreeCount ==
  ASSUME NEW mem, NEW o, NEW n \in Nat \ {0}, n <= MaxFilePages, NEW holes, NEW v,
         TreeOf(mem, o, n, holes, v)
  PROVE  RealPages(mem, o) = Real(n, holes)
<1>. DEFINE R    == RolesFor(n, holes)
            S    == (0 .. n - 1) \ holes
            role(i) == DataRole(n, i)
            D    == {r \in Refs(mem, o) : IsData(r[1])}
<1>1. PICK at : Refs(mem, o) = {<<r, at[r]>> : r \in R}
  BY DEF TreeOf, TreeAt
<1>2. \A x : x \in Refs(mem, o) <=> \E r \in R : x = <<r, at[r]>>
  <2>. HIDE DEF R
  <2>. QED  BY <1>1
<1>. DEFINE f == [i \in S |-> <<role(i), at[role(i)]>>]
<1>3. PtrsPerPage \in Nat \ {0} /\ \A i \in S : i \in Nat
  BY Layout
<1>4. \A i \in S : role(i) = PlainRole([kind |-> KindFor(n)], i)
  BY DEF DataRole, PlainRole, KindFor
<1>5. \A i \in S : IsData(role(i))
  <2>1. \A i \in S : i % PtrsPerPage \in Nat
    BY <1>3, DivMod
  <2>. QED  BY <1>3, <2>1 DEF IsData, DataRole
<1>6. \A r \in R : IsData(r) => \E i \in S : r = role(i)
  BY DEF RolesFor, IsData, TopRole, GroupRole
<1>7. \A i \in S : role(i) \in R
  BY DEF RolesFor
<1>8. ASSUME NEW i \in S, NEW j \in S, role(i) = role(j)
      PROVE  i = j
  BY <1>3, <1>4, <1>8, PlainRolesApart
<1>. HIDE DEF role, R
<1>9. \A i \in S : f[i] = <<role(i), at[role(i)]>>
  OBVIOUS
<1>10. \A i \in S : f[i] \in D
  <2>. SUFFICES ASSUME NEW i \in S
                PROVE  f[i] \in D
    OBVIOUS
  <2>1. f[i] \in Refs(mem, o) /\ f[i][1] = role(i)
    BY <1>2, <1>7, <1>9
  <2>. QED  BY <1>5, <2>1
<1>11. \A t \in D : \E i \in S : f[i] = t
  <2>. SUFFICES ASSUME NEW t \in D
                PROVE  \E i \in S : f[i] = t
    OBVIOUS
  <2>1. PICK r \in R : t = <<r, at[r]>>
    BY <1>2
  <2>2. PICK i \in S : r = role(i)
    BY <1>6, <2>1
  <2>. QED  BY <1>9, <2>1, <2>2
<1>12. f \in [S -> D]
  BY <1>10
<1>13. IsFiniteSet(S)
  <2>1. IsFiniteSet(0 .. n - 1)
    BY FS_Interval
  <2>. QED  BY <2>1, FS_Subset
<1>. HIDE DEF f, S, D
<1>14. \A i, j \in S : f[i] = f[j] => i = j
  BY <1>8, <1>9
<1>15. Cardinality(D) = Cardinality(S)
  BY <1>11, <1>12, <1>13, <1>14, Matched
<1>. QED  BY <1>15 DEF RealPages, Real, D, S

\* and a run as many as its pages.
LEMMA RunCount ==
  ASSUME NEW mem, NEW o, o.kind = "contiguous", o.page \in Int, o.pages \in Nat
  PROVE  RealPages(mem, o) = o.pages
<1>. DEFINE S == 0 .. o.pages - 1
            D == {r \in Refs(mem, o) : IsData(r[1])}
            f == [i \in S |-> <<<<0, i>>, o.page + i>>]
<1>1. \A x : x \in Refs(mem, o) <=> \E i \in S : x = <<<<0, i>>, o.page + i>>
  BY RunRefs
<1>2. \A i \in S : IsData(<<0, i>>)
  BY DEF IsData
<1>3. \A i \in S : f[i] = <<<<0, i>>, o.page + i>>
  OBVIOUS
<1>4. f \in [S -> D]
  BY <1>1, <1>2, <1>3
<1>5. \A t \in D : \E i \in S : f[i] = t
  BY <1>1, <1>3
<1>6. \A i, j \in S : f[i] = f[j] => i = j
  BY <1>3
<1>7. IsFiniteSet(S) /\ Cardinality(S) = o.pages
  <2>1. PICK last \in Int : last = o.pages - 1
    OBVIOUS
  <2>2. IsFiniteSet(0 .. last) /\ Cardinality(0 .. last) = IF 0 > last THEN 0 ELSE last - 0 + 1
    BY FS_Interval
  <2>. QED  BY <2>1, <2>2
<1>. HIDE DEF f, S, D
<1>8. Cardinality(D) = Cardinality(S)
  BY <1>4, <1>5, <1>6, <1>7, Matched
<1>. QED  BY <1>7, <1>8 DEF RealPages, D

\* What a creation does to the charges.
LEMMA CreationCharges ==
  ASSUME Sound(fs), Sound(fs'), Charged(fs), NEW u, NEW o, NEW T, NEW d, NEW g,
         Creation(fs, fs', u, o, T, d, g), RealPages(g.mem, o) = o.pages
  PROVE  Charged(fs')
<1>1. FileAdded(fs, fs', u, o, g)
  <2>1. Sound(fs)
    OBVIOUS
  <2>2. Creation(fs, fs', u, o, T, d, g)
    OBVIOUS
  <2>. QED  BY ONLY <2>1, <2>2, CreationEffect
<1>2. RealPages(fs'.mem, o) = RealPages(g.mem, o)
  <2>1. Refs(fs'.mem, o) = Refs(g.mem, o)
    BY <1>1, KeptFile DEF FileAdded
  <2>. QED  BY <2>1 DEF RealPages
<1>3. /\ Exchanges(fs, fs', fs.objects, {o}) /\ \A q \in fs.objects : q.slot # o.slot
      /\ ChargedMore(fs, fs', o.user, RealPages(fs'.mem, o))
  BY <1>1, <1>2 DEF FileAdded
<1>. QED  BY <1>3, ChargeMore

LEMMA CreatingCharges ==
  ASSUME NEW who, NEW name, Sound(fs), Sound(fs'), Charged(fs), Creating(who, name) \/ Running(who, name)
  PROVE  Charged(fs')
<1>1. ASSUME Creating(who, name)
      PROVE  Charged(fs')
  <2>1. PICK len \in Nat : \E holes, v, u, o, T, d, g : CreationOf(who, name, len, holes, v, u, o, T, d, g)
    BY <1>1 DEF Creating
  <2>. DEFINE n == AtLeastOne(len)
  <2>2. PICK holes, v, u, o, T, d, g : CreationOf(who, name, len, holes, v, u, o, T, d, g)
    BY <2>1
  <2>3. /\ n <= MaxFilePages /\ Creation(fs, fs', u, o, T, d, g) /\ o.pages = Real(n, holes)
        /\ TreeOf(g.mem, o, n, holes, Written(len, v))
    BY <2>2 DEF CreationOf
  <2>4. n \in Nat \ {0}
    BY Counts
  <2>. HIDE DEF n
  <2>5. RealPages(g.mem, o) = o.pages
    BY <2>3, <2>4, TreeCount
  <2>. QED  BY <2>3, <2>5, CreationCharges
<1>2. ASSUME Running(who, name)
      PROVE  Charged(fs')
  <2>1. PICK n \in Nat \ {0} : \E u, o, T, d, g : RunOf(who, name, n, u, o, T, d, g)
    BY <1>2 DEF Running
  <2>2. PICK u, o, T, d, g : RunOf(who, name, n, u, o, T, d, g)
    BY <2>1
  <2>3. Creation(fs, fs', u, o, T, d, g) /\ o.kind = "contiguous" /\ o.pages = n
    BY <2>2 DEF RunOf
  <2>4. o.page \in Int
    <3>1. o.page \in Pages /\ Pages \subseteq Nat
      BY <2>3, Layout DEF Creation, EntryShape
    <3>2. o.page \in Nat
      BY <3>1
    <3>. QED  BY <3>2
  <2>5. RealPages(g.mem, o) = o.pages
    BY <2>3, <2>4, RunCount
  <2>. QED  BY <2>3, <2>5, CreationCharges
<1>. QED  BY <1>1, <1>2

\* An update charges who wrote, who is the owner when every path names its user,
LEMMA UpdatingCharges ==
  ASSUME NEW who, who # NoUser, NEW name, Sound(fs), Sound(fs'), Charged(fs), Updating(who, name)
  PROVE  Charged(fs')
<1>1. PICK len \in Nat :
        \E holes, v, u, o, new, T, g : UpdatingOf(who, name, len, holes, v, u, o, new, T, g)
  BY DEF Updating
<1>. DEFINE n == AtLeastOne(len)
<1>2. PICK holes, v, u, o, new, T, g : UpdatingOf(who, name, len, holes, v, u, o, new, T, g)
  BY <1>1
<1>3. /\ u \in Payers(who) /\ o \in Found(who, name)
      /\ n <= MaxFilePages /\ Revision(fs, g, o, new, T, {u \div EntriesPerPage})
      /\ \A q \in DOMAIN fs.users :
           g.users[q].used = IF q = u THEN Less(fs.users[q].used, RealPages(fs.mem, o)) + new.pages
                             ELSE fs.users[q].used
      /\ new = [o EXCEPT !.kind = KindFor(n), !.page = new.page, !.pages = Real(n, holes), !.size = n]
      /\ TreeOf(g.mem, new, n, holes, Written(len, v))
  BY <1>2 DEF UpdatingOf
<1>4. n \in Nat \ {0}
  BY Counts
<1>. HIDE DEF n
<1>5. /\ Exchanges(fs, fs', fs.objects \ {o}, {new}) /\ Orphans(fs') \subseteq Orphans(fs)
      /\ IsKind(new) /\ FileKept(g.mem, fs'.mem, new) /\ fs'.users = g.users
      /\ u \in UserIds
  BY <1>2, UpdatingEffect
<1>6. o.user = u
  BY <1>3 DEF Payers, Found
<1>7. /\ o \in fs.objects /\ new.slot = o.slot /\ new.user = o.user
      /\ DOMAIN g.users = DOMAIN fs.users
  BY <1>3 DEF Revision, UsersLike
<1>8. DOMAIN o = EntryFields
  BY <1>7 DEF Sound, Apart, WellFormed, IsEntry
<1>9. new.pages = Real(n, holes)
  BY <1>3, <1>8 DEF EntryFields
<1>10. RealPages(g.mem, new) = Real(n, holes)
  BY <1>3, <1>4, TreeCount
<1>11. RealPages(fs'.mem, new) = RealPages(g.mem, new)
  <2>1. Refs(fs'.mem, new) = Refs(g.mem, new)
    BY <1>5, KeptFile
  <2>. QED  BY <2>1 DEF RealPages
<1>12. Recharged(fs, fs', o, RealPages(fs'.mem, new))
  BY <1>3, <1>5, <1>6, <1>7, <1>9, <1>10, <1>11 DEF Recharged
<1>. QED  BY <1>5, <1>7, <1>12, ChargeSwapped

\* a file in its own place costs what it did,
LEMMA RevisedCharges ==
  ASSUME Sound(fs), Sound(fs'), Charged(fs), NEW o \in fs.objects, NEW new,
         Exchanges(fs, fs', fs.objects \ {o}, {new}), new.user = o.user, new.slot = o.slot,
         fs'.users = fs.users, RealPages(fs'.mem, new) = RealPages(fs.mem, o)
  PROVE  Charged(fs')
<1>1. /\ o.user \in DOMAIN fs.users /\ RealPages(fs.mem, o) \in Nat
      /\ Cardinality(ChargedFor(fs.mem, fs.objects \ {o}, o.user)) \in Nat
      /\ fs.users[o.user].used =
           Cardinality(ChargedFor(fs.mem, fs.objects \ {o}, o.user)) + RealPages(fs.mem, o)
  BY OwnPagesCharged
<1>2. Less(fs.users[o.user].used, RealPages(fs.mem, o)) + RealPages(fs.mem, o) = fs.users[o.user].used
  BY <1>1 DEF Less
<1>3. Recharged(fs, fs', o, RealPages(fs'.mem, new))
  BY <1>2 DEF Recharged
<1>. QED  BY <1>3, ChargeSwapped

LEMMA RenamingCharges ==
  ASSUME NEW who, NEW name, Sound(fs), Sound(fs'), Charged(fs), Renaming(who, name)
  PROVE  Charged(fs')
<1>1. PICK to, o, new, T, g : RenamingOf(who, name, to, o, new, T, g)
  BY DEF Renaming
<1>2. /\ Revision(fs, g, o, new, T, {}) /\ g.mem = fs.mem /\ new = [o EXCEPT !.name = to]
  BY <1>1 DEF RenamingOf
<1>3. /\ Exchanges(fs, fs', fs.objects \ {o}, {new}) /\ Orphans(fs') \subseteq Orphans(fs)
      /\ IsKind(new) /\ FileKept(g.mem, fs'.mem, new) /\ fs'.users = fs.users
  BY <1>1, RenamingEffect
<1>4. o \in fs.objects /\ new.slot = o.slot /\ new.user = o.user
  BY <1>2 DEF Revision
<1>5. DOMAIN o = EntryFields
  BY <1>4 DEF Sound, Apart, WellFormed, IsEntry
<1>6. new.kind = o.kind /\ new.page = o.page /\ new.pages = o.pages
  BY <1>2, <1>5 DEF EntryFields
<1>7. Refs(fs.mem, new) = Refs(fs.mem, o)
  BY <1>6, SameWalk
<1>8. Refs(fs'.mem, new) = Refs(fs.mem, new)
  BY <1>2, <1>3, KeptFile
<1>9. RealPages(fs'.mem, new) = RealPages(fs.mem, o)
  BY <1>7, <1>8 DEF RealPages
<1>. QED  BY <1>3, <1>4, <1>9, RevisedCharges

LEMMA RewritingCharges ==
  ASSUME NEW who, NEW name, Sound(fs), Sound(fs'), Charged(fs), Rewriting(who, name)
  PROVE  Charged(fs')
<1>1. PICK len \in Nat : \E v, o, new, T, g : RewritingOf(who, name, len, v, o, new, T, g)
  BY DEF Rewriting
<1>2. PICK v, o, new, T, g : RewritingOf(who, name, len, v, o, new, T, g)
  BY <1>1
<1>3. /\ o.kind = "contiguous" /\ Revision(fs, g, o, new, T, {}) /\ new = [o EXCEPT !.size = len]
  BY <1>2 DEF RewritingOf
<1>4. /\ Exchanges(fs, fs', fs.objects \ {o}, {new}) /\ Orphans(fs') \subseteq Orphans(fs)
      /\ IsKind(new) /\ FileKept(g.mem, fs'.mem, new) /\ fs'.users = fs.users
  BY <1>2, RewritingEffect
<1>5. o \in fs.objects /\ new.slot = o.slot /\ new.user = o.user
  BY <1>3 DEF Revision
<1>6. DOMAIN o = EntryFields /\ o.page \in Pages /\ o.pages \in Nat
  BY <1>5 DEF Sound, Apart, WellFormed, IsEntry
<1>7. new.kind = "contiguous" /\ new.page = o.page /\ new.pages = o.pages
  BY <1>3, <1>6 DEF EntryFields
<1>8. o.page \in Int
  <2>1. Pages \subseteq Nat
    BY Layout
  <2>2. o.page \in Nat
    BY <1>6, <2>1
  <2>. QED  BY <2>2
<1>9. RealPages(fs.mem, o) = o.pages
  BY <1>3, <1>6, <1>8, RunCount
<1>10. RealPages(fs'.mem, new) = new.pages
  BY <1>6, <1>7, <1>8, RunCount
<1>. QED  BY <1>4, <1>5, <1>7, <1>9, <1>10, RevisedCharges

\* a deletion refunds the owner,
LEMMA DeletingCharges ==
  ASSUME NEW who, NEW name, Sound(fs), Charged(fs), Deleting(who, name)
  PROVE  Charged(fs')
<1>1. PICK o, g : DeletionOf(who, name, o, g)
  BY DEF Deleting
<1>2. /\ o \in fs.objects /\ Exchanges(fs, fs', fs.objects \ {o}, {})
      /\ Orphans(fs') \subseteq Orphans(fs) /\ fs'.users = g.users
  BY <1>1, DeletionEffect
<1>3. /\ o.user \in DOMAIN fs.users /\ RealPages(fs.mem, o) \in Nat
      /\ Cardinality(ChargedFor(fs.mem, fs.objects \ {o}, o.user)) \in Nat
      /\ fs.users[o.user].used =
           Cardinality(ChargedFor(fs.mem, fs.objects \ {o}, o.user)) + RealPages(fs.mem, o)
  BY <1>2, OwnPagesCharged
<1>4. Less(fs.users[o.user].used, RealPages(fs.mem, o)) + 0 = Less(fs.users[o.user].used, RealPages(fs.mem, o))
  BY <1>3 DEF Less
<1>5. Recharged(fs, fs', o, 0)
  BY <1>1, <1>2, <1>4 DEF DeletionOf, Recharged
<1>. QED  BY <1>2, <1>5, ChargeLess

\* and no other call changes a charge or a page that counts.
LEMMA PatchingCharges ==
  ASSUME NEW who, NEW name, Sound(fs), Charged(fs), Patching(who, name)
  PROVE  Charged(fs')
<1>1. PICK first \in Nat : \E last \in Nat : \E v, o, S : PatchingOf(who, name, first, last, v, o, S)
  BY DEF Patching
<1>2. PICK last \in Nat : \E v, o, S : PatchingOf(who, name, first, last, v, o, S)
  BY <1>1
<1>3. PICK v, o, S : PatchingOf(who, name, first, last, v, o, S)
  BY <1>2
<1>4. /\ o \in fs.objects /\ fs'.objects = fs.objects /\ fs'.users = fs.users
      /\ Exchanges(fs, fs', fs.objects \ {o}, {o}) /\ Orphans(fs') = Orphans(fs)
      /\ Refs(fs'.mem, o) = Refs(fs.mem, o) /\ DataPages(fs'.mem, o) = DataPages(fs.mem, o)
      /\ IsKind(o) /\ SamePtrs(fs.mem, fs'.mem, IndexOf(fs.mem, o))
  BY <1>3, PatchingEffect
<1>5. \A q \in fs.objects : DataPages(fs'.mem, q) = DataPages(fs.mem, q)
  BY <1>4, KeptFile DEF Exchanges
<1>6. \A v_1 \in DOMAIN fs.users :
        ChargedFor(fs'.mem, fs'.objects, v_1) = ChargedFor(fs.mem, fs.objects, v_1)
  BY <1>4, <1>5 DEF ChargedFor
<1>. QED  BY <1>4, <1>6 DEF Charged

LEMMA QuietCharges ==
  ASSUME Sound(fs), Charged(fs), QuietCall
  PROVE  Charged(fs')
<1>1. Untouched(fs, fs')
  BY DEF QuietCall
<1>2. \A o \in fs.objects : /\ IsKind(o) /\ FileKept(fs.mem, fs'.mem, o)
                            /\ o.user \in DOMAIN fs.users
  BY <1>1 DEF Untouched, Sound, Apart, WellFormed, IsEntry, IsKind, FilesKept, FilePages, FileKept
<1>3. ASSUME NEW v \in DOMAIN fs'.users
      PROVE  fs'.users[v].used = Cardinality(ChargedFor(fs'.mem, fs'.objects, v))
  <2>1. ChargedFor(fs'.mem, fs'.objects, v) = ChargedFor(fs.mem, fs.objects, v)
    BY <1>1, <1>2, ChargeKept DEF Untouched
  <2>2. CASE v \in DOMAIN fs.users
    BY <1>1, <2>1, <2>2 DEF Untouched, Charged
  <2>3. CASE v \notin DOMAIN fs.users
    <3>1. ChargedFor(fs.mem, fs.objects, v) = {}
      BY <1>2, <2>3 DEF ChargedFor
    <3>. QED  BY <1>1, <2>1, <2>3, <3>1, FS_EmptySet DEF Untouched
  <2>. QED  BY <2>2, <2>3
<1>. QED  BY <1>3 DEF Charged

LEMMA ReopeningCharges ==
  ASSUME Sound(fs), Charged(fs), Reopen, ~hurt'
  PROVE  Charged(fs')
<1>1. fs' = Load(fs.mem) /\ ~ReloadLoses(fs)
  BY DEF Reopen
<1>2. /\ DOMAIN fs' = VolumeFields /\ fs'.used = fs.mem[BitPage].items
      /\ fs'.root = fs.root /\ fs'.mem = fs.mem /\ UsersLike(fs, fs', {})
      /\ fs'.objects = {Renumbered(fs, o) : o \in fs.objects}
  BY <1>1, ReloadParts DEF ReloadLoses
<1>3. ASSUME NEW o \in fs.objects
      PROVE  /\ Renumbered(fs, o).user = o.user
             /\ DataPages(fs.mem, Renumbered(fs, o)) = DataPages(fs.mem, o)
  <2>1. IsEntry(fs, o)
    BY DEF Sound, Apart, WellFormed
  <2>. DEFINE q == Renumbered(fs, o)
  <2>2. SameFile(q, o)
    BY <2>1, RenumberedFields
  <2>. HIDE DEF q
  <2>3. q.user = o.user /\ q.kind = o.kind /\ q.page = o.page /\ q.pages = o.pages
    BY <2>2 DEF SameFile
  <2>4. Refs(fs.mem, q) = Refs(fs.mem, o)
    BY <2>3, SameWalk
  <2>5. q.user = o.user /\ DataPages(fs.mem, q) = DataPages(fs.mem, o)
    BY <2>3, <2>4 DEF DataPages
  <2>. QED  BY <2>5 DEF q
<1>4. ASSUME NEW v
      PROVE  ChargedFor(fs'.mem, fs'.objects, v) = ChargedFor(fs.mem, fs.objects, v)
  <2>1. \A p : p \in ChargedFor(fs'.mem, fs'.objects, v) <=>
                 \E o \in fs.objects : o.user = v /\ p \in DataPages(fs.mem, o)
    BY <1>2, <1>3 DEF ChargedFor
  <2>2. \A p : p \in ChargedFor(fs.mem, fs.objects, v) <=>
                 \E o \in fs.objects : o.user = v /\ p \in DataPages(fs.mem, o)
    BY DEF ChargedFor
  <2>. QED  BY <2>1, <2>2
<1>5. DOMAIN fs'.users = DOMAIN fs.users /\ \A v \in DOMAIN fs.users : fs'.users[v].used = fs.users[v].used
  BY <1>2 DEF UsersLike
<1>. QED  BY <1>4, <1>5 DEF Charged

\* Every step leaves the charges right, if every path names its user.
LEMMA NextCharges ==
  ASSUME NoUser \notin Callers, SoundUntilHurt, SoundUntilHurt', ChargedRight, [Next]_vars
  PROVE  ChargedRight'
<1>. SUFFICES ASSUME ~hurt'
              PROVE  Charged(fs')
  BY DEF ChargedRight, Charged
<1>1. Sound(fs')
  BY DEF SoundUntilHurt, Sound, Apart, MirroredBut
<1>2. ASSUME ~hurt
      PROVE  Sound(fs) /\ Charged(fs)
  BY <1>2 DEF SoundUntilHurt, ChargedRight
<1>3. ASSUME ~hurt, NEW who \in Callers, NEW name, FileCall(who, name)
      PROVE  Charged(fs')
  <2>1. Sound(fs) /\ Charged(fs) /\ who # NoUser
    BY <1>2, <1>3
  <2>2. CASE QuietCall
    BY <2>1, <2>2, QuietCharges
  <2>3. CASE Succeeding(who, name)
    BY <1>1, <2>1, <2>3, CreatingCharges, UpdatingCharges, RewritingCharges, RenamingCharges,
       DeletingCharges DEF Succeeding
  <2>4. CASE Patching(who, name)
    BY <2>1, <2>4, PatchingCharges
  <2>. QED  BY <1>3, <2>1, <2>2, <2>3, <2>4, FileCallDoes
<1>4. ASSUME ~hurt, UserCall
      PROVE  Charged(fs')
  BY <1>2, <1>4, UserCallQuiet, QuietCharges
<1>5. ASSUME ~hurt, Reopen
      PROVE  Charged(fs')
  BY <1>2, <1>5, ReopeningCharges
<1>6. CASE UNCHANGED vars
  BY <1>2, <1>6 DEF vars
<1>. QED  BY <1>3, <1>4, <1>5, <1>6 DEF Next, Abandoned

\* Where every path names its user, a user is charged exactly the pages of content his files
\* have: index pages and holes are free, a hole that is filled is paid for, what shrinks, is
\* replaced or deleted is refunded, and nothing is paid twice or by another.
THEOREM ChargesAreRealPages == NoUser \notin Callers => (Spec => []QuotaIsRealPages)
<1>. SUFFICES ASSUME NoUser \notin Callers
              PROVE  Spec => []QuotaIsRealPages
  OBVIOUS
<1>1. Init => ChargedRight
  <2>. SUFFICES ASSUME Init
                PROVE  Charged(fs)
    BY DEF ChargedRight
  <2>1. fs = Load(FreshMem)
    BY DEF Init
  <2>2. fs.objects = {} /\ DOMAIN fs.users = {0} /\ fs.users[0] = NewUser(0)
    BY <2>1, FreshLoaded
  <2>3. \A v : ChargedFor(fs.mem, fs.objects, v) = {}
    BY <2>2 DEF ChargedFor
  <2>4. fs.users[0].used = 0
    BY <2>2 DEF NewUser
  <2>. QED  BY <2>2, <2>3, <2>4, FS_EmptySet DEF Charged
<1>2. SoundUntilHurt /\ SoundUntilHurt' /\ ChargedRight /\ [Next]_vars => ChargedRight'
  BY NextCharges
<1>3. ChargedRight => QuotaIsRealPages
  <2>. SUFFICES ASSUME ChargedRight, ~hurt, NEW u \in Users
                PROVE  fs.users[u].used =
                         Cardinality(UNION {DataPages(fs.mem, o) : o \in {o \in fs.objects : o.user = u}})
    BY DEF QuotaIsRealPages
  <2>. QED  BY DEF ChargedRight, Charged, ChargedFor, Users
<1>. QED  BY <1>1, <1>2, <1>3, VolumeSound, PTL DEF Spec
-----------------------------------------------------------------------------
(***************************************************************************)
(* The volume keeps the promise of Directory.                              *)
(***************************************************************************)
\* A file as the promise speaks of it, and all of them.
FileOf(mem, o) ==
  [id |-> o.slot, user |-> o.user, name |-> o.name, text |-> ReadFile(mem, Stored(o)),
   pages |-> DataPages(mem, o)]

FilesIn(h) == {FileOf(h.mem, o) : o \in h.objects}

LEMMA FilesNowAre == FilesNow = FilesIn(fs) /\ FilesNow' = FilesIn(fs')
BY DEF FilesNow, FilesIn, FileOf

LEMMA FileFields ==
  ASSUME NEW mem, NEW o
  PROVE  /\ FileOf(mem, o).id = o.slot /\ FileOf(mem, o).user = o.user
         /\ FileOf(mem, o).name = o.name /\ FileOf(mem, o).pages = DataPages(mem, o)
         /\ FileOf(mem, o).text = ReadFile(mem, Stored(o))
BY DEF FileOf

\* The fields a stored entry keeps.
LEMMA StoredFields ==
  ASSUME NEW h, NEW o, IsEntry(h, o), NEW q, q = Stored(o)
  PROVE  q.kind = o.kind /\ q.page = o.page /\ q.pages = o.pages
BY DEF Stored, IsEntry, EntryFields

\* A file that is kept is the same file.
LEMMA FileStays ==
  ASSUME NEW h, NEW mem, NEW mem2, NEW o, IsEntry(h, o), IsKind(o), FileKept(mem, mem2, o)
  PROVE  FileOf(mem2, o) = FileOf(mem, o)
<1>. DEFINE q == Stored(o)
<1>1. q.kind = o.kind /\ q.page = o.page /\ q.pages = o.pages
  BY StoredFields
<1>. HIDE DEF q
<1>2. IsKind(q) /\ FileKept(mem, mem2, q)
  <2>1. PagesOf(mem, q) = PagesOf(mem, o)
    BY <1>1, SameWalk
  <2>. QED  BY <1>1, <2>1 DEF IsKind, FileKept
<1>3. \A i : ReadPage(mem2, q, i) = ReadPage(mem, q, i)
  BY <1>2, KeptFile
<1>4. ReadFile(mem2, q) = ReadFile(mem, q)
  BY <1>3 DEF ReadFile
<1>5. DataPages(mem2, o) = DataPages(mem, o)
  BY KeptFile
<1>. QED  BY <1>4, <1>5 DEF FileOf, q

\* The data pages of two files of a volume have none in common.
LEMMA FilesShareNothing ==
  ASSUME NEW h, Sound(h), NEW o \in h.objects, NEW q \in h.objects, o # q
  PROVE  DataPages(h.mem, o) \intersect DataPages(h.mem, q) = {}
<1>1. DataPages(h.mem, o) \subseteq PagesOf(h.mem, o)
  BY CountedPages
<1>2. DataPages(h.mem, q) \subseteq PagesOf(h.mem, q)
  BY CountedPages
<1>. QED  BY <1>1, <1>2 DEF Sound, Apart, FilesApart

\* The files of a volume whose entries are K and N.
LEMMA FilesSplit ==
  ASSUME NEW h, NEW K, NEW N, h.objects = K \union N
  PROVE  FilesIn(h) = {FileOf(h.mem, o) : o \in K} \union {FileOf(h.mem, o) : o \in N}
BY DEF FilesIn

\* Those that stay are what they were.
LEMMA FilesStay ==
  ASSUME NEW h, Sound(h), NEW h2, NEW K, NEW N, Exchanges(h, h2, K, N)
  PROVE  \A o \in K : FileOf(h2.mem, o) = FileOf(h.mem, o)
<1>. SUFFICES ASSUME NEW o \in K
              PROVE  FileOf(h2.mem, o) = FileOf(h.mem, o)
  OBVIOUS
<1>1. IsEntry(h, o)
  BY DEF Exchanges, Sound, Apart, WellFormed
<1>2. IsKind(o) /\ FileKept(h.mem, h2.mem, o)
  BY DEF Exchanges
<1>. QED  BY <1>1, <1>2, FileStays

\* Two entries of a volume are two files.
LEMMA FilesDiffer ==
  ASSUME NEW h, Sound(h), NEW o \in h.objects, NEW q \in h.objects, NEW mem, NEW mem2,
         FileOf(mem, o) = FileOf(mem2, q)
  PROVE  o = q
<1>1. o.slot = q.slot
  BY FileFields
<1>. QED  BY <1>1 DEF Sound, Apart, SlotsApart

\* The promise counts as the volume does.
LEMMA SameCount == \A S : Promise!Cardinality(S) = Cardinality(S)
BY DEF Promise!Cardinality, Cardinality

\* The charges are those of the files.
LEMMA ChargesOfFiles ==
  ASSUME NEW h, Charged(h)
  PROVE  [u \in DOMAIN h.users |-> h.users[u].used] = Promise!Charges(FilesIn(h), DOMAIN h.users)
<1>1. ASSUME NEW u
      PROVE  UNION {f.pages : f \in {f \in FilesIn(h) : f.user = u}} = ChargedFor(h.mem, h.objects, u)
  <2>1. \A p : p \in UNION {f.pages : f \in {f \in FilesIn(h) : f.user = u}} <=>
                 \E o \in h.objects : FileOf(h.mem, o).user = u /\ p \in FileOf(h.mem, o).pages
    BY DEF FilesIn
  <2>2. \A p : p \in ChargedFor(h.mem, h.objects, u) <=>
                 \E o \in h.objects : o.user = u /\ p \in DataPages(h.mem, o)
    BY DEF ChargedFor
  <2>. QED  BY <2>1, <2>2, FileFields
<1>2. \A u \in DOMAIN h.users :
        h.users[u].used = Cardinality(UNION {f.pages : f \in {f \in FilesIn(h) : f.user = u}})
  BY <1>1 DEF Charged
<1>. QED  BY <1>2, SameCount DEF Promise!Charges, Promise!OwnedBy

\* A file that comes in is a creation, if its owner has none of the name.
LEMMA FilesCreated ==
  ASSUME Sound(fs), Sound(fs'), NEW o, Exchanges(fs, fs', fs.objects, {o}), o.user \in Users,
         \A q \in fs.objects : q.slot # o.slot /\ ~(q.user = o.user /\ q.name = o.name)
  PROVE  Promise!Creates(FilesIn(fs), FilesIn(fs'))
<1>. DEFINE old == FilesIn(fs)
            f   == FileOf(fs'.mem, o)
<1>1. fs'.objects = fs.objects \union {o}
  BY DEF Exchanges
<1>2. \A q \in fs.objects : FileOf(fs'.mem, q) = FileOf(fs.mem, q)
  BY FilesStay
<1>3. FilesIn(fs') = old \union {f}
  BY <1>1, <1>2 DEF FilesIn
<1>4. f.user = o.user
  BY FileFields
<1>5. ASSUME NEW g \in old
      PROVE  g.id # f.id /\ ~Promise!Twins(f, g) /\ ~Promise!Share(f, g)
  <2>1. PICK q \in fs.objects : g = FileOf(fs.mem, q)
    BY DEF FilesIn
  <2>2. g = FileOf(fs'.mem, q)
    BY <1>2, <2>1
  <2>3. /\ g.id = q.slot /\ g.user = q.user /\ g.name = q.name /\ g.pages = DataPages(fs'.mem, q)
        /\ f.id = o.slot /\ f.user = o.user /\ f.name = o.name /\ f.pages = DataPages(fs'.mem, o)
    BY <2>2, FileFields
  <2>4. o # q /\ o \in fs'.objects /\ q \in fs'.objects
    BY <1>1
  <2>5. DataPages(fs'.mem, o) \intersect DataPages(fs'.mem, q) = {}
    BY <2>4, FilesShareNothing
  <2>. QED  BY <2>3, <2>5 DEF Promise!Twins, Promise!Share
<1>. HIDE DEF f, old
<1>6. f \notin old
  BY <1>5
<1>. QED  BY <1>3, <1>4, <1>5, <1>6 DEF Promise!Creates, old

\* One file that becomes another of its owner is a change, or none to be seen.
LEMMA FilesChanged ==
  ASSUME Sound(fs), Sound(fs'), NEW o \in fs.objects, NEW new,
         Exchanges(fs, fs', fs.objects \ {o}, {new}), new.slot = o.slot, new.user = o.user,
         new.name = o.name \/ FileOf(fs'.mem, new).text = FileOf(fs.mem, o).text
  PROVE  FilesIn(fs') = FilesIn(fs) \/ Promise!Changes(FilesIn(fs), FilesIn(fs'))
<1>. DEFINE K == {FileOf(fs.mem, q) : q \in fs.objects \ {o}}
            f == FileOf(fs.mem, o)
            g == FileOf(fs'.mem, new)
<1>1. fs'.objects = (fs.objects \ {o}) \union {new}
  BY DEF Exchanges
<1>2. \A q \in fs.objects \ {o} : FileOf(fs'.mem, q) = FileOf(fs.mem, q)
  BY FilesStay
<1>3. FilesIn(fs) = K \union {f}
  BY DEF FilesIn
<1>4. FilesIn(fs') = K \union {g}
  BY <1>1, <1>2 DEF FilesIn
<1>5. /\ f.id = o.slot /\ f.user = o.user /\ f.name = o.name
      /\ g.id = o.slot /\ g.user = o.user /\ g.name = new.name
  BY FileFields
<1>6. ASSUME NEW h \in K
      PROVE  h.id # o.slot /\ ~Promise!Share(g, h)
  <2>1. PICK q \in fs.objects \ {o} : h = FileOf(fs.mem, q)
    OBVIOUS
  <2>2. h = FileOf(fs'.mem, q)
    BY <1>2, <2>1
  <2>3. h.id = q.slot /\ h.pages = DataPages(fs'.mem, q) /\ g.pages = DataPages(fs'.mem, new)
    BY <2>2, FileFields
  <2>4. q.slot # o.slot
    BY <2>1 DEF Sound, Apart, SlotsApart
  <2>5. new # q /\ new \in fs'.objects /\ q \in fs'.objects
    BY <1>1, <2>4
  <2>6. DataPages(fs'.mem, new) \intersect DataPages(fs'.mem, q) = {}
    BY <2>5, FilesShareNothing
  <2>. QED  BY <2>3, <2>4, <2>6 DEF Promise!Share
<1>7. g.text = f.text \/ g.name = f.name
  BY <1>5
<1>. HIDE DEF f, g, K
<1>8. f \notin K /\ g \notin K
  BY <1>5, <1>6
<1>9. CASE f = g
  BY <1>3, <1>4, <1>9
<1>10. CASE f # g
  <2>1. FilesIn(fs) \ FilesIn(fs') = {f} /\ FilesIn(fs') \ FilesIn(fs) = {g}
    BY <1>3, <1>4, <1>8, <1>10
  <2>2. \A h \in FilesIn(fs) \ {f} : ~Promise!Share(g, h)
    BY <1>3, <1>6
  <2>3. f \in FilesIn(fs) /\ g \in FilesIn(fs')
    BY <1>3, <1>4
  <2>. QED  BY <1>5, <1>7, <2>1, <2>2, <2>3 DEF Promise!Changes
<1>. QED  BY <1>9, <1>10

\* One that is taken away is a deletion.
LEMMA FilesDeleted ==
  ASSUME Sound(fs), NEW o \in fs.objects, Exchanges(fs, fs', fs.objects \ {o}, {})
  PROVE  Promise!Deletes(FilesIn(fs), FilesIn(fs'))
<1>. DEFINE f == FileOf(fs.mem, o)
<1>1. fs'.objects = fs.objects \ {o}
  BY DEF Exchanges
<1>2. \A q \in fs.objects \ {o} : FileOf(fs'.mem, q) = FileOf(fs.mem, q)
  BY FilesStay
<1>3. \A q \in fs.objects \ {o} : FileOf(fs.mem, q) # f
  BY FilesDiffer
<1>. HIDE DEF f
<1>4. FilesIn(fs') \subseteq FilesIn(fs) /\ FilesIn(fs) \ FilesIn(fs') = {f}
  BY <1>1, <1>2, <1>3 DEF FilesIn, f
<1>5. Cardinality({f}) = 1
  BY FS_Singleton
<1>. QED  BY <1>4, <1>5, SameCount DEF Promise!Deletes

\* The files are the same when every entry is kept.
LEMMA FilesSame ==
  ASSUME Sound(fs), fs'.objects = fs.objects, FilesKept(fs, fs')
  PROVE  FilesIn(fs') = FilesIn(fs)
<1>1. \A o \in fs.objects : IsKind(o) /\ FileKept(fs.mem, fs'.mem, o)
  BY DEF Sound, Apart, WellFormed, IsEntry, IsKind, FilesKept, FilePages, FileKept
<1>2. Exchanges(fs, fs', fs.objects, {})
  BY <1>1 DEF Exchanges
<1>3. \A o \in fs.objects : FileOf(fs'.mem, o) = FileOf(fs.mem, o)
  BY <1>2, FilesStay
<1>. QED  BY <1>3 DEF FilesIn

-----------------------------------------------------------------------------
\* What Directory allows a call that succeeds.
Allowed(old, new) ==
  new = old \/ Promise!Creates(old, new) \/ Promise!Changes(old, new) \/ Promise!Deletes(old, new)

\* Every call on a file by a path that names its user is allowed: a creation,
LEMMA CreatingAllowed ==
  ASSUME NEW who, who # NoUser, NEW name, Sound(fs), Sound(fs'),
         Creating(who, name) \/ Running(who, name)
  PROVE  Promise!Creates(FilesIn(fs), FilesIn(fs')) /\ DOMAIN fs'.users = DOMAIN fs.users
<1>1. PICK u, o, T, d, g : /\ Creation(fs, fs', u, o, T, d, g) /\ o.name = name
                           /\ u \in Payers(who) /\ Found(who, name) = {}
  <2>1. ASSUME Creating(who, name)
        PROVE  \E u, o, T, d, g : /\ Creation(fs, fs', u, o, T, d, g) /\ o.name = name
                                  /\ u \in Payers(who) /\ Found(who, name) = {}
    <3>1. PICK len \in Nat : \E holes, v, u, o, T, d, g : CreationOf(who, name, len, holes, v, u, o, T, d, g)
      BY <2>1 DEF Creating
    <3>2. PICK holes, v, u, o, T, d, g : CreationOf(who, name, len, holes, v, u, o, T, d, g)
      BY <3>1
    <3>3. /\ Creation(fs, fs', u, o, T, d, g) /\ o.name = name
          /\ u \in Payers(who) /\ Found(who, name) = {}
      BY <3>2 DEF CreationOf
    <3>. QED  BY <3>3
  <2>2. ASSUME Running(who, name)
        PROVE  \E u, o, T, d, g : /\ Creation(fs, fs', u, o, T, d, g) /\ o.name = name
                                  /\ u \in Payers(who) /\ Found(who, name) = {}
    <3>1. PICK n \in Nat \ {0} : \E u, o, T, d, g : RunOf(who, name, n, u, o, T, d, g)
      BY <2>2 DEF Running
    <3>2. PICK u, o, T, d, g : RunOf(who, name, n, u, o, T, d, g)
      BY <3>1
    <3>3. /\ Creation(fs, fs', u, o, T, d, g) /\ o.name = name
          /\ u \in Payers(who) /\ Found(who, name) = {}
      BY <3>2 DEF RunOf
    <3>. QED  BY <3>3
  <2>. QED  BY <2>1, <2>2
<1>2. FileAdded(fs, fs', u, o, g)
  <2>1. Sound(fs)
    OBVIOUS
  <2>2. Creation(fs, fs', u, o, T, d, g)
    BY <1>1
  <2>. QED  BY ONLY <2>1, <2>2, CreationEffect
<1>3. u = who /\ u \in Users
  BY <1>1 DEF Payers
<1>4. ASSUME NEW q \in fs.objects
      PROVE  q.slot # o.slot /\ ~(q.user = o.user /\ q.name = o.name)
  <2>1. q.named = TRUE
    BY DEF Sound, Apart, WellFormed, IsEntry
  <2>. QED  BY <1>1, <1>2, <1>3, <2>1 DEF FileAdded, Found
<1>5. Exchanges(fs, fs', fs.objects, {o}) /\ o.user \in Users
  BY <1>2, <1>3 DEF FileAdded
<1>6. Promise!Creates(FilesIn(fs), FilesIn(fs'))
  BY <1>4, <1>5, FilesCreated
<1>. QED  BY <1>2, <1>6 DEF FileAdded, ChargedMore

\* an update, a run written again, a new name,
LEMMA RevisingAllowed ==
  ASSUME NEW who, NEW name, Sound(fs), Sound(fs'),
         Updating(who, name) \/ Rewriting(who, name) \/ Renaming(who, name)
  PROVE  Allowed(FilesIn(fs), FilesIn(fs')) /\ DOMAIN fs'.users = DOMAIN fs.users
<1>1. ASSUME Updating(who, name)
      PROVE  Allowed(FilesIn(fs), FilesIn(fs')) /\ DOMAIN fs'.users = DOMAIN fs.users
  <2>1. PICK len \in Nat :
          \E holes, v, u, o, new, T, g : UpdatingOf(who, name, len, holes, v, u, o, new, T, g)
    BY <1>1 DEF Updating
  <2>2. PICK holes, v, u, o, new, T, g : UpdatingOf(who, name, len, holes, v, u, o, new, T, g)
    BY <2>1
  <2>. DEFINE n == AtLeastOne(len)
  <2>3. /\ Revision(fs, g, o, new, T, {u \div EntriesPerPage})
        /\ new = [o EXCEPT !.kind = KindFor(n), !.page = new.page, !.pages = Real(n, holes), !.size = n]
    BY <2>2 DEF UpdatingOf
  <2>. HIDE DEF n
  <2>4. /\ Exchanges(fs, fs', fs.objects \ {o}, {new}) /\ Orphans(fs') \subseteq Orphans(fs)
        /\ IsKind(new) /\ FileKept(g.mem, fs'.mem, new) /\ fs'.users = g.users
        /\ u \in UserIds
    BY <2>2, UpdatingEffect
  <2>5. /\ o \in fs.objects /\ new.slot = o.slot /\ new.user = o.user
        /\ DOMAIN g.users = DOMAIN fs.users
    BY <2>3 DEF Revision, UsersLike
  <2>6. DOMAIN o = EntryFields
    BY <2>5 DEF Sound, Apart, WellFormed, IsEntry
  <2>7. new.name = o.name
    BY <2>3, <2>6 DEF EntryFields
  <2>. QED  BY <2>4, <2>5, <2>7, FilesChanged DEF Allowed
<1>2. ASSUME Rewriting(who, name)
      PROVE  Allowed(FilesIn(fs), FilesIn(fs')) /\ DOMAIN fs'.users = DOMAIN fs.users
  <2>1. PICK len \in Nat : \E v, o, new, T, g : RewritingOf(who, name, len, v, o, new, T, g)
    BY <1>2 DEF Rewriting
  <2>2. PICK v, o, new, T, g : RewritingOf(who, name, len, v, o, new, T, g)
    BY <2>1
  <2>3. Revision(fs, g, o, new, T, {}) /\ new = [o EXCEPT !.size = len]
    BY <2>2 DEF RewritingOf
  <2>4. /\ Exchanges(fs, fs', fs.objects \ {o}, {new}) /\ Orphans(fs') \subseteq Orphans(fs)
        /\ IsKind(new) /\ FileKept(g.mem, fs'.mem, new) /\ fs'.users = fs.users
    BY <2>2, RewritingEffect
  <2>5. o \in fs.objects /\ new.slot = o.slot /\ new.user = o.user
    BY <2>3 DEF Revision
  <2>6. DOMAIN o = EntryFields
    BY <2>5 DEF Sound, Apart, WellFormed, IsEntry
  <2>7. new.name = o.name
    BY <2>3, <2>6 DEF EntryFields
  <2>. QED  BY <2>4, <2>5, <2>7, FilesChanged DEF Allowed
<1>3. ASSUME Renaming(who, name)
      PROVE  Allowed(FilesIn(fs), FilesIn(fs')) /\ DOMAIN fs'.users = DOMAIN fs.users
  <2>1. PICK to, o, new, T, g : RenamingOf(who, name, to, o, new, T, g)
    BY <1>3 DEF Renaming
  <2>2. Revision(fs, g, o, new, T, {}) /\ g.mem = fs.mem /\ new = [o EXCEPT !.name = to]
    BY <2>1 DEF RenamingOf
  <2>3. /\ Exchanges(fs, fs', fs.objects \ {o}, {new}) /\ Orphans(fs') \subseteq Orphans(fs)
        /\ IsKind(new) /\ FileKept(g.mem, fs'.mem, new) /\ fs'.users = fs.users
    BY <2>1, RenamingEffect
  <2>4. o \in fs.objects /\ new.slot = o.slot /\ new.user = o.user
    BY <2>2 DEF Revision
  <2>5. FileOf(fs'.mem, new).text = FileOf(fs.mem, o).text
    <3>1. IsEntry(fs, o)
      BY <2>4 DEF Sound, Apart, WellFormed
    <3>2. IsEntry(fs, new)
      BY <2>2, <3>1 DEF IsEntry, EntryFields
    <3>3. FileOf(fs'.mem, new) = FileOf(fs.mem, new)
      BY <2>2, <2>3, <3>2, FileStays
    <3>4. ReadFile(fs.mem, Stored(new)) = ReadFile(fs.mem, Stored(o))
      <4>. DEFINE p == Stored(o)
                  q == Stored(new)
      <4>1. q.kind = p.kind /\ q.page = p.page /\ q.pages = p.pages /\ q.size = p.size
        BY <2>2, <3>1, <3>2 DEF Stored, IsEntry, EntryFields
      <4>. HIDE DEF p, q
      <4>2. \A i : ReadPage(fs.mem, q, i) = ReadPage(fs.mem, p, i)
        BY <4>1, SameReading
      <4>3. ReadFile(fs.mem, q) = ReadFile(fs.mem, p)
        BY <4>1, <4>2 DEF ReadFile
      <4>. QED  BY <4>3 DEF p, q
    <3>. QED  BY <3>3, <3>4, FileFields
  <2>. QED  BY <2>3, <2>4, <2>5, FilesChanged DEF Allowed
<1>. QED  BY <1>1, <1>2, <1>3

\* a deletion,
LEMMA DeletingAllowed ==
  ASSUME NEW who, NEW name, Sound(fs), Deleting(who, name)
  PROVE  Allowed(FilesIn(fs), FilesIn(fs')) /\ DOMAIN fs'.users = DOMAIN fs.users
<1>1. PICK o, g : DeletionOf(who, name, o, g)
  BY DEF Deleting
<1>2. /\ o \in fs.objects /\ Exchanges(fs, fs', fs.objects \ {o}, {})
      /\ Orphans(fs') \subseteq Orphans(fs) /\ fs'.users = g.users
  BY <1>1, DeletionEffect
<1>3. DOMAIN g.users = DOMAIN fs.users
  BY <1>1 DEF DeletionOf
<1>4. Promise!Deletes(FilesIn(fs), FilesIn(fs'))
  BY <1>2, FilesDeleted
<1>. QED  BY <1>2, <1>3, <1>4 DEF Allowed

\* and a patch, which changes one file as far as it gets.
LEMMA PatchingAllowed ==
  ASSUME NEW who, NEW name, Sound(fs), Sound(fs'), Patching(who, name)
  PROVE  /\ FilesIn(fs') = FilesIn(fs) \/ Promise!Changes(FilesIn(fs), FilesIn(fs'))
         /\ fs'.users = fs.users
<1>1. PICK first \in Nat : \E last \in Nat : \E v, o, S : PatchingOf(who, name, first, last, v, o, S)
  BY DEF Patching
<1>2. PICK last \in Nat : \E v, o, S : PatchingOf(who, name, first, last, v, o, S)
  BY <1>1
<1>3. PICK v, o, S : PatchingOf(who, name, first, last, v, o, S)
  BY <1>2
<1>4. /\ o \in fs.objects /\ fs'.objects = fs.objects /\ fs'.users = fs.users
      /\ Exchanges(fs, fs', fs.objects \ {o}, {o}) /\ Orphans(fs') = Orphans(fs)
      /\ Refs(fs'.mem, o) = Refs(fs.mem, o) /\ DataPages(fs'.mem, o) = DataPages(fs.mem, o)
      /\ IsKind(o) /\ SamePtrs(fs.mem, fs'.mem, IndexOf(fs.mem, o))
  BY <1>3, PatchingEffect
<1>. QED  BY <1>4, FilesChanged

\* A reload shows the files and the charges there were.
LEMMA ReopeningAllowed ==
  ASSUME Sound(fs), Reopen, ~hurt'
  PROVE  /\ FilesIn(fs') = FilesIn(fs) /\ DOMAIN fs'.users = DOMAIN fs.users
         /\ \A v \in DOMAIN fs.users : fs'.users[v].used = fs.users[v].used
<1>1. fs' = Load(fs.mem) /\ ~ReloadLoses(fs)
  BY DEF Reopen
<1>2. /\ DOMAIN fs' = VolumeFields /\ fs'.used = fs.mem[BitPage].items
      /\ fs'.root = fs.root /\ fs'.mem = fs.mem /\ UsersLike(fs, fs', {})
      /\ fs'.objects = {Renumbered(fs, o) : o \in fs.objects}
  BY <1>1, ReloadParts DEF ReloadLoses
<1>3. ASSUME NEW o \in fs.objects
      PROVE  FileOf(fs.mem, Renumbered(fs, o)) = FileOf(fs.mem, o)
  <2>1. IsEntry(fs, o)
    BY DEF Sound, Apart, WellFormed
  <2>. DEFINE q == Renumbered(fs, o)
  <2>2. SameFile(q, o)
    BY <2>1, RenumberedFields
  <2>3. Stored(q) = Stored(o)
    BY <2>1, RenumberedSame
  <2>. HIDE DEF q
  <2>4. /\ q.slot = o.slot /\ q.user = o.user /\ q.name = o.name
        /\ q.kind = o.kind /\ q.page = o.page /\ q.pages = o.pages
    BY <2>2 DEF SameFile
  <2>5. DataPages(fs.mem, q) = DataPages(fs.mem, o)
    BY <2>4, SameReading
  <2>6. FileOf(fs.mem, q) = FileOf(fs.mem, o)
    BY <2>3, <2>4, <2>5 DEF FileOf
  <2>. QED  BY <2>6 DEF q
<1>4. FilesIn(fs') = FilesIn(fs)
  BY <1>2, <1>3 DEF FilesIn
<1>. QED  BY <1>2, <1>4 DEF UsersLike

-----------------------------------------------------------------------------
\* The state the promise is about.
LEMMA PromisedState ==
  /\ FilesNow = FilesIn(fs) /\ FilesNow' = FilesIn(fs')
  /\ Users = DOMAIN fs.users /\ Users' = DOMAIN fs'.users
BY FilesNowAre DEF Users

\* The charges before and after.
LEMMA PromisedCharges ==
  /\ Charged(fs) => [u \in Users |-> fs.users[u].used] = Promise!Charges(FilesNow, Users)
  /\ Charged(fs') => [u \in Users |-> fs.users[u].used]' = Promise!Charges(FilesNow', Users')
BY PromisedState, ChargesOfFiles

\* A call that is allowed and answers that it is done is Done,
LEMMA AllowedIsDone ==
  ASSUME Sound(fs'), Charged(fs'), out' = "ok", Allowed(FilesIn(fs), FilesIn(fs')),
         DOMAIN fs'.users = DOMAIN fs.users
  PROVE  Promise!Done
<1>1. [u \in Users |-> fs.users[u].used]' = Promise!Charges(FilesNow', Users')
  BY PromisedCharges
<1>2. CASE FilesIn(fs') = FilesIn(fs)
  <2>1. \A f \in FilesNow' : f.user \in Users'
    <3>1. \A o \in fs'.objects : FileOf(fs'.mem, o).user \in DOMAIN fs'.users
      BY FileFields DEF Sound, Apart, WellFormed, IsEntry
    <3>. QED  BY <3>1, PromisedState DEF FilesIn
  <2>2. Promise!Enrols(FilesNow, FilesNow')
    BY <1>2, <2>1, PromisedState DEF Promise!Enrols
  <2>. QED  BY <1>1, <2>2 DEF Promise!Done
<1>3. CASE \/ Promise!Creates(FilesIn(fs), FilesIn(fs')) \/ Promise!Changes(FilesIn(fs), FilesIn(fs'))
           \/ Promise!Deletes(FilesIn(fs), FilesIn(fs'))
  <2>1. /\ Users' = Users
        /\ \/ Promise!Creates(FilesNow, FilesNow') \/ Promise!Changes(FilesNow, FilesNow')
           \/ Promise!Deletes(FilesNow, FilesNow')
    BY <1>3, PromisedState
  <2>. QED  BY <1>1, <2>1 DEF Promise!Done
<1>. QED  BY <1>2, <1>3 DEF Allowed

\* and one that changes neither files nor charges does nothing.
LEMMA SameIsNothing ==
  ASSUME FilesIn(fs') = FilesIn(fs), DOMAIN fs'.users = DOMAIN fs.users,
         \A v \in DOMAIN fs.users : fs'.users[v].used = fs.users[v].used
  PROVE  Promise!NothingDone
<1>1. FilesNow' = FilesNow /\ Users' = Users
  BY PromisedState
<1>2. [u \in Users |-> fs.users[u].used]' = [u \in Users |-> fs.users[u].used]
  BY PromisedState
<1>. QED  BY <1>1, <1>2 DEF Promise!NothingDone

\* A quiet call is the one or the other.
LEMMA QuietAllowed ==
  ASSUME Sound(fs), Sound(fs'), Charged(fs'), QuietCall
  PROVE  Promise!Done \/ Promise!NothingDone
<1>1. FilesIn(fs') = FilesIn(fs)
  BY FilesSame DEF QuietCall, Untouched
<1>2. CASE out' # "ok"
  <2>1. DOMAIN fs'.users = DOMAIN fs.users
    BY <1>2 DEF QuietCall
  <2>2. \A v \in DOMAIN fs.users : fs'.users[v].used = fs.users[v].used
    BY <2>1 DEF QuietCall, Untouched
  <2>. QED  BY <1>1, <2>1, <2>2, SameIsNothing
<1>3. CASE out' = "ok"
  <2>1. [u \in Users |-> fs.users[u].used]' = Promise!Charges(FilesNow', Users')
    BY PromisedCharges
  <2>2. \A o \in fs.objects : o.user \in DOMAIN fs'.users
    BY DEF QuietCall, Untouched, Sound, Apart, WellFormed, IsEntry
  <2>3. \A f \in FilesNow : f.user \in Users'
    BY <2>2, PromisedState, FileFields DEF FilesIn
  <2>4. Promise!Enrols(FilesNow, FilesNow')
    BY <1>1, <2>3, PromisedState DEF Promise!Enrols
  <2>. QED  BY <1>3, <2>1, <2>4 DEF Promise!Done
<1>. QED  BY <1>2, <1>3

\* A volume is hurt or it is not.
Flagged == hurt \/ hurt = FALSE

LEMMA NextFlagged ==
  ASSUME SoundUntilHurt, Flagged, [Next]_vars
  PROVE  Flagged'
<1>1. ASSUME ~hurt, NEW who, NEW name, FileCall(who, name)
      PROVE  hurt' \/ hurt' = hurt
  <2>1. Sound(fs)
    BY <1>1 DEF SoundUntilHurt
  <2>. QED  BY <1>1, <2>1, FileCallDoes DEF QuietCall
<1>2. ASSUME ~hurt, UserCall
      PROVE  hurt' = hurt
  <2>1. Sound(fs)
    BY <1>2 DEF SoundUntilHurt
  <2>. QED  BY <1>2, <2>1, UserCallQuiet DEF QuietCall
<1>3. ASSUME Reopen
      PROVE  hurt' \/ hurt' = FALSE
  BY <1>3 DEF Reopen
<1>. QED  BY <1>1, <1>2, <1>3 DEF Next, Abandoned, vars, Flagged

\* Every step of the volume is a step of its promise.
LEMMA NextPromised ==
  ASSUME NoUser \notin Callers, SoundUntilHurt, SoundUntilHurt', Flagged, Flagged', SoundUntilHurt', ChargedRight, ChargedRight', [Next]_vars
  PROVE  [Promise!DirNext]_(Promise!dirVars)
<1>1. CASE UNCHANGED vars
  <2>1. UNCHANGED <<fs, out, hurt>>
    BY <1>1 DEF vars
  <2>2. FilesNow' = FilesNow /\ Users' = Users
    BY <2>1, PromisedState
  <2>3. [u \in Users |-> fs.users[u].used]' = [u \in Users |-> fs.users[u].used]
    BY <2>1, PromisedState
  <2>. QED  BY <2>1, <2>2, <2>3 DEF Promise!dirVars
<1>2. CASE hurt'
  BY <1>2 DEF Promise!DirNext
<1>3. ASSUME ~hurt', ~hurt
      PROVE  Sound(fs) /\ Sound(fs') /\ Charged(fs) /\ Charged(fs')
  <2>1. Sound(fs) /\ Charged(fs)
    BY <1>3 DEF SoundUntilHurt, ChargedRight
  <2>2. Sound(fs') /\ Charged(fs')
    BY <1>3 DEF SoundUntilHurt, ChargedRight, Sound, Charged, Apart, MirroredBut
  <2>. QED  BY <2>1, <2>2
<1>4. ASSUME ~hurt', ~hurt, NEW who \in Callers, NEW name, FileCall(who, name)
      PROVE  Promise!DirNext
  <2>1. Sound(fs) /\ Sound(fs') /\ Charged(fs) /\ Charged(fs') /\ who # NoUser /\ hurt' = hurt
    BY <1>3, <1>4, FileCallDoes DEF QuietCall
  <2>2. CASE QuietCall
    BY <1>4, <2>1, <2>2, QuietAllowed DEF Promise!DirNext
  <2>3. CASE out' = "ok" /\ Succeeding(who, name)
    <3>1. Allowed(FilesIn(fs), FilesIn(fs')) /\ DOMAIN fs'.users = DOMAIN fs.users
      BY <2>1, <2>3, CreatingAllowed, RevisingAllowed, DeletingAllowed DEF Succeeding, Allowed
    <3>2. Promise!Done
      BY <2>1, <2>3, <3>1, AllowedIsDone
    <3>. QED  BY <1>4, <2>1, <3>2 DEF Promise!DirNext
  <2>4. CASE out' \in {"ok", "corrupt"} /\ Patching(who, name)
    <3>1. /\ FilesIn(fs') = FilesIn(fs) \/ Promise!Changes(FilesIn(fs), FilesIn(fs'))
          /\ fs'.users = fs.users
      BY <2>1, <2>4, PatchingAllowed
    <3>2. CASE FilesIn(fs') = FilesIn(fs)
      BY <1>4, <2>1, <3>1, <3>2, SameIsNothing DEF Promise!DirNext
    <3>3. CASE out' = "ok"
      BY <1>4, <2>1, <3>1, <3>3, AllowedIsDone DEF Allowed, Promise!DirNext
    <3>4. CASE out' = "corrupt" /\ Promise!Changes(FilesIn(fs), FilesIn(fs'))
      <4>1. [u \in Users |-> fs.users[u].used]' = Promise!Charges(FilesNow', Users')
        BY <2>1, PromisedCharges
      <4>2. Users' = Users /\ [u \in Users |-> fs.users[u].used]' = [u \in Users |-> fs.users[u].used]
        BY <3>1, PromisedState
      <4>3. Promise!DonePartly
        BY <3>4, <4>1, <4>2, PromisedState DEF Promise!DonePartly
      <4>. QED  BY <1>4, <2>1, <4>3 DEF Promise!DirNext
    <3>. QED  BY <2>4, <3>1, <3>2, <3>3, <3>4
  <2>. QED  BY <1>4, <2>1, <2>2, <2>3, <2>4, FileCallDoes
<1>5. ASSUME ~hurt', ~hurt, UserCall
      PROVE  Promise!DirNext
  <2>1. Sound(fs) /\ Sound(fs') /\ Charged(fs')
    BY <1>3, <1>5
  <2>2. QuietCall
    BY <1>5, <2>1, UserCallQuiet
  <2>3. Promise!Done \/ Promise!NothingDone
    BY <2>1, <2>2, QuietAllowed
  <2>. QED  BY <1>5, <2>2, <2>3 DEF QuietCall, Promise!DirNext
<1>6. ASSUME ~hurt', ~hurt, Reopen
      PROVE  Promise!DirNext
  <2>1. /\ FilesIn(fs') = FilesIn(fs) /\ DOMAIN fs'.users = DOMAIN fs.users
        /\ \A v \in DOMAIN fs.users : fs'.users[v].used = fs.users[v].used
    BY <1>3, <1>6, ReopeningAllowed
  <2>2. Promise!NothingDone
    BY <2>1, SameIsNothing
  <2>3. hurt' = hurt
    BY <1>6 DEF Flagged
  <2>. QED  BY <1>6, <2>2, <2>3 DEF Promise!DirNext
<1>. QED  BY <1>1, <1>2, <1>4, <1>5, <1>6 DEF Next, Abandoned

\* Where every path names its user, each call on a volume is one step of Directory: it is done
\* whole, on one file and at the price of its pages, or it changes nothing, and a volume that
\* is closed and opened again is the one it was.
THEOREM VolumeIsDirectory == NoUser \notin Callers => (Spec => ImplementsDirectory)
<1>. SUFFICES ASSUME NoUser \notin Callers
              PROVE  Spec => ImplementsDirectory
  OBVIOUS
<1>1. Init => ChargedRight /\ Flagged /\ Promise!DirInit
  <2>. SUFFICES ASSUME Init
                PROVE  Charged(fs) /\ Flagged /\ Promise!DirInit
    BY DEF ChargedRight
  <2>1. fs = Load(FreshMem) /\ hurt = FALSE
    BY DEF Init
  <2>2. fs.objects = {} /\ DOMAIN fs.users = {0} /\ fs.users[0] = NewUser(0)
    BY <2>1, FreshLoaded
  <2>3. \A v : ChargedFor(fs.mem, fs.objects, v) = {}
    BY <2>2 DEF ChargedFor
  <2>4. fs.users[0].used = 0
    BY <2>2 DEF NewUser
  <2>5. Charged(fs)
    BY <2>2, <2>3, <2>4, FS_EmptySet DEF Charged
  <2>6. FilesNow = {}
    BY <2>2 DEF FilesNow
  <2>. QED  BY <2>1, <2>5, <2>6, PromisedCharges DEF Promise!DirInit, Flagged
<1>2. SoundUntilHurt /\ SoundUntilHurt' /\ ChargedRight /\ [Next]_vars => ChargedRight'
  BY NextCharges
<1>3. SoundUntilHurt /\ Flagged /\ [Next]_vars => Flagged'
  BY NextFlagged
<1>4. /\ SoundUntilHurt /\ SoundUntilHurt' /\ Flagged /\ Flagged'
      /\ ChargedRight /\ ChargedRight' /\ [Next]_vars
      => [Promise!DirNext]_(Promise!dirVars)
  BY NextPromised
<1>. QED  BY <1>1, <1>2, <1>3, <1>4, VolumeSound, PTL DEF Spec, ImplementsDirectory, Promise!DirSpec

-----------------------------------------------------------------------------
(***************************************************************************)
(* Every user's object blocks are counted.                                 *)
(***************************************************************************)
\* The groups above his home that user u has entries in.
Above(objects, u) == {g \in Groups : UsesGroup(objects, u, g)} \ {Home(u)}

\* What is recorded of the blocks of user u covers those, and is permitted.
Covers(objects, u, e) ==
  /\ e.alloc \in Nat /\ e.max \in Nat
  /\ Cardinality(Above(objects, u)) <= e.alloc /\ e.alloc <= e.max

\* Memory and the user pages may record different numbers, after a refused call: both do.
Covered(h) ==
  /\ \A u \in DOMAIN h.users : Covers(h.objects, u, h.users[u])
  /\ \A i \in Indexes : \A r \in RecordsOn(h, i) : Covers(h.objects, r.id, r.entry)

BlocksRight == ~hurt => Covered(fs)

\* The groups are finitely many.
LEMMA GroupsFinite ==
  ASSUME NEW S \in SUBSET Groups
  PROVE  IsFiniteSet(S) /\ Cardinality(S) \in Nat
<1>1. IsFiniteSet(Groups)
  BY Layout, FS_Interval DEF Groups
<1>2. IsFiniteSet(S)
  BY <1>1, FS_Subset
<1>. QED  BY <1>2, FS_CardinalityType

\* Where a user has entries in no more groups, what covered his blocks does so still.
LEMMA CoversFewer ==
  ASSUME NEW S, NEW S2, NEW u, Above(S2, u) \subseteq Above(S, u), NEW e, Covers(S, u, e)
  PROVE  Covers(S2, u, e)
<1>1. Above(S, u) \in SUBSET Groups
  BY DEF Above
<1>2. Cardinality(Above(S2, u)) <= Cardinality(Above(S, u))
  BY <1>1, GroupsFinite, FS_Subset
<1>3. Cardinality(Above(S2, u)) \in Nat /\ Cardinality(Above(S, u)) \in Nat
  BY <1>1, GroupsFinite
<1>. QED  BY <1>2, <1>3 DEF Covers

\* The blocks counted for a slot, in a block the user has or where he may have one more, cover
\* his blocks, those he had and that with an entry there.
LEMMA CountedCovers ==
  ASSUME NEW S, NEW u, NEW e, Covers(S, u, e), NEW s, GroupOf(s) \in Groups,
         \/ GroupOf(s) = Home(u) \/ UsesGroup(S, u, GroupOf(s))
         \/ ~(e.alloc >= e.max),
         NEW e2, e2.max = e.max, e2.alloc = BlocksWith(S, u, s, e.max),
         NEW S2, Above(S2, u) \subseteq Above(S, u) \union ({GroupOf(s)} \ {Home(u)})
  PROVE  Covers(S2, u, e2)
<1>. DEFINE g == GroupOf(s)
            T == {x \in Groups : UsesGroup(S, u, x) \/ x = g}
            n == Cardinality(T)
            A == Above(S, u)
            B == Above(S2, u)
<1>1. T \in SUBSET Groups /\ A \in SUBSET Groups /\ B \in SUBSET Groups
  BY DEF Above
<1>2. /\ IsFiniteSet(T) /\ IsFiniteSet(A) /\ IsFiniteSet(B)
      /\ n \in Nat /\ Cardinality(A) \in Nat /\ Cardinality(B) \in Nat
  BY <1>1, GroupsFinite
<1>3. A \subseteq T /\ B \subseteq T
  BY DEF Above
<1>4. Cardinality(B) <= n
  BY <1>2, <1>3, FS_Subset
<1>5. Cardinality(B) <= e.max
  <2>1. e.alloc \in Nat /\ e.max \in Nat /\ Cardinality(A) <= e.alloc /\ e.alloc <= e.max
    BY DEF Covers
  <2>2. CASE g = Home(u) \/ UsesGroup(S, u, g)
    <3>1. B \subseteq A
      BY <2>2 DEF Above
    <3>2. Cardinality(B) <= Cardinality(A)
      BY <1>2, <3>1, FS_Subset
    <3>. QED  BY <1>2, <2>1, <3>2
  <2>3. CASE ~(e.alloc >= e.max)
    <3>1. B \subseteq A \union {g}
      OBVIOUS
    <3>. HIDE DEF A, g
    <3>0. /\ IsFiniteSet(A \union {g})
          /\ Cardinality(A \union {g}) = IF g \in A THEN Cardinality(A) ELSE Cardinality(A) + 1
      BY <1>2, FS_AddElement
    <3>2. IsFiniteSet(A \union {g}) /\ Cardinality(A \union {g}) <= Cardinality(A) + 1
      BY <1>2, <3>0
    <3>3. Cardinality(B) <= Cardinality(A \union {g}) /\ Cardinality(A \union {g}) \in Nat
      BY <3>1, <3>2, FS_Subset, FS_CardinalityType
    <3>. QED  BY <1>2, <2>1, <2>3, <3>2, <3>3
  <2>. QED  BY <2>2, <2>3
<1>6. e2.alloc = IF n > e.max THEN e.max ELSE n
  BY DEF BlocksWith
<1>. QED  BY <1>2, <1>4, <1>5, <1>6 DEF Covers

-----------------------------------------------------------------------------
\* A page that is none of the user file's is rewritten: the records stay.
LEMMA PutRecords ==
  ASSUME NEW h, Apart(h), NEW p \in Pages, p # UserIndex, NEW S,
         \A j \in Indexes : Ptr(h, UserIndex, j) # Null => Ptr(h, UserIndex, j) # p
  PROVE  SameRecords(h, Put(h, p, S))
<1>. DEFINE h2 == Put(h, p, S)
<1>1. \A q \in Pages : q # p => h2.mem[q] = h.mem[q]
  BY PageAssigned DEF Put, Assigned, Apart, WellFormed, IsMem
<1>. HIDE DEF h2
<1>2. UserIndex \in Pages /\ \A j \in Indexes : Ptr(h, UserIndex, j) \in Pages
  BY Layout DEF Apart, WellFormed, IsMem, Ptr
<1>3. SamePtrs(h.mem, h2.mem, {UserIndex})
  BY <1>1, <1>2 DEF SamePtrs
<1>4. \A j \in Indexes :
        Ptr(h, UserIndex, j) # Null => h2.mem[Ptr(h, UserIndex, j)].items = h.mem[Ptr(h, UserIndex, j)].items
  BY <1>1, <1>2
<1>5. SameRecords(h, h2)
  BY <1>3, <1>4, RecordsKept
<1>. QED  BY <1>5 DEF h2

\* So they do when an entry page is written,
LEMMA ObjectPageRecords ==
  ASSUME NEW h, Apart(h), NEW s \in Slots
  PROVE  SameRecords(h, WriteObjectPage(h, s))
<1>. DEFINE p == DirPage(h, s)
            S == {OnDisk(o) : o \in {o \in h.objects : PageOf(o.slot) = PageOf(s)}}
<1>1. GroupOf(s) \in Indexes /\ Inner(s) \in Indexes
  BY SlotParts
<1>2. p = DirAt(h, GroupOf(s), Inner(s))
  BY DEF DirPage, DirAt
<1>3. WriteObjectPage(h, s) = IF p = Null THEN h ELSE Put(h, p, S)
  BY DEF WriteObjectPage, Put
<1>. HIDE DEF p, S
<1>4. CASE p # Null
  <2>1. /\ p \in Pages \ (IndexPages(h) \union RootPages \union FilePages(h))
        /\ \A j \in Indexes : Ptr(h, UserIndex, j) # p
    BY <1>1, <1>2, <1>4, EntryPage
  <2>2. p # UserIndex
    BY <2>1 DEF IndexPages
  <2>3. SameRecords(h, Put(h, p, S))
    BY <2>1, <2>2, PutRecords
  <2>. QED  BY <1>3, <1>4, <2>3
<1>. QED  BY <1>3, <1>4 DEF SameRecords

\* and when the bit file is.
LEMMA BitFileRecords ==
  ASSUME NEW h, Apart(h)
  PROVE  SameRecords(h, WriteBitFile(h))
<1>. DEFINE a == Put(h, BitPage, h.used)
            b == Put(a, MasterPage, {MasterRecord(a)})
<1>1. WriteBitFile(h) = b
  BY DEF WriteBitFile, PersistMaster, Put
<1>2. /\ MasterPage \in Pages /\ BitPage \in Pages /\ UserIndex # MasterPage /\ UserIndex # BitPage
      /\ MasterPage = Null
  BY Layout
<1>3. ASSUME NEW g, Apart(g), NEW j \in Indexes, Ptr(g, UserIndex, j) # Null
      PROVE  Ptr(g, UserIndex, j) # BitPage /\ Ptr(g, UserIndex, j) # MasterPage
  <2>1. Ptr(g, UserIndex, j) \notin RootPages
    BY <1>3, UserPage
  <2>. QED  BY <2>1 DEF RootPages
<1>4. Apart(a)
  <2>1. BitPage \in Pages \ (IndexPages(h) \union FilePages(h))
    BY FixedLeaf
  <2>. QED  BY <2>1, LeafWritten
<1>5. SameRecords(h, a)
  BY <1>2, <1>3, PutRecords
<1>. HIDE DEF a
<1>6. SameRecords(a, b)
  BY <1>2, <1>3, <1>4, PutRecords
<1>. HIDE DEF b
<1>. QED  BY <1>1, <1>5, <1>6 DEF SameRecords

\* The records of h2 are those of h, but on the pages U those that memory tells.
Recorded(h, h2, U) ==
  \A i \in Indexes : \A r \in RecordsOn(h2, i) :
    \/ i \notin U /\ r \in RecordsOn(h, i)
    \/ r.id \in DOMAIN h2.users /\ r.entry = h2.users[r.id]

\* The pages that pointers lead to are of the volume.
LEMMA PointedPage ==
  ASSUME NEW h, IsMem(h.mem), NEW p \in Pages, NEW i \in Indexes
  PROVE  Ptr(h, p, i) \in Pages
<1>1. h.mem[p].ptrs \in [Indexes -> Pages]
  BY DEF IsMem
<1>. QED  BY <1>1 DEF Ptr

\* Such are the records when a user's page is written,
LEMMA UserPageRecords ==
  ASSUME NEW h, Apart(h), NEW u \in UserIds, NEW h2, h2 = WriteUserPage(h, u)
  PROVE  Recorded(h, h2, {u \div EntriesPerPage}) /\ h2.users = h.users /\ h2.objects = h.objects
<1>. DEFINE i == u \div EntriesPerPage
            p == Ptr(h, UserIndex, i)
            S == {UserRecord(h, v) : v \in {v \in DOMAIN h.users : v \div EntriesPerPage = u \div EntriesPerPage}}
<1>1. i \in Indexes
  BY UserPart
<1>2. h2 = IF p = Null THEN h ELSE Put(h, p, S)
  BY DEF WriteUserPage, Put
<1>3. \A r \in S : r.id \in DOMAIN h.users /\ r.entry = h.users[r.id]
  BY DEF UserRecord
<1>. HIDE DEF i, S
<1>4. CASE p = Null
  <2>1. RecordsOn(h, i) = {}
    BY <1>4 DEF RecordsOn
  <2>. QED  BY <1>2, <1>4, <2>1 DEF Recorded, i
<1>5. CASE p # Null
  <2>1. /\ p \in Pages \ (IndexPages(h) \union RootPages \union FilePages(h))
        /\ \A j \in Indexes : Ptr(h, UserIndex, j) = p => j = i
    BY <1>1, <1>5, UserPage
  <2>. HIDE DEF p
  <2>2. /\ SameButMem(h, h2) /\ h2.mem[p].items = S
        /\ \A q \in Pages : q # p => h2.mem[q] = h.mem[q]
        /\ SameDirectory(h, h2)
    BY <1>2, <1>5, <2>1, LeafWritten
  <2>3. ASSUME NEW j \in Indexes, NEW r \in RecordsOn(h2, j)
        PROVE  \/ j # i /\ r \in RecordsOn(h, j)
               \/ r.id \in DOMAIN h2.users /\ r.entry = h2.users[r.id]
    <3>1. Ptr(h2, UserIndex, j) = Ptr(h, UserIndex, j) /\ h2.users = h.users
      BY <2>2 DEF SameDirectory, SameButMem, IndexPages
    <3>2. Ptr(h, UserIndex, j) \in Pages
      <4>1. IsMem(h.mem)
        BY DEF Apart, WellFormed
      <4>2. UserIndex \in Pages
        BY Layout
      <4>. QED  BY <4>1, <4>2, PointedPage
    <3>3. CASE j = i
      BY <1>3, <2>2, <2>3, <3>1, <3>3 DEF RecordsOn, p
    <3>4. CASE j # i
      BY <2>1, <2>2, <2>3, <3>1, <3>2, <3>4 DEF RecordsOn
    <3>. QED  BY <3>3, <3>4
  <2>. QED  BY <2>2, <2>3 DEF Recorded, i, SameButMem
<1>. QED  BY <1>4, <1>5

\* also among other metadata.
LEMMA SavedRecords ==
  ASSUME NEW h, Apart(h), NEW s \in Slots, NEW u \in UserIds,
         MirroredBut(h, {Pos(s)}, {u \div EntriesPerPage}), NEW h2, h2 = Saved(h, s, u)
  PROVE  Recorded(h, h2, {u \div EntriesPerPage}) /\ h2.users = h.users /\ h2.objects = h.objects
<1>. DEFINE a == WriteObjectPage(h, s)
            b == WriteUserPage(a, u)
<1>1. h2 = WriteBitFile(b)
  BY DEF Saved
<1>2. SameRecords(h, a)
  BY ObjectPageRecords
<1>. HIDE DEF a, b
<1>3. Apart(a) /\ MirroredBut(a, {}, {u \div EntriesPerPage}) /\ SameButMem(h, a)
  BY ObjectPageWritten DEF a
<1>4. Apart(b) /\ MirroredBut(b, {}, {})
  BY <1>3, UserPageWritten DEF b
<1>5. Recorded(a, b, {u \div EntriesPerPage}) /\ b.users = a.users /\ b.objects = a.objects
  BY <1>3, UserPageRecords DEF b
<1>6. SameRecords(b, h2) /\ SameButMem(b, h2)
  BY <1>1, <1>4, BitFileRecords, BitFileWritten
<1>7. h2.users = b.users /\ a.users = h.users /\ h2.objects = b.objects /\ a.objects = h.objects
  BY <1>3, <1>6 DEF SameButMem
<1>. QED  BY <1>2, <1>5, <1>6, <1>7 DEF Recorded, SameRecords

\* What is recorded stays right when the users in memory are right and those whose records are
\* not written have entries in no more groups.
LEMMA CountedStep ==
  ASSUME NEW h, Sound(h), Covered(h), NEW h2, NEW U, Recorded(h, h2, U),
         \A v \in DOMAIN h2.users : Covers(h2.objects, v, h2.users[v]),
         \A v \in DOMAIN h.users : v \div EntriesPerPage \notin U =>
           Above(h2.objects, v) \subseteq Above(h.objects, v)
  PROVE  Covered(h2)
<1>1. ASSUME NEW i \in Indexes, NEW r \in RecordsOn(h, i), i \notin U
      PROVE  Covers(h2.objects, r.id, r.entry)
  <2>1. UserPageOK(h, i)
    BY DEF Sound, MirroredBut
  <2>2. IsRecord(h, r, i)
    BY <1>1, <2>1 DEF UserPageOK, RecordsOn
  <2>3. r.id \in DOMAIN h.users /\ r.id \div EntriesPerPage \notin U
    BY <1>1, <2>2 DEF IsRecord
  <2>4. Covers(h.objects, r.id, r.entry)
    BY <1>1 DEF Covered
  <2>. QED  BY <2>3, <2>4, CoversFewer
<1>2. \A i \in Indexes : \A r \in RecordsOn(h2, i) : Covers(h2.objects, r.id, r.entry)
  BY <1>1 DEF Recorded
<1>. QED  BY <1>2 DEF Covered

\* The same figures cover where the user has entries in no more groups.
LEMMA CoversSame ==
  ASSUME NEW S, NEW S2, NEW u, Above(S2, u) \subseteq Above(S, u), NEW e, Covers(S, u, e),
         NEW e2, e2.alloc = e.alloc, e2.max = e.max
  PROVE  Covers(S2, u, e2)
<1>1. Covers(S2, u, e)
  BY CoversFewer
<1>. QED  BY <1>1 DEF Covers

\* Nothing has become of the user file: the records stay.
LEMMA KeptRecords ==
  ASSUME NEW h, Apart(h), NEW g, \A q \in h.used \ FilePages(h) : g.mem[q] = h.mem[q]
  PROVE  SameRecords(h, g)
<1>1. UserIndex \in h.used \ FilePages(h)
  <2>1. UserIndex \in h.used
    BY InUse DEF RootPages
  <2>2. \A o \in h.objects : UserIndex \notin PagesOf(h.mem, o)
    BY DEF Apart, FilesApart, FileApart, RootPages
  <2>. QED  BY <2>1, <2>2 DEF FilePages
<1>2. ASSUME NEW i \in Indexes, Ptr(h, UserIndex, i) # Null
      PROVE  g.mem[Ptr(h, UserIndex, i)] = h.mem[Ptr(h, UserIndex, i)]
  <2>1. Ptr(h, UserIndex, i) \in h.used \ FilePages(h)
    BY <1>2, UserPage, InUse
  <2>. QED  BY <2>1
<1>. QED  BY <1>1, <1>2, RecordsKept DEF SamePtrs

\* Free pages written are none of it.
LEMMA ExtendedRecords ==
  ASSUME NEW d, Sound(d), NEW T, NEW g, Extended(d, g, T)
  PROVE  SameRecords(d, g) /\ g.users = d.users /\ g.objects = d.objects
<1>1. Apart(d) /\ d.used \subseteq Pages /\ T \intersect d.used = {}
  BY DEF Sound, Apart, WellFormed, Extended, FreePages
<1>2. \A q \in d.used \ FilePages(d) : g.mem[q] = d.mem[q]
  BY <1>1 DEF Extended
<1>. QED  BY <1>1, <1>2, KeptRecords DEF Extended

\* Recounted for a new entry, the blocks of every user are covered, with and without the entry.
LEMMA OpenedCovers ==
  ASSUME NEW h, Sound(h), Covered(h), NEW u \in DOMAIN h.users, NEW s \in Slots, NEW d, Opened(h, d, u, s),
         DOMAIN d.users = DOMAIN h.users, NEW S2,
         \A v : Above(S2, v) \subseteq Above(h.objects, v) \union
                                 (IF v = u THEN {GroupOf(s)} \ {Home(u)} ELSE {})
  PROVE  \A v \in DOMAIN d.users : Covers(S2, v, d.users[v])
<1>. SUFFICES ASSUME NEW v \in DOMAIN h.users
              PROVE  Covers(S2, v, d.users[v])
  OBVIOUS
<1>1. Covers(h.objects, v, h.users[v])
  BY DEF Covered
<1>2. GroupOf(s) \in Groups
  BY SlotParts DEF Groups, Indexes
<1>3. CASE v = u
  <2>1. /\ d.users[u].max = h.users[u].max
        /\ d.users[u].alloc = BlocksWith(h.objects, u, s, h.users[u].max)
        /\ \/ GroupOf(s) = Home(u) \/ UsesGroup(h.objects, u, GroupOf(s))
           \/ ~(h.users[u].alloc >= h.users[u].max)
    BY DEF Opened
  <2>2. Above(S2, u) \subseteq Above(h.objects, u) \union ({GroupOf(s)} \ {Home(u)})
    BY <1>3
  <2>3. Covers(h.objects, u, h.users[u])
    BY <1>1, <1>3
  <2>4. Covers(S2, u, d.users[u])
    BY <1>2, <2>1, <2>2, <2>3, CountedCovers
  <2>. QED  BY <1>3, <2>4
<1>4. CASE v # u
  <2>1. d.users[v].max = h.users[v].max /\ d.users[v].alloc = h.users[v].alloc
    BY <1>4 DEF Opened
  <2>2. Above(S2, v) \subseteq Above(h.objects, v)
    BY <1>4
  <2>. QED  BY <1>1, <2>1, <2>2, CoversSame
<1>. QED  BY <1>3, <1>4

\* An entry that comes in is in its own group.
LEMMA AboveWith ==
  ASSUME NEW S, NEW o
  PROVE  \A v : Above(S \union {o}, v) \subseteq Above(S, v) \union
                  (IF v = o.user THEN {GroupOf(o.slot)} \ {Home(o.user)} ELSE {})
BY DEF Above, UsesGroup

\* A creation counts the block of its entry.
LEMMA CreationCounts ==
  ASSUME NEW h, Sound(h), Covered(h), NEW h2, NEW u, NEW o, NEW T, NEW d, NEW g,
         Creation(h, h2, u, o, T, d, g)
  PROVE  Covered(h2)
<1>1. /\ Prepared(h, d) /\ Extended(d, g, T) /\ EntryShape(d, o) /\ ~SlotInUse(d.objects, o.slot)
      /\ Occupies(g.mem, o, T) /\ o.user = u /\ Opened(h, d, u, o.slot) /\ h2 = Entered(g, u, o)
  BY DEF Creation
<1>. DEFINE a == Added(g, u, o)
<1>2. h2 = Saved(a, o.slot, u)
  BY <1>1 DEF Entered, Added
<1>3. /\ Sound(d) /\ d.objects = h.objects /\ DOMAIN d.users = DOMAIN h.users /\ SameRecords(h, d)
      /\ \A v \in DOMAIN h.users : DOMAIN d.users[v] = UserFields
  BY <1>1 DEF Prepared, UsersLike
<1>4. SameRecords(d, g) /\ g.users = d.users /\ g.objects = d.objects
  BY <1>1, <1>3, ExtendedRecords
<1>5. u \in DOMAIN h.users /\ o.slot \in Slots
  BY <1>1, <1>3 DEF EntryShape
<1>6. /\ a.objects = h.objects \union {o} /\ a.mem = g.mem /\ DOMAIN a.users = DOMAIN h.users
      /\ \A v \in DOMAIN h.users : /\ a.users[v].alloc = d.users[v].alloc
                                   /\ a.users[v].max = d.users[v].max
  BY <1>1, <1>3, <1>4, <1>5 DEF Added, Extended, VolumeFields, UserFields
<1>7. Apart(a) /\ MirroredBut(a, {Pos(o.slot)}, {u \div EntriesPerPage}) /\ u \in UserIds
  BY <1>1, <1>3, AddedSound
<1>. HIDE DEF a
<1>8. Recorded(a, h2, {u \div EntriesPerPage}) /\ h2.users = a.users /\ h2.objects = a.objects
  BY <1>2, <1>5, <1>7, SavedRecords
<1>9. SameRecords(h, a)
  BY <1>3, <1>4, <1>6 DEF SameRecords, RecordsOn, Ptr
<1>10. Recorded(h, h2, {u \div EntriesPerPage})
  BY <1>8, <1>9 DEF Recorded, SameRecords
<1>11. Opened(h, a, u, o.slot)
  BY <1>1, <1>6 DEF Opened
<1>12. \A v \in DOMAIN a.users : Covers(h2.objects, v, a.users[v])
  <2>1. \A v : Above(h.objects \union {o}, v) \subseteq Above(h.objects, v) \union
               (IF v = u THEN {GroupOf(o.slot)} \ {Home(u)} ELSE {})
    BY <1>1, AboveWith
  <2>2. h2.objects = h.objects \union {o}
    BY <1>6, <1>8
  <2>3. \A v : Above(h2.objects, v) \subseteq Above(h.objects, v) \union
               (IF v = u THEN {GroupOf(o.slot)} \ {Home(u)} ELSE {})
    BY <2>1, <2>2
  <2>. QED  BY <1>5, <1>6, <1>11, <2>3, OpenedCovers
<1>13. ASSUME NEW v \in DOMAIN h.users, v \div EntriesPerPage \notin {u \div EntriesPerPage}
       PROVE  Above(h2.objects, v) \subseteq Above(h.objects, v)
  <2>1. v # o.user
    BY <1>1, <1>13
  <2>. QED  BY <1>6, <1>8, <2>1, AboveWith
<1>. QED  BY <1>8, <1>10, <1>12, <1>13, CountedStep

\* A revised entry is in the group it was in.
LEMMA RevisionCounts ==
  ASSUME NEW h, Sound(h), Covered(h), NEW g, NEW o, NEW new, NEW T, NEW U, Revision(h, g, o, new, T, U),
         SameBlocks(h, g), NEW h2, NEW V, Recorded(g, h2, V), h2.users = g.users, h2.objects = g.objects
  PROVE  Covered(h2)
<1>1. /\ o \in h.objects /\ Swapped(h, g, o, new, T) /\ new.slot = o.slot /\ new.user = o.user
      /\ DOMAIN g.users = DOMAIN h.users /\ Apart(h)
  BY DEF Revision, UsersLike, Sound
<1>2. \A q \in h.used \ FilePages(h) : g.mem[q] = h.mem[q]
  <2>1. /\ \A q \in Pages \ T : g.mem[q] = h.mem[q]
        /\ T \intersect (h.used \ PagesOf(h.mem, o)) = {}
    BY <1>1 DEF Swapped
  <2>2. h.used \subseteq Pages /\ PagesOf(h.mem, o) \subseteq FilePages(h)
    BY <1>1 DEF Apart, WellFormed, FilePages
  <2>. QED  BY <2>1, <2>2
<1>3. SameRecords(h, g)
  BY <1>1, <1>2, KeptRecords
<1>4. Recorded(h, h2, V)
  BY <1>3 DEF Recorded, SameRecords
<1>5. \A v : Above(h2.objects, v) \subseteq Above(h.objects, v)
  <2>1. h2.objects = (h.objects \ {o}) \union {new}
    BY <1>1 DEF Swapped
  <2>. QED  BY <1>1, <2>1 DEF Above, UsesGroup
<1>6. \A v \in DOMAIN h2.users : Covers(h2.objects, v, h2.users[v])
  <2>. SUFFICES ASSUME NEW v \in DOMAIN h.users
                PROVE  Covers(h2.objects, v, h2.users[v])
    BY <1>1
  <2>1. Covers(h.objects, v, h.users[v])
    BY DEF Covered
  <2>2. h2.users[v].alloc = h.users[v].alloc /\ h2.users[v].max = h.users[v].max
    BY DEF SameBlocks
  <2>. QED  BY <1>5, <2>1, <2>2, CoversSame
<1>. QED  BY <1>4, <1>5, <1>6, CountedStep

-----------------------------------------------------------------------------
\* Every call on a file keeps the count: a creation,
LEMMA CreatingCounts ==
  ASSUME NEW who, NEW name, Sound(fs), Covered(fs), Creating(who, name) \/ Running(who, name)
  PROVE  Covered(fs')
<1>1. CASE Creating(who, name)
  <2>1. \E len \in Nat : \E holes, v, u, o, T, d, g : CreationOf(who, name, len, holes, v, u, o, T, d, g)
    BY <1>1 DEF Creating
  <2>2. \E u, o, T, d, g : Creation(fs, fs', u, o, T, d, g)
    BY <2>1 DEF CreationOf
  <2>. QED  BY <2>2, CreationCounts
<1>2. CASE Running(who, name)
  <2>1. \E n \in Nat \ {0} : \E u, o, T, d, g : RunOf(who, name, n, u, o, T, d, g)
    BY <1>2 DEF Running
  <2>2. \E u, o, T, d, g : Creation(fs, fs', u, o, T, d, g)
    BY <2>1 DEF RunOf
  <2>. QED  BY <2>2, CreationCounts
<1>. QED  BY <1>1, <1>2

\* an update,
LEMMA UpdatingCounts ==
  ASSUME NEW who, NEW name, Sound(fs), Covered(fs), Updating(who, name)
  PROVE  Covered(fs')
<1>1. \E len \in Nat : \E holes, v, u, o, new, T, g : UpdatingOf(who, name, len, holes, v, u, o, new, T, g)
  BY DEF Updating
<1>. PICK len \in Nat : \E holes, v, u, o, new, T, g : UpdatingOf(who, name, len, holes, v, u, o, new, T, g)
  BY <1>1
<1>. PICK holes, v, u, o, new, T, g : UpdatingOf(who, name, len, holes, v, u, o, new, T, g)
  OBVIOUS
<1>2. /\ u \in Payers(who) /\ Revision(fs, g, o, new, T, {u \div EntriesPerPage})
      /\ SameBlocks(fs, g) /\ fs' = Saved(g, o.slot, u)
  BY DEF UpdatingOf
<1>3. u \in UserIds
  BY <1>2, PayersAreUsers DEF Users, Sound, Apart, WellFormed
<1>4. Apart(g) /\ MirroredBut(g, {Pos(o.slot)}, {u \div EntriesPerPage}) /\ o.slot \in Slots
  BY <1>2, RevisionSwaps
<1>5. Recorded(g, fs', {u \div EntriesPerPage}) /\ fs'.users = g.users /\ fs'.objects = g.objects
  BY <1>2, <1>3, <1>4, SavedRecords
<1>. QED  BY <1>2, <1>5, RevisionCounts

\* a change that stores the entry alone,
LEMMA RevisedAloneCounts ==
  ASSUME Sound(fs), Covered(fs), NEW g, NEW o, NEW new, NEW T, Revision(fs, g, o, new, T, {}),
         g.users = fs.users, fs' = WriteObjectPage(g, o.slot)
  PROVE  Covered(fs')
<1>1. Apart(g) /\ MirroredBut(g, {Pos(o.slot)}, {}) /\ o.slot \in Slots
  BY RevisionSwaps
<1>2. SameRecords(g, fs')
  BY <1>1, ObjectPageRecords
<1>3. SameButMem(g, fs')
  BY <1>1, ObjectPageWritten
<1>4. Recorded(g, fs', {}) /\ fs'.users = g.users /\ fs'.objects = g.objects
  BY <1>2, <1>3 DEF Recorded, SameRecords, SameButMem
<1>5. SameBlocks(fs, g)
  BY DEF SameBlocks
<1>. QED  BY <1>4, <1>5, RevisionCounts

LEMMA RevisingCounts ==
  ASSUME NEW who, NEW name, Sound(fs), Covered(fs), Rewriting(who, name) \/ Renaming(who, name)
  PROVE  Covered(fs')
<1>1. CASE Rewriting(who, name)
  <2>1. \E len \in Nat : \E v, o, new, T, g : RewritingOf(who, name, len, v, o, new, T, g)
    BY <1>1 DEF Rewriting
  <2>2. \E o, new, T, g : /\ Revision(fs, g, o, new, T, {}) /\ g.users = fs.users
                          /\ fs' = WriteObjectPage(g, o.slot)
    BY <2>1 DEF RewritingOf
  <2>. QED  BY <2>2, RevisedAloneCounts
<1>2. CASE Renaming(who, name)
  <2>1. \E to, o, new, T, g : RenamingOf(who, name, to, o, new, T, g)
    BY <1>2 DEF Renaming
  <2>2. \E o, new, T, g : /\ Revision(fs, g, o, new, T, {}) /\ g.users = fs.users
                          /\ fs' = WriteObjectPage(g, o.slot)
    BY <2>1 DEF RenamingOf
  <2>. QED  BY <2>2, RevisedAloneCounts
<1>. QED  BY <1>1, <1>2

\* a deletion,
LEMMA DeletingCounts ==
  ASSUME NEW who, NEW name, Sound(fs), Covered(fs), Deleting(who, name)
  PROVE  Covered(fs')
<1>1. PICK o, g : DeletionOf(who, name, o, g)
  BY DEF Deleting
<1>2. /\ Apart(g) /\ MirroredBut(g, {Pos(o.slot)}, {o.user \div EntriesPerPage})
      /\ g.objects = fs.objects \ {o} /\ g.mem = fs.mem /\ DOMAIN g.users = DOMAIN fs.users
      /\ SameBlocks(fs, g) /\ o.slot \in Slots /\ o.user \in UserIds /\ fs' = Saved(g, o.slot, o.user)
  BY <1>1 DEF DeletionOf
<1>3. /\ Recorded(g, fs', {o.user \div EntriesPerPage}) /\ fs'.users = g.users
      /\ fs'.objects = g.objects
  <2>1. /\ Apart(g) /\ o.slot \in Slots /\ o.user \in UserIds
        /\ MirroredBut(g, {Pos(o.slot)}, {o.user \div EntriesPerPage})
        /\ fs' = Saved(g, o.slot, o.user)
    BY <1>2
  <2>. QED  BY ONLY <2>1, SavedRecords, ZenonT(40)
<1>4. Recorded(fs, fs', {o.user \div EntriesPerPage})
  BY <1>2, <1>3 DEF Recorded, RecordsOn, Ptr
<1>5. \A v : Above(fs'.objects, v) \subseteq Above(fs.objects, v)
  BY <1>2, <1>3 DEF Above, UsesGroup
<1>6. \A v \in DOMAIN fs'.users : Covers(fs'.objects, v, fs'.users[v])
  <2>. SUFFICES ASSUME NEW v \in DOMAIN fs.users
                PROVE  Covers(fs'.objects, v, fs'.users[v])
    BY <1>2, <1>3
  <2>1. Covers(fs.objects, v, fs.users[v])
    BY DEF Covered
  <2>2. fs'.users[v].alloc = fs.users[v].alloc /\ fs'.users[v].max = fs.users[v].max
    BY <1>2, <1>3 DEF SameBlocks
  <2>. QED  BY <1>5, <2>1, <2>2, CoversSame
<1>. QED  BY <1>4, <1>5, <1>6, CountedStep

\* a patch,
LEMMA PatchingCounts ==
  ASSUME NEW who, NEW name, Sound(fs), Covered(fs), Patching(who, name)
  PROVE  Covered(fs')
<1>1. PICK first \in Nat : \E last \in Nat : \E v, o, S : PatchingOf(who, name, first, last, v, o, S)
  BY DEF Patching
<1>2. PICK last \in Nat : \E v, o, S : PatchingOf(who, name, first, last, v, o, S)
  BY <1>1
<1>3. PICK v, o, S : PatchingOf(who, name, first, last, v, o, S)
  BY <1>2
<1>4. /\ o \in fs.objects /\ SameButMem(fs, fs')
      /\ \A p \in Pages : \/ fs'.mem[p] = fs.mem[p]
                          \/ \E i \in S : \E r \in RefsAt(fs.mem, o, i) : r[2] = p
  BY <1>3, FoundIsEntry DEF PatchingOf
<1>5. Apart(fs) /\ PagesOf(fs.mem, o) \subseteq FilePages(fs) /\ fs.used \subseteq Pages
  BY <1>4 DEF Sound, FilePages, Apart, WellFormed
<1>6. \A i : \A r \in RefsAt(fs.mem, o, i) : r[2] \in PagesOf(fs.mem, o)
  BY DEF RefsAt, PagesOf
<1>7. \A q \in fs.used \ FilePages(fs) : fs'.mem[q] = fs.mem[q]
  BY <1>4, <1>5, <1>6
<1>8. SameRecords(fs, fs')
  BY <1>5, <1>7, KeptRecords
<1>. QED  BY <1>4, <1>8 DEF Covered, SameButMem, SameRecords

\* and one that is refused, whatever it has raised or recorded,
LEMMA RefusedCounts ==
  ASSUME Sound(fs), Covered(fs), NEW u \in Users, NEW extra, NEW h2,
         \/ h2 = fs \/ h2 = Reserving(u, extra)
         \/ FreeSlot(u) # NoSlot /\ h2 = WithDir(u, extra).h
  PROVE  Covered(h2)
<1>1. WellFormed(fs)
  BY DEF Sound, Apart
<1>2. CASE h2 = fs
  BY <1>2
<1>3. CASE h2 = Reserving(u, extra)
  <2>1. EditedUsers(fs, h2) /\ UsersLike(fs, h2, {}) /\ SameBlocks(fs, h2)
    BY <1>1, <1>3, ReservingEdits
  <2>2. Recorded(fs, h2, {}) /\ h2.objects = fs.objects /\ DOMAIN h2.users = DOMAIN fs.users
    BY <2>1 DEF EditedUsers, UsersLike, Recorded, RecordsOn, Ptr
  <2>3. \A v \in DOMAIN fs.users : Covers(fs.objects, v, h2.users[v])
    BY <2>1, CoversSame DEF Covered, SameBlocks
  <2>. QED  BY <2>2, <2>3, CountedStep
<1>4. CASE FreeSlot(u) # NoSlot /\ h2 = WithDir(u, extra).h
  <2>1. Prepared(fs, h2) /\ FreeSlot(u) \in Slots /\ Opened(fs, h2, u, FreeSlot(u))
    BY <1>4, WithDirKeeps
  <2>2. h2.objects = fs.objects /\ DOMAIN h2.users = DOMAIN fs.users /\ SameRecords(fs, h2)
    BY <2>1 DEF Prepared, UsersLike
  <2>3. Recorded(fs, h2, {})
    BY <2>2 DEF Recorded, SameRecords
  <2>4. \A v \in DOMAIN h2.users : Covers(fs.objects, v, h2.users[v])
    BY <2>1, <2>2, OpenedCovers DEF Users
  <2>. QED  BY <2>2, <2>3, <2>4, CountedStep
<1>. QED  BY <1>2, <1>3, <1>4

\* A refusal comes before anything is built.
LEMMA RefusalLeaves ==
  ASSUME NEW who, NEW name, NEW len, NEW holes,
         \/ CreateRefused(who, name, len, holes) \/ UpdateRefused(who, name, len, holes)
         \/ ContiguousRefused(who, name, len)
  PROVE  \E u \in Users : \E extra :
           \/ fs' = fs \/ fs' = Reserving(u, extra)
           \/ FreeSlot(u) # NoSlot /\ fs' = WithDir(u, extra).h
<1>1. CASE CreateRefused(who, name, len, holes)
  BY <1>1, PayersAreUsers DEF CreateRefused, NoRoom, NoSlotLeft, NoDirPage, Refused
<1>2. CASE UpdateRefused(who, name, len, holes)
  BY <1>2, PayersAreUsers DEF UpdateRefused, NoRoom, Refused
<1>3. CASE ContiguousRefused(who, name, len)
  BY <1>3, PayersAreUsers DEF ContiguousRefused, NoRoom, NoSlotLeft, NoDirPage, HasEntry, Refused
<1>. QED  BY <1>1, <1>2, <1>3

\* also when the tree did not fit.
LEMMA DecliningCounts ==
  ASSUME NEW who, NEW name, Sound(fs), Covered(fs), Declining(who, name)
  PROVE  Covered(fs')
<1>1. CASE \E len, holes : \/ CreateRefused(who, name, len, holes) \/ UpdateRefused(who, name, len, holes)
                           \/ ContiguousRefused(who, name, len)
  <2>1. PICK len, holes : \/ CreateRefused(who, name, len, holes) \/ UpdateRefused(who, name, len, holes)
                          \/ ContiguousRefused(who, name, len)
    BY <1>1
  <2>2. \E u \in Users : \E extra :
          \/ fs' = fs \/ fs' = Reserving(u, extra)
          \/ FreeSlot(u) # NoSlot /\ fs' = WithDir(u, extra).h
    BY <2>1, RefusalLeaves
  <2>. QED  BY <2>2, RefusedCounts
<1>2. ASSUME NEW len \in Nat, NEW holes, NEW v, CreateNoSpace(who, name, len, holes, v)
      PROVE  Covered(fs')
  <2>. DEFINE n == AtLeastOne(len)
              x == Real(n, holes)
  <2>1. PICK u \in Payers(who) :
          LET b == Build(WithDir(u, x).h, n, holes, Written(len, v)) IN
          n <= MaxFilePages /\ HasEntry(u, x) /\ fs' = b.h
    BY <1>2 DEF CreateNoSpace, Refused
  <2>. DEFINE d == WithDir(u, x).h
              b == Build(d, n, holes, Written(len, v))
  <2>2. n \in Nat \ {0}
    BY Counts
  <2>3. n <= MaxFilePages /\ HasEntry(u, x) /\ fs' = b.h
    BY <2>1
  <2>4. u \in Users
    BY PayersAreUsers
  <2>. HIDE DEF n, x, b
  <2>5. Sound(d) /\ Covered(d)
    <3>1. FreeSlot(u) # NoSlot
      BY <2>3 DEF HasEntry
    <3>2. Covered(d)
      BY <2>4, <3>1, RefusedCounts
    <3>3. Prepared(fs, d)
      BY <2>4, <3>1, WithDirKeeps
    <3>. QED  BY <3>2, <3>3 DEF Prepared
  <2>. HIDE DEF d
  <2>6. DOMAIN d = VolumeFields /\ IsMem(d.mem)
    BY <2>5 DEF Sound, Apart, WellFormed
  <2>7. PICK T : Extended(d, b.h, T)
    BY <2>2, <2>3, <2>6, BuildShape DEF b, Built
  <2>8. SameRecords(d, b.h) /\ b.h.users = d.users /\ b.h.objects = d.objects
    BY <2>5, <2>7, ExtendedRecords
  <2>. QED  BY <2>3, <2>5, <2>8 DEF Covered, SameRecords
<1>. QED  BY <1>1, <1>2 DEF Declining

-----------------------------------------------------------------------------
\* A user's record is changed and his page written, the records in memory covering the blocks.
LEMMA EditCounts ==
  ASSUME NEW h, Sound(h), Covered(h), NEW u \in UserIds, NEW g, EditedUsers(h, g), Apart(g),
         \A v \in DOMAIN g.users : Covers(h.objects, v, g.users[v]),
         NEW h2, h2 = WriteUserPage(g, u)
  PROVE  Covered(h2)
<1>1. Recorded(g, h2, {u \div EntriesPerPage}) /\ h2.users = g.users /\ h2.objects = g.objects
  BY UserPageRecords
<1>2. g.objects = h.objects /\ g.mem = h.mem
  BY DEF EditedUsers
<1>3. Recorded(h, h2, {u \div EntriesPerPage})
  BY <1>1, <1>2 DEF Recorded, RecordsOn, Ptr
<1>. QED  BY <1>1, <1>2, <1>3, CountedStep

\* So is his quota
LEMMA SetQuotaCounts ==
  ASSUME NEW u, NEW quota, Sound(fs), Covered(fs), SetQuota(u, quota)
  PROVE  Covered(fs')
<1>. DEFINE g == [fs EXCEPT !.users[u].reserved = quota]
<1>1. WellFormed(fs) /\ u \in UserIds /\ u \in DOMAIN fs.users
  BY DEF Sound, Apart, WellFormed, SetQuota, Users
<1>2. EditedUsers(fs, g) /\ UsersLike(fs, g, {u \div EntriesPerPage}) /\ SameBlocks(fs, g)
  BY <1>1 DEF WellFormed, EditedUsers, UsersLike, SameBlocks, VolumeFields, UserFields
<1>3. fs' = WriteUserPage(g, u)
  BY DEF SetQuota
<1>. HIDE DEF g
<1>4. Apart(g) /\ DOMAIN g.users = DOMAIN fs.users
  BY <1>2, UsersEdited DEF UsersLike
<1>5. \A v \in DOMAIN g.users : Covers(fs.objects, v, g.users[v])
  BY <1>2, <1>4, CoversSame DEF Covered, SameBlocks
<1>. QED  BY <1>1, <1>2, <1>3, <1>4, <1>5, EditCounts

\* and the number of his blocks, which is never made less than those that are allocated.
LEMMA SetMaxCounts ==
  ASSUME NEW u \in Users, NEW max \in Nat, fs.users[u].alloc <= max, Sound(fs), Covered(fs), SetMax(u, max)
  PROVE  Covered(fs')
<1>. DEFINE g == [fs EXCEPT !.users[u].max = max]
<1>1. WellFormed(fs) /\ u \in UserIds /\ u \in DOMAIN fs.users
  BY DEF Sound, Apart, WellFormed, Users
<1>2. /\ EditedUsers(fs, g) /\ UsersLike(fs, g, {u \div EntriesPerPage})
      /\ \A v \in DOMAIN fs.users :
           g.users[v].alloc = fs.users[v].alloc
           /\ g.users[v].max = IF v = u THEN max ELSE fs.users[v].max
  BY <1>1 DEF WellFormed, EditedUsers, UsersLike, VolumeFields, UserFields
<1>3. fs' = WriteUserPage(g, u)
  BY DEF SetMax
<1>. HIDE DEF g
<1>4. Apart(g) /\ DOMAIN g.users = DOMAIN fs.users
  BY <1>2, UsersEdited DEF UsersLike
<1>5. ASSUME NEW v \in DOMAIN g.users
      PROVE  Covers(fs.objects, v, g.users[v])
  <2>1. Covers(fs.objects, v, fs.users[v])
    BY <1>4 DEF Covered
  <2>. QED  BY <1>2, <1>4, <2>1 DEF Covers
<1>. QED  BY <1>1, <1>2, <1>3, <1>4, <1>5, EditCounts

\* A user who leaves takes his record with him,
LEMMA RemoveUserCounts ==
  ASSUME NEW u, Sound(fs), Covered(fs), RemoveUser(u)
  PROVE  Covered(fs')
<1>1. PICK g : RemovalOf(u, g)
  BY RemoveUserDoes
<1>2. /\ u \in UserIds /\ EditedUsers(fs, g) /\ Apart(g) /\ fs' = WriteUserPage(g, u)
      /\ DOMAIN g.users \subseteq DOMAIN fs.users /\ \A v \in DOMAIN g.users : g.users[v] = fs.users[v]
  BY <1>1 DEF RemovalOf
<1>3. \A v \in DOMAIN g.users : Covers(fs.objects, v, g.users[v])
  BY <1>2 DEF Covered
<1>. QED  BY <1>2, <1>3, EditCounts

\* and one who comes has one block and nothing in it.
LEMMA AddUserCounts ==
  ASSUME NEW quota, Sound(fs), Covered(fs), AddUser(quota)
  PROVE  Covered(fs')
<1>1. PICK u, g, h : AdditionOf(u, g, h)
  BY AddUserDoes
<1>. DEFINE w == WriteUserPage(h, u)
<1>2. /\ u \in UserIds /\ u \notin DOMAIN fs.users /\ EditedUsers(fs, g) /\ Grown(g, h)
      /\ DOMAIN g.users = DOMAIN fs.users \union {u}
      /\ g.users[u].alloc = 1 /\ g.users[u].max = 1
      /\ \A v \in DOMAIN fs.users : g.users[v] = fs.users[v]
      /\ Apart(h) /\ MirroredBut(h, {}, {u \div EntriesPerPage}) /\ fs' = WriteBitFile(w)
  BY <1>1 DEF AdditionOf
<1>3. /\ SameRecords(g, h) /\ h.users = g.users /\ h.objects = g.objects
      /\ g.mem = fs.mem /\ g.objects = fs.objects
  BY <1>2 DEF Grown, EditedUsers
<1>4. Apart(w) /\ MirroredBut(w, {}, {})
  BY <1>2, UserPageWritten
<1>5. Recorded(h, w, {u \div EntriesPerPage}) /\ w.users = h.users /\ w.objects = h.objects
  BY <1>2, UserPageRecords
<1>. HIDE DEF w
<1>6. SameRecords(w, fs') /\ SameButMem(w, fs')
  BY <1>2, <1>4, BitFileRecords, BitFileWritten
<1>7. fs'.users = g.users /\ fs'.objects = fs.objects
  BY <1>3, <1>5, <1>6 DEF SameButMem
<1>8. Recorded(fs, fs', {u \div EntriesPerPage})
  <2>1. \A i \in Indexes : RecordsOn(h, i) = RecordsOn(fs, i)
    BY <1>3 DEF SameRecords, RecordsOn, Ptr
  <2>2. \A i \in Indexes : RecordsOn(fs', i) = RecordsOn(w, i)
    BY <1>6 DEF SameRecords
  <2>. QED  BY <1>3, <1>5, <1>7, <2>1, <2>2 DEF Recorded
<1>9. ASSUME NEW v \in DOMAIN fs'.users
      PROVE  Covers(fs'.objects, v, fs'.users[v])
  <2>1. CASE v \in DOMAIN fs.users
    BY <1>2, <1>7, <2>1 DEF Covered
  <2>2. CASE v = u
    <3>1. \A o \in fs.objects : o.user # u
      BY <1>2 DEF Sound, Apart, WellFormed, IsEntry
    <3>2. Above(fs.objects, u) = {}
      BY <3>1 DEF Above, UsesGroup
    <3>3. Cardinality(Above(fs.objects, u)) = 0
      BY <3>2, FS_EmptySet
    <3>. QED  BY <1>2, <1>7, <2>2, <3>3 DEF Covers
  <2>. QED  BY <1>2, <1>7, <2>1, <2>2
<1>. QED  BY <1>7, <1>8, <1>9, CountedStep

\* All calls on users.
LEMMA UserCallCounts ==
  ASSUME Sound(fs), Covered(fs), UserCall
  PROVE  Covered(fs')
<1>1. ASSUME NEW u, GiveObjectBlock(u)
      PROVE  Covered(fs')
  <2>1. u \in Users /\ SetMax(u, fs.users[u].max + 1)
    BY <1>1 DEF GiveObjectBlock
  <2>2. Covers(fs.objects, u, fs.users[u])
    BY <2>1 DEF Covered, Users
  <2>3. fs.users[u].max + 1 \in Nat /\ fs.users[u].alloc <= fs.users[u].max + 1
    BY <2>2 DEF Covers
  <2>. QED  BY <2>1, <2>3, SetMaxCounts
<1>2. ASSUME NEW u, TakeObjectBlock(u)
      PROVE  Covered(fs')
  <2>1. u \in Users /\ SetMax(u, fs.users[u].max - 1) /\ fs.users[u].max - 1 >= fs.users[u].alloc
    BY <1>2 DEF TakeObjectBlock
  <2>2. Covers(fs.objects, u, fs.users[u])
    BY <2>1 DEF Covered, Users
  <2>3. fs.users[u].max - 1 \in Nat /\ fs.users[u].alloc <= fs.users[u].max - 1
    BY <2>1, <2>2 DEF Covers
  <2>. QED  BY <2>1, <2>3, SetMaxCounts
<1>. QED  BY <1>1, <1>2, SetQuotaCounts, RemoveUserCounts, AddUserCounts DEF UserCall

\* A reload brings back the records of the pages.
LEMMA ReopeningCounts ==
  ASSUME Sound(fs), Covered(fs), Reopen, ~hurt'
  PROVE  Covered(fs')
<1>1. fs' = Load(fs.mem) /\ ~ReloadLoses(fs)
  BY DEF Reopen
<1>2. /\ fs'.mem = fs.mem /\ UsersLike(fs, fs', {})
      /\ fs'.objects = {Renumbered(fs, o) : o \in fs.objects}
      /\ \A u \in DOMAIN fs.users :
           \E i \in Indexes : \E r \in RecordsOn(fs, i) : r.id = u /\ r.entry = fs'.users[u]
  BY <1>1, ReloadParts DEF ReloadLoses
<1>3. ASSUME NEW o \in fs.objects
      PROVE  Renumbered(fs, o).user = o.user /\ Renumbered(fs, o).slot = o.slot
  <2>1. IsEntry(fs, o)
    BY DEF Sound, Apart, WellFormed
  <2>2. SameFile(Renumbered(fs, o), o)
    BY <2>1, RenumberedFields
  <2>. QED  BY <2>2 DEF SameFile
<1>4. \A v : Above(fs'.objects, v) \subseteq Above(fs.objects, v)
  <2>1. \A q \in fs'.objects : \E o \in fs.objects : q.user = o.user /\ q.slot = o.slot
    BY <1>2, <1>3
  <2>. QED  BY <2>1 DEF Above, UsesGroup
<1>5. Recorded(fs, fs', {})
  BY <1>2 DEF Recorded, RecordsOn, Ptr
<1>6. ASSUME NEW v \in DOMAIN fs'.users
      PROVE  Covers(fs'.objects, v, fs'.users[v])
  <2>1. v \in DOMAIN fs.users
    BY <1>2 DEF UsersLike
  <2>2. PICK i \in Indexes : \E r \in RecordsOn(fs, i) : r.id = v /\ r.entry = fs'.users[v]
    BY <1>2, <2>1
  <2>3. Covers(fs.objects, v, fs'.users[v])
    BY <2>2 DEF Covered
  <2>. QED  BY <1>4, <2>3, CoversSame
<1>. QED  BY <1>4, <1>5, <1>6, CountedStep

\* A new image has one user, with one block and nothing in it.
LEMMA InitCounts ==
  ASSUME NEW h, h = Load(FreshMem)
  PROVE  Covered(h)
<1>1. h.mem = FreshMem /\ h.objects = {} /\ DOMAIN h.users = {0} /\ h.users[0] = NewUser(0)
  BY FreshLoaded
<1>2. ASSUME NEW u, NEW e, e = NewUser(0)
      PROVE  Covers(h.objects, u, e)
  <2>1. Above(h.objects, u) = {}
    BY <1>1 DEF Above, UsesGroup
  <2>2. Cardinality(Above(h.objects, u)) = 0
    BY <2>1, FS_EmptySet
  <2>. QED  BY <1>2, <2>2 DEF Covers, NewUser
<1>3. ASSUME NEW i \in Indexes, NEW r \in RecordsOn(h, i)
      PROVE  r.entry = NewUser(0)
  <2>1. r \in h.mem[UserPage0].items
    BY <1>1, <1>3, FreshPages DEF RecordsOn, Ptr
  <2>. QED  BY <1>1, <2>1, FreshPages
<1>. QED  BY <1>1, <1>2, <1>3 DEF Covered

\* Every step keeps the count.
LEMMA NextCounts ==
  ASSUME SoundUntilHurt, BlocksRight, [Next]_vars
  PROVE  BlocksRight'
<1>. SUFFICES ASSUME ~hurt'
              PROVE  Covered(fs')
  BY DEF BlocksRight, Covered, RecordsOn, Ptr
<1>1. ASSUME ~hurt
      PROVE  Sound(fs) /\ Covered(fs)
  BY <1>1 DEF SoundUntilHurt, BlocksRight
<1>2. ASSUME ~hurt, NEW who \in Callers, NEW name, FileCall(who, name)
      PROVE  Covered(fs')
  <2>1. Sound(fs) /\ Covered(fs)
    BY <1>1, <1>2
  <2>2. CASE Declining(who, name)
    BY <2>1, <2>2, DecliningCounts
  <2>3. CASE Succeeding(who, name)
    BY <2>1, <2>3, CreatingCounts, UpdatingCounts, RevisingCounts, DeletingCounts DEF Succeeding
  <2>4. CASE Patching(who, name)
    BY <2>1, <2>4, PatchingCounts
  <2>. QED  BY <1>2, <2>1, <2>2, <2>3, <2>4, FileCallDoes
<1>3. ASSUME ~hurt, UserCall
      PROVE  Covered(fs')
  BY <1>1, <1>3, UserCallCounts
<1>4. ASSUME ~hurt, Reopen
      PROVE  Covered(fs')
  BY <1>1, <1>4, ReopeningCounts
<1>5. CASE UNCHANGED vars
  BY <1>1, <1>5 DEF vars
<1>. QED  BY <1>2, <1>3, <1>4, <1>5 DEF Next, Abandoned

\* Through any sequence of calls, refusals and reloads the blocks a user's files are in above
\* his home are no more than he is recorded to have, and those no more than he may have: taking
\* object blocks from him strands no file.
THEOREM BlocksStayCounted == Spec => []BlocksCounted
<1>1. Init => SoundUntilHurt /\ BlocksRight
  BY InitSound, InitCounts DEF Init, SoundUntilHurt, BlocksRight, Sound, Apart, WellFormed
<1>2. SoundUntilHurt /\ BlocksRight /\ [Next]_vars => BlocksRight'
  BY NextCounts
<1>3. BlocksRight => BlocksCounted
  <2>. SUFFICES ASSUME Covered(fs), NEW u \in Users
                PROVE  /\ Cardinality(Occupied(u) \ {Home(u)}) <= fs.users[u].alloc
                       /\ fs.users[u].alloc <= fs.users[u].max
    BY DEF BlocksRight, BlocksCounted
  <2>1. Covers(fs.objects, u, fs.users[u])
    BY DEF Covered, Users
  <2>2. Above(fs.objects, u) = Occupied(u) \ {Home(u)}
    BY DEF Above, Occupied
  <2>. QED  BY <2>1, <2>2 DEF Covers
<1>. QED  BY <1>1, <1>2, <1>3, VolumeSound, PTL DEF Spec
===============================================================================
