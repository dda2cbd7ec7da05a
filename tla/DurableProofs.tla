----------------------------- MODULE DurableProofs -----------------------------
(***************************************************************************)
(* A volume over a disk that lags behind it: between two calls the disk    *)
(* alone is as good as memory, inside a call it still leads to every file  *)
(* the call leaves alone.  Then what fsck finds of a volume, sound or left *)
(* damaged: what is wrong with it, and nothing else.                       *)
(***************************************************************************)
EXTENDS Durable, VolumeFiles, SequenceTheorems

-----------------------------------------------------------------------------
(***************************************************************************)
(* What the disk has to tell.                                              *)
(***************************************************************************)
UserPages(h) == {Ptr(h, UserIndex, i) : i \in Indexes} \ {Null}

\* The volume h as it would be with the pages d.
WithPages(h, d) == [h EXCEPT !.mem = d]

\* The disk has every page referred to as memory has it, the user pages excepted: those may be
\* older, as long as they name the users there are and what they are charged.
Follows(d, h) ==
  /\ IsMem(d)
  /\ \A p \in Referenced(h) \ UserPages(h) : d[p] = h.mem[p]
  /\ \A i \in Indexes : UserPageOK(WithPages(h, d), i)

\* The stored bit file marks no page that memory has free, and is behind by pages the allocator
\* can have returned only.
Bits(h) ==
  LET stored == h.mem[BitPage].items IN stored \subseteq h.used /\ h.used \ stored \subseteq Window

\* The inductive invariant: the stored bit file is right or behind, and the disk follows memory
\* when every completed call is on it.  A refused call may leave the disk without the pages it
\* took, but then the bit file is behind.
BitsInUse   == ~hurt => Bits(fs)
DiskFollows == ~hurt /\ state = "stored" /\ ~BitsBehind(fs) => Follows(disk, fs)

DurableSound == (~hurt => Sound(fs)) /\ BitsInUse /\ DiskFollows

LEMMA PagesExchanged ==
  ASSUME NEW h, DOMAIN h = VolumeFields, NEW d, NEW h0, h0 = WithPages(h, d)
  PROVE  SameButMem(h, h0) /\ h0.mem = d
BY DEF WithPages, SameButMem, VolumeFields

\* The user pages are no index page, no page of entries, no fixed page and no file's.
LEMMA OtherPages ==
  ASSUME NEW h, Sound(h)
  PROVE  /\ Referenced(h) = DirPages(h) \union FilePages(h) \union RootPages
         /\ Referenced(h) \subseteq Pages /\ Referenced(h) \subseteq h.used
         /\ \A p \in IndexPages(h) \union FilePages(h) \union RootPages : p \in Referenced(h) \ UserPages(h)
         /\ \A g, i \in Indexes : DirAt(h, g, i) # Null => DirAt(h, g, i) \in Referenced(h) \ UserPages(h)
<1>1. Apart(h) /\ h.root.sub \in BOOLEAN /\ h.used \subseteq Pages
  BY DEF Sound, Apart, WellFormed
<1>2. Referenced(h) = DirPages(h) \union FilePages(h) \union RootPages
  BY <1>1, ReferencedPages
<1>3. Referenced(h) \subseteq h.used
  BY SoundLinkedOnce
<1>4. IndexPages(h) \union FilePages(h) \union RootPages \subseteq Referenced(h)
  BY <1>1, <1>2, IndexIsDir
<1>5. UserPages(h) \intersect (IndexPages(h) \union FilePages(h) \union RootPages) = {}
  BY <1>1, UserPage DEF UserPages
<1>6. ASSUME NEW g \in Indexes, NEW i \in Indexes, DirAt(h, g, i) # Null
      PROVE  DirAt(h, g, i) \in Referenced(h) \ UserPages(h)
  <2>1. DirAt(h, g, i) \in DirPages(h) /\ \A j \in Indexes : Ptr(h, UserIndex, j) # DirAt(h, g, i)
    BY <1>1, <1>6, EntryPage
  <2>. QED  BY <1>2, <2>1 DEF UserPages
<1>7. Referenced(h) \subseteq Pages
  BY <1>1, <1>3
<1>. QED  BY <1>2, <1>3, <1>4, <1>5, <1>6, <1>7

\* Memory follows itself.
LEMMA StoredFollows ==
  ASSUME NEW h, Sound(h)
  PROVE  Follows(h.mem, h)
<1>1. DOMAIN h = VolumeFields /\ IsMem(h.mem) /\ \A i \in Indexes : UserPageOK(h, i)
  BY DEF Sound, Apart, WellFormed, MirroredBut
<1>. DEFINE h0 == WithPages(h, h.mem)
<1>2. SameButMem(h, h0) /\ h0.mem = h.mem
  BY <1>1, PagesExchanged
<1>. HIDE DEF h0
<1>3. \A i \in Indexes : UserPageOK(h0, i)
  BY <1>1, <1>2 DEF SameButMem, UserPageOK, IsRecord, Ptr
<1>. QED  BY <1>1, <1>3 DEF Follows, h0

\* A disk that follows a sound volume is a sound volume's, with the directory and the files
\* where they are.
LEMMA DiskSound ==
  ASSUME NEW h, Sound(h), NEW d, Follows(d, h), NEW h0, h0 = WithPages(h, d)
  PROVE  /\ Sound(h0) /\ SameButMem(h, h0) /\ SameDirectory(h, h0) /\ FilesKept(h, h0)
         /\ h0.mem = d /\ h0.mem[BitPage] = h.mem[BitPage]
<1>1. Apart(h) /\ WellFormed(h) /\ DOMAIN h = VolumeFields /\ MirroredBut(h, {}, {})
  BY DEF Sound, Apart, WellFormed
<1>2. SameButMem(h, h0) /\ h0.mem = d
  BY <1>1, PagesExchanged
<1>3. IsMem(d) /\ (\A p \in Referenced(h) \ UserPages(h) : d[p] = h.mem[p])
      /\ \A i \in Indexes : UserPageOK(h0, i)
  BY DEF Follows
<1>4. \A p \in IndexPages(h) \union FilePages(h) \union RootPages : h0.mem[p] = h.mem[p]
  BY <1>2, <1>3, OtherPages
<1>5. WellFormed(h0)
  <2>1. \A o \in h0.objects : IsEntry(h0, o)
    BY <1>1, <1>2 DEF SameButMem, WellFormed, IsEntry
  <2>. QED  BY <1>1, <1>2, <1>3, <2>1 DEF SameButMem, WellFormed
<1>6. SamePtrs(h.mem, h0.mem, IndexPages(h) \union FilePages(h))
  BY <1>4 DEF SamePtrs
<1>7. Apart(h0) /\ SameDirectory(h, h0)
  BY <1>1, <1>2, <1>5, <1>6, ApartKept DEF SameButMem
<1>8. BitPage \in RootPages /\ MasterPage \in RootPages
  BY DEF RootPages
<1>9. ASSUME NEW g \in Indexes, NEW i \in Indexes
      PROVE  EntryPageOK(h0, g, i)
  <2>1. DirAt(h0, g, i) = DirAt(h, g, i)
    BY <1>7 DEF SameDirectory
  <2>2. EntryPageOK(h, g, i)
    BY <1>1 DEF MirroredBut
  <2>3. DirAt(h, g, i) # Null => h0.mem[DirAt(h, g, i)] = h.mem[DirAt(h, g, i)]
    BY <1>2, <1>3, OtherPages
  <2>. QED  BY <1>2, <2>1, <2>2, <2>3 DEF EntryPageOK, SameButMem
<1>10. \A o \in h0.objects : HasDirPage(h0, o)
  <2>. SUFFICES ASSUME NEW o \in h.objects
                PROVE  HasDirPage(h0, o)
    BY <1>2 DEF SameButMem
  <2>1. GroupOf(o.slot) \in Indexes /\ Inner(o.slot) \in Indexes
    BY <1>1, SlotParts DEF WellFormed, IsEntry
  <2>. QED  BY <1>1, <1>7, <2>1 DEF MirroredBut, HasDirPage, SameDirectory
<1>11. MasterOK(h0) /\ h0.mem[BitPage].items \subseteq Pages
  BY <1>1, <1>2, <1>4, <1>8 DEF MirroredBut, MasterOK, SameButMem
<1>12. MirroredBut(h0, {}, {})
  BY <1>3, <1>9, <1>10, <1>11 DEF MirroredBut
<1>13. FilesKept(h, h0)
  BY <1>4 DEF FilesKept
<1>. QED  BY <1>2, <1>4, <1>7, <1>8, <1>12, <1>13 DEF Sound

\* It loses on a reload what memory would lose.
LEMMA DiskLoses ==
  ASSUME NEW h, Sound(h), NEW d, Follows(d, h), ~ReloadLoses(h), NEW h0, h0 = WithPages(h, d)
  PROVE  ~ReloadLoses(h0)
<1>1. /\ Sound(h0) /\ SameButMem(h, h0) /\ SameDirectory(h, h0) /\ FilesKept(h, h0)
      /\ h0.mem[BitPage] = h.mem[BitPage]
  BY DiskSound
<1>2. WellFormed(h)
  BY DEF Sound, Apart
<1>3. FilePages(h0) = FilePages(h)
  BY <1>1, <1>2, SettledFiles DEF Settled
<1>4. Referenced(h0) = Referenced(h)
  BY <1>1, <1>3, OtherPages DEF SameDirectory
<1>5. ~BitsBehind(h0)
  BY <1>1, <1>4 DEF ReloadLoses, BitsBehind
<1>6. \A i \in Indexes : Ptr(h0, UserIndex, i) = Ptr(h, UserIndex, i) /\ Ptr(h0, h.root.page, i) = Ptr(h, h.root.page, i)
  BY <1>1 DEF SameDirectory, IndexPages
<1>7. ~PagelessUser(h0)
  <2>1. \A u \in DOMAIN h.users : u \div EntriesPerPage \in Indexes
    BY <1>2, UserPart DEF WellFormed
  <2>. QED  BY <1>1, <1>6, <2>1 DEF SameButMem, PagelessUser, ReloadLoses
<1>8. ~SkippedGroup(h0)
  BY <1>1, <1>6 DEF SameButMem, SkippedGroup, ReloadLoses
<1>. QED  BY <1>5, <1>7, <1>8 DEF ReloadLoses

\* It shows the files and the charges that memory shows,
LEMMA DiskVisible ==
  ASSUME NEW h, Sound(h), NEW d, Follows(d, h), NEW h0, h0 = WithPages(h, d)
  PROVE  Visible(h0) = Visible(h)
<1>1. /\ Sound(h0) /\ SameButMem(h, h0) /\ SameDirectory(h, h0) /\ FilesKept(h, h0)
  BY DiskSound
<1>2. WellFormed(h)
  BY DEF Sound, Apart
<1>3. ASSUME NEW o \in h.objects
      PROVE  ReadFile(h0.mem, Stored(o)) = ReadFile(h.mem, Stored(o))
  <2>1. IsEntry(h, o) /\ IsKind(o) /\ FileKept(h.mem, h0.mem, o)
    BY <1>1, <1>2, SettledFiles DEF WellFormed, Settled
  <2>2. Stored(o).kind = o.kind /\ Stored(o).page = o.page /\ Stored(o).pages = o.pages
    BY <2>1, StoredFields
  <2>3. \A i : ReadPage(h0.mem, Stored(o), i) = ReadPage(h.mem, Stored(o), i)
    BY <2>1, <2>2, KeptFile, SameReading
  <2>. QED  BY <2>3 DEF ReadFile
<1>4. h0.objects = h.objects /\ h0.users = h.users
  BY <1>1 DEF SameButMem
<1>. QED  BY <1>3, <1>4 DEF Visible

\* and a reload of it brings that back, in a sound volume.
LEMMA DiskReloads ==
  ASSUME NEW h, Sound(h), NEW d, Follows(d, h), ~ReloadLoses(h), NEW v, v = Load(d)
  PROVE  /\ Sound(v) /\ Visible(v) = Visible(h)
         /\ v.mem = d /\ v.used = d[BitPage].items
<1>. DEFINE h0 == WithPages(h, d)
<1>1. Sound(h0) /\ h0.mem = d
  BY DiskSound
<1>2. ~ReloadLoses(h0)
  BY DiskLoses
<1>3. Visible(h0) = Visible(h)
  BY DiskVisible
<1>. HIDE DEF h0
<1>4. ~PagelessUser(h0) /\ ~SkippedGroup(h0)
  BY <1>2 DEF ReloadLoses
<1>5. v = Load(h0.mem)
  BY <1>1
<1>6. Sound(v)
  BY <1>1, <1>2, <1>5, ReloadSound
<1>7. Visible(v) = Visible(h)
  BY <1>1, <1>3, <1>4, <1>5, ReloadVisible
<1>8. v.mem = h0.mem /\ v.used = h0.mem[BitPage].items
  BY <1>1, <1>4, <1>5, ReloadParts
<1>. QED  BY <1>1, <1>6, <1>7, <1>8

\* Part of what a call changed has been stored.
Lag(d, h2, S) == [p \in Pages |-> IF p \in S THEN h2.mem[p] ELSE d[p]]

\* A call that writes none of the pages referred to but user pages, and moves no entry.
Calm(h, h2) ==
  /\ h2.root = h.root /\ h2.objects = h.objects
  /\ \A p \in Referenced(h) \ UserPages(h) : h2.mem[p] = h.mem[p]

\* The same pages are referred to.
LEMMA CalmRefers ==
  ASSUME NEW h, Sound(h), NEW h2, Sound(h2), Calm(h, h2)
  PROVE  /\ Referenced(h2) = Referenced(h) /\ UserPages(h2) = UserPages(h)
         /\ \A i \in Indexes : Ptr(h2, UserIndex, i) = Ptr(h, UserIndex, i)
<1>1. WellFormed(h)
  BY DEF Sound, Apart
<1>2. \A p \in IndexPages(h) \union FilePages(h) \union RootPages : h2.mem[p] = h.mem[p]
  BY OtherPages DEF Calm
<1>3. SamePtrs(h.mem, h2.mem, IndexPages(h)) /\ FilesKept(h, h2)
  BY <1>2 DEF SamePtrs, FilesKept
<1>4. DirPages(h2) = DirPages(h) /\ UserPages(h2) = UserPages(h)
      /\ \A i \in Indexes : Ptr(h2, UserIndex, i) = Ptr(h, UserIndex, i)
  <2>1. UserIndex \in IndexPages(h)
    BY DEF IndexPages
  <2>. QED  BY <1>3, <2>1, SameIndex DEF UserPages, Calm
<1>5. FilePages(h2) = FilePages(h)
  <2>1. \A o \in h.objects : IsKind(o) /\ FileKept(h.mem, h2.mem, o)
    BY <1>1, <1>3 DEF WellFormed, IsEntry, IsKind, FileKept, FilesKept, FilePages
  <2>2. \A o \in h.objects : PagesOf(h2.mem, o) = PagesOf(h.mem, o)
    BY <2>1, KeptFile
  <2>. QED  BY <2>2 DEF FilePages, Calm
<1>. QED  BY <1>4, <1>5, OtherPages

\* The disk goes on following when no charge changes.
LEMMA LagFollows ==
  ASSUME NEW h, Sound(h), NEW h2, Sound(h2), NEW d, Follows(d, h), NEW S,
         Calm(h, h2), UsersLike(h, h2, {})
  PROVE  Follows(Lag(d, h2, S), h2)
<1>. DEFINE d2 == Lag(d, h2, S)
            h3 == WithPages(h2, d2)
            h0 == WithPages(h, d)
<1>1. DOMAIN h = VolumeFields /\ DOMAIN h2 = VolumeFields /\ IsMem(h2.mem) /\ WellFormed(h)
  BY DEF Sound, Apart, WellFormed
<1>2. SameButMem(h2, h3) /\ h3.mem = d2 /\ SameButMem(h, h0) /\ h0.mem = d
  BY <1>1, PagesExchanged
<1>3. IsMem(d) /\ (\A p \in Referenced(h) \ UserPages(h) : d[p] = h.mem[p])
      /\ \A i \in Indexes : UserPageOK(h0, i)
  BY DEF Follows
<1>4. \A p \in Pages : d2[p] = IF p \in S THEN h2.mem[p] ELSE d[p]
  BY DEF Lag
<1>5. IsMem(d2)
  <2>1. DOMAIN d2 = Pages
    BY DEF Lag
  <2>. HIDE DEF d2
  <2>. QED  BY <1>1, <1>3, <1>4, <2>1 DEF IsMem
<1>. HIDE DEF d2, h3, h0
<1>6. /\ Referenced(h2) = Referenced(h) /\ UserPages(h2) = UserPages(h) /\ Referenced(h) \subseteq Pages
      /\ \A i \in Indexes : Ptr(h2, UserIndex, i) = Ptr(h, UserIndex, i)
  BY CalmRefers, OtherPages
<1>7. \A p \in Referenced(h2) \ UserPages(h2) : d2[p] = h2.mem[p]
  BY <1>3, <1>4, <1>6 DEF Calm
<1>8. ASSUME NEW i \in Indexes
      PROVE  UserPageOK(h3, i)
  <2>. DEFINE p == Ptr(h, UserIndex, i)
  <2>1. UserIndex \in Referenced(h) \ UserPages(h) /\ UserIndex \in Pages
    BY OtherPages, Layout DEF RootPages
  <2>2. Ptr(h3, UserIndex, i) = p /\ Ptr(h0, UserIndex, i) = p /\ Ptr(h2, UserIndex, i) = p
    BY <1>2, <1>3, <1>6, <1>7, <2>1 DEF Ptr
  <2>3. UserPageOK(h0, i) /\ UserPageOK(h2, i)
    BY <1>3 DEF Sound, MirroredBut
  <2>4. p # Null => p \in Pages
    <3>1. Apart(h)
      BY DEF Sound
    <3>. QED  BY <3>1, UserPage
  <2>. HIDE DEF p
  <2>5. CASE p = Null
    BY <2>2, <2>5 DEF UserPageOK
  <2>6. CASE p # Null /\ p \in S
    <3>1. h3.mem[p] = h2.mem[p] /\ h3.users = h2.users
      BY <1>2, <1>4, <2>4, <2>6 DEF SameButMem
    <3>. QED  BY <2>2, <2>3, <3>1 DEF UserPageOK, IsRecord
  <2>7. CASE p # Null /\ p \notin S
    <3>1. h3.mem[p] = h0.mem[p] /\ h3.users = h2.users /\ h0.users = h.users
      BY <1>2, <1>4, <2>4, <2>7 DEF SameButMem
    <3>2. DOMAIN h2.users = DOMAIN h.users /\ \A v \in DOMAIN h.users : h2.users[v].used = h.users[v].used
      BY DEF UsersLike
    <3>. QED  BY <2>2, <2>3, <3>1, <3>2 DEF UserPageOK, IsRecord
  <2>. QED  BY <2>5, <2>6, <2>7
<1>. QED  BY <1>5, <1>7, <1>8 DEF Follows, h3, d2

-----------------------------------------------------------------------------
(***************************************************************************)
(* What a refused call leaves in memory.                                   *)
(***************************************************************************)
\* Allocation for the directory leaves the stored bit file alone, and if the directory then has
\* no page that was free before, nothing in use was written.
Quietly(h, h2) ==
  /\ h2.mem[BitPage] = h.mem[BitPage]
  /\ DirPages(h2) \subseteq h.used => h2.root = h.root /\ \A p \in h.used : h2.mem[p] = h.mem[p]

LEMMA QuietTwice ==
  ASSUME NEW h, NEW h2, NEW h3, Grown(h, h2), Quietly(h, h2), Grown(h2, h3), Quietly(h2, h3)
  PROVE  Quietly(h, h3)
<1>1. h.used \subseteq h2.used /\ DirPages(h2) \subseteq DirPages(h3)
  BY DEF Grown
<1>. QED  BY <1>1 DEF Quietly

\* A pointer of an index page, given a page when it had none,
LEMMA LinkedQuiet ==
  ASSUME NEW h, Sound(h), NEW index \in IndexPages(h), index # UserIndex, NEW i \in Indexes,
         NEW r, r = LinkedAt(h, index, i)
  PROVE  Quietly(h, r.h)
<1>1. Apart(h) /\ MirroredBut(h, {}, {}) /\ DOMAIN h = VolumeFields /\ IsMem(h.mem)
      /\ DOMAIN h.mem = Pages /\ h.used \subseteq Pages
  BY DEF Sound, Apart, WellFormed, IsMem
<1>2. CASE Ptr(h, index, i) # Null
  <2>1. r.h = h
    BY <1>2 DEF LinkedAt
  <2>. QED  BY <2>1 DEF Quietly
<1>3. CASE Ptr(h, index, i) = Null /\ Take(h).page = Null
  <2>1. r.h = h
    BY <1>1, <1>3, Taken DEF LinkedAt
  <2>. QED  BY <2>1 DEF Quietly
<1>4. CASE Ptr(h, index, i) = Null /\ Take(h).page # Null
  <2>. DEFINE t == Take(h)
              p == t.page
              h1 == t.h
              h2 == SetPtr(h1, index, i, p)
  <2>1. /\ p \in Window \ h.used /\ p \in Pages /\ p # Null
        /\ DOMAIN h1 = VolumeFields /\ DOMAIN h1.mem = Pages /\ h1.mem[p] = Blank
        /\ \A q \in Pages : q # p => h1.mem[q] = h.mem[q]
    BY <1>1, <1>4, Taken
  <2>2. r.h = h2 /\ r.page = p
    <3>1. r = [t EXCEPT !.h = h2]
      BY <1>4 DEF LinkedAt
    <3>2. t = [h |-> h1, page |-> p]
      BY DEF Take, Failed
    <3>. HIDE DEF h1, h2, t, p
    <3>. QED  BY <3>1, <3>2
  <2>. HIDE DEF t, p, h1
  <2>3. index \in Pages /\ index # BitPage /\ BitPage \in Pages
    BY <1>1, InUse, FixedLeaf
  <2>4. IsMem(h1.mem)
    BY <1>1, <2>1, PageContent DEF IsMem
  <2>5. h2.mem[BitPage] = h1.mem[BitPage]
    <3>. HIDE DEF h2
    <3>1. h2 = SetPtr(h1, index, i, p)
      BY DEF h2
    <3>. QED  BY <2>1, <2>3, <2>4, <3>1, PointerSet
  <2>6. p \in DirPages(r.h)
    <3>1. IndexPages(h) \subseteq IndexPages(r.h) /\ (r.page # Null => Ptr(r.h, index, i) = r.page)
      BY <1>1, LinkedKeeps
    <3>. QED  BY <2>1, <2>2, <3>1 DEF DirPages
  <2>7. BitPage # p
    BY <1>1, <2>1, InUse DEF RootPages
  <2>. QED  BY <2>1, <2>2, <2>3, <2>5, <2>6, <2>7 DEF Quietly
<1>. QED  BY <1>2, <1>3, <1>4

\* the one-time conversion,
LEMMA WrappedQuiet ==
  ASSUME NEW h, Sound(h), ~h.root.sub, NEW r, r = Wrapped(h)
  PROVE  Quietly(h, r.h)
<1>1. Apart(h) /\ MirroredBut(h, {}, {}) /\ DOMAIN h = VolumeFields /\ IsMem(h.mem)
      /\ DOMAIN h.mem = Pages /\ h.used \subseteq Pages
  BY DEF Sound, Apart, WellFormed, IsMem
<1>2. CASE Take(h).page = Null
  <2>1. r.h = h
    BY <1>1, <1>2, Taken DEF Wrapped
  <2>. QED  BY <2>1 DEF Quietly
<1>3. CASE Take(h).page # Null
  <2>. DEFINE t == Take(h)
              p == t.page
              h1 == t.h
              h2 == SetPtr(h1, p, 0, h.root.page)
              h3 == [h2 EXCEPT !.root = [sub |-> TRUE, page |-> p]]
              h4 == PersistMaster(h3)
  <2>1. /\ p \in Window \ h.used /\ p \in Pages /\ p # Null
        /\ DOMAIN h1 = VolumeFields /\ DOMAIN h1.mem = Pages /\ h1.mem[p] = Blank
        /\ \A q \in Pages : q # p => h1.mem[q] = h.mem[q]
    BY <1>1, <1>3, Taken
  <2>2. r.h = h4 /\ r.page = p
    <3>1. r = [t EXCEPT !.h = h4]
      BY <1>3 DEF Wrapped
    <3>2. t = [h |-> h1, page |-> p]
      BY DEF Take, Failed
    <3>. HIDE DEF h1, h2, h3, h4, t, p
    <3>. QED  BY <3>1, <3>2
  <2>. HIDE DEF t, p, h1
  <2>3. IsMem(h1.mem)
    BY <1>1, <2>1, PageContent DEF IsMem
  <2>4. BitPage \in Pages /\ BitPage # p /\ BitPage # MasterPage /\ MasterPage \in Pages
        /\ h.root.page \in Pages /\ 0 \in Indexes
    BY <1>1, <2>1, InUse, Layout DEF RootPages, Apart, DirectoryApart
  <2>5. h2.mem[BitPage] = h1.mem[BitPage] /\ DOMAIN h2 = VolumeFields /\ IsMem(h2.mem)
    <3>. HIDE DEF h2
    <3>1. h2 = SetPtr(h1, p, 0, h.root.page)
      BY DEF h2
    <3>2. /\ SameButMem(h1, h2) /\ IsMem(h2.mem)
          /\ \A q \in Pages : q # p => h2.mem[q] = h1.mem[q]
      BY <2>1, <2>3, <2>4, <3>1, PointerSet
    <3>. QED  BY <2>4, <3>2 DEF SameButMem
  <2>. HIDE DEF h2
  <2>6. h3.mem = h2.mem /\ DOMAIN h3 = VolumeFields
    BY <2>5 DEF VolumeFields
  <2>. HIDE DEF h3
  <2>7. h4.mem[BitPage] = h3.mem[BitPage]
    <3>1. h4 = Assigned(h3, MasterPage, Holding({MasterRecord(h3)}))
      BY DEF PersistMaster, Assigned
    <3>. HIDE DEF h4
    <3>. QED  BY <2>4, <2>5, <2>6, <3>1, PageAssigned DEF IsMem
  <2>. HIDE DEF h4
  <2>8. p \in DirPages(r.h)
    BY <1>1, <2>1, <2>2, WrappedKeeps DEF DirPages
  <2>. QED  BY <2>1, <2>2, <2>4, <2>5, <2>6, <2>7, <2>8 DEF Quietly
<1>. QED  BY <1>2, <1>3

\* and so ensure_object_dir_page.
LEMMA EnsureDirQuiet ==
  ASSUME NEW h, Sound(h), NEW s \in Slots, NEW r, r = EnsureDir(h, s)
  PROVE  Grown(h, r.h) /\ Quietly(h, r.h)
<1>. DEFINE g == GroupOf(s)
            i == Inner(s)
            root  == IF ~h.root.sub /\ GroupOf(s) > 0 THEN Wrapped(h) ELSE [h |-> h, page |-> h.root.page]
            group == IF root.page = Null \/ ~root.h.root.sub THEN root ELSE LinkedAt(root.h, root.page, g)
<1>0. g \in Indexes /\ i \in Indexes
  BY SlotParts
<1>1. r = IF group.page = Null THEN group ELSE LinkedAt(group.h, group.page, i)
  BY DEF EnsureDir
<1>2. Apart(h) /\ MirroredBut(h, {}, {}) /\ DOMAIN h = VolumeFields
  BY DEF Sound, Apart, WellFormed
<1>3. \A k : Sound(k) => /\ UserIndex \notin GroupPages(k) /\ UserIndex # k.root.page
                         /\ k.root.page \in IndexPages(k)
  <2>. SUFFICES ASSUME NEW k, Sound(k)
                PROVE  /\ UserIndex \notin GroupPages(k) /\ UserIndex # k.root.page
                       /\ k.root.page \in IndexPages(k)
    OBVIOUS
  <2>1. GroupPages(k) \subseteq DirPages(k) /\ k.root.page \in DirPages(k) /\ k.root.page \in IndexPages(k)
    BY DEF GroupPages, DirPages, IndexPages
  <2>2. DirPages(k) \intersect RootPages = {} /\ UserIndex \in RootPages
    BY DEF Sound, Apart, DirectoryApart, RootPages
  <2>. QED  BY <2>1, <2>2
<1>4. /\ Sound(root.h) /\ Grown(h, root.h) /\ Quietly(h, root.h)
      /\ root.page # Null => root.h.root.page = root.page
  <2>1. CASE ~h.root.sub /\ g > 0
    <3>1. root = Wrapped(h)
      BY <2>1
    <3>. HIDE DEF root
    <3>2. Quietly(h, root.h)
      BY <2>1, <3>1, WrappedQuiet
    <3>. QED  BY <1>2, <2>1, <3>1, <3>2, WrappedKeeps DEF Sound
  <2>2. CASE ~(~h.root.sub /\ g > 0)
    <3>1. root.h = h /\ root.page = h.root.page
      BY <2>2
    <3>. QED  BY <1>2, <3>1 DEF Grown, Quietly, SameRecords, LinksKept
  <2>. QED  BY <2>1, <2>2
<1>. HIDE DEF root
<1>5. /\ Sound(group.h) /\ Grown(h, group.h) /\ Quietly(h, group.h)
      /\ group.page # Null => group.page \in GroupPages(group.h)
  <2>1. CASE root.page = Null \/ ~root.h.root.sub
    <3>1. group = root
      BY <2>1
    <3>. HIDE DEF group
    <3>. QED  BY <1>4, <2>1, <3>1 DEF GroupPages
  <2>2. CASE root.page # Null /\ root.h.root.sub
    <3>1. group = LinkedAt(root.h, root.page, g)
      BY <2>2
    <3>. HIDE DEF group
    <3>2. root.page \in IndexPages(root.h) /\ root.page # UserIndex
      BY <1>3, <1>4, <2>2
    <3>3. Apart(root.h) /\ MirroredBut(root.h, {}, {})
      BY <1>4 DEF Sound
    <3>4. /\ Apart(group.h) /\ MirroredBut(group.h, {}, {}) /\ Grown(root.h, group.h)
          /\ group.h.root = root.h.root
          /\ group.page # Null => Ptr(group.h, root.page, g) = group.page
      BY <1>0, <3>1, <3>2, <3>3, LinkedKeeps
    <3>5. Quietly(root.h, group.h)
      BY <1>0, <1>4, <3>1, <3>2, LinkedQuiet
    <3>6. Grown(h, group.h) /\ Quietly(h, group.h)
      BY <1>2, <1>4, <3>4, <3>5, GrownTwice, QuietTwice
    <3>. QED  BY <1>0, <1>4, <2>2, <3>4, <3>6 DEF GroupPages, Sound
  <2>. QED  BY <2>1, <2>2
<1>. HIDE DEF group
<1>6. CASE group.page = Null
  BY <1>1, <1>5, <1>6
<1>7. CASE group.page # Null
  <2>1. r = LinkedAt(group.h, group.page, i)
    BY <1>1, <1>7
  <2>2. group.page \in IndexPages(group.h) /\ group.page # UserIndex
    BY <1>3, <1>5, <1>7 DEF IndexPages
  <2>3. Apart(group.h) /\ MirroredBut(group.h, {}, {})
    BY <1>5 DEF Sound
  <2>4. Grown(group.h, r.h)
    BY <1>0, <2>1, <2>2, <2>3, LinkedKeeps
  <2>5. Quietly(group.h, r.h)
    BY <1>0, <1>5, <2>1, <2>2, LinkedQuiet
  <2>. QED  BY <1>2, <1>5, <2>4, <2>5, GrownTwice, QuietTwice
<1>. QED  BY <1>6, <1>7

\* A call refused before it has built anything, or because the tree did not fit, has left the
\* files and the charges, and only the directory may have grown.
Lingers(h, h2) ==
  /\ Sound(h2) /\ h2.objects = h.objects /\ UsersLike(h, h2, {})
  /\ h.used \subseteq h2.used /\ h2.used \subseteq h.used \union Window /\ Quietly(h, h2)
  /\ FilesKept(h, h2) /\ SameRecords(h, h2) /\ LinksKept(h, h2)

LEMMA RefusedLingers ==
  ASSUME Sound(fs), NEW u \in Users, NEW extra, NEW h2,
         \/ h2 = fs \/ h2 = Reserving(u, extra)
         \/ FreeSlot(u) # NoSlot /\ h2 = WithDir(u, extra).h
  PROVE  Lingers(fs, h2)
<1>1. WellFormed(fs)
  BY DEF Sound, Apart
<1>2. CASE h2 = fs
  BY <1>1, <1>2 DEF Lingers, UsersLike, Quietly, WellFormed, FilesKept, SameRecords, LinksKept
<1>3. CASE h2 = Reserving(u, extra)
  <2>1. EditedUsers(fs, h2) /\ UsersLike(fs, h2, {})
    BY <1>1, <1>3, ReservingEdits
  <2>2. Sound(h2)
    BY <2>1, UsersEdited DEF Sound
  <2>3. FilesKept(fs, h2) /\ SameRecords(fs, h2) /\ LinksKept(fs, h2)
    BY <2>1 DEF EditedUsers, FilesKept, SameRecords, RecordsOn, LinksKept, IndexPages, GroupPages, Ptr
  <2>. QED  BY <2>1, <2>2, <2>3 DEF Lingers, Quietly, EditedUsers
<1>4. CASE FreeSlot(u) # NoSlot /\ h2 = WithDir(u, extra).h
  <2>. DEFINE h == WithSlot(u, extra)
              s == FreeSlot(u)
  <2>1. EditedUsers(fs, h) /\ UsersLike(fs, h, {})
    BY <1>1, <1>4, WithSlotEdits
  <2>2. Prepared(fs, h2) /\ s \in Slots
    BY <1>4, WithDirKeeps
  <2>3. h2 = EnsureDir(h, s).h
    BY <1>4 DEF WithDir
  <2>. HIDE DEF h, s
  <2>4. Sound(h)
    BY <2>1, UsersEdited DEF Sound
  <2>5. Quietly(h, h2)
    BY <2>2, <2>3, <2>4, EnsureDirQuiet
  <2>6. Quietly(fs, h2)
    BY <2>1, <2>5 DEF Quietly, EditedUsers
  <2>. QED  BY <2>2, <2>6 DEF Lingers, Prepared, FilesKept
<1>. QED  BY <1>2, <1>3, <1>4

LEMMA ExtendedLingers ==
  ASSUME NEW h, Sound(h), NEW d, Lingers(h, d), NEW T, NEW g, Extended(d, g, T)
  PROVE  Lingers(h, g)
<1>1. Sound(d) /\ Sound(g)
  BY ExtendedSound DEF Lingers
<1>2. d.used \subseteq Pages /\ T \intersect d.used = {} /\ T \subseteq Window
  BY <1>1 DEF Sound, Apart, WellFormed, Extended, FreePages
<1>3. SamePtrs(d.mem, g.mem, IndexPages(d)) /\ BitPage \in d.used
  BY <1>1, <1>2, InUse DEF Sound, Extended, SamePtrs, RootPages
<1>4. DirPages(g) = DirPages(d)
  BY <1>3, SameIndex DEF Extended
<1>5. UsersLike(h, g, {}) /\ g.objects = h.objects /\ h.used \subseteq g.used
  BY DEF Lingers, Extended, UsersLike
<1>6. Quietly(h, g)
  BY <1>2, <1>3, <1>4 DEF Lingers, Extended, Quietly
<1>7. g.used \subseteq h.used \union Window
  BY <1>2 DEF Lingers, Extended
<1>8. \A p \in FilePages(h) \union IndexPages(d) \union DirPages(d) \union RootPages : g.mem[p] = d.mem[p]
  <2>1. FilePages(h) \subseteq h.used /\ h.used \subseteq d.used
    BY InUse DEF Sound, Lingers
  <2>2. IndexPages(d) \union DirPages(d) \union RootPages \subseteq d.used
    BY <1>1, InUse DEF Sound
  <2>. QED  BY <1>2, <2>1, <2>2 DEF Extended
<1>9. FilesKept(h, g)
  BY <1>8 DEF Lingers, FilesKept
<1>10. IndexPages(g) = IndexPages(d) /\ \A a \in IndexPages(d), i \in Indexes : Ptr(g, a, i) = Ptr(d, a, i)
  BY <1>3, SameIndex DEF Extended
<1>11. LinksKept(h, g)
  BY <1>10 DEF Lingers, LinksKept
<1>12. SameRecords(h, g)
  <2>1. SamePtrs(d.mem, g.mem, {UserIndex})
    BY <1>8 DEF SamePtrs, RootPages
  <2>2. \A i \in Indexes : LET p == Ptr(d, UserIndex, i) IN p # Null => g.mem[p].items = d.mem[p].items
    BY <1>1, <1>8, UserPage DEF Sound
  <2>3. SameRecords(d, g)
    BY <2>1, <2>2, RecordsKept
  <2>. QED  BY <2>3 DEF Lingers, SameRecords
<1>. QED  BY <1>1, <1>5, <1>6, <1>7, <1>9, <1>11, <1>12 DEF Lingers

\* The disk follows what such a call leaves if it followed before: as long as the stored bit
\* file covers what the directory refers to now, the directory refers to nothing new.
LEMMA LingersFollows ==
  ASSUME NEW h, Sound(h), h.mem[BitPage].items \subseteq h.used, NEW h2, Lingers(h, h2),
         ~BitsBehind(h2), NEW d, ~BitsBehind(h) => Follows(d, h), NEW S
  PROVE  Follows(Lag(d, h2, S), h2)
<1>1. Sound(h2) /\ h2.objects = h.objects /\ UsersLike(h, h2, {}) /\ Quietly(h, h2)
  BY DEF Lingers
<1>2. Referenced(h2) \subseteq h.mem[BitPage].items
  BY <1>1 DEF BitsBehind, Quietly
<1>3. DirPages(h2) \subseteq h.used
  BY <1>1, <1>2, OtherPages
<1>4. h2.root = h.root /\ \A p \in h.used : h2.mem[p] = h.mem[p]
  BY <1>1, <1>3 DEF Quietly
<1>5. Calm(h, h2)
  BY <1>1, <1>4, OtherPages DEF Calm
<1>6. ~BitsBehind(h)
  BY <1>1, <1>2, <1>5, CalmRefers DEF BitsBehind
<1>. QED  BY <1>1, <1>5, <1>6, LagFollows

\* The calls that fail and change no file are such.
LEMMA DecliningLingers ==
  ASSUME NEW who, NEW name, Sound(fs), Declining(who, name)
  PROVE  Lingers(fs, fs')
<1>1. CASE \E len, holes : \/ CreateRefused(who, name, len, holes) \/ UpdateRefused(who, name, len, holes)
                           \/ ContiguousRefused(who, name, len)
  <2>1. PICK len, holes : \/ CreateRefused(who, name, len, holes) \/ UpdateRefused(who, name, len, holes)
                          \/ ContiguousRefused(who, name, len)
    BY <1>1
  <2>2. \E u \in Users : \E extra :
          \/ fs' = fs \/ fs' = Reserving(u, extra)
          \/ FreeSlot(u) # NoSlot /\ fs' = WithDir(u, extra).h
    BY <2>1, RefusalLeaves
  <2>. QED  BY <2>2, RefusedLingers
<1>2. ASSUME NEW len \in Nat, NEW holes, NEW v, CreateNoSpace(who, name, len, holes, v)
      PROVE  Lingers(fs, fs')
  <2>. DEFINE n == AtLeastOne(len)
              x == Real(n, holes)
  <2>1. PICK u \in Payers(who) :
          LET b == Build(WithDir(u, x).h, n, holes, Written(len, v)) IN
          n <= MaxFilePages /\ HasEntry(u, x) /\ fs' = b.h
    BY <1>2 DEF CreateNoSpace, Refused
  <2>. DEFINE d == WithDir(u, x).h
              b == Build(d, n, holes, Written(len, v))
  <2>2. n \in Nat \ {0}
    BY Counts
  <2>3. n <= MaxFilePages /\ HasEntry(u, x) /\ fs' = b.h
    BY <2>1
  <2>4. u \in Users
    BY PayersAreUsers
  <2>. HIDE DEF n, x, b
  <2>5. Lingers(fs, d)
    BY <2>3, <2>4, RefusedLingers DEF HasEntry
  <2>. HIDE DEF d
  <2>6. DOMAIN d = VolumeFields /\ IsMem(d.mem)
    BY <2>5 DEF Lingers, Sound, Apart, WellFormed
  <2>7. PICK T : Extended(d, b.h, T)
    BY <2>2, <2>3, <2>6, BuildShape DEF b, Built
  <2>. QED  BY <2>3, <2>5, <2>7, ExtendedLingers
<1>. QED  BY <1>1, <1>2 DEF Declining

-----------------------------------------------------------------------------
(***************************************************************************)
(* The stored bit file.                                                    *)
(***************************************************************************)
\* write_user_page changes a user page only,
LEMMA UserPageOnly ==
  ASSUME NEW h, Apart(h), NEW u \in UserIds, NEW h2, h2 = WriteUserPage(h, u)
  PROVE  h2.used = h.used /\ \A q \in Pages \ UserPages(h) : h2.mem[q] = h.mem[q]
<1>. DEFINE i == u \div EntriesPerPage
            p == Ptr(h, UserIndex, i)
            S == {UserRecord(h, v) : v \in {v \in DOMAIN h.users : v \div EntriesPerPage = u \div EntriesPerPage}}
<1>1. i \in Indexes
  BY UserPart
<1>2. h2 = IF p = Null THEN h ELSE Put(h, p, S)
  BY DEF WriteUserPage, Put
<1>. HIDE DEF i, S
<1>3. CASE p # Null
  <2>1. p \in Pages \ (IndexPages(h) \union FilePages(h)) /\ p \in UserPages(h)
    BY <1>1, <1>3, UserPage DEF UserPages
  <2>. HIDE DEF p
  <2>2. h2 = Put(h, p, S)
    BY <1>2, <1>3
  <2>3. SameButMem(h, h2) /\ \A q \in Pages : q # p => h2.mem[q] = h.mem[q]
    BY <2>1, <2>2, LeafWritten
  <2>. QED  BY <2>1, <2>3 DEF SameButMem
<1>. QED  BY <1>2, <1>3

\* write_object_page no fixed page,
LEMMA ObjectPageOnly ==
  ASSUME NEW h, Apart(h), NEW s \in Slots, NEW h2, h2 = WriteObjectPage(h, s)
  PROVE  h2.used = h.used /\ \A q \in RootPages : h2.mem[q] = h.mem[q]
<1>. DEFINE p == DirPage(h, s)
            S == {OnDisk(o) : o \in {o \in h.objects : PageOf(o.slot) = PageOf(s)}}
<1>1. GroupOf(s) \in Indexes /\ Inner(s) \in Indexes
  BY SlotParts
<1>2. p = DirAt(h, GroupOf(s), Inner(s))
  BY DEF DirPage, DirAt
<1>3. h2 = IF p = Null THEN h ELSE Put(h, p, S)
  BY DEF WriteObjectPage, Put
<1>. HIDE DEF p, S
<1>4. CASE p # Null
  <2>1. p \in Pages \ (IndexPages(h) \union RootPages \union FilePages(h))
    BY <1>1, <1>2, <1>4, EntryPage
  <2>2. h2 = Put(h, p, S)
    BY <1>3, <1>4
  <2>3. SameButMem(h, h2) /\ \A q \in Pages : q # p => h2.mem[q] = h.mem[q]
    BY <2>1, <2>2, LeafWritten
  <2>. QED  BY <2>1, <2>3, Layout DEF SameButMem
<1>. QED  BY <1>3, <1>4

\* and write_bit_file puts the marks there are on the bit file's page.
LEMMA BitFileStored ==
  ASSUME NEW h, Apart(h), NEW h2, h2 = WriteBitFile(h)
  PROVE  Bits(h2)
<1>. DEFINE a == Put(h, BitPage, h.used)
            b == Put(a, MasterPage, {MasterRecord(a)})
<1>1. h2 = b
  BY DEF WriteBitFile, PersistMaster, Put
<1>2. SameButMem(h, a) /\ a.mem[BitPage].items = h.used /\ Apart(a)
  BY FixedLeaf, LeafWritten
<1>. HIDE DEF a
<1>3. BitPage \in Pages /\ BitPage # MasterPage
  BY Layout
<1>4. SameButMem(a, b) /\ b.mem[BitPage] = a.mem[BitPage]
  <2>1. SameButMem(a, b) /\ \A q \in Pages : q # MasterPage => b.mem[q] = a.mem[q]
    BY <1>2, FixedLeaf, LeafWritten
  <2>. QED  BY <1>3, <2>1
<1>. QED  BY <1>1, <1>2, <1>4 DEF Bits, SameButMem

\* So does every mutation that stores all its metadata.
LEMMA SavedBits ==
  ASSUME NEW h, Apart(h), NEW s \in Slots, NEW u \in UserIds,
         MirroredBut(h, {Pos(s)}, {u \div EntriesPerPage}), NEW h2, h2 = Saved(h, s, u)
  PROVE  Bits(h2)
<1>. DEFINE a == WriteObjectPage(h, s)
            b == WriteUserPage(a, u)
<1>1. Apart(a) /\ MirroredBut(a, {}, {u \div EntriesPerPage})
  BY ObjectPageWritten
<1>. HIDE DEF a
<1>2. Apart(b)
  BY <1>1, UserPageWritten
<1>. QED  BY <1>2, BitFileStored DEF Saved, a

\* A file changed in its place keeps its pages.
LEMMA InPlaceBits ==
  ASSUME Sound(fs), Bits(fs), NEW o, NEW new, NEW g, Revision(fs, g, o, new, PagesOf(fs.mem, o), {}),
         NEW h2, h2 = WriteObjectPage(g, o.slot)
  PROVE  Bits(h2)
<1>. DEFINE T == PagesOf(fs.mem, o)
<1>1. Apart(g) /\ o.slot \in Slots /\ o \in fs.objects
  BY RevisionSwaps
<1>2. g.used = (fs.used \ T) \union T /\ \A q \in Pages \ T : g.mem[q] = fs.mem[q]
  BY DEF Revision, Swapped
<1>3. Apart(fs) /\ T \subseteq FilePages(fs)
  BY <1>1 DEF Sound, FilePages
<1>4. BitPage \in Pages \ T /\ BitPage \in RootPages
  BY <1>3, FixedLeaf DEF RootPages
<1>5. h2.used = g.used /\ h2.mem[BitPage] = g.mem[BitPage]
  BY <1>1, <1>4, ObjectPageOnly
<1>6. h2.used = fs.used
  BY <1>2, <1>3, <1>5, InUse
<1>. QED  BY <1>2, <1>4, <1>5, <1>6 DEF Bits

\* Calls that succeed leave the stored bit file without a page that is free in memory,
LEMMA SucceedingBits ==
  ASSUME NEW who, NEW name, Sound(fs), Bits(fs), Succeeding(who, name)
  PROVE  Bits(fs')
<1>1. ASSUME NEW u, NEW o, NEW T, NEW d, NEW g, Creation(fs, fs', u, o, T, d, g)
      PROVE  Bits(fs')
  <2>. DEFINE a == Added(g, u, o)
  <2>1. /\ Sound(d) /\ Extended(d, g, T) /\ EntryShape(d, o) /\ ~SlotInUse(d.objects, o.slot)
        /\ Occupies(g.mem, o, T) /\ o.user = u
    BY <1>1 DEF Creation, Prepared
  <2>2. Apart(a) /\ MirroredBut(a, {Pos(o.slot)}, {u \div EntriesPerPage}) /\ o.slot \in Slots /\ u \in UserIds
    BY <2>1, AddedSound
  <2>3. fs' = Saved(a, o.slot, u)
    BY <1>1 DEF Creation, Entered, Added
  <2>. HIDE DEF a
  <2>. QED  BY <2>2, <2>3, SavedBits
<1>2. CASE Creating(who, name) \/ Running(who, name)
  BY <1>1, <1>2 DEF Creating, Running, CreationOf, RunOf
<1>3. CASE Updating(who, name)
  <2>1. PICK len \in Nat : \E holes, v, u, o, new, T, g : UpdatingOf(who, name, len, holes, v, u, o, new, T, g)
    BY <1>3 DEF Updating
  <2>2. PICK holes, v, u, o, new, T, g : UpdatingOf(who, name, len, holes, v, u, o, new, T, g)
    BY <2>1
  <2>3. Revision(fs, g, o, new, T, {u \div EntriesPerPage}) /\ fs' = Saved(g, o.slot, u) /\ u \in Payers(who)
    BY <2>2 DEF UpdatingOf
  <2>4. u \in UserIds
    BY <2>3, PayersAreUsers DEF Sound, Apart, WellFormed, Users
  <2>5. Apart(g) /\ MirroredBut(g, {Pos(o.slot)}, {u \div EntriesPerPage}) /\ o.slot \in Slots
    BY <2>3, RevisionSwaps
  <2>. QED  BY <2>3, <2>4, <2>5, SavedBits
<1>4. CASE Rewriting(who, name)
  <2>1. PICK len \in Nat : \E v, o, new, T, g : RewritingOf(who, name, len, v, o, new, T, g)
    BY <1>4 DEF Rewriting
  <2>2. PICK v, o, new, T, g : RewritingOf(who, name, len, v, o, new, T, g)
    BY <2>1
  <2>3. /\ o \in fs.objects /\ Revision(fs, g, o, new, T, {}) /\ fs' = WriteObjectPage(g, o.slot)
        /\ new = [o EXCEPT !.size = len] /\ o.kind = "contiguous"
    BY <2>2, FoundIsEntry DEF RewritingOf
  <2>4. new.kind = o.kind /\ new.page = o.page /\ new.pages = o.pages /\ o.page \in Int /\ o.pages \in Nat
    <3>1. IsEntry(fs, o)
      BY <2>3 DEF Sound, Apart, WellFormed
    <3>. QED  BY <2>3, <3>1, Layout DEF IsEntry, EntryFields
  <2>5. T = o.page .. o.page + o.pages - 1 /\ PagesOf(fs.mem, o) = o.page .. o.page + o.pages - 1
    <3>1. PagesOf(g.mem, new) = T
      BY <2>3 DEF Revision, Occupies
    <3>2. /\ PagesOf(g.mem, new) = new.page .. new.page + new.pages - 1
          /\ PagesOf(fs.mem, o) = o.page .. o.page + o.pages - 1
      <4>1. new.kind = "contiguous" /\ new.page \in Int /\ new.pages \in Nat
        BY <2>3, <2>4
      <4>2. /\ Occupies(g.mem, new, new.page .. new.page + new.pages - 1)
            /\ Occupies(fs.mem, o, o.page .. o.page + o.pages - 1)
        BY <2>3, <2>4, <4>1, RunRefs
      <4>. QED  BY <4>2 DEF Occupies
    <3>. QED  BY <2>4, <3>1, <3>2
  <2>. QED  BY <2>3, <2>5, InPlaceBits
<1>5. CASE Renaming(who, name)
  <2>1. PICK to, o, new, T, g : RenamingOf(who, name, to, o, new, T, g)
    BY <1>5 DEF Renaming
  <2>2. /\ o \in fs.objects /\ Revision(fs, g, o, new, T, {}) /\ fs' = WriteObjectPage(g, o.slot)
        /\ new = [o EXCEPT !.name = to] /\ g.mem = fs.mem
    BY <2>1, FoundIsEntry DEF RenamingOf
  <2>3. new.kind = o.kind /\ new.page = o.page /\ new.pages = o.pages
    <3>1. IsEntry(fs, o)
      BY <2>2 DEF Sound, Apart, WellFormed
    <3>. QED  BY <2>2, <3>1 DEF IsEntry, EntryFields
  <2>4. T = PagesOf(fs.mem, o)
    <3>1. PagesOf(g.mem, new) = T
      BY <2>2 DEF Revision, Occupies
    <3>. QED  BY <2>2, <2>3, <3>1, SameWalk
  <2>. QED  BY <2>2, <2>4, InPlaceBits
<1>6. CASE Deleting(who, name)
  <2>1. PICK o, g : DeletionOf(who, name, o, g)
    BY <1>6 DEF Deleting
  <2>. QED  BY <2>1, SavedBits DEF DeletionOf
<1>. QED  BY <1>2, <1>3, <1>4, <1>5, <1>6 DEF Succeeding

\* and so does a patch.
LEMMA PatchingBits ==
  ASSUME NEW who, NEW name, Sound(fs), Bits(fs), Patching(who, name)
  PROVE  Bits(fs')
<1>1. PICK first \in Nat : \E last \in Nat : \E v, o, S : PatchingOf(who, name, first, last, v, o, S)
  BY DEF Patching
<1>2. PICK last \in Nat : \E v, o, S : PatchingOf(who, name, first, last, v, o, S)
  BY <1>1
<1>3. PICK v, o, S : PatchingOf(who, name, first, last, v, o, S)
  BY <1>2
<1>4. /\ o \in fs.objects /\ SameButMem(fs, fs')
      /\ \A p \in Pages : \/ fs'.mem[p] = fs.mem[p]
                          \/ \E i \in S : \E r \in RefsAt(fs.mem, o, i) : r[2] = p
  BY <1>3, FoundIsEntry DEF PatchingOf
<1>5. Apart(fs) /\ PagesOf(fs.mem, o) \subseteq FilePages(fs)
  BY <1>4 DEF Sound, FilePages
<1>6. \A i : \A r \in RefsAt(fs.mem, o, i) : r[2] \in PagesOf(fs.mem, o)
  BY DEF RefsAt, PagesOf
<1>7. BitPage \in Pages /\ BitPage \notin PagesOf(fs.mem, o)
  BY <1>5, FixedLeaf
<1>8. fs'.mem[BitPage] = fs.mem[BitPage]
  BY <1>4, <1>6, <1>7
<1>. QED  BY <1>4, <1>8 DEF Bits, SameButMem

-----------------------------------------------------------------------------
(***************************************************************************)
(* The steps.                                                              *)
(***************************************************************************)
\* A call on a file succeeds with the stored bit file in use, hurts the volume, stops in the
\* middle of a patch, or leaves next to nothing.
LEMMA FileCallLeaves ==
  ASSUME NEW who, NEW name, Sound(fs), Bits(fs), FileCall(who, name)
  PROVE  \/ hurt'
         \/ out' \in {"ok", "corrupt"} /\ Bits(fs')
         \/ Lingers(fs, fs') /\ Bits(fs')
<1>1. CASE QuietCall /\ Declining(who, name)
  <2>1. Lingers(fs, fs')
    BY <1>1, DecliningLingers
  <2>. QED  BY <2>1 DEF Lingers, Quietly, Bits
<1>2. CASE out' = "ok" /\ Succeeding(who, name)
  BY <1>2, SucceedingBits
<1>3. CASE out' \in {"ok", "corrupt"} /\ Patching(who, name)
  BY <1>3, PatchingBits
<1>. QED  BY <1>1, <1>2, <1>3, FileCallDoes

\* A record of a user is changed and his page written.
LEMMA EditLeaves ==
  ASSUME NEW h, Sound(h), Bits(h), NEW u \in UserIds, NEW g, EditedUsers(h, g), Apart(g), NEW h2,
         h2 = WriteUserPage(g, u)
  PROVE  Bits(h2) /\ \A p \in Pages \ UserPages(h) : h2.mem[p] = h.mem[p]
<1>1. UserPages(g) = UserPages(h)
  BY DEF UserPages, Ptr, EditedUsers
<1>2. h2.used = g.used /\ \A q \in Pages \ UserPages(g) : h2.mem[q] = g.mem[q]
  BY UserPageOnly
<1>3. BitPage \in Pages /\ BitPage \notin UserPages(h)
  BY OtherPages DEF RootPages
<1>. QED  BY <1>1, <1>2, <1>3 DEF EditedUsers, Bits

\* The blocks a user may have are changed.
LEMMA SetMaxLeaves ==
  ASSUME NEW u \in Users, NEW max, Sound(fs), Bits(fs), SetMax(u, max)
  PROVE  Bits(fs') /\ Sound(fs') /\ Calm(fs, fs') /\ UsersLike(fs, fs', {}) /\ hurt' = hurt /\ out' = "ok"
<1>. DEFINE g == [fs EXCEPT !.users[u].max = max]
<1>1. WellFormed(fs) /\ u \in UserIds /\ u \in DOMAIN fs.users
  BY DEF Sound, Apart, WellFormed, Users
<1>2. EditedUsers(fs, g) /\ UsersLike(fs, g, {})
  BY <1>1 DEF WellFormed, EditedUsers, UsersLike, VolumeFields, UserFields
<1>3. fs' = WriteUserPage(g, u)
  BY DEF SetMax
<1>. HIDE DEF g
<1>4. Apart(g) /\ MirroredBut(g, {}, {})
  BY <1>2, UsersEdited
<1>5. MirroredBut(g, {}, {u \div EntriesPerPage})
  BY <1>4 DEF MirroredBut
<1>6. SameButMem(g, fs')
  BY <1>1, <1>3, <1>4, <1>5, UserPageWritten
<1>7. Bits(fs') /\ \A p \in Pages \ UserPages(fs) : fs'.mem[p] = fs.mem[p]
  BY <1>1, <1>2, <1>3, <1>4, EditLeaves
<1>8. Calm(fs, fs')
  BY <1>2, <1>6, <1>7, OtherPages DEF Calm, EditedUsers, SameButMem
<1>9. UsersLike(fs, fs', {})
  BY <1>2, <1>6 DEF UsersLike, SameButMem
<1>10. Sound(fs')
  BY SetMaxSound
<1>. QED  BY <1>7, <1>8, <1>9, <1>10 DEF SetMax

\* A call on a user leaves the stored bit file in use.
LEMMA UserCallBits ==
  ASSUME Sound(fs), Bits(fs), UserCall
  PROVE  Bits(fs')
<1>0. WellFormed(fs) /\ Apart(fs)
  BY DEF Sound, Apart
<1>1. ASSUME NEW u, GiveObjectBlock(u) \/ TakeObjectBlock(u)
      PROVE  Bits(fs')
  <2>1. u \in Users /\ \E max : SetMax(u, max)
    BY <1>1 DEF GiveObjectBlock, TakeObjectBlock
  <2>. QED  BY <2>1, SetMaxLeaves
<1>2. ASSUME NEW u, RemoveUser(u)
      PROVE  Bits(fs')
  <2>1. PICK g : RemovalOf(u, g)
    BY <1>2, RemoveUserDoes
  <2>. QED  BY <2>1, EditLeaves DEF RemovalOf
<1>3. ASSUME NEW u, NEW q, SetQuota(u, q)
      PROVE  Bits(fs')
  <2>. DEFINE g == [fs EXCEPT !.users[u].reserved = q]
  <2>1. u \in UserIds /\ u \in DOMAIN fs.users
    BY <1>0, <1>3 DEF WellFormed, SetQuota, Users
  <2>2. EditedUsers(fs, g) /\ UsersLike(fs, g, {})
    BY <1>0, <2>1 DEF WellFormed, EditedUsers, UsersLike, VolumeFields, UserFields
  <2>3. fs' = WriteUserPage(g, u)
    BY <1>3 DEF SetQuota
  <2>. HIDE DEF g
  <2>4. Apart(g)
    BY <2>2, UsersEdited
  <2>. QED  BY <2>1, <2>2, <2>3, <2>4, EditLeaves
<1>4. ASSUME NEW q, AddUser(q)
      PROVE  Bits(fs')
  <2>1. PICK u, g, h : AdditionOf(u, g, h)
    BY <1>4, AddUserDoes
  <2>2. Apart(WriteUserPage(h, u))
    BY <2>1, UserPageWritten DEF AdditionOf
  <2>. QED  BY <2>1, <2>2, BitFileStored DEF AdditionOf
<1>. QED  BY <1>1, <1>2, <1>3, <1>4 DEF UserCall

\* A call and what reaches the disk of it.
LEMMA CallFollows ==
  ASSUME DurableSound, ~hurt, Call, SoundUntilHurt'
  PROVE  DurableSound'
<1>1. Sound(fs) /\ Bits(fs) /\ (state = "stored" /\ ~BitsBehind(fs) => Follows(disk, fs))
  BY DEF DurableSound, BitsInUse, DiskFollows, Bits
<1>2. ~hurt' => Sound(fs')
  BY DEF SoundUntilHurt
<1>4. CASE /\ Committing
           /\ \/ out' = "ok" /\ (Commits \/ CommitFails)
              \/ out' # "ok" /\ LeftDirty
  <2>1. \/ hurt'
        \/ out' \in {"ok", "corrupt"} /\ Bits(fs')
        \/ Lingers(fs, fs') /\ Bits(fs')
    <3>1. ASSUME NEW who, NEW name, FileCall(who, name)
          PROVE  \/ hurt'
                 \/ out' \in {"ok", "corrupt"} /\ Bits(fs')
                 \/ Lingers(fs, fs') /\ Bits(fs')
      BY <1>1, <3>1, FileCallLeaves
    <3>2. CASE \/ \E q \in Quotas : AddUser(q)
               \/ \E u \in Managed : RemoveUser(u)
               \/ \E u \in Managed, q \in Quotas : SetQuota(u, q)
      <4>1. UserCall
        BY <3>2 DEF UserCall
      <4>2. out' = "ok"
        BY <3>2 DEF AddUser, RemoveUser, SetQuota
      <4>. QED  BY <1>1, <4>1, <4>2, UserCallBits
    <3>. QED  BY <1>4, <3>1, <3>2 DEF Committing
  <2>2. BitsInUse'
    BY <2>1 DEF BitsInUse, Bits
  <2>3. ASSUME ~hurt', state' = "stored", ~BitsBehind(fs')
        PROVE  Follows(disk', fs')
    <3>1. CASE Commits
      BY <1>2, <2>3, <3>1, StoredFollows DEF Commits
    <3>2. ~CommitFails
      BY <2>3 DEF CommitFails
    <3>3. CASE out' # "ok" /\ LeftDirty
      <4>1. out' # "corrupt" /\ state = "stored"
        BY <2>3, <3>3 DEF LeftDirty
      <4>2. Lingers(fs, fs')
        BY <2>1, <2>3, <3>3, <4>1
      <4>3. PICK S : disk' = ImagesOf(S)
        BY <3>3 DEF LeftDirty, Early
      <4>4. disk' = Lag(disk, fs', S)
        BY <4>3 DEF ImagesOf, Lag
      <4>. QED  BY <1>1, <2>3, <4>1, <4>2, <4>4, LingersFollows DEF Bits
    <3>. QED  BY <3>1, <3>2, <3>3, <1>4
  <2>. QED  BY <1>2, <2>2, <2>3 DEF DurableSound, DiskFollows
<1>5. ASSUME NEW u, GiveObjectBlock(u) \/ TakeObjectBlock(u), LeftDirty
      PROVE  DurableSound'
  <2>1. u \in Users /\ \E max : SetMax(u, max)
    BY <1>5 DEF GiveObjectBlock, TakeObjectBlock
  <2>2. Bits(fs') /\ Sound(fs') /\ Calm(fs, fs') /\ UsersLike(fs, fs', {}) /\ hurt' = hurt /\ out' = "ok"
    BY <1>1, <2>1, SetMaxLeaves
  <2>3. BitsInUse'
    BY <2>2 DEF BitsInUse, Bits
  <2>4. ASSUME state' = "stored", ~BitsBehind(fs')
        PROVE  Follows(disk', fs')
    <3>1. state = "stored"
      BY <1>5, <2>4 DEF LeftDirty
    <3>2. fs'.mem[BitPage] = fs.mem[BitPage] /\ Referenced(fs') = Referenced(fs)
      <4>1. BitPage \in Referenced(fs) \ UserPages(fs)
        BY <1>1, OtherPages DEF RootPages
      <4>. QED  BY <1>1, <2>2, <4>1, CalmRefers DEF Calm
    <3>3. Follows(disk, fs)
      BY <1>1, <2>4, <3>1, <3>2 DEF BitsBehind
    <3>4. PICK S : disk' = ImagesOf(S)
      BY <1>5 DEF LeftDirty, Early
    <3>5. disk' = Lag(disk, fs', S)
      BY <3>4 DEF ImagesOf, Lag
    <3>. QED  BY <1>1, <2>2, <3>3, <3>5, LagFollows
  <2>. QED  BY <1>2, <2>3, <2>4 DEF DurableSound, DiskFollows
<1>. QED  BY <1>4, <1>5 DEF Call

\* Every call on the disk is a call on the volume.
LEMMA DurableCalls ==
  ASSUME ~hurt, Call \/ CloseAndOpen
  PROVE  Next
<1>1. CASE Call
  BY <1>1 DEF Call, Committing, Next, UserCall
<1>2. CASE CloseAndOpen
  BY <1>2 DEF CloseAndOpen, Next
<1>. QED  BY <1>1, <1>2

\* Closing the volume stores everything; what is opened is what was stored.
LEMMA ReopenFollows ==
  ASSUME DurableSound, ~hurt, CloseAndOpen, SoundUntilHurt'
  PROVE  DurableSound'
<1>1. Sound(fs)
  BY DEF DurableSound
<1>2. fs' = Load(fs.mem) /\ (~hurt' => ~ReloadLoses(fs)) /\ disk' = fs'.mem
  BY DEF CloseAndOpen, Reopen, Commits
<1>3. ASSUME ~hurt'
      PROVE  Sound(fs') /\ Bits(fs') /\ Follows(disk', fs')
  <2>1. ~PagelessUser(fs) /\ ~SkippedGroup(fs) /\ Sound(fs')
    BY <1>2, <1>3 DEF ReloadLoses, SoundUntilHurt
  <2>2. fs'.mem = fs.mem /\ fs'.used = fs.mem[BitPage].items
    BY <1>1, <1>2, <2>1, ReloadParts
  <2>3. Follows(disk', fs')
    BY <1>2, <2>1, StoredFollows
  <2>. QED  BY <2>1, <2>2, <2>3 DEF Bits
<1>. QED  BY <1>3 DEF DurableSound, BitsInUse, DiskFollows, Bits

\* The mount after a crash finds what was there.
LEMMA CrashFollows ==
  ASSUME DurableSound, ~hurt, Crash
  PROVE  DurableSound'
<1>1. ASSUME ~hurt'
      PROVE  Sound(fs') /\ Bits(fs') /\ Follows(disk', fs')
  <2>1. Sound(fs) /\ state = "stored" /\ ~ReloadLoses(fs) /\ fs' = Load(disk) /\ disk' = disk
    BY <1>1 DEF DurableSound, Crash
  <2>2. Follows(disk, fs)
    BY <2>1 DEF DurableSound, DiskFollows, ReloadLoses
  <2>3. Sound(fs') /\ fs'.mem = disk /\ fs'.used = disk[BitPage].items
    BY <2>1, <2>2, DiskReloads
  <2>4. Follows(disk', fs')
    BY <2>1, <2>3, StoredFollows
  <2>. QED  BY <2>3, <2>4 DEF Bits
<1>. QED  BY <1>1 DEF DurableSound, BitsInUse, DiskFollows, Bits

LEMMA DurableStep ==
  ASSUME DurableSound, [DurableNext]_dvars
  PROVE  DurableSound'
<1>1. ASSUME ~hurt
      PROVE  SoundUntilHurt
  BY <1>1 DEF DurableSound, SoundUntilHurt, Sound, Apart, WellFormed
<1>2. CASE ~hurt /\ (Call \/ CloseAndOpen)
  <2>1. Next
    BY <1>2, DurableCalls
  <2>2. SoundUntilHurt'
    BY <1>1, <1>2, <2>1, NextSound
  <2>. QED  BY <1>2, <2>2, CallFollows, ReopenFollows
<1>3. CASE ~hurt /\ Crash
  BY <1>3, CrashFollows
<1>4. CASE Abandoned /\ UNCHANGED <<disk, state>>
  BY <1>4 DEF Abandoned, vars, DurableSound, BitsInUse, DiskFollows
<1>5. CASE UNCHANGED dvars
  BY <1>5 DEF dvars, DurableSound, BitsInUse, DiskFollows
<1>. QED  BY <1>2, <1>3, <1>4, <1>5 DEF DurableNext

LEMMA DurableStart ==
  ASSUME DurableInit
  PROVE  DurableSound
<1>1. fs = Load(FreshMem) /\ disk = FreshMem
  BY DEF DurableInit, Init
<1>2. Sound(fs)
  BY <1>1, InitSound
<1>3. fs.mem = FreshMem /\ fs.used = FixedPages
  BY <1>1, FreshLoaded
<1>4. Follows(disk, fs)
  BY <1>1, <1>2, <1>3, StoredFollows
<1>5. Bits(fs)
  BY <1>3, FreshPages DEF Bits
<1>. QED  BY <1>2, <1>4, <1>5 DEF DurableSound, BitsInUse, DiskFollows

\* In any run of calls, refused calls, failed commits and crashes, the invariant holds.
THEOREM DurableStaysSound == DurableSpec => []DurableSound
<1>1. DurableInit => DurableSound
  BY DurableStart
<1>2. DurableSound /\ [DurableNext]_dvars => DurableSound'
  BY DurableStep
<1>. QED  BY <1>1, <1>2, PTL DEF DurableSpec

\* A crash between two calls loses no file and no charge, whatever the calls before it were,
\* which of them were refused, and what of those had been evicted to the disk.
THEOREM CrashesLoseNothing == DurableSpec => []CrashBetweenCallsLosesNothing
<1>1. DurableSound => CrashBetweenCallsLosesNothing
  <2>. SUFFICES ASSUME DurableSound, ~hurt, ~ReloadLoses(fs), state = "stored"
                PROVE  Visible(Load(disk)) = Visible(fs)
    BY DEF CrashBetweenCallsLosesNothing
  <2>1. Sound(fs) /\ Follows(disk, fs)
    BY DEF DurableSound, DiskFollows, ReloadLoses
  <2>. QED  BY <2>1, DiskReloads
<1>. QED  BY <1>1, DurableStaysSound, PTL

-----------------------------------------------------------------------------
(***************************************************************************)
(* A crash inside a call.  The disk may lack the pages that refused calls  *)
(* took, but it leads to every entry and every user that memory has, and   *)
(* so does whatever part of a call has been stored over it.                *)
(***************************************************************************)
\* The root pointer,
RootFound(mem, h) == mem[MasterPage].items # {} /\ \A m \in mem[MasterPage].items : m.root = h.root

\* the entry o in its place,
EntryFound(mem, h, o) ==
  LET g     == GroupOf(o.slot)
      i     == Inner(o.slot)
      group == GroupAt(h, g)
      page  == DirAt(h, g, i)
  IN /\ h.root.sub => mem[h.root.page].ptrs[g] = group
     /\ mem[group].ptrs[i] = page
     /\ OnDisk(o) \in mem[page].items

\* and the user u, if memory has his page, are found in the pages mem as they are in h.
UserFound(mem, h, u) ==
  LET i    == u \div EntriesPerPage
      page == Ptr(h, UserIndex, i)
  IN page # Null => /\ mem[UserIndex].ptrs[i] = page
                    /\ \E r \in mem[page].items : IsUserRecord(r) /\ r.id = u

\* The disk has the files, and leads to every entry and every user.
Behind(d, h) ==
  /\ IsMem(d) /\ RootFound(d, h)
  /\ \A o \in h.objects : EntryFound(d, h, o)
  /\ \A u \in DOMAIN h.users : UserFound(d, h, u)
  /\ \A p \in FilePages(h) : d[p] = h.mem[p]

\* Each page is as in the one memory or as in the other.
Mixture(m, d, e) == DOMAIN m = Pages /\ \A p \in Pages : m[p] = d[p] \/ m[p] = e[p]

\* Part of the pages stored is a mixture,
LEMMA LagMixes ==
  ASSUME NEW d, NEW h2, NEW S
  PROVE  Mixture(Lag(d, h2, S), d, h2.mem)
BY DEF Mixture, Lag

\* and a memory of pages.
LEMMA MixtureIsMem ==
  ASSUME NEW d, IsMem(d), NEW e, IsMem(e), NEW m, Mixture(m, d, e)
  PROVE  IsMem(m)
BY DEF IsMem, Mixture

\* The way to an entry of a sound volume.
LEMMA EntryPath ==
  ASSUME NEW h, Sound(h), NEW o \in h.objects, NEW g, g = GroupOf(o.slot), NEW i, i = Inner(o.slot)
  PROVE  /\ g \in Indexes /\ i \in Indexes /\ h.root.page \in Pages /\ h.root.page \in IndexPages(h)
         /\ GroupAt(h, g) \in Pages /\ GroupAt(h, g) \in IndexPages(h) /\ GroupAt(h, g) # Null
         /\ DirAt(h, g, i) \in Pages /\ DirAt(h, g, i) # Null /\ DirAt(h, g, i) = Ptr(h, GroupAt(h, g), i)
         /\ h.root.sub => GroupAt(h, g) = Ptr(h, h.root.page, g)
         /\ OnDisk(o) \in h.mem[DirAt(h, g, i)].items
<1>1. Apart(h) /\ o.slot \in Slots /\ HasDirPage(h, o) /\ EntryPageOK(h, g, i)
      /\ g \in Indexes /\ i \in Indexes
  <2>1. Apart(h) /\ MirroredBut(h, {}, {}) /\ o.slot \in Slots
    BY DEF Sound, Apart, WellFormed, IsEntry
  <2>2. g \in Indexes /\ i \in Indexes
    BY <2>1, SlotParts
  <2>. QED  BY <2>1, <2>2 DEF MirroredBut
<1>2. DirAt(h, g, i) # Null
  BY <1>1 DEF HasDirPage
<1>3. GroupAt(h, g) \in GroupPages(h) /\ GroupAt(h, g) \in IndexPages(h) /\ DirAt(h, g, i) = Ptr(h, GroupAt(h, g), i)
  BY <1>1, <1>2, ThroughGroup
<1>4. DirAt(h, g, i) \in Pages
  BY <1>1, <1>2, EntryPage
<1>5. h.root.page \in Pages /\ h.root.page \in IndexPages(h)
  BY <1>1 DEF Apart, DirectoryApart, IndexPages
<1>6. IndexPages(h) \subseteq Pages
  BY <1>1, InUse DEF Apart, WellFormed
<1>7. GroupAt(h, g) # Null
  BY <1>2 DEF DirAt, GroupAt
<1>8. OnDisk(o) \in h.mem[DirAt(h, g, i)].items
  <2>1. At(o, g, i)
    BY DEF At
  <2>. QED  BY <1>1, <1>2, <2>1 DEF EntryPageOK
<1>. QED  BY <1>1, <1>2, <1>3, <1>4, <1>5, <1>6, <1>7, <1>8 DEF GroupAt

\* Memory leads to everything itself.
LEMMA MemoryLeads ==
  ASSUME NEW h, Sound(h)
  PROVE  Behind(h.mem, h)
<1>1. IsMem(h.mem) /\ RootFound(h.mem, h)
  BY DEF Sound, Apart, WellFormed, MirroredBut, MasterOK, RootFound
<1>2. ASSUME NEW o \in h.objects
      PROVE  EntryFound(h.mem, h, o)
  <2>. DEFINE g == GroupOf(o.slot)
              i == Inner(o.slot)
  <2>0. g = GroupOf(o.slot) /\ i = Inner(o.slot)
    OBVIOUS
  <2>. HIDE DEF g, i
  <2>1. /\ DirAt(h, g, i) = Ptr(h, GroupAt(h, g), i)
        /\ h.root.sub => GroupAt(h, g) = Ptr(h, h.root.page, g)
        /\ OnDisk(o) \in h.mem[DirAt(h, g, i)].items
    BY <2>0, EntryPath
  <2>. QED  BY <2>0, <2>1 DEF EntryFound, Ptr
<1>3. ASSUME NEW u \in DOMAIN h.users
      PROVE  UserFound(h.mem, h, u)
  <2>. DEFINE i == u \div EntriesPerPage
  <2>1. i \in Indexes /\ UserPageOK(h, i)
    <3>1. u \in UserIds
      BY DEF Sound, Apart, WellFormed
    <3>. QED  BY <3>1, UserPart DEF Sound, MirroredBut
  <2>2. ASSUME Ptr(h, UserIndex, i) # Null
        PROVE  \E r \in h.mem[Ptr(h, UserIndex, i)].items : IsUserRecord(r) /\ r.id = u
    BY <2>1, <2>2 DEF UserPageOK, IsRecord, IsUserRecord
  <2>. QED  BY <2>2 DEF UserFound, Ptr
<1>. QED  BY <1>1, <1>2, <1>3 DEF Behind

\* What both memories lead to, a mixture leads to.
LEMMA MixtureLeads ==
  ASSUME NEW h, Sound(h), NEW d, NEW e, NEW m, Mixture(m, d, e)
  PROVE  /\ RootFound(d, h) /\ RootFound(e, h) => RootFound(m, h)
         /\ \A o \in h.objects : EntryFound(d, h, o) /\ EntryFound(e, h, o) => EntryFound(m, h, o)
         /\ \A u \in UserIds : UserFound(d, h, u) /\ UserFound(e, h, u) => UserFound(m, h, u)
<1>1. RootFound(d, h) /\ RootFound(e, h) => RootFound(m, h)
  BY Layout DEF RootFound, Mixture
<1>2. ASSUME NEW o \in h.objects, EntryFound(d, h, o), EntryFound(e, h, o)
      PROVE  EntryFound(m, h, o)
  <2>. DEFINE g == GroupOf(o.slot)
              i == Inner(o.slot)
  <2>1. h.root.page \in Pages /\ GroupAt(h, g) \in Pages /\ DirAt(h, g, i) \in Pages
    BY EntryPath
  <2>. QED  BY <1>2, <2>1 DEF EntryFound, Mixture
<1>3. ASSUME NEW u \in UserIds, UserFound(d, h, u), UserFound(e, h, u)
      PROVE  UserFound(m, h, u)
  <2>. DEFINE i == u \div EntriesPerPage
  <2>1. i \in Indexes /\ UserIndex \in Pages
    BY UserPart, Layout
  <2>2. Ptr(h, UserIndex, i) # Null => Ptr(h, UserIndex, i) \in Pages
    BY <2>1, UserPage DEF Sound
  <2>. QED  BY <1>3, <2>1, <2>2 DEF UserFound, Mixture
<1>. QED  BY <1>1, <1>2, <1>3

\* What the media keep of an entry is what a user sees of it.
LEMMA SeenIsKept ==
  ASSUME NEW h, NEW o, IsEntry(h, o), NEW k, NEW q, IsEntry(k, q), Stored(o) = Stored(q)
  PROVE  OnDisk(q) = OnDisk(o) /\ q.slot = o.slot /\ q.user = o.user
<1>1. ASSUME NEW j, NEW e, IsEntry(j, e)
      PROVE  /\ Stored(e).slot = e.slot /\ Stored(e).user = e.user /\ Stored(e).name = e.name
             /\ Stored(e).kind = e.kind /\ Stored(e).page = e.page /\ Stored(e).pages = e.pages
             /\ Stored(e).size = IF e.size = 0 THEN 1 ELSE e.size
  BY <1>1 DEF IsEntry, EntryFields, Stored
<1>. QED  BY <1>1 DEF OnDisk

\* The directory leads in h2 where it led in h.
Carries(h, h2) == Sound(h) /\ Sound(h2) /\ h2.root = h.root /\ LinksKept(h, h2)

\* An entry that is in both is found at the same place in both,
LEMMA EntryCarried ==
  ASSUME NEW h, NEW h2, Carries(h, h2), NEW o \in h.objects, NEW q \in h2.objects,
         OnDisk(q) = OnDisk(o), q.slot = o.slot, NEW m
  PROVE  EntryFound(m, h2, q) <=> EntryFound(m, h, o)
<1>. DEFINE g == GroupOf(o.slot)
            i == Inner(o.slot)
<1>0. g = GroupOf(o.slot) /\ i = Inner(o.slot)
  OBVIOUS
<1>. HIDE DEF g, i
<1>1. /\ g \in Indexes /\ i \in Indexes /\ h.root.page \in IndexPages(h)
      /\ GroupAt(h, g) \in IndexPages(h) /\ GroupAt(h, g) # Null
      /\ DirAt(h, g, i) # Null /\ DirAt(h, g, i) = Ptr(h, GroupAt(h, g), i)
      /\ h.root.sub => GroupAt(h, g) = Ptr(h, h.root.page, g)
  BY <1>0, EntryPath DEF Carries
<1>2. GroupAt(h2, g) = GroupAt(h, g)
  BY <1>1 DEF Carries, LinksKept, GroupAt
<1>3. DirAt(h2, g, i) = Ptr(h2, GroupAt(h2, g), i)
  BY <1>1, <1>2 DEF DirAt, GroupAt
<1>4. DirAt(h2, g, i) = DirAt(h, g, i)
  BY <1>1, <1>2, <1>3 DEF Carries, LinksKept
<1>. QED  BY <1>0, <1>2, <1>4 DEF EntryFound, Carries

\* and a user whose page is the same.
LEMMA UserCarried ==
  ASSUME NEW h, NEW h2, NEW u, Ptr(h2, UserIndex, u \div EntriesPerPage) = Ptr(h, UserIndex, u \div EntriesPerPage),
         NEW m
  PROVE  UserFound(m, h2, u) <=> UserFound(m, h, u)
BY DEF UserFound

\* The disk stays behind when part of what a call that changes no file has left is stored.
LEMMA StaysBehind ==
  ASSUME NEW h, NEW h2, Carries(h, h2), h2.objects = h.objects, FilesKept(h, h2),
         DOMAIN h2.users = DOMAIN h.users,
         \A u \in DOMAIN h.users :
           Ptr(h2, UserIndex, u \div EntriesPerPage) = Ptr(h, UserIndex, u \div EntriesPerPage),
         NEW d, Behind(d, h), NEW m, Mixture(m, d, h2.mem)
  PROVE  Behind(m, h2)
<1>1. Sound(h) /\ Sound(h2) /\ h2.root = h.root /\ Behind(h2.mem, h2)
  BY MemoryLeads DEF Carries
<1>2. IsMem(m)
  BY <1>1, MixtureIsMem DEF Behind
<1>3. RootFound(m, h2)
  <2>1. RootFound(d, h2)
    BY <1>1 DEF Behind, RootFound
  <2>. QED  BY <1>1, <2>1, MixtureLeads DEF Behind
<1>4. ASSUME NEW o \in h2.objects
      PROVE  EntryFound(m, h2, o)
  <2>1. EntryFound(d, h2, o)
    BY EntryCarried DEF Behind
  <2>2. EntryFound(h2.mem, h2, o)
    BY <1>1 DEF Behind
  <2>. QED  BY <1>1, <2>1, <2>2, MixtureLeads
<1>5. ASSUME NEW u \in DOMAIN h2.users
      PROVE  UserFound(m, h2, u)
  <2>1. UserFound(d, h2, u)
    BY UserCarried DEF Behind
  <2>2. UserFound(h2.mem, h2, u)
    BY <1>1 DEF Behind
  <2>3. u \in UserIds
    BY <1>1 DEF Sound, Apart, WellFormed
  <2>. QED  BY <1>1, <2>1, <2>2, <2>3, MixtureLeads
<1>6. FilePages(h2) = FilePages(h) /\ FilePages(h) \subseteq Pages
  <2>1. \A o \in h.objects : o.kind \in {"contiguous", "indexed", "subindexed"}
    BY <1>1 DEF Sound, Apart, WellFormed, IsEntry
  <2>2. \A o \in h.objects : FileKept(h.mem, h2.mem, o)
    BY DEF FilesKept, FileKept, FilePages
  <2>3. \A o \in h.objects : PagesOf(h2.mem, o) = PagesOf(h.mem, o)
    BY <2>1, <2>2, KeptFile DEF IsKind
  <2>4. FilePages(h2) = FilePages(h)
    BY <2>3 DEF FilePages
  <2>5. FilePages(h) \subseteq Pages
    BY <1>1, InUse DEF Sound, Apart, WellFormed
  <2>. QED  BY <2>4, <2>5
<1>7. \A p \in FilePages(h2) : m[p] = h2.mem[p]
  BY <1>6 DEF Behind, FilesKept, Mixture
<1>. QED  BY <1>2, <1>3, <1>4, <1>5, <1>7 DEF Behind

\* A pointer of an index page is a reference of the file, and the only one with its role;
LEMMA IndexedLink ==
  ASSUME NEW mem, NEW o, o.kind = "indexed", NEW i \in Indexes, NEW x
  PROVE  <<<<0, i>>, x>> \in Refs(mem, o) <=> x = mem[o.page].ptrs[i] /\ x # Null
<1>1. Refs(mem, o) = {<<TopRole, o.page>>} \union Pointed(mem, o.page, 0)
  BY DEF Refs
<1>2. <<0, i>> # TopRole
  BY DEF TopRole
<1>3. <<<<0, i>>, x>> \in Refs(mem, o) <=> <<<<0, i>>, x>> \in Pointed(mem, o.page, 0)
  BY <1>1, <1>2
<1>4. <<<<0, i>>, x>> \in Pointed(mem, o.page, 0)
        <=> \E j \in Indexes : mem[o.page].ptrs[j] # Null /\ <<<<0, i>>, x>> = <<<<0, j>>, mem[o.page].ptrs[j]>>
  BY PointedAt
<1>. QED  BY <1>3, <1>4

\* so is the pointer to a group index page, and the pointers on it.
LEMMA SubindexedLinks ==
  ASSUME NEW mem, NEW o, o.kind = "subindexed", NEW g \in Indexes, NEW x
  PROVE  /\ <<GroupRole(g), x>> \in Refs(mem, o) <=> x = mem[o.page].ptrs[g] /\ x # Null
         /\ \A i \in Indexes : <<<<g, i>>, x>> \in Refs(mem, o) <=>
              /\ mem[o.page].ptrs[g] # Null
              /\ x = mem[mem[o.page].ptrs[g]].ptrs[i] /\ x # Null
<1>. DEFINE groups == {<<GroupRole(f), mem[o.page].ptrs[f]>> : f \in {f \in Indexes : mem[o.page].ptrs[f] # Null}}
            below  == UNION {Pointed(mem, r[2], r[1][1]) : r \in groups}
<1>1. Refs(mem, o) = {<<TopRole, o.page>>} \union groups \union below
  BY DEF Refs
<1>2. \A r : r \in groups <=> \E f \in Indexes : mem[o.page].ptrs[f] # Null /\ r = <<GroupRole(f), mem[o.page].ptrs[f]>>
  OBVIOUS
<1>3. \A y : y \in below <=> \E r \in groups : y \in Pointed(mem, r[2], r[1][1])
  OBVIOUS
<1>. HIDE DEF groups, below
<1>4. \A f \in Indexes : f \in Int /\ f >= 0
  BY DEF Indexes
<1>5. \A y : y \in below <=>
        \E f, j \in Indexes : /\ mem[o.page].ptrs[f] # Null /\ mem[mem[o.page].ptrs[f]].ptrs[j] # Null
                              /\ y = <<<<f, j>>, mem[mem[o.page].ptrs[f]].ptrs[j]>>
  <2>. SUFFICES ASSUME NEW y
                PROVE  y \in below <=>
                  \E f, j \in Indexes : /\ mem[o.page].ptrs[f] # Null /\ mem[mem[o.page].ptrs[f]].ptrs[j] # Null
                                        /\ y = <<<<f, j>>, mem[mem[o.page].ptrs[f]].ptrs[j]>>
    OBVIOUS
  <2>1. y \in below <=> \E f \in Indexes : /\ mem[o.page].ptrs[f] # Null
                                           /\ y \in Pointed(mem, mem[o.page].ptrs[f], f)
    <3>1. ASSUME y \in below
          PROVE  \E f \in Indexes : mem[o.page].ptrs[f] # Null /\ y \in Pointed(mem, mem[o.page].ptrs[f], f)
      <4>1. PICK r \in groups : y \in Pointed(mem, r[2], r[1][1])
        BY <1>3, <3>1
      <4>2. PICK f \in Indexes : mem[o.page].ptrs[f] # Null /\ r = <<GroupRole(f), mem[o.page].ptrs[f]>>
        BY <1>2
      <4>3. r[2] = mem[o.page].ptrs[f] /\ r[1][1] = f
        BY <4>2 DEF GroupRole
      <4>. QED  BY <4>1, <4>2, <4>3
    <3>2. ASSUME NEW f \in Indexes, mem[o.page].ptrs[f] # Null, y \in Pointed(mem, mem[o.page].ptrs[f], f)
          PROVE  y \in below
      <4>. DEFINE r == <<GroupRole(f), mem[o.page].ptrs[f]>>
      <4>1. r \in groups
        BY <1>2, <3>2
      <4>2. r[2] = mem[o.page].ptrs[f] /\ r[1][1] = f
        BY DEF GroupRole
      <4>. HIDE DEF r
      <4>. QED  BY <1>3, <3>2, <4>1, <4>2
    <3>. QED  BY <3>1, <3>2
  <2>2. \A f \in Indexes : y \in Pointed(mem, mem[o.page].ptrs[f], f)
          <=> \E j \in Indexes : /\ mem[mem[o.page].ptrs[f]].ptrs[j] # Null
                                 /\ y = <<<<f, j>>, mem[mem[o.page].ptrs[f]].ptrs[j]>>
    BY PointedAt
  <2>. QED  BY <2>1, <2>2
<1>6. <<GroupRole(g), x>> \in Refs(mem, o) <=> x = mem[o.page].ptrs[g] /\ x # Null
  <2>1. GroupRole(g) # TopRole
    BY <1>4 DEF GroupRole, TopRole
  <2>2. <<GroupRole(g), x>> \notin below
    BY <1>4, <1>5 DEF GroupRole
  <2>3. <<GroupRole(g), x>> \in groups <=> x = mem[o.page].ptrs[g] /\ x # Null
    BY <1>2 DEF GroupRole
  <2>. QED  BY <1>1, <2>1, <2>2, <2>3
<1>7. ASSUME NEW i \in Indexes
      PROVE  <<<<g, i>>, x>> \in Refs(mem, o) <=>
               /\ mem[o.page].ptrs[g] # Null
               /\ x = mem[mem[o.page].ptrs[g]].ptrs[i] /\ x # Null
  <2>1. <<g, i>> # TopRole /\ \A f : <<g, i>> # GroupRole(f)
    BY <1>4 DEF GroupRole, TopRole
  <2>2. <<<<g, i>>, x>> \notin groups
    BY <1>2, <2>1
  <2>3. <<<<g, i>>, x>> \in below <=>
          /\ mem[o.page].ptrs[g] # Null
          /\ x = mem[mem[o.page].ptrs[g]].ptrs[i] /\ x # Null
    BY <1>5
  <2>. QED  BY <1>1, <2>1, <2>2, <2>3
<1>. QED  BY <1>6, <1>7

\* The index pages of a file with no other role than these.
LEMMA IndexRoles ==
  ASSUME NEW mem, NEW o, IsKind(o), NEW p \in IndexOf(mem, o)
  PROVE  /\ o.kind # "contiguous"
         /\ \/ p = o.page
            \/ o.kind = "subindexed" /\ \E g \in Indexes : p = mem[o.page].ptrs[g] /\ p # Null
<1>1. PICK r \in Refs(mem, o) : ~IsData(r[1]) /\ r[2] = p
  BY DEF IndexOf
<1>2. \A f \in Indexes : f \in Int /\ f >= 0
  BY DEF Indexes
<1>3. \A q, g : \A y \in Pointed(mem, q, g) : IsData(y[1])
  <2>. SUFFICES ASSUME NEW q, NEW g, NEW y \in Pointed(mem, q, g)
                PROVE  IsData(y[1])
    OBVIOUS
  <2>1. PICK i \in Indexes : y = <<<<g, i>>, mem[q].ptrs[i]>>
    BY PointedAt
  <2>. QED  BY <1>2, <2>1 DEF IsData
<1>4. CASE o.kind = "contiguous"
  <2>1. PICK i \in 0 .. o.pages - 1 : r = <<<<0, i>>, o.page + i>>
    BY <1>4 DEF Refs
  <2>. QED  BY <1>1, <2>1 DEF IsData
<1>5. CASE o.kind = "indexed"
  BY <1>1, <1>3, <1>5 DEF Refs
<1>6. CASE o.kind = "subindexed"
  <2>. DEFINE groups == {<<GroupRole(f), mem[o.page].ptrs[f]>> : f \in {f \in Indexes : mem[o.page].ptrs[f] # Null}}
              below  == UNION {Pointed(mem, s[2], s[1][1]) : s \in groups}
  <2>1. r = <<TopRole, o.page>> \/ r \in groups \/ r \in below
    BY <1>6 DEF Refs
  <2>2. r \notin below
    BY <1>1, <1>3
  <2>3. CASE r = <<TopRole, o.page>>
    BY <1>1, <1>6, <2>3
  <2>4. CASE r \in groups
    BY <1>1, <1>6, <2>4
  <2>. QED  BY <2>1, <2>2, <2>3, <2>4
<1>. QED  BY <1>4, <1>5, <1>6 DEF IsKind

\* Two memories in which a file has the same references have the same pointers on its index pages.
LEMMA RefsTellPtrs ==
  ASSUME NEW a, IsMem(a), NEW b, IsMem(b), NEW o, IsKind(o), o.page \in Pages, Refs(b, o) = Refs(a, o)
  PROVE  SamePtrs(a, b, IndexOf(a, o))
<1>0. \A p \in Pages : /\ a[p].ptrs \in [Indexes -> Pages] /\ b[p].ptrs \in [Indexes -> Pages]
                       /\ (\A i \in Indexes : a[p].ptrs[i] = b[p].ptrs[i]) => a[p].ptrs = b[p].ptrs
  BY DEF IsMem
<1>1. CASE o.kind = "indexed"
  <2>1. ASSUME NEW i \in Indexes
        PROVE  a[o.page].ptrs[i] = b[o.page].ptrs[i]
    <3>1. ASSUME NEW x
          PROVE  (x = a[o.page].ptrs[i] /\ x # Null) <=> (x = b[o.page].ptrs[i] /\ x # Null)
      <4>1. <<<<0, i>>, x>> \in Refs(a, o) <=> x = a[o.page].ptrs[i] /\ x # Null
        BY <1>1, IndexedLink
      <4>2. <<<<0, i>>, x>> \in Refs(b, o) <=> x = b[o.page].ptrs[i] /\ x # Null
        BY <1>1, IndexedLink
      <4>. QED  BY <4>1, <4>2
    <3>. QED  BY <3>1
  <2>2. a[o.page].ptrs = b[o.page].ptrs
    BY <1>0, <2>1
  <2>. QED  BY <1>1, <2>2, IndexRoles DEF SamePtrs
<1>2. CASE o.kind = "subindexed"
  <2>1. ASSUME NEW g \in Indexes
        PROVE  a[o.page].ptrs[g] = b[o.page].ptrs[g]
    <3>1. ASSUME NEW x
          PROVE  (x = a[o.page].ptrs[g] /\ x # Null) <=> (x = b[o.page].ptrs[g] /\ x # Null)
      <4>1. <<GroupRole(g), x>> \in Refs(a, o) <=> x = a[o.page].ptrs[g] /\ x # Null
        BY <1>2, SubindexedLinks
      <4>2. <<GroupRole(g), x>> \in Refs(b, o) <=> x = b[o.page].ptrs[g] /\ x # Null
        BY <1>2, SubindexedLinks
      <4>. QED  BY <4>1, <4>2
    <3>. QED  BY <3>1
  <2>2. a[o.page].ptrs = b[o.page].ptrs
    BY <1>0, <2>1
  <2>3. ASSUME NEW g \in Indexes, NEW p, p = a[o.page].ptrs[g], p # Null
        PROVE  a[p].ptrs = b[p].ptrs
    <3>1. p \in Pages /\ b[o.page].ptrs[g] = p
      BY <1>0, <2>1, <2>3
    <3>2. ASSUME NEW i \in Indexes
          PROVE  a[p].ptrs[i] = b[p].ptrs[i]
      <4>1. ASSUME NEW x
            PROVE  (x = a[p].ptrs[i] /\ x # Null) <=> (x = b[p].ptrs[i] /\ x # Null)
        <5>1. \A mem : <<<<g, i>>, x>> \in Refs(mem, o) <=>
                /\ mem[o.page].ptrs[g] # Null
                /\ x = mem[mem[o.page].ptrs[g]].ptrs[i] /\ x # Null
          BY <1>2, SubindexedLinks
        <5>2. <<<<g, i>>, x>> \in Refs(a, o) <=> a[o.page].ptrs[g] # Null /\ x = a[p].ptrs[i] /\ x # Null
          BY <2>3, <5>1
        <5>3. <<<<g, i>>, x>> \in Refs(b, o) <=> b[o.page].ptrs[g] # Null /\ x = b[p].ptrs[i] /\ x # Null
          BY <3>1, <5>1
        <5>. QED  BY <2>3, <3>1, <5>2, <5>3
      <4>. QED  BY <4>1
    <3>. QED  BY <1>0, <3>1, <3>2
  <2>. QED  BY <1>2, <2>2, <2>3, IndexRoles DEF SamePtrs
<1>3. CASE o.kind = "contiguous"
  BY <1>3, IndexRoles DEF SamePtrs
<1>. QED  BY <1>1, <1>2, <1>3 DEF IsKind

\* Where a file has the same references and reads the same in two memories, it reads that in
\* a mixture of its pages.
LEMMA MixtureReads ==
  ASSUME NEW a, IsMem(a), NEW b, IsMem(b), NEW o, IsKind(o), o.page \in Pages,
         Refs(b, o) = Refs(a, o), ReadFile(b, o) = ReadFile(a, o),
         NEW m, \A p \in PagesOf(a, o) : m[p] = a[p] \/ m[p] = b[p]
  PROVE  Refs(m, o) = Refs(a, o) /\ ReadFile(m, o) = ReadFile(a, o)
<1>1. SamePtrs(a, b, IndexOf(a, o))
  BY RefsTellPtrs
<1>2. SamePtrs(a, m, IndexOf(a, o))
  BY <1>1 DEF SamePtrs, IndexOf, PagesOf
<1>3. Refs(m, o) = Refs(a, o)
  BY <1>2, SameRefs DEF IsKind
<1>4. \A i : RoleOfPage(m, o, i) = RoleOfPage(a, o, i) /\ RoleOfPage(b, o, i) = RoleOfPage(a, o, i)
  <2>1. CASE o.kind # "subindexed"
    BY <2>1 DEF RoleOfPage
  <2>2. CASE o.kind = "subindexed"
    <3>1. <<TopRole, o.page>> \in Refs(a, o)
      BY <2>2 DEF Refs
    <3>2. o.page \in IndexOf(a, o)
      BY <3>1 DEF IndexOf, IsData, TopRole
    <3>3. m[o.page].ptrs = a[o.page].ptrs /\ b[o.page].ptrs = a[o.page].ptrs
      BY <1>1, <1>2, <3>2 DEF SamePtrs
    <3>. QED  BY <2>2, <3>3 DEF RoleOfPage
  <2>. QED  BY <2>1, <2>2
<1>5. ASSUME NEW i \in 0 .. o.size - 1
      PROVE  ReadPage(m, o, i) = ReadPage(a, o, i)
  <2>. DEFINE found == RefsAt(a, o, i)
              p == (CHOOSE r \in found : TRUE)[2]
  <2>1. RefsAt(m, o, i) = found /\ RefsAt(b, o, i) = found
    BY <1>3, <1>4 DEF RefsAt
  <2>2. \A r \in found : r[2] \in PagesOf(a, o)
    BY DEF RefsAt, PagesOf
  <2>3. ReadFile(a, o)[i] = ReadPage(a, o, i) /\ ReadFile(b, o)[i] = ReadPage(b, o, i)
    BY DEF ReadFile
  <2>4. ReadPage(b, o, i) = ReadPage(a, o, i)
    BY <2>3
  <2>. HIDE DEF found
  <2>5. ReadFrom(b, found) = ReadFrom(a, found)
    BY <2>1, <2>4, ReadThrough DEF found
  <2>6. ReadFrom(m, found) = ReadFrom(a, found)
    <3>1. CASE found = {}
      BY <3>1 DEF ReadFrom
    <3>2. CASE found # {}
      <4>1. p \in PagesOf(a, o)
        BY <2>2, <3>2
      <4>2. ReadFrom(m, found) = m[p].items /\ ReadFrom(a, found) = a[p].items /\ ReadFrom(b, found) = b[p].items
        BY <3>2 DEF ReadFrom
      <4>. HIDE DEF p
      <4>. QED  BY <2>5, <4>1, <4>2
    <3>. QED  BY <3>1, <3>2
  <2>. QED  BY <2>1, <2>6, ReadThrough DEF found
<1>6. ReadFile(m, o) = ReadFile(a, o)
  BY <1>5 DEF ReadFile
<1>. QED  BY <1>3, <1>6

\* A user that pages lead to is loaded from them.
LEMMA UserLoaded ==
  ASSUME NEW h, NEW m, NEW u \in UserIds, Ptr(h, UserIndex, u \div EntriesPerPage) # Null, UserFound(m, h, u)
  PROVE  u \in DOMAIN UsersOn(m, {})
<1>. DEFINE below == Below(m, UserIndex, {})
            recs  == UNION {m[p].items : p \in below}
            kept  == {r \in recs : IsUserRecord(r)}
            i     == u \div EntriesPerPage
<1>1. DOMAIN UsersOn(m, {}) = {r.id : r \in kept}
  BY DEF UsersOn
<1>2. i \in Indexes
  BY UserPart
<1>. HIDE DEF i
<1>3. /\ m[UserIndex].ptrs[i] = Ptr(h, UserIndex, i) /\ Ptr(h, UserIndex, i) # Null
      /\ \E r \in m[Ptr(h, UserIndex, i)].items : IsUserRecord(r) /\ r.id = u
  BY DEF UserFound, i
<1>4. Ptr(h, UserIndex, i) \in below
  BY <1>2, <1>3 DEF Below
<1>. HIDE DEF below
<1>5. PICK r \in m[Ptr(h, UserIndex, i)].items : IsUserRecord(r) /\ r.id = u
  BY <1>3
<1>6. r \in recs
  BY <1>4, <1>5
<1>7. r \in kept
  BY <1>5, <1>6
<1>. HIDE DEF kept
<1>. QED  BY <1>1, <1>5, <1>7

\* The media do not keep the number of an entry.
LEMMA NumberUnseen ==
  ASSUME NEW h, NEW o, IsEntry(h, o), NEW n, NEW q, q = [Stored(o) EXCEPT !.num = n]
  PROVE  Stored(q) = Stored(o)
<1>. DEFINE s == Stored(o)
            t == Stored(q)
<1>1. DOMAIN o = EntryFields
  BY DEF IsEntry
<1>2. DOMAIN s = EntryFields /\ s.num = 0 /\ s.size # 0
  BY <1>1 DEF Stored, EntryFields
<1>3. s = [f \in EntryFields |-> s[f]]
  BY <1>1 DEF Stored, EntryFields
<1>. HIDE DEF s
<1>4. q = [s EXCEPT !.num = n]
  BY DEF s
<1>5. DOMAIN q = EntryFields /\ \A f \in EntryFields \ {"num"} : q[f] = s[f]
  BY <1>2, <1>4 DEF EntryFields
<1>6. t = [[q EXCEPT !.num = 0] EXCEPT !.size = q.size]
  BY <1>2, <1>5 DEF Stored, EntryFields
<1>7. \A f \in EntryFields : t[f] = s[f]
  BY <1>2, <1>5, <1>6 DEF EntryFields
<1>8. t = [f \in EntryFields |-> t[f]]
  BY <1>5, <1>6 DEF EntryFields
<1>. HIDE DEF t
<1>. QED  BY <1>3, <1>7, <1>8 DEF s, t

\* An entry that pages lead to is loaded from them when its owner is.
LEMMA EntryLoaded ==
  ASSUME NEW h, Sound(h), NEW o \in h.objects, NEW m, RootFound(m, h), EntryFound(m, h, o),
         o.user \in DOMAIN UsersOn(m, {}), ~SkippedGroup(Load(m))
  PROVE  \E x \in Load(m).objects : Stored(x) = Stored(o)
<1>. DEFINE g     == GroupOf(o.slot)
            i     == Inner(o.slot)
            d     == OnDisk(o)
            users == UsersOn(m, {})
            group == GroupAt(h, g)
            page  == DirAt(h, g, i)
            S     == EntriesOn(m, h.root, users, {})
<1>0. g = GroupOf(o.slot) /\ i = Inner(o.slot) /\ d = OnDisk(o) /\ group = GroupAt(h, g) /\ page = DirAt(h, g, i)
  OBVIOUS
<1>1. IsEntry(h, o) /\ o.slot \in Slots
  BY DEF Sound, Apart, WellFormed, IsEntry
<1>2. /\ g \in Indexes /\ i \in Indexes
      /\ (g * PtrsPerPage + i) * EntriesPerPage + d.at = o.slot
      /\ "name" \in DOMAIN d
  <2>1. /\ g \in Indexes /\ i \in Indexes
        /\ PageOf(o.slot) = g * PtrsPerPage + i
        /\ o.slot = PageOf(o.slot) * EntriesPerPage + (o.slot % EntriesPerPage)
    BY <1>1, SlotParts
  <2>2. d.at = o.slot % EntriesPerPage /\ "name" \in DOMAIN d
    BY DEF OnDisk
  <2>. QED  BY <2>1, <2>2
<1>. HIDE DEF g, i, d, users, group, page
<1>3. RootOn(m) = h.root
  BY DEF RootFound, RootOn
<1>4. Load(m).root = h.root /\ Load(m).mem = m /\ Load(m).objects = Numbered(S)
  BY <1>3 DEF Load, LoadFrom, users
<1>5. page # Null /\ group # Null /\ h.root.sub \in BOOLEAN
  <2>1. GroupAt(h, g) # Null /\ DirAt(h, g, i) # Null
    BY <1>0, EntryPath
  <2>2. h.root.sub \in BOOLEAN
    BY DEF Sound, Apart, WellFormed
  <2>. QED  BY <1>0, <2>1, <2>2
<1>6. /\ h.root.sub => m[h.root.page].ptrs[g] = group
      /\ m[group].ptrs[i] = page /\ d \in m[page].items
  BY <1>0 DEF EntryFound
<1>7. <<g, group>> \in IndexBlocks(m, h.root, {})
  <2>1. CASE ~h.root.sub
    <3>1. g = 0 /\ group = h.root.page
      BY <1>0, <1>5, <2>1 DEF GroupAt
    <3>. QED  BY <2>1, <3>1 DEF IndexBlocks
  <2>2. CASE h.root.sub
    <3>. DEFINE ptr(f) == m[h.root.page].ptrs[f]
                some   == {f \in Indexes : ptr(f) # Null}
                rank(e) == Cardinality({f \in some : f < e})
    <3>1. IndexBlocks(m, h.root, {}) = {<<rank(e), ptr(e)>> : e \in some}
      BY <2>2 DEF IndexBlocks
    <3>2. ptr(g) = group /\ g \in some
      BY <1>2, <1>5, <1>6, <2>2
    <3>3. \A f \in Indexes : f < g => f \in some
      BY <1>2, <1>4, <2>2, <3>2 DEF SkippedGroup, Ptr
    <3>. HIDE DEF ptr
    <3>4. some \in SUBSET Indexes
      OBVIOUS
    <3>5. rank(g) = g
      <4>. HIDE DEF some
      <4>. QED  BY <1>2, <3>3, <3>4, GroupsCounted
    <3>. HIDE DEF some, rank
    <3>. QED  BY <3>1, <3>2, <3>5
  <2>. QED  BY <1>5, <2>1, <2>2
<1>8. LoadedEntry(d, o.slot, users) \in S
  <2>. DEFINE b == <<g, group>>
              x == LoadedEntry(d, o.slot, users)
  <2>1. b[1] = g /\ b[2] = group /\ b \in IndexBlocks(m, h.root, {})
    BY <1>7
  <2>. HIDE DEF b
  <2>2. d \in EntriesOf(m[m[b[2]].ptrs[i]])
    BY <1>2, <1>6, <2>1 DEF EntriesOf
  <2>3. x = LoadedEntry(d, (b[1] * PtrsPerPage + i) * EntriesPerPage + d.at, users)
    BY <1>2, <2>1
  <2>. HIDE DEF x
  <2>4. m[b[2]].ptrs[i] \notin {Null} \union {}
    BY <1>5, <1>6, <2>1
  <2>5. x \in S
    BY <1>2, <2>1, <2>2, <2>3, <2>4, EntriesFound
  <2>. QED  BY <2>5 DEF x
<1>9. LoadedEntry(d, o.slot, users) = Stored(o)
  <2>1. LoadedEntry(OnDisk(o), o.slot, users) = Stored(o)
    BY <1>1, EntryReadBack DEF users
  <2>. QED  BY <1>0, <2>1
<1>. HIDE DEF S
<1>. DEFINE q == [Stored(o) EXCEPT !.num = NumberAtLoad(S, Stored(o))]
<1>10. q \in Numbered(S)
  <2>1. Numbered(S) = {[s EXCEPT !.num = NumberAtLoad(S, s)] : s \in S}
    BY DEF Numbered
  <2>2. Stored(o) \in S
    BY <1>8, <1>9
  <2>. QED  BY <2>1, <2>2
<1>11. Stored(q) = Stored(o)
  BY <1>1, NumberUnseen
<1>. QED  BY <1>4, <1>10, <1>11

\* What a user sees of an entry is walked like the entry.
LEMMA SeenWalk ==
  ASSUME NEW h, NEW o, IsEntry(h, o), NEW s, s = Stored(o)
  PROVE  /\ s.kind = o.kind /\ s.page = o.page /\ s.pages = o.pages
         /\ IsKind(s) /\ s.page \in Pages
         /\ \A mem : Refs(mem, s) = Refs(mem, o) /\ PagesOf(mem, s) = PagesOf(mem, o)
<1>1. s.kind = o.kind /\ s.page = o.page /\ s.pages = o.pages
  BY DEF IsEntry, EntryFields, Stored
<1>2. IsKind(s) /\ s.page \in Pages
  BY <1>1 DEF IsEntry, IsKind
<1>3. \A mem : Refs(mem, s) = Refs(mem, o) /\ PagesOf(mem, s) = PagesOf(mem, o)
  BY <1>1, SameWalk
<1>. QED  BY <1>1, <1>2, <1>3

\* A file that a call leaves where it is and as it is can be read from a disk that has been
\* behind the volume when the call began, whatever part of the call has been stored over it.
LEMMA Spared ==
  ASSUME NEW h, NEW h2, Carries(h, h2), ~PagelessUser(h), NEW d, Behind(d, h),
         NEW m, Mixture(m, d, h2.mem), ~SkippedGroup(Load(m)),
         NEW f \in FilesOf(h) \intersect FilesOf(h2), Refs(h.mem, f[1]) = Refs(h2.mem, f[1])
  PROVE  f \in FilesOf(Load(m))
<1>1. PICK o \in h.objects : f = <<Stored(o), ReadFile(h.mem, Stored(o))>>
  BY DEF FilesOf, Visible
<1>2. PICK q \in h2.objects : f = <<Stored(q), ReadFile(h2.mem, Stored(q))>>
  BY DEF FilesOf, Visible
<1>. DEFINE s == Stored(o)
            u == o.user
<1>3. Stored(q) = s /\ ReadFile(h2.mem, s) = ReadFile(h.mem, s) /\ Refs(h.mem, s) = Refs(h2.mem, s)
  BY <1>1, <1>2
<1>4. Sound(h) /\ Sound(h2) /\ h2.root = h.root /\ LinksKept(h, h2)
  BY DEF Carries
<1>5. IsEntry(h, o) /\ IsEntry(h2, q) /\ IsMem(h.mem) /\ IsMem(h2.mem)
      /\ u \in DOMAIN h.users /\ q.user \in DOMAIN h2.users /\ DOMAIN h.users \subseteq UserIds
  BY <1>4 DEF Sound, Apart, WellFormed, IsEntry
<1>6. OnDisk(q) = OnDisk(o) /\ q.slot = o.slot /\ q.user = u
  BY <1>3, <1>5, SeenIsKept
<1>7. Behind(h2.mem, h2) /\ RootFound(m, h)
  <2>1. Behind(h2.mem, h2)
    BY <1>4, MemoryLeads
  <2>2. RootFound(h2.mem, h)
    BY <1>4, <2>1 DEF Behind, RootFound
  <2>. QED  BY <1>4, <2>1, <2>2, MixtureLeads DEF Behind
<1>8. EntryFound(m, h, o)
  <2>1. EntryFound(h2.mem, h2, q)
    BY <1>7 DEF Behind
  <2>2. EntryFound(h2.mem, h, o)
    BY <1>6, <2>1, EntryCarried
  <2>. QED  BY <1>4, <2>2, MixtureLeads DEF Behind
<1>9. u \in DOMAIN UsersOn(m, {})
  <2>. DEFINE i == u \div EntriesPerPage
  <2>1. i \in Indexes /\ u \in UserIds
    BY <1>5, UserPart
  <2>2. Ptr(h, UserIndex, i) # Null
    BY <1>5 DEF PagelessUser
  <2>3. UserIndex \in IndexPages(h)
    BY DEF IndexPages
  <2>4. Ptr(h2, UserIndex, i) = Ptr(h, UserIndex, i)
    <3>. HIDE DEF i
    <3>. QED  BY <1>4, <2>1, <2>2, <2>3 DEF LinksKept
  <2>5. UserFound(h2.mem, h2, u)
    BY <1>5, <1>6, <1>7 DEF Behind
  <2>6. UserFound(h2.mem, h, u)
    BY <2>4, <2>5, UserCarried
  <2>7. UserFound(d, h, u)
    BY <1>5 DEF Behind
  <2>8. UserFound(m, h, u)
    BY <1>4, <2>1, <2>6, <2>7, MixtureLeads
  <2>. QED  BY <2>1, <2>2, <2>8, UserLoaded
<1>10. PICK x \in Load(m).objects : Stored(x) = s
  BY <1>4, <1>7, <1>8, <1>9, EntryLoaded
<1>11. ReadFile(m, s) = ReadFile(h.mem, s)
  <2>1. IsKind(s) /\ s.page \in Pages /\ PagesOf(h.mem, s) = PagesOf(h.mem, o)
    BY <1>5, SeenWalk
  <2>2. PagesOf(h.mem, o) \subseteq FilePages(h) /\ FilePages(h) \subseteq Pages
    <3>1. FilePages(h) \subseteq Pages
      BY <1>4, InUse DEF Sound, Apart, WellFormed
    <3>. QED  BY <3>1 DEF FilePages
  <2>3. \A p \in PagesOf(h.mem, s) : m[p] = h.mem[p] \/ m[p] = h2.mem[p]
    BY <2>1, <2>2 DEF Behind, Mixture
  <2>. HIDE DEF s
  <2>. QED  BY <1>3, <1>5, <2>1, <2>3, MixtureReads
<1>12. Load(m).mem = m
  BY DEF Load, LoadFrom
<1>13. f = <<Stored(x), ReadFile(Load(m).mem, Stored(x))>>
  BY <1>1, <1>10, <1>11, <1>12
<1>. QED  BY <1>13 DEF FilesOf, Visible

-----------------------------------------------------------------------------
(***************************************************************************)
(* No call takes a page away from the directory.                           *)
(***************************************************************************)
LEMMA LinksStay ==
  ASSUME NEW h, NEW h2, SameDirectory(h, h2)
  PROVE  LinksKept(h, h2)
<1>1. IndexPages(h2) = IndexPages(h) /\ \A a \in IndexPages(h), i \in Indexes : Ptr(h2, a, i) = Ptr(h, a, i)
  BY DEF SameDirectory
<1>. QED  BY <1>1 DEF LinksKept

LEMMA LinksTwice ==
  ASSUME NEW h, NEW h2, NEW h3, LinksKept(h, h2), LinksKept(h2, h3)
  PROVE  LinksKept(h, h3)
<1>1. IndexPages(h) \subseteq IndexPages(h3)
  BY DEF LinksKept
<1>2. ASSUME NEW a \in IndexPages(h), NEW i \in Indexes, Ptr(h, a, i) # Null
      PROVE  Ptr(h3, a, i) = Ptr(h, a, i)
  <2>1. Ptr(h2, a, i) = Ptr(h, a, i) /\ a \in IndexPages(h2)
    BY <1>2 DEF LinksKept
  <2>. QED  BY <1>2, <2>1 DEF LinksKept
<1>. QED  BY <1>1, <1>2 DEF LinksKept

LEMMA LinksOnward ==
  ASSUME NEW h, NEW h2, NEW h3, LinksKept(h, h2), SameDirectory(h2, h3)
  PROVE  LinksKept(h, h3)
<1>1. LinksKept(h2, h3)
  BY LinksStay
<1>. QED  BY <1>1, LinksTwice

\* A call on a file that succeeds,
LEMMA SucceedingLinks ==
  ASSUME NEW who, NEW name, Sound(fs), Succeeding(who, name)
  PROVE  LinksKept(fs, fs')
<1>1. ASSUME NEW u, NEW o, NEW T, NEW d, NEW g, Creation(fs, fs', u, o, T, d, g)
      PROVE  LinksKept(fs, fs')
  <2>. DEFINE a == Added(g, u, o)
  <2>1. /\ Sound(d) /\ Extended(d, g, T) /\ EntryShape(d, o) /\ ~SlotInUse(d.objects, o.slot)
        /\ Occupies(g.mem, o, T) /\ o.user = u /\ LinksKept(fs, d)
    BY <1>1 DEF Creation, Prepared
  <2>2. /\ Apart(a) /\ MirroredBut(a, {Pos(o.slot)}, {u \div EntriesPerPage}) /\ SameDirectory(d, a)
        /\ o.slot \in Slots /\ u \in UserIds
    BY <2>1, AddedSound
  <2>3. fs' = Saved(a, o.slot, u)
    BY <1>1 DEF Creation, Entered, Added
  <2>. HIDE DEF a
  <2>4. SameDirectory(a, fs')
    BY <2>2, <2>3, SavedSound
  <2>5. LinksKept(fs, a)
    BY <2>1, <2>2, LinksOnward
  <2>. QED  BY <2>4, <2>5, LinksOnward
<1>2. ASSUME NEW g, NEW o, NEW new, NEW T, NEW U, Revision(fs, g, o, new, T, U), Settled(g, fs')
      PROVE  LinksKept(fs, fs')
  <2>1. SameDirectory(fs, g) /\ SameDirectory(g, fs')
    BY <1>2, RevisionSwaps DEF Settled
  <2>2. LinksKept(fs, g)
    BY <2>1, LinksStay
  <2>. QED  BY <2>1, <2>2, LinksOnward
<1>3. CASE Creating(who, name) \/ Running(who, name)
  BY <1>1, <1>3 DEF Creating, Running, CreationOf, RunOf
<1>4. CASE Updating(who, name)
  <2>1. PICK len \in Nat : \E holes, v, u, o, new, T, g : UpdatingOf(who, name, len, holes, v, u, o, new, T, g)
    BY <1>4 DEF Updating
  <2>2. PICK holes, v, u, o, new, T, g : UpdatingOf(who, name, len, holes, v, u, o, new, T, g)
    BY <2>1
  <2>3. Revision(fs, g, o, new, T, {u \div EntriesPerPage}) /\ fs' = Saved(g, o.slot, u) /\ u \in Payers(who)
    BY <2>2 DEF UpdatingOf
  <2>4. u \in UserIds
    BY <2>3, PayersAreUsers DEF Sound, Apart, WellFormed, Users
  <2>5. Settled(g, fs')
    BY <2>3, <2>4, RevisionSettles
  <2>. QED  BY <1>2, <2>3, <2>5
<1>5. CASE Rewriting(who, name)
  <2>1. PICK len \in Nat : \E v, o, new, T, g : RewritingOf(who, name, len, v, o, new, T, g)
    BY <1>5 DEF Rewriting
  <2>2. PICK v, o, new, T, g : RewritingOf(who, name, len, v, o, new, T, g)
    BY <2>1
  <2>3. Revision(fs, g, o, new, T, {}) /\ fs' = WriteObjectPage(g, o.slot)
    BY <2>2 DEF RewritingOf
  <2>4. Settled(g, fs')
    BY <2>3, RevisionSettles
  <2>. QED  BY <1>2, <2>3, <2>4
<1>6. CASE Renaming(who, name)
  <2>1. PICK to, o, new, T, g : RenamingOf(who, name, to, o, new, T, g)
    BY <1>6 DEF Renaming
  <2>2. Revision(fs, g, o, new, T, {}) /\ fs' = WriteObjectPage(g, o.slot)
    BY <2>1 DEF RenamingOf
  <2>3. Settled(g, fs')
    BY <2>2, RevisionSettles
  <2>. QED  BY <1>2, <2>2, <2>3
<1>7. CASE Deleting(who, name)
  <2>1. PICK o, g : DeletionOf(who, name, o, g)
    BY <1>7 DEF Deleting
  <2>2. /\ Apart(g) /\ MirroredBut(g, {Pos(o.slot)}, {o.user \div EntriesPerPage}) /\ SameDirectory(fs, g)
        /\ o.slot \in Slots /\ o.user \in UserIds /\ fs' = Saved(g, o.slot, o.user)
    BY <2>1 DEF DeletionOf
  <2>3. SameDirectory(g, fs')
    BY <2>2, SavedSound
  <2>4. LinksKept(fs, g)
    BY <2>2, LinksStay
  <2>. QED  BY <2>3, <2>4, LinksOnward
<1>. QED  BY <1>3, <1>4, <1>5, <1>6, <1>7 DEF Succeeding

\* or any other that does not hurt the volume,
LEMMA FileCallLinks ==
  ASSUME NEW who, NEW name, Sound(fs), FileCall(who, name), ~hurt'
  PROVE  LinksKept(fs, fs')
<1>1. CASE Declining(who, name)
  BY <1>1, DecliningLingers DEF Lingers
<1>2. CASE Succeeding(who, name)
  BY <1>2, SucceedingLinks
<1>3. CASE Patching(who, name)
  <2>1. PICK first \in Nat : \E last \in Nat : \E v, o, S : PatchingOf(who, name, first, last, v, o, S)
    BY <1>3 DEF Patching
  <2>2. PICK last \in Nat : \E v, o, S : PatchingOf(who, name, first, last, v, o, S)
    BY <2>1
  <2>3. PICK v, o, S : PatchingOf(who, name, first, last, v, o, S)
    BY <2>2
  <2>4. SameDirectory(fs, fs')
    BY <2>3 DEF PatchingOf
  <2>. QED  BY <2>4, LinksStay
<1>. QED  BY <1>1, <1>2, <1>3, FileCallDoes

\* and a call on a user.
LEMMA UserCallLinks ==
  ASSUME Sound(fs), UserCall
  PROVE  LinksKept(fs, fs')
<1>0. WellFormed(fs) /\ Apart(fs)
  BY DEF Sound, Apart
<1>1. ASSUME NEW u \in UserIds, NEW g, NEW U, EditedUsers(fs, g), Apart(g), MirroredBut(g, {}, {u \div EntriesPerPage}),
             fs' = WriteUserPage(g, u)
      PROVE  LinksKept(fs, fs')
  <2>1. SameDirectory(g, fs')
    BY <1>1, UserPageWritten
  <2>2. g.root = fs.root /\ g.mem = fs.mem
    BY <1>1 DEF EditedUsers
  <2>3. LinksKept(fs, g)
    BY <2>2 DEF LinksKept, IndexPages, GroupPages, Ptr
  <2>. QED  BY <2>1, <2>3, LinksOnward
<1>2. ASSUME NEW u, NEW max, u \in Users, SetMax(u, max)
      PROVE  LinksKept(fs, fs')
  <2>. DEFINE g == [fs EXCEPT !.users[u].max = max]
  <2>1. u \in UserIds /\ u \in DOMAIN fs.users
    BY <1>0, <1>2 DEF WellFormed, Users
  <2>2. EditedUsers(fs, g) /\ UsersLike(fs, g, {})
    BY <1>0, <2>1 DEF WellFormed, EditedUsers, UsersLike, VolumeFields, UserFields
  <2>3. fs' = WriteUserPage(g, u)
    BY <1>2 DEF SetMax
  <2>. HIDE DEF g
  <2>4. Apart(g) /\ MirroredBut(g, {}, {})
    BY <2>2, UsersEdited
  <2>5. MirroredBut(g, {}, {u \div EntriesPerPage})
    BY <2>4 DEF MirroredBut
  <2>. QED  BY <1>1, <2>1, <2>2, <2>3, <2>4, <2>5
<1>3. ASSUME NEW u, GiveObjectBlock(u) \/ TakeObjectBlock(u)
      PROVE  LinksKept(fs, fs')
  <2>1. u \in Users /\ \E max : SetMax(u, max)
    BY <1>3 DEF GiveObjectBlock, TakeObjectBlock
  <2>. QED  BY <1>2, <2>1
<1>4. ASSUME NEW u, RemoveUser(u)
      PROVE  LinksKept(fs, fs')
  <2>1. PICK g : RemovalOf(u, g)
    BY <1>4, RemoveUserDoes
  <2>. QED  BY <1>1, <2>1 DEF RemovalOf
<1>5. ASSUME NEW u, NEW q, SetQuota(u, q)
      PROVE  LinksKept(fs, fs')
  <2>. DEFINE g == [fs EXCEPT !.users[u].reserved = q]
  <2>1. u \in UserIds /\ u \in DOMAIN fs.users
    BY <1>0, <1>5 DEF WellFormed, SetQuota, Users
  <2>2. EditedUsers(fs, g) /\ UsersLike(fs, g, {})
    BY <1>0, <2>1 DEF WellFormed, EditedUsers, UsersLike, VolumeFields, UserFields
  <2>3. fs' = WriteUserPage(g, u)
    BY <1>5 DEF SetQuota
  <2>. HIDE DEF g
  <2>4. Apart(g) /\ MirroredBut(g, {}, {})
    BY <2>2, UsersEdited
  <2>5. MirroredBut(g, {}, {u \div EntriesPerPage})
    BY <2>4 DEF MirroredBut
  <2>. QED  BY <1>1, <2>1, <2>2, <2>3, <2>4, <2>5
<1>6. ASSUME NEW q, AddUser(q)
      PROVE  LinksKept(fs, fs')
  <2>1. PICK u, g, h : AdditionOf(u, g, h)
    BY <1>6, AddUserDoes
  <2>. DEFINE w == WriteUserPage(h, u)
  <2>2. g.root = fs.root /\ g.mem = fs.mem /\ LinksKept(g, h)
    BY <2>1 DEF AdditionOf, EditedUsers, Grown
  <2>3. LinksKept(fs, h)
    BY <2>2 DEF LinksKept, IndexPages, GroupPages, Ptr
  <2>4. u \in UserIds /\ Apart(h) /\ MirroredBut(h, {}, {u \div EntriesPerPage}) /\ fs' = WriteBitFile(w)
    BY <2>1 DEF AdditionOf
  <2>5. Apart(w) /\ MirroredBut(w, {}, {}) /\ SameDirectory(h, w)
    BY <2>4, UserPageWritten
  <2>. HIDE DEF w
  <2>6. SameDirectory(w, fs')
    BY <2>4, <2>5, BitFileWritten
  <2>7. LinksKept(fs, w)
    BY <2>3, <2>5, LinksOnward
  <2>. QED  BY <2>6, <2>7, LinksOnward
<1>. QED  BY <1>3, <1>4, <1>5, <1>6 DEF UserCall

-----------------------------------------------------------------------------
(***************************************************************************)
(* The disk stays behind the volume.                                       *)
(***************************************************************************)
DiskBehind == ~hurt /\ state = "stored" => Behind(disk, fs)

\* A user's page that has not changed what it holds has not changed its place.
LEMMA UserPageStays ==
  ASSUME NEW h, Sound(h), NEW h2, Sound(h2), LinksKept(h, h2), SameRecords(h, h2),
         NEW u \in DOMAIN h.users, u \in DOMAIN h2.users
  PROVE  Ptr(h2, UserIndex, u \div EntriesPerPage) = Ptr(h, UserIndex, u \div EntriesPerPage)
<1>. DEFINE i == u \div EntriesPerPage
<1>1. i \in Indexes
  <2>1. u \in UserIds
    BY DEF Sound, Apart, WellFormed
  <2>. QED  BY <2>1, UserPart
<1>2. UserIndex \in IndexPages(h) /\ UserPageOK(h2, i)
  BY <1>1 DEF IndexPages, Sound, MirroredBut
<1>3. \A r \in RecordsOn(h2, i) : r \in RecordsOn(h, i)
  BY <1>1 DEF SameRecords
<1>4. CASE Ptr(h, UserIndex, i) # Null
  <2>1. \A j \in Indexes : Ptr(h, UserIndex, j) # Null => Ptr(h2, UserIndex, j) = Ptr(h, UserIndex, j)
    BY <1>2 DEF LinksKept
  <2>. QED  BY <1>1, <1>4, <2>1
<1>5. CASE Ptr(h, UserIndex, i) = Null
  <2>1. RecordsOn(h, i) = {}
    BY <1>5 DEF RecordsOn
  <2>2. ASSUME Ptr(h2, UserIndex, i) # Null
        PROVE  FALSE
    <3>1. \E r \in h2.mem[Ptr(h2, UserIndex, i)].items : r.id = u
      BY <1>2, <2>2 DEF UserPageOK
    <3>2. h2.mem[Ptr(h2, UserIndex, i)].items = RecordsOn(h2, i)
      BY <2>2 DEF RecordsOn
    <3>. QED  BY <1>3, <2>1, <3>1, <3>2
  <2>. QED  BY <1>5, <2>2
<1>. QED  BY <1>4, <1>5

\* It stays behind what a refused call leaves, unless the object file was converted.
LEMMA LingersBehind ==
  ASSUME NEW h, Sound(h), NEW h2, Lingers(h, h2), h2.root = h.root,
         NEW d, Behind(d, h), NEW m, Mixture(m, d, h2.mem)
  PROVE  Behind(m, h2)
<1>1. /\ Carries(h, h2) /\ h2.objects = h.objects /\ FilesKept(h, h2)
      /\ DOMAIN h2.users = DOMAIN h.users /\ SameRecords(h, h2)
  BY DEF Lingers, Carries, UsersLike
<1>2. \A u \in DOMAIN h.users :
        Ptr(h2, UserIndex, u \div EntriesPerPage) = Ptr(h, UserIndex, u \div EntriesPerPage)
  BY <1>1, UserPageStays DEF Carries
<1>. QED  BY <1>1, <1>2, StaysBehind

\* A call on a file,
LEMMA FileCallBehind ==
  ASSUME Sound(fs), Bits(fs), NEW who, NEW name, FileCall(who, name), ~hurt', out' # "ok", LeftDirty,
         state' = "stored", Behind(disk, fs)
  PROVE  Behind(disk', fs')
<1>1. out' # "corrupt" /\ fs'.root = fs.root
  BY DEF LeftDirty
<1>2. Lingers(fs, fs')
  BY <1>1, FileCallLeaves
<1>3. PICK S : disk' = ImagesOf(S)
  BY DEF LeftDirty, Early
<1>4. disk' = Lag(disk, fs', S)
  BY <1>3 DEF ImagesOf, Lag
<1>5. Mixture(disk', disk, fs'.mem)
  BY <1>4, LagMixes
<1>. QED  BY <1>1, <1>2, <1>5, LingersBehind

\* a call on a user's object blocks,
LEMMA SetMaxBehind ==
  ASSUME Sound(fs), Bits(fs), NEW u, GiveObjectBlock(u) \/ TakeObjectBlock(u), UserCall, LeftDirty, Behind(disk, fs)
  PROVE  Behind(disk', fs')
<1>1. u \in Users /\ \E max : SetMax(u, max)
  BY DEF GiveObjectBlock, TakeObjectBlock
<1>2. Sound(fs') /\ Calm(fs, fs') /\ UsersLike(fs, fs', {})
  BY <1>1, SetMaxLeaves
<1>3. LinksKept(fs, fs')
  BY UserCallLinks
<1>4. FilesKept(fs, fs')
  BY <1>2, OtherPages DEF Calm, FilesKept
<1>5. /\ Carries(fs, fs') /\ fs'.objects = fs.objects /\ DOMAIN fs'.users = DOMAIN fs.users
  BY <1>2, <1>3 DEF Carries, Calm, UsersLike
<1>6. \A v \in DOMAIN fs.users :
        Ptr(fs', UserIndex, v \div EntriesPerPage) = Ptr(fs, UserIndex, v \div EntriesPerPage)
  <2>1. \A v \in DOMAIN fs.users : v \div EntriesPerPage \in Indexes
    BY UserPart DEF Sound, Apart, WellFormed
  <2>2. \A i \in Indexes : Ptr(fs', UserIndex, i) = Ptr(fs, UserIndex, i)
    BY <1>2, CalmRefers
  <2>. QED  BY <2>1, <2>2
<1>7. PICK S : disk' = ImagesOf(S)
  BY DEF LeftDirty, Early
<1>8. disk' = Lag(disk, fs', S)
  BY <1>7 DEF ImagesOf, Lag
<1>9. Mixture(disk', disk, fs'.mem)
  BY <1>8, LagMixes
<1>. QED  BY <1>4, <1>5, <1>6, <1>9, StaysBehind

\* any call, with what of it reaches the disk,
LEMMA CallBehind ==
  ASSUME DurableSound, DiskBehind, ~hurt, Call, SoundUntilHurt'
  PROVE  DiskBehind'
<1>. SUFFICES ASSUME ~hurt', state' = "stored"
              PROVE  Behind(disk', fs')
  BY DEF DiskBehind
<1>1. Sound(fs) /\ Bits(fs) /\ Sound(fs')
  BY DEF DurableSound, BitsInUse, Bits, SoundUntilHurt
<1>2. CASE Commits
  BY <1>1, <1>2, MemoryLeads DEF Commits
<1>3. CASE CommitFails
  BY <1>3 DEF CommitFails
<1>4. CASE Committing /\ out' # "ok" /\ LeftDirty
  <2>1. Behind(disk, fs)
    BY <1>4 DEF DiskBehind, LeftDirty
  <2>2. \E who, name : FileCall(who, name)
    BY <1>4 DEF Committing, AddUser, RemoveUser, SetQuota
  <2>. QED  BY <1>1, <1>4, <2>1, <2>2, FileCallBehind
<1>5. CASE (\E u \in Managed : GiveObjectBlock(u) \/ TakeObjectBlock(u)) /\ LeftDirty
  <2>1. Behind(disk, fs)
    <3>1. PICK u : GiveObjectBlock(u) \/ TakeObjectBlock(u)
      BY <1>5
    <3>2. out' = "ok" /\ \E v, max : v \in Users /\ SetMax(v, max)
      BY <3>1 DEF GiveObjectBlock, TakeObjectBlock, SetMax
    <3>. QED  BY <1>5, <3>2 DEF DiskBehind, LeftDirty
  <2>2. UserCall
    BY <1>5 DEF UserCall
  <2>. QED  BY <1>1, <1>5, <2>1, <2>2, SetMaxBehind
<1>. QED  BY <1>2, <1>3, <1>4, <1>5 DEF Call

\* and a mount.
LEMMA MountBehind ==
  ASSUME DurableSound, DiskBehind, ~hurt, CloseAndOpen \/ Crash, DurableSound'
  PROVE  DiskBehind'
<1>. SUFFICES ASSUME ~hurt'
              PROVE  Behind(disk', fs')
  BY DEF DiskBehind
<1>1. Sound(fs')
  BY DEF DurableSound
<1>2. disk' = fs'.mem
  BY DEF CloseAndOpen, Commits, Crash, Load, LoadFrom
<1>. QED  BY <1>1, <1>2, MemoryLeads

LEMMA BehindStep ==
  ASSUME DurableSound, DiskBehind, [DurableNext]_dvars, DurableSound'
  PROVE  DiskBehind'
<1>1. ASSUME ~hurt
      PROVE  SoundUntilHurt
  BY <1>1 DEF DurableSound, SoundUntilHurt, Sound, Apart, WellFormed
<1>2. CASE ~hurt /\ Call
  <2>1. Next
    BY <1>2, DurableCalls
  <2>2. SoundUntilHurt'
    BY <1>1, <1>2, <2>1, NextSound
  <2>. QED  BY <1>2, <2>2, CallBehind
<1>3. CASE ~hurt /\ (CloseAndOpen \/ Crash)
  BY <1>3, MountBehind
<1>4. CASE Abandoned /\ UNCHANGED <<disk, state>>
  BY <1>4 DEF Abandoned, vars, DiskBehind
<1>5. CASE UNCHANGED dvars
  BY <1>5 DEF dvars, DiskBehind
<1>. QED  BY <1>2, <1>3, <1>4, <1>5 DEF DurableNext

LEMMA BehindStart ==
  ASSUME DurableInit
  PROVE  DiskBehind
<1>1. fs = Load(FreshMem) /\ disk = FreshMem
  BY DEF DurableInit, Init
<1>2. Sound(fs)
  BY <1>1, InitSound
<1>3. fs.mem = disk
  BY <1>1 DEF Load, LoadFrom
<1>. QED  BY <1>2, <1>3, MemoryLeads DEF DiskBehind

\* The step that the property is about.
LEMMA SparingStep ==
  ASSUME DurableSound, DiskBehind, [DurableNext]_dvars, DurableSound',
         ~hurt', ~PagelessUser(fs), state = "stored", state' = "stored", fs'.root = fs.root,
         NEW image \in Images, ~SkippedGroup(Load(image))
  PROVE  Others \subseteq FilesOf(Load(image))
<1>1. PICK S \in SUBSET Dirty : image = ImagesOf(S)
  BY DEF Images
<1>2. image = Lag(disk, fs', S)
  BY <1>1 DEF ImagesOf, Lag
<1>3. Mixture(image, disk, fs'.mem)
  BY <1>2, LagMixes
<1>4. Sound(fs')
  BY DEF DurableSound
<1>5. ASSUME ~hurt, LinksKept(fs, fs')
      PROVE  Others \subseteq FilesOf(Load(image))
  <2>1. Behind(disk, fs) /\ Sound(fs)
    BY <1>5 DEF DiskBehind, DurableSound
  <2>2. Carries(fs, fs')
    BY <1>4, <1>5, <2>1 DEF Carries
  <2>3. ASSUME NEW f \in FilesOf(fs) \intersect FilesOf(fs'), Refs(fs.mem, f[1]) = Refs(fs'.mem, f[1])
        PROVE  f \in FilesOf(Load(image))
    BY <1>3, <2>1, <2>2, <2>3, Spared
  <2>. QED  BY <2>3 DEF Others
<1>6. CASE ~hurt /\ Call
  <2>1. Sound(fs)
    BY <1>6 DEF DurableSound
  <2>2. (\E who, name : FileCall(who, name)) \/ UserCall
    BY <1>6 DEF Call, Committing, UserCall
  <2>3. LinksKept(fs, fs')
    BY <2>1, <2>2, FileCallLinks, UserCallLinks
  <2>. QED  BY <1>5, <1>6, <2>3
<1>7. ASSUME fs'.mem = fs.mem
      PROVE  LinksKept(fs, fs')
  BY <1>7 DEF LinksKept, IndexPages, GroupPages, Ptr
<1>8. CASE ~hurt /\ CloseAndOpen
  <2>1. fs'.mem = fs.mem
    BY <1>8 DEF CloseAndOpen, Reopen, Load, LoadFrom
  <2>. QED  BY <1>5, <1>7, <1>8, <2>1
<1>9. CASE ~hurt /\ Crash
  <2>1. Sound(fs) /\ Follows(disk, fs) /\ ~ReloadLoses(fs) /\ fs' = Load(disk)
    BY <1>9 DEF DurableSound, DiskFollows, Crash, ReloadLoses
  <2>2. Visible(fs') = Visible(fs) /\ fs'.mem = disk
    BY <2>1, DiskReloads
  <2>3. ~PagelessUser(fs')
    <3>1. DOMAIN fs'.users = DOMAIN fs.users
      <4>1. \A h : DOMAIN Visible(h).charged = DOMAIN h.users
        BY DEF Visible
      <4>. QED  BY <2>2, <4>1
    <3>2. UserIndex \in Referenced(fs) \ UserPages(fs)
      BY <2>1, OtherPages DEF RootPages
    <3>3. disk[UserIndex] = fs.mem[UserIndex]
      BY <2>1, <3>2 DEF Follows
    <3>. QED  BY <2>2, <3>1, <3>3 DEF PagelessUser, Ptr
  <2>4. Carries(fs', fs') /\ Behind(fs'.mem, fs')
    BY <1>4, MemoryLeads DEF Carries, LinksKept
  <2>5. Mixture(image, fs'.mem, fs'.mem)
    BY <1>3, <2>2
  <2>6. ASSUME NEW f \in FilesOf(fs')
        PROVE  f \in FilesOf(Load(image))
    BY <2>3, <2>4, <2>5, <2>6, Spared
  <2>. QED  BY <2>6 DEF Others
<1>10. CASE Abandoned
  BY <1>10 DEF Abandoned, vars
<1>11. CASE UNCHANGED dvars
  <2>1. ~hurt /\ fs' = fs
    BY <1>11 DEF dvars
  <2>2. LinksKept(fs, fs')
    BY <1>7, <2>1
  <2>. QED  BY <1>5, <2>1, <2>2
<1>. QED  BY <1>6, <1>8, <1>9, <1>10, <1>11 DEF DurableNext

\* The disk stays behind the volume in any run of calls, refused calls, failed commits and crashes.
LEMMA DiskStaysBehind == DurableSpec => [](DurableSound /\ DiskBehind)
<1>1. DurableInit => DurableSound /\ DiskBehind
  BY DurableStart, BehindStart
<1>2. DurableSound /\ DiskBehind /\ [DurableNext]_dvars => (DurableSound /\ DiskBehind)'
  BY DurableStep, BehindStep
<1>. QED  BY <1>1, <1>2, PTL DEF DurableSpec

\* A crash inside a call, with any part of its pages stored, costs no file that the call leaves as
\* it is: but for the conversion of the object file and for what a reload loses in any case.
THEOREM CrashesInsideSpareOthers == DurableSpec => CrashInsideSparesOthers
<1>. DEFINE Step == ~hurt' /\ ~PagelessUser(fs) /\ state = "stored" /\ state' = "stored" /\ fs'.root = fs.root
                      => \A image \in Images :
                           ~SkippedGroup(Load(image)) => Others \subseteq FilesOf(Load(image))
<1>1. ASSUME DurableSound, DiskBehind, [DurableNext]_dvars, DurableSound'
      PROVE  [Step]_dvars
  BY <1>1, SparingStep
<1>2. DurableSpec => [][Step]_dvars
  <2>. HIDE DEF Step
  <2>. QED  BY <1>1, DiskStaysBehind, PTL DEF DurableSpec
<1>. QED  BY <1>2 DEF CrashInsideSparesOthers

-----------------------------------------------------------------------------
(***************************************************************************)
(* What fsck finds.  It takes less for granted than a sound volume: the    *)
(* directory is a tree and each file is somewhere.                         *)
(***************************************************************************)
\* The directory is a tree: each of its pages is pointed at from one place.
DirectoryTree(h) ==
  /\ h.root.page \in Pages /\ h.root.sub \in BOOLEAN
  /\ DirPages(h) \intersect RootPages = {}
  /\ \A a \in IndexPages(h), i \in Indexes : Ptr(h, a, i) # h.root.page
  /\ \A a, b \in IndexPages(h), i, j \in Indexes :
       Ptr(h, a, i) # Null /\ Ptr(h, a, i) = Ptr(h, b, j) => a = b /\ i = j

\* Where a file may be: its pages are ones an allocation can return, shared or free as they may be.
Placeable(h, o) ==
  /\ o.slot \in Nat /\ o.kind \in {"contiguous", "indexed", "subindexed"}
  /\ o.page \in Pages /\ o.pages \in Nat /\ (o.kind = "contiguous" => o.pages > 0)
  /\ PagesOf(h.mem, o) \subseteq Window

\* What fsck takes for granted, also of a volume that a call has left damaged.
Checkable(h) ==
  /\ IsMem(h.mem) /\ h.used \subseteq Pages
  /\ DirectoryTree(h)
  /\ \A p \in DirPages(h) \union RootPages : p < FirstAlloc => p \in h.used
  /\ IsFiniteSet(h.objects)
  /\ \A o \in h.objects : Placeable(h, o)
  /\ \A o, q \in h.objects : o.slot = q.slot => o = q

-----------------------------------------------------------------------------
\* Pages and pointers are numbers.
LEMMA Numbers ==
  /\ \A p \in Pages : p \in Nat /\ p \in Int
  /\ \A i \in Indexes : i \in Nat /\ i \in Int /\ i >= 0
<1>1. Pages \subseteq Nat /\ Indexes \subseteq Nat
  BY Layout
<1>. QED  BY <1>1

\* What pointers lead to are pages,
LEMMA PointedPages ==
  ASSUME NEW h, IsMem(h.mem)
  PROVE  \A p \in Pages, i \in Indexes : Ptr(h, p, i) \in Pages /\ Ptr(h, p, i) \in Int
<1>. SUFFICES ASSUME NEW p \in Pages, NEW i \in Indexes
              PROVE  Ptr(h, p, i) \in Pages /\ Ptr(h, p, i) \in Int
  OBVIOUS
<1>1. Ptr(h, p, i) \in Pages
  BY PointedPage
<1>. QED  BY <1>1, Numbers

\* and so are the pages of the directory.
LEMMA DirectoryInPages ==
  ASSUME NEW h, IsMem(h.mem), h.root.page \in Pages, h.root.sub \in BOOLEAN
  PROVE  IndexPages(h) \subseteq Pages /\ DirPages(h) \subseteq Pages
<1>1. \A p \in Pages, i \in Indexes : Ptr(h, p, i) \in Pages
  BY PointedPages
<1>2. UserIndex \in Pages
  BY Layout
<1>3. GroupPages(h) \subseteq Pages
  BY <1>1 DEF GroupPages
<1>4. IndexPages(h) \subseteq Pages
  BY <1>2, <1>3 DEF IndexPages
<1>. QED  BY <1>1, <1>4 DEF DirPages

-----------------------------------------------------------------------------
\* One step further along a path, by pointer i to page p.
Step(path, i, p) == Append(Append(path, i), p)

\* A path of the walk: whole numbers, one at least.
IsPath(s) == s \in Seq(Int) /\ s # <<>>

\* A step leads from a path to a path, and to the page it goes to.
LEMMA StepOn ==
  ASSUME NEW s, IsPath(s), NEW i \in Int, NEW p \in Int, NEW t, t = Step(s, i, p)
  PROVE  IsPath(t) /\ Len(t) = Len(s) + 2 /\ Last(t) = p /\ t[1] = s[1]
<1>. DEFINE m == Append(s, i)
<1>1. s \in Seq(Int) /\ Len(s) \in Nat \ {0} /\ t = Append(m, p)
  BY LenProperties, EmptySeq DEF Step, IsPath
<1>2. m \in Seq(Int) /\ Len(m) = Len(s) + 1 /\ \A j \in 1 .. Len(s) : m[j] = s[j]
  BY <1>1, AppendProperties
<1>. HIDE DEF m
<1>3. /\ t \in Seq(Int) /\ t # <<>> /\ Len(t) = Len(m) + 1
      /\ \A j \in 1 .. Len(m) : t[j] = m[j]
      /\ t[Len(m) + 1] = p
  BY <1>1, <1>2, AppendProperties
<1>4. t[1] = m[1] /\ m[1] = s[1]
  BY <1>1, <1>2, <1>3
<1>. QED  BY <1>1, <1>2, <1>3, <1>4 DEF Last, IsPath

\* A path tells how it was come by.
LEMMA StepApart ==
  ASSUME NEW s, IsPath(s), NEW i \in Int, NEW p \in Int,
         NEW t, IsPath(t), NEW j \in Int, NEW q \in Int, Step(s, i, p) = Step(t, j, q)
  PROVE  s = t /\ i = j /\ p = q
<1>1. s \in Seq(Int) /\ t \in Seq(Int)
  BY DEF IsPath
<1>2. Append(s, i) \in Seq(Int) /\ Append(t, j) \in Seq(Int)
  BY <1>1, AppendProperties
<1>3. Append(Append(s, i), p) = Append(Append(t, j), q)
  BY DEF Step
<1>4. Append(s, i) = Append(t, j) /\ p = q
  <2>. DEFINE a == Append(s, i)
              b == Append(t, j)
  <2>1. a \in Seq(Int) /\ b \in Seq(Int) /\ Append(a, p) = Append(b, q)
    BY <1>2, <1>3
  <2>. HIDE DEF a, b
  <2>2. a = b /\ p = q
    BY ONLY <2>1, p \in Int, q \in Int, AppendInjective
  <2>. QED  BY <2>2 DEF a, b
<1>5. s = t /\ i = j
  BY ONLY <1>1, <1>4, i \in Int, j \in Int, AppendInjective
<1>. QED  BY <1>4, <1>5

\* A walk starts with a path of two.
LEMMA Start ==
  ASSUME NEW a \in Int, NEW p \in Int, NEW s, s = <<a, p>>
  PROVE  IsPath(s) /\ Len(s) = 2 /\ Last(s) = p /\ s[1] = a
BY DEF IsPath, Last

\* The paths that lead on through one page,
LEMMA ThroughOn ==
  ASSUME NEW h, NEW s, NEW x
  PROVE  x \in Through(h, s) <=>
           \E i \in Indexes : Ptr(h, Last(s), i) # Null /\ x = Step(s, i, Ptr(h, Last(s), i))
BY DEF Through, Step

\* and through two.
LEMMA BothOn ==
  ASSUME NEW h, NEW s, NEW x
  PROVE  x \in ThroughBoth(h, s) <=>
           x \in Through(h, s) \/ \E q \in Through(h, s) : x \in Through(h, q)
BY DEF ThroughBoth

-----------------------------------------------------------------------------
\* The path on which the walk meets the reference r of a file.
PathTo(h, o, r) ==
  LET top == <<o.slot, o.page>>
      g   == r[1][1]
      i   == r[1][2]
  IN IF o.kind = "contiguous" THEN <<o.slot, i, r[2]>>
     ELSE IF r[1] = TopRole THEN top
     ELSE IF o.kind = "indexed" THEN Step(top, i, r[2])
     ELSE IF ~IsData(r[1]) THEN Step(top, g, r[2])
     ELSE Step(Step(top, g, Ptr(h, o.page, g)), i, r[2])

\* The walk takes one path to each reference of the file.
PathsMatch(h, o) ==
  /\ \A r \in Refs(h.mem, o) :
       LET s == PathTo(h, o, r) IN s \in FileWalk(h, o) /\ Last(s) = r[2] /\ s[1] = o.slot
  /\ \A r, s \in Refs(h.mem, o) : PathTo(h, o, r) = PathTo(h, o, s) => r = s
  /\ \A s \in FileWalk(h, o) : \E r \in Refs(h.mem, o) : s = PathTo(h, o, r)

\* So it does for a run,
LEMMA RunPaths ==
  ASSUME NEW h, NEW o, o.kind = "contiguous", o.slot \in Nat, o.page \in Pages, o.page # Null, o.pages \in Nat
  PROVE  PathsMatch(h, o)
<1>. DEFINE I == 0 .. o.pages - 1
            ref(i)  == <<<<0, i>>, o.page + i>>
            path(i) == <<o.slot, i, o.page + i>>
<1>1. o.page \in Int
  BY Numbers
<1>2. \A x : x \in Refs(h.mem, o) <=> \E i \in I : x = ref(i)
  BY <1>1, RunRefs
<1>3. \A x : x \in FileWalk(h, o) <=> \E i \in I : x = path(i)
  BY DEF FileWalk
<1>4. \A i \in I : PathTo(h, o, ref(i)) = path(i)
  BY DEF PathTo
<1>5. \A i \in I : Last(path(i)) = ref(i)[2] /\ path(i)[1] = o.slot
  BY DEF Last
<1>6. \A i, j \in I : path(i) = path(j) => i = j
  OBVIOUS
<1>. HIDE DEF I, ref, path
<1>7. ASSUME NEW r \in Refs(h.mem, o)
      PROVE  PathTo(h, o, r) \in FileWalk(h, o) /\ Last(PathTo(h, o, r)) = r[2] /\ PathTo(h, o, r)[1] = o.slot
  BY <1>2, <1>3, <1>4, <1>5
<1>8. ASSUME NEW r \in Refs(h.mem, o), NEW s \in Refs(h.mem, o), PathTo(h, o, r) = PathTo(h, o, s)
      PROVE  r = s
  BY <1>2, <1>4, <1>6, <1>8
<1>9. ASSUME NEW s \in FileWalk(h, o)
      PROVE  \E r \in Refs(h.mem, o) : s = PathTo(h, o, r)
  BY <1>2, <1>3, <1>4
<1>. QED  BY <1>7, <1>8, <1>9 DEF PathsMatch

\* for an index page and what it points at,
LEMMA IndexedPaths ==
  ASSUME NEW h, IsMem(h.mem), NEW o, o.kind = "indexed", o.slot \in Nat, o.page \in Pages, o.page # Null
  PROVE  PathsMatch(h, o)
<1>. DEFINE top     == <<o.slot, o.page>>
            ptr(i)  == Ptr(h, o.page, i)
            first   == <<TopRole, o.page>>
            ref(i)  == <<<<0, i>>, ptr(i)>>
            path(i) == Step(top, i, ptr(i))
            I       == {i \in Indexes : ptr(i) # Null}
<1>1. IsPath(top) /\ Len(top) = 2 /\ Last(top) = o.page /\ top[1] = o.slot
  <2>1. o.slot \in Int /\ o.page \in Int /\ top = <<o.slot, o.page>>
    BY Numbers
  <2>. HIDE DEF top
  <2>. QED  BY <2>1, Start
<1>2. \A i \in Indexes : i \in Int /\ i >= 0 /\ ptr(i) \in Int
  BY PointedPages, Numbers
<1>3. \A x : x \in Refs(h.mem, o) <=> x = first \/ \E i \in I : x = ref(i)
  <2>1. Refs(h.mem, o) = {first} \union Pointed(h.mem, o.page, 0)
    BY DEF Refs
  <2>2. \A x : x \in Pointed(h.mem, o.page, 0) <=> \E i \in I : x = ref(i)
    BY PointedAt DEF Ptr
  <2>. QED  BY <2>1, <2>2
<1>4. \A x : x \in FileWalk(h, o) <=> x = top \/ \E i \in I : x = path(i)
  <2>1. FileWalk(h, o) = {top} \union Through(h, top)
    BY DEF FileWalk
  <2>. HIDE DEF top
  <2>2. \A x : x \in Through(h, top) <=> \E i \in I : x = path(i)
    BY <1>1, ThroughOn
  <2>. QED  BY <2>1, <2>2
<1>5. PathTo(h, o, first) = top
  BY DEF PathTo
<1>6. \A i \in I : PathTo(h, o, ref(i)) = path(i)
  <2>. TAKE i \in I
  <2>1. ref(i)[1] # TopRole /\ ref(i)[1][2] = i /\ ref(i)[2] = ptr(i)
    BY DEF TopRole
  <2>. HIDE DEF ref, top
  <2>2. PathTo(h, o, ref(i)) = Step(top, i, ptr(i))
    BY <2>1 DEF PathTo, top
  <2>. QED  BY <2>2
<1>. HIDE DEF top
<1>7. ASSUME NEW k \in I
      PROVE  Len(path(k)) = 4 /\ Last(path(k)) = ptr(k) /\ path(k)[1] = o.slot
  <2>. DEFINE x == path(k)
              q == ptr(k)
  <2>1. k \in Int /\ q \in Int /\ x = Step(top, k, q)
    BY <1>2
  <2>. HIDE DEF x, q, ptr, path, I
  <2>2. Len(x) = Len(top) + 2 /\ Last(x) = q /\ x[1] = top[1]
    <3>1. IsPath(top)
      BY <1>1
    <3>2. k \in Int /\ q \in Int
      BY <2>1
    <3>3. x = Step(top, k, q)
      BY <2>1
    <3>. QED  BY ONLY <3>1, <3>2, <3>3, StepOn
  <2>3. Len(x) = 4 /\ Last(x) = q /\ x[1] = o.slot
    BY <1>1, <2>2
  <2>. QED  BY <2>3 DEF x, q
<1>8. ASSUME NEW i \in I, NEW j \in I, path(i) = path(j)
      PROVE  i = j
  <2>. HIDE DEF ptr
  <2>1. i \in Int /\ ptr(i) \in Int /\ j \in Int /\ ptr(j) \in Int
    BY <1>2
  <2>. QED  BY <1>1, <1>8, <2>1, StepApart
<1>9. \A i \in I : path(i) # top
  BY <1>1, <1>7
<1>10. first[2] = o.page /\ \A i \in I : ref(i)[2] = ptr(i)
  OBVIOUS
<1>. HIDE DEF I, first, ref, path, ptr
<1>11. ASSUME NEW r \in Refs(h.mem, o)
       PROVE  PathTo(h, o, r) \in FileWalk(h, o) /\ Last(PathTo(h, o, r)) = r[2] /\ PathTo(h, o, r)[1] = o.slot
  BY <1>1, <1>3, <1>4, <1>5, <1>6, <1>7, <1>10
<1>12. ASSUME NEW r \in Refs(h.mem, o), NEW s \in Refs(h.mem, o), PathTo(h, o, r) = PathTo(h, o, s)
       PROVE  r = s
  BY <1>3, <1>5, <1>6, <1>8, <1>9, <1>12
<1>13. ASSUME NEW s \in FileWalk(h, o)
       PROVE  \E r \in Refs(h.mem, o) : s = PathTo(h, o, r)
  BY <1>3, <1>4, <1>5, <1>6
<1>. QED  BY <1>11, <1>12, <1>13 DEF PathsMatch

\* for a page, the group index pages it points at, and what those point at,
LEMMA SubindexedPaths ==
  ASSUME NEW h, IsMem(h.mem), NEW o, o.kind = "subindexed", o.slot \in Nat, o.page \in Pages, o.page # Null
  PROVE  PathsMatch(h, o)
<1>. DEFINE top       == <<o.slot, o.page>>
            first     == <<TopRole, o.page>>
            grp(g)    == Ptr(h, o.page, g)
            ptr(g, i) == Ptr(h, grp(g), i)
            G         == {g \in Indexes : grp(g) # Null}
            D         == {x \in Indexes \X Indexes : grp(x[1]) # Null /\ ptr(x[1], x[2]) # Null}
            gref(g)   == <<GroupRole(g), grp(g)>>
            gpath(g)  == Step(top, g, grp(g))
            ref(x)    == <<x, ptr(x[1], x[2])>>
            path(x)   == Step(gpath(x[1]), x[2], ptr(x[1], x[2]))
<1>1. IsPath(top) /\ Len(top) = 2 /\ Last(top) = o.page /\ top[1] = o.slot
  <2>1. o.slot \in Int /\ o.page \in Int /\ top = <<o.slot, o.page>>
    BY Numbers
  <2>. HIDE DEF top
  <2>. QED  BY <2>1, Start
<1>2. /\ \A g \in Indexes : g \in Int /\ g >= 0 /\ grp(g) \in Pages /\ grp(g) \in Int
      /\ \A g, i \in Indexes : ptr(g, i) \in Int
  <2>1. \A p \in Pages, i \in Indexes : Ptr(h, p, i) \in Pages /\ Ptr(h, p, i) \in Int
    BY PointedPages
  <2>2. \A g \in Indexes : g \in Int /\ g >= 0
    BY Numbers
  <2>. QED  BY <2>1, <2>2
<1>3. \A x : x \in Refs(h.mem, o) <=> \/ x = first
                                      \/ \E g \in G : x = gref(g)
                                      \/ \E y \in D : x = ref(y)
  <2>. DEFINE groups == {<<GroupRole(g), h.mem[o.page].ptrs[g]>> : g \in {g \in Indexes : h.mem[o.page].ptrs[g] # Null}}
              below  == UNION {Pointed(h.mem, r[2], r[1][1]) : r \in groups}
  <2>1. Refs(h.mem, o) = {first} \union groups \union below
    BY DEF Refs
  <2>2. \A x : x \in groups <=> \E g \in G : x = gref(g)
    BY DEF Ptr
  <2>3. \A x : x \in below <=> \E r \in groups : x \in Pointed(h.mem, r[2], r[1][1])
    OBVIOUS
  <2>4. \A g : gref(g)[1][1] = g /\ gref(g)[2] = grp(g)
    BY DEF GroupRole
  <2>5. \A x, p, g : x \in Pointed(h.mem, p, g) <=> \E i \in Indexes : Ptr(h, p, i) # Null /\ x = <<<<g, i>>, Ptr(h, p, i)>>
    BY PointedAt DEF Ptr
  <2>. HIDE DEF groups, below, gref
  <2>6. \A x : x \in below <=> \E g \in G : x \in Pointed(h.mem, grp(g), g)
    BY <2>2, <2>3, <2>4
  <2>7. ASSUME NEW x
        PROVE  x \in below <=> \E y \in D : x = ref(y)
    <3>1. ASSUME x \in below
          PROVE  \E y \in D : x = ref(y)
      <4>1. PICK g \in G : x \in Pointed(h.mem, grp(g), g)
        BY <2>6, <3>1
      <4>2. PICK i \in Indexes : ptr(g, i) # Null /\ x = <<<<g, i>>, ptr(g, i)>>
        BY <2>5, <4>1
      <4>. DEFINE y == <<g, i>>
      <4>3. y[1] = g /\ y[2] = i /\ y \in Indexes \X Indexes
        OBVIOUS
      <4>. HIDE DEF y
      <4>4. y \in D
        BY <4>2, <4>3
      <4>5. x = ref(y)
        BY <4>2, <4>3 DEF y
      <4>. QED  BY <4>4, <4>5
    <3>2. ASSUME NEW y \in D, x = ref(y)
          PROVE  x \in below
      <4>1. y[1] \in G /\ y[2] \in Indexes /\ y = <<y[1], y[2]>> /\ ptr(y[1], y[2]) # Null
        OBVIOUS
      <4>2. x \in Pointed(h.mem, grp(y[1]), y[1])
        BY <2>5, <3>2, <4>1
      <4>. QED  BY <2>6, <4>1, <4>2
    <3>. QED  BY <3>1, <3>2
  <2>. HIDE DEF G, D, first, ref
  <2>. QED  BY <2>1, <2>2, <2>7
<1>4. /\ \A g \in G : g \in Indexes
      /\ \A x \in D : x[1] \in Indexes /\ x[2] \in Indexes /\ x = <<x[1], x[2]>> /\ x[1] \in G /\ x \in Indexes \X Indexes
  OBVIOUS
<1>5. PathTo(h, o, first) = top
  BY DEF PathTo
<1>6. \A g \in G : PathTo(h, o, gref(g)) = gpath(g)
  <2>. TAKE g \in G
  <2>1. /\ gref(g)[1] # TopRole /\ ~IsData(gref(g)[1]) /\ gref(g)[1][1] = g /\ gref(g)[2] = grp(g)
    BY <1>2, <1>4 DEF TopRole, GroupRole, IsData
  <2>. HIDE DEF gref, grp
  <2>. QED  BY <2>1 DEF PathTo
<1>7. \A x \in D : PathTo(h, o, ref(x)) = path(x)
  <2>. TAKE x \in D
  <2>1. ref(x)[1] = x /\ ref(x)[2] = ptr(x[1], x[2])
    OBVIOUS
  <2>2. x # TopRole /\ IsData(x)
    BY <1>2, <1>4 DEF TopRole, IsData
  <2>. HIDE DEF ref, D
  <2>. QED  BY <2>1, <2>2 DEF PathTo
<1>8. ASSUME NEW g \in G
      PROVE  IsPath(gpath(g)) /\ Len(gpath(g)) = 4 /\ Last(gpath(g)) = grp(g) /\ gpath(g)[1] = o.slot
  <2>1. g \in Int /\ grp(g) \in Int
    BY <1>2, <1>4
  <2>. HIDE DEF top, grp
  <2>2. /\ IsPath(gpath(g)) /\ Len(gpath(g)) = Len(top) + 2 /\ Last(gpath(g)) = grp(g)
        /\ gpath(g)[1] = top[1]
    BY <1>1, <2>1, StepOn
  <2>. HIDE DEF gpath
  <2>. QED  BY <1>1, <2>2
<1>9. ASSUME NEW x \in D
      PROVE  Len(path(x)) = 6 /\ Last(path(x)) = ptr(x[1], x[2]) /\ path(x)[1] = o.slot
  <2>. DEFINE p == ptr(x[1], x[2])
              s == gpath(x[1])
              i == x[2]
              t == path(x)
  <2>1. i \in Int /\ p \in Int
    BY <1>2, <1>4
  <2>2. IsPath(s) /\ Len(s) = 4 /\ s[1] = o.slot
    BY <1>4, <1>8
  <2>3. t = Step(s, i, p)
    OBVIOUS
  <2>. HIDE DEF s, p, i, t
  <2>4. Len(t) = Len(s) + 2 /\ Last(t) = p /\ t[1] = s[1]
    BY <2>1, <2>2, <2>3, StepOn
  <2>5. Len(t) = 6 /\ Last(t) = p /\ t[1] = o.slot
    BY <2>2, <2>4
  <2>. HIDE DEF path, ptr
  <2>. QED  BY <2>5 DEF t, p
<1>10. ASSUME NEW g \in G, NEW k \in G, gpath(g) = gpath(k)
       PROVE  g = k
  <2>1. g \in Int /\ grp(g) \in Int /\ k \in Int /\ grp(k) \in Int
    BY <1>2, <1>4
  <2>. HIDE DEF top, grp
  <2>. QED  BY <1>1, <1>10, <2>1, StepApart
<1>11. \A x, y \in D : path(x) = path(y) => x = y
  <2>. SUFFICES ASSUME NEW x \in D, NEW y \in D, path(x) = path(y)
                PROVE  x = y
    OBVIOUS
  <2>. HIDE DEF gpath, ptr, D, G
  <2>1. gpath(x[1]) = gpath(y[1]) /\ x[2] = y[2]
    <3>. DEFINE p == ptr(x[1], x[2])
                q == ptr(y[1], y[2])
                s == gpath(x[1])
                t == gpath(y[1])
    <3>1. x[2] \in Int /\ p \in Int /\ y[2] \in Int /\ q \in Int
      BY <1>2, <1>4
    <3>2. IsPath(s) /\ IsPath(t)
      BY <1>4, <1>8
    <3>3. Step(s, x[2], p) = Step(t, y[2], q)
      OBVIOUS
    <3>. HIDE DEF s, t, p, q
    <3>4. s = t /\ x[2] = y[2]
      BY <3>1, <3>2, <3>3, StepApart
    <3>. QED  BY <3>4 DEF s, t
  <2>2. x[1] = y[1]
    BY <1>4, <1>10, <2>1
  <2>. QED  BY <1>4, <2>1, <2>2
<1>12. \A x : x \in FileWalk(h, o) <=> \/ x = top
                                       \/ \E g \in G : x = gpath(g)
                                       \/ \E y \in D : x = path(y)
  <2>1. FileWalk(h, o) = {top} \union ThroughBoth(h, top)
    BY DEF FileWalk
  <2>. HIDE DEF top
  <2>2. \A x : x \in Through(h, top) <=> \E g \in G : x = gpath(g)
    BY <1>1, ThroughOn
  <2>3. \A x : x \in ThroughBoth(h, top) <=>
          \/ \E g \in G : x = gpath(g)
          \/ \E g \in G : x \in Through(h, gpath(g))
    BY <2>2, BothOn
  <2>4. \A x : \A g \in G : x \in Through(h, gpath(g)) <=>
                 \E i \in Indexes : ptr(g, i) # Null /\ x = Step(gpath(g), i, ptr(g, i))
    <3>. HIDE DEF gpath
    <3>. QED  BY <1>8, ThroughOn
  <2>. HIDE DEF gpath, ptr, grp
  <2>5. ASSUME NEW x
        PROVE  (\E g \in G : x \in Through(h, gpath(g))) <=> \E y \in D : x = path(y)
    <3>1. ASSUME NEW g \in G, x \in Through(h, gpath(g))
          PROVE  \E y \in D : x = path(y)
      <4>1. PICK i \in Indexes : ptr(g, i) # Null /\ x = Step(gpath(g), i, ptr(g, i))
        BY <2>4, <3>1
      <4>. DEFINE y == <<g, i>>
      <4>2. y[1] = g /\ y[2] = i /\ y \in Indexes \X Indexes
        OBVIOUS
      <4>. HIDE DEF y
      <4>3. y \in D /\ x = path(y)
        BY <4>1, <4>2
      <4>. QED  BY <4>3
    <3>2. ASSUME NEW y \in D, x = path(y)
          PROVE  \E g \in G : x \in Through(h, gpath(g))
      <4>1. y[1] \in G /\ y[2] \in Indexes /\ ptr(y[1], y[2]) # Null
        OBVIOUS
      <4>. QED  BY <2>4, <3>2, <4>1
    <3>. QED  BY <3>1, <3>2
  <2>. HIDE DEF G, D, path
  <2>. QED  BY <2>1, <2>3, <2>5
<1>13. /\ \A g \in G : gpath(g) # top
       /\ \A x \in D : path(x) # top /\ \A g \in G : path(x) # gpath(g)
  <2>. HIDE DEF top, gpath, path, G, D
  <2>. QED  BY <1>1, <1>8, <1>9
<1>14. /\ first[2] = o.page
       /\ \A g \in G : gref(g)[2] = grp(g)
       /\ \A x \in D : ref(x)[2] = ptr(x[1], x[2])
  OBVIOUS
<1>. HIDE DEF top, first, grp, ptr, G, D, gref, gpath, ref, path
<1>15. ASSUME NEW r \in Refs(h.mem, o)
       PROVE  PathTo(h, o, r) \in FileWalk(h, o) /\ Last(PathTo(h, o, r)) = r[2] /\ PathTo(h, o, r)[1] = o.slot
  <2>1. CASE r = first
    BY <1>1, <1>5, <1>12, <1>14, <2>1
  <2>2. CASE \E g \in G : r = gref(g)
    BY <1>6, <1>8, <1>12, <1>14, <2>2
  <2>3. CASE \E y \in D : r = ref(y)
    BY <1>7, <1>9, <1>12, <1>14, <2>3
  <2>. QED  BY <1>3, <2>1, <2>2, <2>3
<1>16. ASSUME NEW r \in Refs(h.mem, o), NEW s \in Refs(h.mem, o), PathTo(h, o, r) = PathTo(h, o, s)
       PROVE  r = s
  <2>1. CASE r = first
    BY <1>3, <1>5, <1>6, <1>7, <1>13, <1>16, <2>1
  <2>2. CASE \E g \in G : r = gref(g)
    BY <1>3, <1>5, <1>6, <1>7, <1>10, <1>13, <1>16, <2>2
  <2>3. CASE \E y \in D : r = ref(y)
    BY <1>3, <1>5, <1>6, <1>7, <1>11, <1>13, <1>16, <2>3
  <2>. QED  BY <1>3, <2>1, <2>2, <2>3
<1>17. ASSUME NEW s \in FileWalk(h, o)
       PROVE  \E r \in Refs(h.mem, o) : s = PathTo(h, o, r)
  BY <1>3, <1>5, <1>6, <1>7, <1>12
<1>. QED  BY <1>15, <1>16, <1>17 DEF PathsMatch

\* and so for every file of a volume that can be checked.
LEMMA FilePaths ==
  ASSUME NEW h, Checkable(h), NEW o \in h.objects
  PROVE  PathsMatch(h, o) /\ o.page # Null /\ o.page \in PagesOf(h.mem, o)
<1>1. IsMem(h.mem) /\ Placeable(h, o)
  BY DEF Checkable
<1>2. /\ o.slot \in Nat /\ o.kind \in {"contiguous", "indexed", "subindexed"} /\ o.page \in Pages
      /\ o.pages \in Nat /\ (o.kind = "contiguous" => o.pages > 0) /\ PagesOf(h.mem, o) \subseteq Window
  BY <1>1 DEF Placeable
<1>3. o.page \in PagesOf(h.mem, o)
  <2>1. CASE o.kind = "contiguous"
    <3>1. 0 \in 0 .. o.pages - 1 /\ o.page \in Int /\ o.page + 0 = o.page
      BY <1>2, <2>1, Numbers
    <3>. DEFINE r == <<<<0, 0>>, o.page + 0>>
    <3>2. r \in Refs(h.mem, o)
      BY <1>2, <2>1, <3>1, RunRefs
    <3>3. r[2] = o.page
      BY <3>1
    <3>. QED  BY <3>2, <3>3 DEF PagesOf
  <2>2. CASE o.kind # "contiguous"
    <3>1. <<TopRole, o.page>> \in Refs(h.mem, o)
      BY <1>2, <2>2 DEF Refs
    <3>2. <<TopRole, o.page>>[2] = o.page
      OBVIOUS
    <3>. QED  BY <3>1, <3>2 DEF PagesOf
  <2>. QED  BY <2>1, <2>2
<1>4. o.page # Null
  BY <1>2, <1>3, WindowType DEF Window, Null
<1>. QED  BY <1>1, <1>2, <1>3, <1>4, RunPaths, IndexedPaths, SubindexedPaths

\* The paths of all files.
FileWalks(h) == UNION {FileWalk(h, o) : o \in h.objects}

\* One path to each reference of a file, and no other.
PathsOf(h, f) ==
  /\ f \in [FileRefs(h) -> FileWalks(h)]
  /\ \A x, y \in FileRefs(h) : f[x] = f[y] => x = y
  /\ \A s \in FileWalks(h) : \E x \in FileRefs(h) : f[x] = s
  /\ \A x \in FileRefs(h) : Last(f[x]) = x[3] /\ f[x][1] \in Nat

\* What a role or a page can be.
Bound == -1 .. PtrsPerPage + TotalPages

\* The references of a file are roles, of finitely many, and pages.
LEMMA RefShape ==
  ASSUME NEW h, IsMem(h.mem), NEW o, Placeable(h, o), NEW r \in Refs(h.mem, o)
  PROVE  r \in (Bound \X Bound) \X Pages
<1>1. /\ o.kind \in {"contiguous", "indexed", "subindexed"} /\ o.page \in Pages /\ o.page \in Nat
      /\ o.pages \in Nat /\ PagesOf(h.mem, o) \subseteq Window
  BY Layout DEF Placeable
<1>2. r[2] \in Pages
  BY <1>1, WindowType DEF PagesOf
<1>3. -1 \in Bound /\ 0 \in Bound /\ Indexes \subseteq Bound
  BY Layout DEF Bound, Indexes
<1>4. \A p, g, x : g \in Bound /\ x \in Pointed(h.mem, p, g) => x = <<x[1], x[2]>> /\ x[1] \in Bound \X Bound
  <2>. SUFFICES ASSUME NEW p, NEW g, NEW x, g \in Bound, x \in Pointed(h.mem, p, g)
                PROVE  x = <<x[1], x[2]>> /\ x[1] \in Bound \X Bound
    OBVIOUS
  <2>1. PICK i \in Indexes : x = <<<<g, i>>, h.mem[p].ptrs[i]>>
    BY PointedAt
  <2>. QED  BY <1>3, <2>1
<1>5. r = <<r[1], r[2]>> /\ r[1] \in Bound \X Bound
  <2>1. CASE o.kind = "contiguous"
    <3>1. PICK i \in 0 .. o.pages - 1 : r = <<<<0, i>>, o.page + i>>
      BY <1>1, <2>1, RunRefs, Layout
    <3>2. o.page + i \in Pages
      BY <1>2, <3>1
    <3>3. i \in Bound
      BY <1>1, <3>2, Layout DEF Bound, Pages
    <3>. QED  BY <1>3, <3>1, <3>3
  <2>2. CASE o.kind = "indexed"
    <3>1. Refs(h.mem, o) = {<<TopRole, o.page>>} \union Pointed(h.mem, o.page, 0)
      BY <2>2 DEF Refs
    <3>2. CASE r = <<TopRole, o.page>>
      BY <1>3, <3>2 DEF TopRole
    <3>. QED  BY <1>3, <1>4, <3>1, <3>2
  <2>3. CASE o.kind = "subindexed"
    <3>. DEFINE groups == {<<GroupRole(g), h.mem[o.page].ptrs[g]>> : g \in {g \in Indexes : h.mem[o.page].ptrs[g] # Null}}
                below  == UNION {Pointed(h.mem, s[2], s[1][1]) : s \in groups}
    <3>1. Refs(h.mem, o) = {<<TopRole, o.page>>} \union groups \union below
      BY <2>3 DEF Refs
    <3>2. \A s \in groups : \E g \in Indexes : s = <<<<g, -1>>, h.mem[o.page].ptrs[g]>>
      BY DEF GroupRole
    <3>3. \A s \in groups : s = <<s[1], s[2]>> /\ s[1] \in Bound \X Bound /\ s[1][1] \in Bound
      BY <1>3, <3>2
    <3>. HIDE DEF groups
    <3>4. r \in below => r = <<r[1], r[2]>> /\ r[1] \in Bound \X Bound
      BY <1>4, <3>3
    <3>5. CASE r = <<TopRole, o.page>>
      BY <1>3, <3>5 DEF TopRole
    <3>. HIDE DEF below
    <3>. QED  BY <3>1, <3>3, <3>4, <3>5
  <2>. QED  BY <1>1, <2>1, <2>2, <2>3
<1>. QED  BY <1>2, <1>5

\* So they are finitely many.
LEMMA FileRefsFinite ==
  ASSUME NEW h, Checkable(h)
  PROVE  IsFiniteSet(FileRefs(h))
<1>. DEFINE S == {o.slot : o \in h.objects}
            R == (Bound \X Bound) \X Pages
            f == [o \in h.objects |-> o.slot]
            g == [y \in S \X R |-> <<y[1], y[2][1], y[2][2]>>]
            T == {g[y] : y \in S \X R}
<1>1. IsFiniteSet(S)
  <2>1. f \in Surjection(h.objects, S)
    BY DEF Surjection
  <2>. QED  BY <2>1, FS_Surjection DEF Checkable
<1>2. IsFiniteSet(Bound) /\ IsFiniteSet(Pages)
  BY Layout, WindowType, FS_Interval DEF Bound
<1>3. IsFiniteSet(R)
  <2>1. IsFiniteSet(Bound \X Bound)
    BY <1>2, FS_Product
  <2>. QED  BY <1>2, <2>1, FS_Product
<1>. HIDE DEF S, R
<1>4. IsFiniteSet(S \X R)
  BY <1>1, <1>3, FS_Product
<1>5. g \in Surjection(S \X R, T)
  BY DEF Surjection
<1>6. IsFiniteSet(T)
  <2>. HIDE DEF g, T
  <2>. QED  BY <1>4, <1>5, FS_Surjection
<1>7. ASSUME NEW x \in FileRefs(h)
      PROVE  x \in T
  <2>1. PICK o \in h.objects : \E r \in Refs(h.mem, o) : x = <<o.slot, r[1], r[2]>>
    BY FileLinks
  <2>2. PICK r \in Refs(h.mem, o) : x = <<o.slot, r[1], r[2]>>
    BY <2>1
  <2>3. r \in R
    BY RefShape DEF Checkable, R
  <2>. DEFINE y == <<o.slot, r>>
  <2>4. y \in S \X R /\ y[1] = o.slot /\ y[2] = r
    BY <2>3 DEF S
  <2>. HIDE DEF y
  <2>5. g[y] = x
    BY <2>2, <2>4
  <2>. QED  BY <2>4, <2>5
<1>8. FileRefs(h) \subseteq T
  BY <1>7
<1>. QED  BY <1>6, <1>8, FS_Subset

\* The paths the files are walked on, matched with their references.
LEMMA FileWalksMatch ==
  ASSUME NEW h, Checkable(h)
  PROVE  \E f : PathsOf(h, f)
<1>. DEFINE owner(s) == CHOOSE o \in h.objects : o.slot = s
            ref(x)   == <<x[2], x[3]>>
            f        == [x \in FileRefs(h) |-> PathTo(h, owner(x[1]), ref(x))]
<1>1. \A o \in h.objects : owner(o.slot) = o
  BY DEF Checkable
<1>2. \A o \in h.objects : PathsMatch(h, o) /\ o.slot \in Nat
  BY FilePaths DEF Checkable, Placeable
<1>. HIDE DEF owner
<1>3. ASSUME NEW x \in FileRefs(h)
      PROVE  \E o \in h.objects : \E r \in Refs(h.mem, o) :
               x[1] = o.slot /\ x[3] = r[2] /\ x = <<o.slot, r[1], r[2]>> /\ f[x] = PathTo(h, o, r)
  <2>1. PICK o \in h.objects : \E r \in Refs(h.mem, o) : x = <<o.slot, r[1], r[2]>>
    BY FileLinks
  <2>2. PICK r \in Refs(h.mem, o) : x = <<o.slot, r[1], r[2]>>
    BY <2>1
  <2>3. r = <<r[1], r[2]>>
    BY RefShape DEF Checkable
  <2>4. ref(x) = r /\ x[1] = o.slot /\ x[3] = r[2]
    BY <2>2, <2>3
  <2>. HIDE DEF ref
  <2>5. f[x] = PathTo(h, o, r)
    BY <1>1, <2>4
  <2>. QED  BY <2>2, <2>4, <2>5
<1>4. ASSUME NEW o \in h.objects, NEW r \in Refs(h.mem, o)
      PROVE  \E x \in FileRefs(h) : x[3] = r[2] /\ f[x] = PathTo(h, o, r)
  <2>. DEFINE x == <<o.slot, r[1], r[2]>>
  <2>1. x \in FileRefs(h)
    BY FileLinks
  <2>2. r = <<r[1], r[2]>>
    BY RefShape DEF Checkable
  <2>3. ref(x) = r /\ x[1] = o.slot /\ x[3] = r[2]
    BY <2>2
  <2>. HIDE DEF ref, x
  <2>4. f[x] = PathTo(h, o, r)
    BY <1>1, <2>1, <2>3
  <2>. QED  BY <2>1, <2>3, <2>4
<1>5. DOMAIN f = FileRefs(h) /\ f = [x \in FileRefs(h) |-> f[x]]
  OBVIOUS
<1>. HIDE DEF f
<1>6. ASSUME NEW x \in FileRefs(h)
      PROVE  f[x] \in FileWalks(h) /\ Last(f[x]) = x[3] /\ f[x][1] \in Nat
  <2>1. PICK o \in h.objects : \E r \in Refs(h.mem, o) : x[3] = r[2] /\ f[x] = PathTo(h, o, r)
    BY <1>3
  <2>2. PICK r \in Refs(h.mem, o) : x[3] = r[2] /\ f[x] = PathTo(h, o, r)
    BY <2>1
  <2>. DEFINE s == PathTo(h, o, r)
  <2>3. s \in FileWalk(h, o) /\ Last(s) = r[2] /\ s[1] = o.slot
    BY <1>2 DEF PathsMatch
  <2>4. s \in FileWalks(h)
    BY <2>3 DEF FileWalks
  <2>. HIDE DEF s
  <2>5. f[x] = s
    BY <2>2 DEF s
  <2>. QED  BY <1>2, <2>2, <2>3, <2>4, <2>5
<1>7. ASSUME NEW x \in FileRefs(h), NEW y \in FileRefs(h), f[x] = f[y]
      PROVE  x = y
  <2>1. PICK o \in h.objects : \E r \in Refs(h.mem, o) : x = <<o.slot, r[1], r[2]>> /\ f[x] = PathTo(h, o, r)
    BY <1>3
  <2>2. PICK r \in Refs(h.mem, o) : x = <<o.slot, r[1], r[2]>> /\ f[x] = PathTo(h, o, r)
    BY <2>1
  <2>3. PICK q \in h.objects : \E s \in Refs(h.mem, q) : y = <<q.slot, s[1], s[2]>> /\ f[y] = PathTo(h, q, s)
    BY <1>3
  <2>4. PICK s \in Refs(h.mem, q) : y = <<q.slot, s[1], s[2]>> /\ f[y] = PathTo(h, q, s)
    BY <2>3
  <2>5. PathTo(h, o, r) = PathTo(h, q, s)
    BY <1>7, <2>2, <2>4
  <2>6. PathTo(h, o, r)[1] = o.slot /\ PathTo(h, q, s)[1] = q.slot
    BY <1>2 DEF PathsMatch
  <2>7. o = q
    BY <2>5, <2>6 DEF Checkable
  <2>8. r = s
    BY <1>2, <2>5, <2>7 DEF PathsMatch
  <2>. QED  BY <2>2, <2>4, <2>7, <2>8
<1>8. ASSUME NEW s \in FileWalks(h)
      PROVE  \E x \in FileRefs(h) : f[x] = s
  <2>1. PICK o \in h.objects : s \in FileWalk(h, o)
    BY DEF FileWalks
  <2>2. PICK r \in Refs(h.mem, o) : s = PathTo(h, o, r)
    BY <1>2, <2>1 DEF PathsMatch
  <2>. QED  BY <1>4, <2>2
<1>9. f \in [FileRefs(h) -> FileWalks(h)]
  BY <1>5, <1>6
<1>. QED  BY <1>6, <1>7, <1>8, <1>9 DEF PathsOf

-----------------------------------------------------------------------------
\* The paths to the index pages of the directory.
ObjectTrail(h) == <<-1, h.root.page>>
UserTrail      == <<-2, UserIndex>>
BitTrail       == <<-3, BitPage>>

Trails(h) == {ObjectTrail(h), UserTrail} \union (IF h.root.sub THEN Through(h, ObjectTrail(h)) ELSE {})

\* They lead to the index pages, each to another one.
LEMMA TrailsLead ==
  ASSUME NEW h, Checkable(h)
  PROVE  /\ \A t \in Trails(h) : IsPath(t) /\ t[1] < 0 /\ t[1] \in Int /\ Last(t) \in IndexPages(h)
         /\ \A a \in IndexPages(h) : \E t \in Trails(h) : Last(t) = a
         /\ \A t, s \in Trails(h) : Last(t) = Last(s) => t = s
<1>. DEFINE top    == ObjectTrail(h)
            users  == UserTrail
            ptr(g) == Ptr(h, h.root.page, g)
            G      == {g \in Indexes : ptr(g) # Null}
            trail(g) == Step(top, g, ptr(g))
<1>1. IsMem(h.mem) /\ DirectoryTree(h)
  BY DEF Checkable
<1>2. /\ h.root.page \in Pages /\ h.root.page \in Int /\ h.root.sub \in BOOLEAN /\ UserIndex \in Int
      /\ h.root.page # UserIndex
  <2>1. h.root.page \in DirPages(h) /\ UserIndex \in RootPages
    BY DEF DirPages, RootPages
  <2>2. UserIndex \in Pages /\ h.root.page \in Pages /\ h.root.sub \in BOOLEAN
    BY <1>1, Layout DEF DirectoryTree
  <2>3. h.root.page # UserIndex
    BY <1>1, <2>1 DEF DirectoryTree
  <2>. QED  BY <2>2, <2>3, Numbers
<1>3. \A i \in Indexes : ptr(i) \in Int /\ i \in Int
  BY <1>1, <1>2, PointedPages, Numbers
<1>4. /\ IsPath(top) /\ Last(top) = h.root.page /\ top[1] = -1
      /\ IsPath(users) /\ Last(users) = UserIndex /\ users[1] = -2
  BY <1>2, Start DEF ObjectTrail, UserTrail
<1>. HIDE DEF top, users
<1>5. \A x : x \in Through(h, top) <=> \E g \in G : x = trail(g)
  BY <1>4, ThroughOn
<1>6. \A g \in G : IsPath(trail(g)) /\ Last(trail(g)) = ptr(g) /\ trail(g)[1] = -1
  <2>. HIDE DEF ptr
  <2>. QED  BY <1>3, <1>4, StepOn
<1>7. CASE ~h.root.sub
  <2>1. Trails(h) = {top, users}
    BY <1>7 DEF Trails, top, users
  <2>2. IndexPages(h) = {h.root.page, UserIndex}
    BY <1>7 DEF IndexPages, GroupPages
  <2>. QED  BY <1>2, <1>4, <2>1, <2>2
<1>8. CASE h.root.sub
  <2>1. \A x : x \in Trails(h) <=> x = top \/ x = users \/ \E g \in G : x = trail(g)
    <3>1. Trails(h) = {top, users} \union Through(h, top)
      BY <1>8 DEF Trails, top, users
    <3>. HIDE DEF trail
    <3>. QED  BY <1>5, <3>1
  <2>2. \A a : a \in IndexPages(h) <=> a = h.root.page \/ a = UserIndex \/ \E g \in G : a = ptr(g)
    BY <1>8 DEF IndexPages, GroupPages
  <2>3. \A g, k \in G : ptr(g) = ptr(k) => g = k
    BY <1>1 DEF DirectoryTree, IndexPages
  <2>4. \A g \in G : ptr(g) # h.root.page /\ ptr(g) # UserIndex
    <3>. TAKE g \in G
    <3>1. h.root.page \in IndexPages(h) /\ UserIndex \in RootPages
      BY DEF IndexPages, RootPages
    <3>2. ptr(g) \in DirPages(h)
      BY <3>1 DEF DirPages
    <3>. QED  BY <1>1, <3>1, <3>2 DEF DirectoryTree
  <2>. HIDE DEF G, trail, ptr
  <2>5. ASSUME NEW t \in Trails(h)
        PROVE  IsPath(t) /\ t[1] < 0 /\ t[1] \in Int /\ Last(t) \in IndexPages(h)
    BY <1>4, <1>6, <2>1, <2>2
  <2>6. ASSUME NEW a \in IndexPages(h)
        PROVE  \E t \in Trails(h) : Last(t) = a
    BY <1>4, <1>6, <2>1, <2>2
  <2>7. ASSUME NEW t \in Trails(h), NEW s \in Trails(h), Last(t) = Last(s)
        PROVE  t = s
    <3>1. CASE t = top
      BY <1>2, <1>4, <1>6, <2>1, <2>4, <2>7, <3>1
    <3>2. CASE t = users
      BY <1>2, <1>4, <1>6, <2>1, <2>4, <2>7, <3>2
    <3>3. CASE \E g \in G : t = trail(g)
      BY <1>4, <1>6, <2>1, <2>3, <2>4, <2>7, <3>3
    <3>. QED  BY <2>1, <3>1, <3>2, <3>3
  <2>. QED  BY <2>5, <2>6, <2>7
<1>. QED  BY <1>2, <1>7, <1>8

\* The walk of the directory is those paths one step further, and the pages it starts from.
LEMMA SystemWalkOn ==
  ASSUME NEW h, h.root.sub \in BOOLEAN, NEW x
  PROVE  x \in SystemWalk(h) <=> \/ x \in {ObjectTrail(h), UserTrail, BitTrail}
                                 \/ \E t \in Trails(h) : x \in Through(h, t)
<1>. DEFINE top   == ObjectTrail(h)
            below == IF h.root.sub THEN ThroughBoth(h, top) ELSE Through(h, top)
<1>1. SystemWalk(h) = {top, UserTrail, BitTrail} \union Through(h, UserTrail) \union below
  BY DEF SystemWalk, ObjectTrail, UserTrail, BitTrail
<1>2. CASE ~h.root.sub
  <2>1. below = Through(h, top) /\ Trails(h) = {top, UserTrail}
    BY <1>2 DEF Trails
  <2>. HIDE DEF below, top
  <2>. QED  BY <1>1, <2>1 DEF top
<1>3. CASE h.root.sub
  <2>1. below = ThroughBoth(h, top) /\ Trails(h) = {top, UserTrail} \union Through(h, top)
    BY <1>3 DEF Trails
  <2>2. x \in below <=> x \in Through(h, top) \/ \E q \in Through(h, top) : x \in Through(h, q)
    BY <2>1, BothOn
  <2>. HIDE DEF below, top
  <2>3. (\E t \in Trails(h) : x \in Through(h, t)) <=>
          \/ x \in Through(h, top) \/ x \in Through(h, UserTrail)
          \/ \E q \in Through(h, top) : x \in Through(h, q)
    BY <2>1
  <2>. QED  BY <1>1, <2>2, <2>3 DEF top
<1>. QED  BY <1>2, <1>3

\* It leads to each page of the directory, and to the user index and the bit file, once.
LEMMA SystemPaths ==
  ASSUME NEW h, Checkable(h), NEW D, D = DirPages(h) \union {UserIndex, BitPage}
  PROVE  /\ \A x \in SystemWalk(h) : x[1] < 0 /\ x[1] \in Int /\ Last(x) \in D
         /\ \A p \in D : \E x \in SystemWalk(h) : Last(x) = p
         /\ \A x, y \in SystemWalk(h) : Last(x) = Last(y) => x = y
<1>. DEFINE top  == ObjectTrail(h)
            W    == SystemWalk(h)
            ptr(a, i) == Ptr(h, a, i)
            starts == {top, UserTrail, BitTrail}
            Steps(x) == \E t \in Trails(h), i \in Indexes :
                          ptr(Last(t), i) # Null /\ x = Step(t, i, ptr(Last(t), i))
<1>1. IsMem(h.mem) /\ DirectoryTree(h)
  BY DEF Checkable
<1>2. /\ h.root.page \in Int /\ h.root.sub \in BOOLEAN /\ UserIndex \in Int /\ BitPage \in Int
      /\ UserIndex # BitPage /\ IndexPages(h) \subseteq Pages
      /\ h.root.page \in DirPages(h) /\ UserIndex \notin DirPages(h) /\ BitPage \notin DirPages(h)
  <2>1. h.root.page \in DirPages(h)
    BY DEF DirPages
  <2>2. UserIndex \in RootPages /\ BitPage \in RootPages
    BY DEF RootPages
  <2>3. h.root.page \in Pages /\ h.root.sub \in BOOLEAN
    BY <1>1 DEF DirectoryTree
  <2>4. IndexPages(h) \subseteq Pages
    BY <1>1, <2>3, DirectoryInPages
  <2>5. UserIndex \in Pages /\ BitPage \in Pages /\ UserIndex # BitPage
    BY Layout
  <2>6. h.root.page \in Int /\ UserIndex \in Int /\ BitPage \in Int
    BY <2>3, <2>5, Numbers
  <2>7. UserIndex \notin DirPages(h) /\ BitPage \notin DirPages(h)
    BY <1>1, <2>2 DEF DirectoryTree
  <2>. QED  BY <2>1, <2>3, <2>4, <2>5, <2>6, <2>7
<1>3. /\ top[1] = -1 /\ Last(top) = h.root.page
      /\ UserTrail[1] = -2 /\ Last(UserTrail) = UserIndex
      /\ BitTrail[1] = -3 /\ Last(BitTrail) = BitPage
  BY <1>2, Start DEF ObjectTrail, UserTrail, BitTrail
<1>4. /\ \A t \in Trails(h) : IsPath(t) /\ t[1] < 0 /\ t[1] \in Int /\ Last(t) \in IndexPages(h)
      /\ \A a \in IndexPages(h) : \E t \in Trails(h) : Last(t) = a
      /\ \A t, s \in Trails(h) : Last(t) = Last(s) => t = s
  BY TrailsLead
<1>5. \A a \in IndexPages(h), i \in Indexes : ptr(a, i) \in Int /\ i \in Int
  BY <1>1, <1>2, PointedPages, Numbers
<1>6. \A x : x \in W <=> x \in starts \/ Steps(x)
  <2>. TAKE x
  <2>. HIDE DEF W, starts, Steps
  <2>1. x \in W <=> x \in starts \/ \E t \in Trails(h) : x \in Through(h, t)
    BY <1>2, SystemWalkOn DEF W, starts
  <2>2. (\E t \in Trails(h) : x \in Through(h, t)) <=> Steps(x)
    BY ThroughOn DEF Steps
  <2>. QED  BY <2>1, <2>2
<1>7. \A a \in IndexPages(h), i \in Indexes : ptr(a, i) # Null =>
        ptr(a, i) \in DirPages(h) /\ ptr(a, i) # h.root.page
  BY <1>1 DEF DirectoryTree, DirPages
<1>8. \A a, b \in IndexPages(h), i, j \in Indexes :
        ptr(a, i) # Null /\ ptr(a, i) = ptr(b, j) => a = b /\ i = j
  BY <1>1 DEF DirectoryTree
<1>9. \A p \in DirPages(h) : p = h.root.page \/ \E a \in IndexPages(h), i \in Indexes : p = ptr(a, i) /\ p # Null
  BY DEF DirPages
<1>. HIDE DEF top, W, ptr
<1>10. ASSUME NEW x, Steps(x)
       PROVE  \E t \in Trails(h), i \in Indexes :
                /\ ptr(Last(t), i) # Null /\ x = Step(t, i, ptr(Last(t), i))
                /\ x[1] < 0 /\ x[1] \in Int /\ Last(x) = ptr(Last(t), i) /\ Last(t) \in IndexPages(h)
  <2>1. PICK t \in Trails(h), i \in Indexes : ptr(Last(t), i) # Null /\ x = Step(t, i, ptr(Last(t), i))
    BY <1>10
  <2>. DEFINE p == ptr(Last(t), i)
  <2>2. IsPath(t) /\ t[1] < 0 /\ t[1] \in Int /\ Last(t) \in IndexPages(h) /\ i \in Int /\ p \in Int
    BY <1>4, <1>5
  <2>. HIDE DEF p
  <2>3. x = Step(t, i, p)
    BY <2>1 DEF p
  <2>4. Last(x) = p /\ x[1] = t[1]
    BY <2>2, <2>3, StepOn
  <2>. QED  BY <2>1, <2>2, <2>4 DEF p
<1>. HIDE DEF Steps
<1>11. ASSUME NEW x \in W
       PROVE  x[1] < 0 /\ x[1] \in Int /\ Last(x) \in D
  <2>1. CASE x \in starts
    BY <1>2, <1>3, <2>1
  <2>2. CASE Steps(x)
    BY <1>7, <1>10, <2>2
  <2>. QED  BY <1>6, <2>1, <2>2
<1>12. ASSUME NEW p \in D
       PROVE  \E x \in W : Last(x) = p
  <2>1. CASE p \in {h.root.page, UserIndex, BitPage}
    BY <1>3, <1>6, <2>1
  <2>2. ASSUME NEW a \in IndexPages(h), NEW i \in Indexes, p = ptr(a, i), p # Null
        PROVE  \E x \in W : Last(x) = p
    <3>1. PICK t \in Trails(h) : Last(t) = a
      BY <1>4
    <3>. DEFINE x == Step(t, i, p)
    <3>2. Steps(x)
      BY <2>2, <3>1 DEF Steps
    <3>3. IsPath(t) /\ i \in Int /\ p \in Int
      BY <1>4, <1>5, <2>2
    <3>4. Last(x) = p
      BY <3>3, StepOn
    <3>. HIDE DEF x
    <3>. QED  BY <1>6, <3>2, <3>4
  <2>. QED  BY <1>9, <2>1, <2>2
<1>13. ASSUME NEW x \in W, NEW y \in W, Last(x) = Last(y)
       PROVE  x = y
  <2>1. CASE x \in starts /\ y \in starts
    BY <1>2, <1>3, <1>13, <2>1
  <2>2. ASSUME NEW u, NEW v, u \in starts, Steps(v)
        PROVE  Last(u) # Last(v)
    BY <1>2, <1>3, <1>7, <1>10, <2>2
  <2>3. CASE Steps(x) /\ Steps(y)
    <3>1. PICK t \in Trails(h), i \in Indexes :
                /\ ptr(Last(t), i) # Null /\ x = Step(t, i, ptr(Last(t), i))
                /\ Last(x) = ptr(Last(t), i) /\ Last(t) \in IndexPages(h)
      BY <1>10, <2>3
    <3>2. PICK s \in Trails(h), j \in Indexes :
                /\ ptr(Last(s), j) # Null /\ y = Step(s, j, ptr(Last(s), j))
                /\ Last(y) = ptr(Last(s), j) /\ Last(s) \in IndexPages(h)
      BY <1>10, <2>3
    <3>3. Last(t) = Last(s) /\ i = j
      <4>1. Last(t) \in IndexPages(h) /\ Last(s) \in IndexPages(h) /\ ptr(Last(t), i) # Null
        BY <3>1, <3>2
      <4>2. ptr(Last(t), i) = ptr(Last(s), j)
        BY <1>13, <3>1, <3>2
      <4>. QED  BY ONLY <1>8, <4>1, <4>2, i \in Indexes, j \in Indexes
    <3>4. t = s
      BY <1>4, <3>3
    <3>. QED  BY <3>1, <3>2, <3>3, <3>4
  <2>. QED  BY <1>6, <1>13, <2>1, <2>2, <2>3
<1>. QED  BY <1>11, <1>12, <1>13 DEF W

-----------------------------------------------------------------------------
\* In a directory that is a tree no page is linked from two places.
LEMMA DirectoryLinkedOnce ==
  ASSUME NEW h, DirectoryTree(h)
  PROVE  OnePlaceEach(DirectoryRefs(h))
<1>. SUFFICES ASSUME NEW r \in DirectoryRefs(h), NEW s \in DirectoryRefs(h), r[3] = s[3]
              PROVE  r = s
  BY DEF OnePlaceEach
<1>1. \A x \in DirectoryRefs(h) :
        \/ x = <<Null, 0, h.root.page>>
        \/ \E a \in IndexPages(h), i \in Indexes : Ptr(h, a, i) # Null /\ x = <<a, i, Ptr(h, a, i)>>
  <2>. TAKE x \in DirectoryRefs(h)
  <2>1. CASE \E a \in IndexPages(h) : x \in LinksOf(h, a) /\ x[3] # Null
    <3>1. PICK a \in IndexPages(h) : x \in LinksOf(h, a) /\ x[3] # Null
      BY <2>1
    <3>2. PICK i \in Indexes : x = <<a, i, Ptr(h, a, i)>>
      BY <3>1, LinksAt
    <3>. QED  BY <3>1, <3>2
  <2>. QED  BY <2>1, DirectoryLinks DEF DirectoryTree
<1>2. /\ \A a \in IndexPages(h), i \in Indexes : Ptr(h, a, i) # h.root.page
      /\ \A a, b \in IndexPages(h), i, j \in Indexes :
           Ptr(h, a, i) # Null /\ Ptr(h, a, i) = Ptr(h, b, j) => a = b /\ i = j
  BY DEF DirectoryTree
<1>3. CASE r = <<Null, 0, h.root.page>> /\ s = <<Null, 0, h.root.page>>
  BY <1>3
<1>4. ASSUME NEW a \in IndexPages(h), NEW i \in Indexes, r = <<a, i, Ptr(h, a, i)>>, Ptr(h, a, i) # Null,
             NEW b \in IndexPages(h), NEW j \in Indexes, s = <<b, j, Ptr(h, b, j)>>
      PROVE  r = s
  <2>1. Ptr(h, a, i) = Ptr(h, b, j)
    BY <1>4
  <2>2. a = b /\ i = j
    BY <1>2, <1>4, <2>1
  <2>. QED  BY <1>4, <2>2
<1>5. ASSUME NEW a \in IndexPages(h), NEW i \in Indexes, NEW x, x = <<a, i, Ptr(h, a, i)>>
      PROVE  x[3] # h.root.page
  BY <1>2, <1>5
<1>6. <<Null, 0, h.root.page>>[3] = h.root.page
  OBVIOUS
<1>7. CASE r = <<Null, 0, h.root.page>>
  BY <1>1, <1>5, <1>6, <1>7
<1>8. CASE s = <<Null, 0, h.root.page>>
  BY <1>1, <1>5, <1>6, <1>8
<1>. QED  BY <1>1, <1>4, <1>7, <1>8

-----------------------------------------------------------------------------
\* A count above one is two of a kind.
LEMMA TwoOrMore ==
  ASSUME NEW S, IsFiniteSet(S)
  PROVE  /\ Cardinality(S) \in Nat /\ (Cardinality(S) = 0 <=> S = {})
         /\ Cardinality(S) > 1 <=> \E x, y \in S : x # y
<1>1. Cardinality(S) \in Nat /\ (Cardinality(S) = 0 <=> S = {}) /\ (Cardinality(S) = 1 <=> \E x : S = {x})
  BY FS_CardinalityType, FS_EmptySet, FS_Singleton
<1>2. (\E x, y \in S : x # y) <=> ~(S = {} \/ \E x : S = {x})
  OBVIOUS
<1>3. Cardinality(S) > 1 <=> ~(Cardinality(S) = 0 \/ Cardinality(S) = 1)
  BY <1>1
<1>4. Cardinality(S) > 1 <=> ~(S = {} \/ \E x : S = {x})
  BY <1>1, <1>3
<1>. QED  BY <1>1, <1>2, <1>4

\* All the walk takes, and where it leads.
Walk(h) == SystemWalk(h) \union FileWalks(h)

\* The ones counted that lead to page p.
Paths(h, p) == {r \in Counted(h) : Last(r) = p}

\* The number fsck has for a page is that of the paths to it.
LEMMA WalkFinite ==
  ASSUME NEW h, Checkable(h)
  PROVE  /\ \A p : IsFiniteSet(Paths(h, p))
         /\ \A p \in Pages : RefCount(h)[p] = Cardinality(Paths(h, p))
         /\ \A r : r \in Counted(h) <=> r \in Walk(h) /\ FirstAlloc <= Last(r) /\ Last(r) < TotalPages
<1>. DEFINE S == SystemWalk(h)
            D == DirPages(h) \union {UserIndex, BitPage}
            g == [x \in S |-> Last(x)]
<1>1. D \subseteq Pages
  <2>1. h.root.page \in Pages /\ h.root.sub \in BOOLEAN /\ IsMem(h.mem)
    BY DEF Checkable, DirectoryTree
  <2>2. DirPages(h) \subseteq Pages
    BY <2>1, DirectoryInPages
  <2>. QED  BY <2>2, Layout
<1>2. (\A x \in S : Last(x) \in D) /\ \A x, y \in S : Last(x) = Last(y) => x = y
  BY SystemPaths
<1>. HIDE DEF S, D
<1>3. g \in Injection(S, Pages)
  BY <1>1, <1>2 DEF Injection, IsInjective
<1>4. IsFiniteSet(S)
  BY <1>3, WindowType, FS_Injection
<1>5. IsFiniteSet(FileWalks(h))
  <2>1. PICK f : PathsOf(h, f)
    BY FileWalksMatch
  <2>. QED  BY <2>1, FileRefsFinite, Matched DEF PathsOf
<1>6. IsFiniteSet(Walk(h))
  BY <1>4, <1>5, FS_Union DEF Walk, S
<1>7. \A r : r \in Counted(h) <=> r \in Walk(h) /\ FirstAlloc <= Last(r) /\ Last(r) < TotalPages
  BY DEF Counted, Walk, FileWalks
<1>8. \A p : Paths(h, p) \subseteq Walk(h)
  BY <1>7 DEF Paths
<1>9. \A p : IsFiniteSet(Paths(h, p))
  BY <1>6, <1>8, FS_Subset
<1>10. \A p \in Pages : RefCount(h)[p] = Cardinality(Paths(h, p))
  BY DEF RefCount, Paths
<1>. QED  BY <1>7, <1>9, <1>10

\* It leads to what is referred to, above the reserved pages.
LEMMA WalkLeads ==
  ASSUME NEW h, Checkable(h)
  PROVE  /\ Referenced(h) = DirPages(h) \union FilePages(h) \union RootPages
         /\ Referenced(h) \subseteq Pages /\ FilePages(h) \subseteq Window
         /\ \A p \in Pages : FirstAlloc <= p => (Paths(h, p) # {} <=> p \in Referenced(h))
         /\ \A p \in Pages : p < FirstAlloc => Paths(h, p) = {}
         /\ \A r \in Walk(h) : Last(r) \in Pages
<1>. DEFINE D == DirPages(h) \union {UserIndex, BitPage}
            F == FilePages(h)
<1>1. Referenced(h) = DirPages(h) \union FilePages(h) \union RootPages
  BY ReferencedPages DEF Checkable, DirectoryTree
<1>2. PICK f : PathsOf(h, f)
  BY FileWalksMatch
<1>3. {x[3] : x \in FileRefs(h)} = F
  BY FileLinkPages
<1>4. F \subseteq Window
  BY DEF FilePages, Checkable, Placeable
<1>5. /\ \A x \in SystemWalk(h) : Last(x) \in D
      /\ \A p \in D : \E x \in SystemWalk(h) : Last(x) = p
  BY SystemPaths
<1>6. DirPages(h) \subseteq Pages
  <2>1. h.root.page \in Pages /\ h.root.sub \in BOOLEAN /\ IsMem(h.mem)
    BY DEF Checkable, DirectoryTree
  <2>. QED  BY <2>1, DirectoryInPages
<1>7. RootPages = {MasterPage, UserIndex, BitPage} /\ RootPages \subseteq Pages /\ MasterPage = 0
  BY Layout DEF RootPages
<1>8. \A p : (\E r \in FileWalks(h) : Last(r) = p) <=> p \in F
  <2>. TAKE p
  <2>1. ASSUME NEW r \in FileWalks(h), Last(r) = p
        PROVE  p \in F
    <3>1. PICK x \in FileRefs(h) : f[x] = r
      BY <1>2 DEF PathsOf
    <3>2. x[3] = p
      BY <1>2, <2>1, <3>1 DEF PathsOf
    <3>. QED  BY <1>3, <3>2
  <2>2. ASSUME p \in F
        PROVE  \E r \in FileWalks(h) : Last(r) = p
    <3>1. PICK x \in FileRefs(h) : x[3] = p
      BY <1>3, <2>2
    <3>. QED  BY <1>2, <3>1 DEF PathsOf
  <2>. QED  BY <2>1, <2>2
<1>. HIDE DEF D, F
<1>9. \A p : (\E r \in Walk(h) : Last(r) = p) <=> p \in D \union F
  BY <1>5, <1>8 DEF Walk
<1>10. \A p : \A r : r \in Paths(h, p) <=> r \in Walk(h) /\ Last(r) = p /\ FirstAlloc <= p /\ p < TotalPages
  BY WalkFinite DEF Paths
<1>11. \A p \in Pages : p < TotalPages /\ p \in Int /\ FirstAlloc \in Int /\ FirstAlloc > 0
  BY BitMapAssumption DEF Pages
<1>12. ASSUME NEW p \in Pages, FirstAlloc <= p
       PROVE  Paths(h, p) # {} <=> p \in Referenced(h)
  <2>1. Paths(h, p) # {} <=> \E r \in Walk(h) : Last(r) = p
    BY <1>10, <1>11, <1>12
  <2>2. p # MasterPage
    BY <1>7, <1>11, <1>12
  <2>3. p \in D \union F <=> p \in Referenced(h)
    BY <1>1, <1>7, <2>2 DEF D, F
  <2>. QED  BY <1>9, <2>1, <2>3
<1>13. ASSUME NEW p \in Pages, p < FirstAlloc
       PROVE  Paths(h, p) = {}
  BY <1>10, <1>11, <1>13
<1>14. D \subseteq Pages
  <2>1. UserIndex \in Pages /\ BitPage \in Pages
    BY Layout
  <2>. QED  BY <1>6, <2>1 DEF D
<1>15. \A r \in Walk(h) : Last(r) \in Pages
  <2>1. F \subseteq Pages
    BY <1>4, WindowType
  <2>. QED  BY <1>9, <1>14, <2>1
<1>. QED  BY <1>1, <1>4, <1>6, <1>7, <1>12, <1>13, <1>15, WindowType DEF F

\* No two paths lead to one page exactly when every page is linked from one place.
LEMMA WalkOnce ==
  ASSUME NEW h, Checkable(h)
  PROVE  (\A r, s \in Counted(h) : Last(r) = Last(s) => r = s) <=> LinkedOnce(h)
<1>. DEFINE D == DirPages(h) \union {UserIndex, BitPage}
            F == FilePages(h)
            S == SystemWalk(h)
            X == FileWalks(h)
<1>1. PICK f : PathsOf(h, f)
  BY FileWalksMatch
<1>2. /\ f \in [FileRefs(h) -> X]
      /\ \A x, y \in FileRefs(h) : f[x] = f[y] => x = y
      /\ \A s \in X : \E x \in FileRefs(h) : f[x] = s
      /\ \A x \in FileRefs(h) : Last(f[x]) = x[3] /\ f[x][1] \in Nat
  BY <1>1 DEF PathsOf
<1>3. /\ \A x \in S : x[1] < 0 /\ x[1] \in Int /\ Last(x) \in D
      /\ \A p \in D : \E x \in S : Last(x) = p
      /\ \A x, y \in S : Last(x) = Last(y) => x = y
  BY SystemPaths
<1>4. {x[3] : x \in FileRefs(h)} = F
  BY FileLinkPages
<1>5. F \subseteq Window /\ Window \subseteq Pages /\ 0 \notin Window
  BY WalkLeads, WindowType
<1>6. \A p \in Window : FirstAlloc <= p /\ p < TotalPages
  BY <1>5, BitMapAssumption DEF Window, Pages
<1>7. LinkedOnce(h) <=> OnePlaceEach(FileRefs(h)) /\ F \intersect D = {}
  <2>1. OnePlaceEach(DirectoryRefs(h))
    BY DirectoryLinkedOnce DEF Checkable
  <2>2. {x[3] : x \in DirectoryRefs(h)} = DirPages(h)
    BY DirectoryPages DEF Checkable, DirectoryTree
  <2>3. F \intersect (DirPages(h) \union RootPages) = F \intersect D
    BY <1>5, Layout DEF RootPages
  <2>. HIDE DEF F, D
  <2>. QED  BY <1>4, <2>1, <2>2, <2>3 DEF LinkedOnce
<1>8. \A r : r \in Counted(h) <=> (r \in S \/ r \in X) /\ FirstAlloc <= Last(r) /\ Last(r) < TotalPages
  BY WalkFinite DEF Walk
<1>9. \A r \in X : r[1] \in Nat /\ Last(r) \in F
  <2>. TAKE r \in X
  <2>1. PICK x \in FileRefs(h) : f[x] = r
    BY <1>2
  <2>2. x[3] \in F
    BY <1>4
  <2>. QED  BY <1>2, <2>1, <2>2
<1>10. \A r \in S : \A s \in X : r # s
  BY <1>3, <1>9
<1>. HIDE DEF D, F, S, X
<1>11. ASSUME OnePlaceEach(FileRefs(h)), F \intersect D = {}, NEW r \in Counted(h), NEW s \in Counted(h),
              Last(r) = Last(s)
       PROVE  r = s
  <2>1. CASE r \in S /\ s \in S
    BY <1>3, <1>11, <2>1
  <2>2. CASE r \in X /\ s \in X
    <3>1. PICK x \in FileRefs(h) : f[x] = r
      BY <1>2, <2>2
    <3>2. PICK y \in FileRefs(h) : f[y] = s
      BY <1>2, <2>2
    <3>3. x[3] = y[3]
      BY <1>2, <1>11, <3>1, <3>2
    <3>4. x = y
      BY <1>11, <3>3 DEF OnePlaceEach
    <3>. QED  BY <3>1, <3>2, <3>4
  <2>3. CASE r \in S /\ s \in X
    BY <1>3, <1>9, <1>11, <2>3
  <2>4. CASE r \in X /\ s \in S
    BY <1>3, <1>9, <1>11, <2>4
  <2>. QED  BY <1>8, <2>1, <2>2, <2>3, <2>4
<1>12. ASSUME \A r, s \in Counted(h) : Last(r) = Last(s) => r = s
       PROVE  OnePlaceEach(FileRefs(h)) /\ F \intersect D = {}
  <2>1. \A x \in FileRefs(h) : x[3] \in F
    BY <1>4
  <2>2. \A r \in X : r \in Counted(h)
    BY <1>5, <1>6, <1>8, <1>9
  <2>3. ASSUME NEW x \in FileRefs(h), NEW y \in FileRefs(h), x[3] = y[3]
        PROVE  x = y
    <3>1. f[x] \in Counted(h) /\ f[y] \in Counted(h)
      BY <1>2, <2>2
    <3>2. f[x] = f[y]
      BY <1>2, <1>12, <2>3, <3>1
    <3>. QED  BY <1>2, <3>2
  <2>4. ASSUME NEW p \in F, p \in D
        PROVE  FALSE
    <3>1. PICK x \in FileRefs(h) : x[3] = p
      BY <1>4
    <3>2. PICK s \in S : Last(s) = p
      BY <1>3, <2>4
    <3>3. s \in Counted(h)
      BY <1>5, <1>6, <1>8, <3>2
    <3>4. f[x] \in X /\ Last(f[x]) = p
      BY <1>2, <3>1
    <3>5. f[x] \in Counted(h)
      BY <2>2, <3>4
    <3>6. f[x] = s
      BY <1>12, <3>2, <3>3, <3>4, <3>5
    <3>. QED  BY <1>10, <3>4, <3>6
  <2>. QED  BY <2>3, <2>4 DEF OnePlaceEach
<1>. QED  BY <1>7, <1>11, <1>12

\* What fsck says of a volume: FsckAgrees of it.
FsckRight(h) ==
  LET report == Report(h) IN
  /\ Clean(report) <=> Referenced(h) \subseteq h.used /\ LinkedOnce(h)
  /\ report.orphaned = {p \in Orphans(h) : p >= FirstAlloc}
  /\ Clean(report) => Verified(h)

\* So it is for every volume that can be checked: what the walk counts is what is referred to.
LEMMA FsckFinds ==
  ASSUME NEW h, Checkable(h)
  PROVE  FsckRight(h)
<1>. DEFINE report == Report(h)
            n(p)   == RefCount(h)[p]
            many   == \E p \in Pages : n(p) > 1
<1>1. /\ report.orphaned = {p \in h.used : n(p) = 0 /\ p >= FirstAlloc}
      /\ report.free = {p \in Pages \ h.used : n(p) > 0}
      /\ report.multiply = {p \in Pages : n(p) > 1}
      /\ report.pointless = {o.slot : o \in {o \in h.objects : o.page = Null /\ o.pages > 0}}
  BY DEF Report
<1>. HIDE DEF report
<1>2. ASSUME NEW p \in Pages
      PROVE  /\ n(p) \in Nat
             /\ n(p) = 0 <=> Paths(h, p) = {}
             /\ n(p) > 1 <=> \E r, s \in Paths(h, p) : r # s
  <2>1. IsFiniteSet(Paths(h, p)) /\ n(p) = Cardinality(Paths(h, p))
    BY WalkFinite
  <2>. QED  BY <2>1, TwoOrMore
<1>. HIDE DEF n
<1>3. /\ Referenced(h) = DirPages(h) \union FilePages(h) \union RootPages
      /\ Referenced(h) \subseteq Pages /\ FilePages(h) \subseteq Window
      /\ \A p \in Pages : FirstAlloc <= p => (Paths(h, p) # {} <=> p \in Referenced(h))
      /\ \A p \in Pages : p < FirstAlloc => Paths(h, p) = {}
      /\ \A r \in Walk(h) : Last(r) \in Pages
  BY WalkLeads
<1>4. h.used \subseteq Pages /\ Pages \subseteq Int /\ FirstAlloc \in Int /\ \A p \in Window : FirstAlloc <= p
  <2>1. Top \in Int
    BY BitMapAssumption DEF Top
  <2>. QED  BY <2>1, BitMapAssumption DEF Checkable, Pages, Window
<1>5. \A p \in Pages : n(p) > 0 <=> FirstAlloc <= p /\ p \in Referenced(h)
  BY <1>2, <1>3, <1>4
<1>6. report.free = {} <=> Referenced(h) \subseteq h.used
  <2>1. \A p \in Referenced(h) : p < FirstAlloc => p \in h.used
    <3>1. \A p \in DirPages(h) \union RootPages : p < FirstAlloc => p \in h.used
      BY DEF Checkable
    <3>2. \A p \in FilePages(h) : ~(p < FirstAlloc)
      BY <1>3, <1>4
    <3>. QED  BY <1>3, <3>1, <3>2
  <2>2. report.free = {} <=> \A p \in Pages \ h.used : ~(FirstAlloc <= p /\ p \in Referenced(h))
    BY <1>1, <1>5
  <2>3. ASSUME NEW p \in Referenced(h)
        PROVE  p \in Pages /\ (p < FirstAlloc \/ FirstAlloc <= p)
    <3>1. p \in Pages
      BY <1>3
    <3>2. p \in Int /\ FirstAlloc \in Int
      BY <1>4, <3>1
    <3>. QED  BY <3>1, <3>2
  <2>. HIDE DEF report
  <2>. QED  BY <2>1, <2>2, <2>3
<1>7. report.multiply = {} <=> LinkedOnce(h)
  <2>1. report.multiply = {} <=> \A p \in Pages : \A r, s \in Paths(h, p) : r = s
    BY <1>1, <1>2
  <2>2. \A p, r : r \in Paths(h, p) <=> r \in Counted(h) /\ Last(r) = p
    BY DEF Paths
  <2>3. \A r \in Counted(h) : Last(r) \in Pages
    <3>. TAKE r \in Counted(h)
    <3>1. r \in Walk(h)
      BY WalkFinite
    <3>. QED  BY <1>3, <3>1
  <2>4. (\A p \in Pages : \A r, s \in Paths(h, p) : r = s)
          <=> \A r, s \in Counted(h) : Last(r) = Last(s) => r = s
    BY <2>2, <2>3
  <2>. QED  BY <2>1, <2>4, WalkOnce
<1>8. report.pointless = {}
  <2>1. \A o \in h.objects : o.page # Null
    BY FilePaths
  <2>. QED  BY <1>1, <2>1
<1>9. report.orphaned = {p \in Orphans(h) : p >= FirstAlloc}
  <2>1. \A p \in h.used : p >= FirstAlloc => (n(p) = 0 <=> p \notin Referenced(h))
    BY <1>2, <1>3, <1>4
  <2>. QED  BY <1>1, <2>1 DEF Orphans
<1>10. ASSUME Referenced(h) \subseteq h.used
       PROVE  Verified(h)
  <2>1. ASSUME NEW o \in h.objects
        PROVE  o.page \in h.used
    <3>1. o.page \in PagesOf(h.mem, o)
      BY FilePaths
    <3>. QED  BY <1>3, <1>10, <3>1 DEF FilePages
  <2>. QED  BY <2>1 DEF Verified
<1>11. Clean(report) <=> Referenced(h) \subseteq h.used /\ LinkedOnce(h)
  BY <1>6, <1>7, <1>8 DEF Clean
<1>. QED  BY <1>9, <1>10, <1>11 DEF FsckRight, report

-----------------------------------------------------------------------------
\* A sound volume can be checked.
LEMMA SoundCheckable ==
  ASSUME NEW h, Sound(h)
  PROVE  Checkable(h)
<1>1. /\ WellFormed(h) /\ DirectoryApart(h) /\ FilesApart(h) /\ SlotsApart(h)
  BY DEF Sound, Apart
<1>2. IsMem(h.mem) /\ h.used \subseteq Pages /\ h.root.sub \in BOOLEAN /\ \A o \in h.objects : IsEntry(h, o)
  BY <1>1 DEF WellFormed
<1>3. DirectoryTree(h)
  BY <1>1, <1>2 DEF DirectoryTree, DirectoryApart
<1>4. DirPages(h) \union RootPages \subseteq h.used
  BY <1>1 DEF DirectoryApart
<1>5. \A o, q \in h.objects : o.slot = q.slot => o = q
  BY <1>1 DEF SlotsApart
<1>6. IsFiniteSet(h.objects)
  <2>. DEFINE f == [o \in h.objects |-> o.slot]
  <2>1. IsFiniteSet(Slots)
    <3>1. PtrsPerPage * PtrsPerPage * EntriesPerPage \in Nat
      BY Layout, Z3
    <3>. QED  BY <3>1, FS_Interval DEF Slots
  <2>2. f \in Injection(h.objects, Slots)
    BY <1>2, <1>5 DEF Injection, IsInjective, IsEntry
  <2>. QED  BY <2>1, <2>2, FS_Injection
<1>7. ASSUME NEW o \in h.objects
      PROVE  Placeable(h, o)
  <2>1. o.slot \in Nat
    BY <1>2 DEF IsEntry, Slots
  <2>2. PagesOf(h.mem, o) \subseteq Window
    BY OldEntry
  <2>. QED  BY <1>2, <2>1, <2>2 DEF Placeable, IsEntry
<1>. QED  BY <1>2, <1>3, <1>4, <1>5, <1>6, <1>7 DEF Checkable

\* Hurt as it may be: the directory is where it was, and its reserved pages are still marked.
Damaged(h, h2) ==
  /\ IsMem(h2.mem) /\ h2.used \subseteq Pages
  /\ h2.root = h.root /\ SamePtrs(h.mem, h2.mem, IndexPages(h))
  /\ \A p \in DirPages(h) \union RootPages : p < FirstAlloc => p \in h2.used

\* It can be checked if its files are somewhere.
LEMMA DamagedCheckable ==
  ASSUME NEW h, Checkable(h), NEW h2, Damaged(h, h2),
         IsFiniteSet(h2.objects), \A o \in h2.objects : Placeable(h2, o),
         \A o, q \in h2.objects : o.slot = q.slot => o = q
  PROVE  Checkable(h2)
<1>1. /\ IndexPages(h2) = IndexPages(h) /\ DirPages(h2) = DirPages(h) /\ h2.root = h.root
      /\ \A a \in IndexPages(h), i \in Indexes : Ptr(h2, a, i) = Ptr(h, a, i)
  BY SameIndex DEF Damaged
<1>2. DirectoryTree(h2)
  BY <1>1 DEF Checkable, DirectoryTree
<1>. QED  BY <1>1, <1>2 DEF Checkable, Damaged

-----------------------------------------------------------------------------
\* Every pointer on the pages taken for a tree is to one of them.
Closed(mem, T) == \A p \in T : \A i \in Indexes : mem[p].ptrs[i] \in T \union {Null}

\* The pages T were taken for a tree, and nothing else was written.
TakenFor(h, h2, T) ==
  /\ T \subseteq FreePages(h.used) /\ Closed(h2.mem, T) /\ h2.used = h.used \union T
  /\ h2.root = h.root /\ h2.objects = h.objects
  /\ \A q \in Pages \ T : h2.mem[q] = h.mem[q]

\* So are the pages a tree takes, completed or not.
LEMMA TakenPages ==
  ASSUME NEW h, DOMAIN h = VolumeFields, NEW n \in Nat \ {0}, n <= MaxFilePages, NEW holes, NEW v,
         NEW b, b = Build(h, n, holes, v)
  PROVE  \E T : TakenFor(h, b.h, T)
<1>. DEFINE R    == RolesFor(n, holes)
            D    == Placed(h, R)
            at   == [r \in D |-> NthFree(h.used, Rank(r, R))]
            T    == {at[r] : r \in D}
            held == [p \in T |-> CHOOSE r \in D : at[r] = p]
            mem  == [p \in Pages |-> IF p \in T THEN TreeContent(n, v, held[p], at) ELSE h.mem[p]]
            h2   == [h EXCEPT !.used = @ \union T, !.mem = mem]
<1>1. b.h = h2
  BY DEF Build, VolumeFields
<1>2. DOMAIN at = D /\ \A r \in D : at[r] \in FreePages(h.used)
  BY RolesFinite, PlacesApart
<1>. HIDE DEF R, D, at
<1>3. T \subseteq FreePages(h.used) /\ T \subseteq Pages
  BY <1>2, WindowType DEF FreePages
<1>4. \A r \in D : at[r] \in T
  OBVIOUS
<1>. HIDE DEF T, held
<1>5. ASSUME NEW role, NEW i \in Indexes
      PROVE  TreeContent(n, v, role, at).ptrs[i] \in T \union {Null}
  <2>. DEFINE group == IF role = TopRole THEN 0 ELSE role[1]
              below == IF role = TopRole /\ KindFor(n) = "subindexed"
                         THEN [g \in Indexes |-> GroupRole(g)] ELSE [j \in Indexes |-> <<group, j>>]
              ptrs  == [j \in Indexes |-> IF below[j] \in DOMAIN at THEN at[below[j]] ELSE Null]
              c     == TreeContent(n, v, role, at)
  <2>1. c = IF IsData(role) THEN Holding(Item(v, role[1] * PtrsPerPage + role[2]))
            ELSE [Blank EXCEPT !.ptrs = ptrs]
    BY DEF TreeContent
  <2>2. ptrs[i] \in T \union {Null}
    BY <1>2, <1>4
  <2>. HIDE DEF ptrs, c
  <2>3. CASE IsData(role)
    <3>1. c.ptrs[i] = Null
      BY <2>1, <2>3, PageContent
    <3>. QED  BY <3>1 DEF c
  <2>4. CASE ~IsData(role)
    <3>1. c.ptrs = ptrs
      BY <2>1, <2>4, PageContent DEF PageFields
    <3>. QED  BY <2>2, <3>1 DEF c
  <2>. QED  BY <2>3, <2>4
<1>6. Closed(mem, T) /\ \A q \in Pages \ T : mem[q] = h.mem[q]
  BY <1>3, <1>5 DEF Closed
<1>. HIDE DEF mem
<1>7. /\ h2.used = h.used \union T /\ h2.objects = h.objects /\ h2.root = h.root /\ h2.mem = mem
  BY DEF VolumeFields
<1>. HIDE DEF h2
<1>8. TakenFor(h, h2, T)
  BY <1>3, <1>6, <1>7 DEF TakenFor
<1>. QED  BY <1>1, <1>8

\* A file some pages of which were taken for a tree is still somewhere on pages the allocator
\* can return.
LEMMA OverwrittenPages ==
  ASSUME NEW mem, NEW mem2, IsMem(mem), NEW T, T \subseteq Window, Closed(mem2, T),
         \A q \in Pages \ T : mem2[q] = mem[q], NEW o, o.kind \in {"contiguous", "indexed", "subindexed"},
         PagesOf(mem, o) \subseteq Window
  PROVE  PagesOf(mem2, o) \subseteq Window
<1>. SUFFICES ASSUME NEW r \in Refs(mem2, o)
              PROVE  r[2] \in Window
  BY DEF PagesOf
<1>0. Window \subseteq Pages
  BY WindowType
<1>1. \A s \in Refs(mem, o) : s[2] \in Window
  BY DEF PagesOf
<1>2. CASE o.kind = "contiguous"
  <2>1. Refs(mem2, o) = Refs(mem, o)
    BY <1>2 DEF Refs
  <2>. QED  BY <1>1, <2>1
<1>3. ASSUME NEW p \in Window, NEW i \in Indexes, mem2[p].ptrs[i] # Null, p \in T \/ mem[p].ptrs[i] \in Window \union {Null}
      PROVE  mem2[p].ptrs[i] \in Window
  BY <1>0, <1>3 DEF Closed
<1>4. CASE o.kind = "indexed"
  <2>1. \A m : Refs(m, o) = {<<TopRole, o.page>>} \union Pointed(m, o.page, 0)
    BY <1>4 DEF Refs
  <2>2. o.page \in Window
    <3>1. <<TopRole, o.page>> \in Refs(mem, o) /\ <<TopRole, o.page>>[2] = o.page
      BY <2>1
    <3>. QED  BY <1>1, <3>1
  <2>3. CASE r = <<TopRole, o.page>>
    BY <2>2, <2>3
  <2>4. CASE r \in Pointed(mem2, o.page, 0)
    <3>1. PICK i \in Indexes : mem2[o.page].ptrs[i] # Null /\ r = <<<<0, i>>, mem2[o.page].ptrs[i]>>
      BY <2>4, PointedAt
    <3>2. mem[o.page].ptrs[i] \in Window \union {Null}
      <4>. DEFINE s == <<<<0, i>>, mem[o.page].ptrs[i]>>
      <4>1. mem[o.page].ptrs[i] # Null => s \in Pointed(mem, o.page, 0)
        BY PointedAt
      <4>2. s[2] = mem[o.page].ptrs[i]
        OBVIOUS
      <4>. HIDE DEF s
      <4>. QED  BY <1>1, <2>1, <4>1, <4>2
    <3>. QED  BY <1>3, <2>2, <3>1, <3>2
  <2>. QED  BY <2>1, <2>3, <2>4
<1>5. CASE o.kind = "subindexed"
  <2>. DEFINE groups(m) == {<<GroupRole(g), m[o.page].ptrs[g]>> : g \in {g \in Indexes : m[o.page].ptrs[g] # Null}}
              below(m)  == UNION {Pointed(m, s[2], s[1][1]) : s \in groups(m)}
  <2>1. \A m : Refs(m, o) = {<<TopRole, o.page>>} \union groups(m) \union below(m)
    BY <1>5 DEF Refs
  <2>2. o.page \in Window
    <3>1. <<TopRole, o.page>> \in Refs(mem, o) /\ <<TopRole, o.page>>[2] = o.page
      BY <2>1
    <3>. QED  BY <1>1, <3>1
  <2>3. ASSUME NEW g \in Indexes
        PROVE  mem[o.page].ptrs[g] \in Window \union {Null}
    <3>. DEFINE s == <<GroupRole(g), mem[o.page].ptrs[g]>>
    <3>1. mem[o.page].ptrs[g] # Null => s \in groups(mem)
      OBVIOUS
    <3>2. s[2] = mem[o.page].ptrs[g]
      OBVIOUS
    <3>. HIDE DEF s, groups, below
    <3>. QED  BY <1>1, <2>1, <3>1, <3>2
  <2>4. ASSUME NEW g \in Indexes, NEW i \in Indexes, mem[o.page].ptrs[g] # Null
        PROVE  mem[mem[o.page].ptrs[g]].ptrs[i] \in Window \union {Null}
    <3>. DEFINE p == mem[o.page].ptrs[g]
                s == <<GroupRole(g), p>>
                x == <<<<g, i>>, mem[p].ptrs[i]>>
    <3>1. s \in groups(mem)
      BY <2>4
    <3>2. s[2] = p /\ s[1][1] = g /\ x[2] = mem[p].ptrs[i]
      BY DEF GroupRole
    <3>3. mem[p].ptrs[i] # Null => x \in Pointed(mem, p, g)
      BY PointedAt
    <3>. HIDE DEF s, x, p, groups
    <3>4. mem[p].ptrs[i] # Null => x \in below(mem)
      BY <3>1, <3>2, <3>3
    <3>. HIDE DEF below
    <3>5. mem[p].ptrs[i] \in Window \union {Null}
      BY <1>1, <2>1, <3>2, <3>4
    <3>. QED  BY <3>5 DEF p
  <2>5. ASSUME NEW g \in Indexes, mem2[o.page].ptrs[g] # Null
        PROVE  /\ mem2[o.page].ptrs[g] \in Window
               /\ mem2[o.page].ptrs[g] \in T \/ mem2[o.page].ptrs[g] = mem[o.page].ptrs[g]
    <3>1. CASE o.page \in T
      BY <2>5, <3>1 DEF Closed
    <3>2. CASE o.page \notin T
      BY <1>0, <2>2, <2>3, <2>5, <3>2
    <3>. QED  BY <3>1, <3>2
  <2>6. CASE r = <<TopRole, o.page>>
    BY <2>2, <2>6
  <2>7. CASE r \in groups(mem2)
    <3>1. PICK g \in Indexes : mem2[o.page].ptrs[g] # Null /\ r = <<GroupRole(g), mem2[o.page].ptrs[g]>>
      BY <2>7
    <3>. QED  BY <2>5, <3>1
  <2>8. CASE r \in below(mem2)
    <3>1. PICK s \in groups(mem2) : r \in Pointed(mem2, s[2], s[1][1])
      BY <2>8
    <3>2. PICK g \in Indexes : mem2[o.page].ptrs[g] # Null /\ s = <<GroupRole(g), mem2[o.page].ptrs[g]>>
      BY <3>1
    <3>. DEFINE p == mem2[o.page].ptrs[g]
    <3>3. s[2] = p
      BY <3>2
    <3>. HIDE DEF p, groups, below
    <3>4. PICK i \in Indexes : mem2[p].ptrs[i] # Null /\ r = <<<<s[1][1], i>>, mem2[p].ptrs[i]>>
      BY <3>1, <3>3, PointedAt
    <3>5. p \in Window /\ (p \in T \/ p = mem[o.page].ptrs[g])
      BY <2>5, <3>2 DEF p
    <3>6. p # Null
      BY <3>2 DEF p
    <3>7. p \in T \/ mem[p].ptrs[i] \in Window \union {Null}
      BY <2>4, <3>5, <3>6
    <3>8. r[2] = mem2[p].ptrs[i]
      BY <3>4
    <3>. QED  BY <1>3, <3>4, <3>5, <3>7, <3>8
  <2>. QED  BY <2>1, <2>6, <2>7, <2>8
<1>. QED  BY <1>2, <1>4, <1>5

\* An update that runs out of space leaves a volume that can be checked: the entry names pages
\* that are free, or belong to the tree that was not completed.
LEMMA UpdateNoSpaceCheckable ==
  ASSUME NEW who, NEW name, NEW len \in Nat, NEW holes, NEW v, Sound(fs),
         UpdateNoSpace(who, name, len, holes, v)
  PROVE  Checkable(fs')
<1>. DEFINE n == AtLeastOne(len)
<1>1. PICK u \in Payers(who), o \in Found(who, name) :
        LET b == Build(WithoutOld(Reserving(u, Extra(o, n, holes)), o, u), n, holes, Written(len, v)) IN
        n <= MaxFilePages /\ fs' = b.h
  BY DEF UpdateNoSpace
<1>. DEFINE w == WithoutOld(Reserving(u, Extra(o, n, holes)), o, u)
            b == Build(w, n, holes, Written(len, v))
            own == PagesOf(fs.mem, o)
<1>2. n <= MaxFilePages /\ fs' = b.h
  BY <1>1
<1>3. u \in Users /\ n \in Nat \ {0} /\ o \in fs.objects
  BY PayersAreUsers, Counts, FoundIsEntry
<1>. HIDE DEF n, b, own
<1>4. WellFormed(fs) /\ Checkable(fs)
  BY SoundCheckable DEF Sound, Apart
<1>5. /\ DOMAIN w = VolumeFields /\ w.used = fs.used \ own
      /\ w.objects = fs.objects /\ w.root = fs.root /\ w.mem = fs.mem
  <2>1. GivenBack(w, o, u)
    BY <1>3, <1>4, OldPagesFreed DEF w
  <2>. HIDE DEF w
  <2>. QED  BY <2>1 DEF GivenBack, own
<1>. HIDE DEF w
<1>6. \E T : TakenFor(w, b.h, T)
  <2>1. b = Build(w, n, holes, Written(len, v))
    BY DEF b
  <2>. QED  BY <1>2, <1>3, <1>5, <2>1, TakenPages
<1>7. PICK T : TakenFor(w, b.h, T)
  BY <1>6
<1>8. /\ T \subseteq FreePages(w.used) /\ Closed(b.h.mem, T) /\ b.h.used = w.used \union T
      /\ b.h.root = w.root /\ b.h.objects = w.objects
      /\ \A q \in Pages \ T : b.h.mem[q] = w.mem[q]
  BY <1>7 DEF TakenFor
<1>9. IsMem(b.h.mem)
  <2>1. IsMem(w.mem) /\ DOMAIN w = VolumeFields
    BY <1>4, <1>5 DEF WellFormed
  <2>. QED  BY <1>2, <1>3, <2>1, BuildShape DEF b, Built, Extended
<1>10. DirPages(fs) \union RootPages \subseteq fs.used /\ own \intersect (DirPages(fs) \union RootPages) = {}
  BY <1>3 DEF Sound, Apart, DirectoryApart, FilesApart, FileApart, own
<1>11. T \subseteq Window /\ T \subseteq Pages /\ T \intersect (DirPages(fs) \union RootPages) = {}
  BY <1>5, <1>8, <1>10, WindowType DEF FreePages
<1>12. \A q \in Pages \ T : b.h.mem[q] = fs.mem[q]
  BY <1>5, <1>8
<1>13. SamePtrs(fs.mem, b.h.mem, IndexPages(fs))
  <2>1. IndexPages(fs) \subseteq DirPages(fs) \union RootPages /\ fs.used \subseteq Pages
    BY <1>4, IndexIsDir DEF WellFormed
  <2>. QED  BY <1>10, <1>11, <1>12, <2>1 DEF SamePtrs
<1>14. Damaged(fs, b.h)
  <2>1. b.h.used \subseteq Pages /\ DirPages(fs) \union RootPages \subseteq b.h.used
    BY <1>4, <1>5, <1>8, <1>10, <1>11 DEF WellFormed
  <2>. QED  BY <1>5, <1>8, <1>9, <1>13, <2>1 DEF Damaged
<1>15. ASSUME NEW q \in fs.objects
       PROVE  Placeable(b.h, q)
  <2>1. Placeable(fs, q) /\ IsMem(fs.mem)
    BY <1>4 DEF Checkable
  <2>2. PagesOf(b.h.mem, q) \subseteq Window
    BY <1>8, <1>11, <1>12, <2>1, OverwrittenPages DEF Placeable
  <2>. QED  BY <2>1, <2>2 DEF Placeable
<1>16. /\ b.h.objects = fs.objects /\ IsFiniteSet(fs.objects)
       /\ \A p, q \in fs.objects : p.slot = q.slot => p = q
  BY <1>4, <1>5, <1>8 DEF Checkable
<1>17. Checkable(b.h)
  BY <1>4, <1>14, <1>15, <1>16, DamagedCheckable
<1>. QED  BY <1>2, <1>17

-----------------------------------------------------------------------------
\* Pointers are finitely many.
LEMMA IndexesFinite == IsFiniteSet(Indexes) /\ Cardinality(Indexes) \in Nat
<1>1. 0 \in Int /\ PtrsPerPage - 1 \in Int
  BY Layout
<1>2. IsFiniteSet(0 .. PtrsPerPage - 1)
  BY <1>1, FS_Interval
<1>3. IsFiniteSet(Indexes)
  BY <1>2 DEF Indexes
<1>. QED  BY <1>3, FS_CardinalityType

\* Members of a set of whole numbers are told apart by how many of the set are below them.
LEMMA RanksApart ==
  ASSUME NEW some \in SUBSET Indexes, NEW f \in some, NEW g \in some, f < g
  PROVE  Cardinality({x \in some : x < f}) # Cardinality({x \in some : x < g})
<1>. DEFINE F == {x \in some : x < f}
            G == {x \in some : x < g}
<1>1. \A x \in some : x \in Int
  BY Numbers
<1>2. F \in SUBSET G /\ f \in G /\ f \notin F
  BY <1>1
<1>3. G \in SUBSET Indexes
  OBVIOUS
<1>. HIDE DEF F, G
<1>5. IsFiniteSet(G)
  BY <1>3, IndexesFinite, FS_Subset
<1>6. Cardinality(F) # Cardinality(G)
  BY <1>2, <1>5, FS_Subset
<1>. QED  BY <1>6 DEF F, G

\* The index blocks a mount walks are told apart by the number it gives them, even where groups
\* are skipped; each is the block of a group.
LEMMA BlocksApart ==
  ASSUME NEW h, h.root.sub \in BOOLEAN
  PROVE  /\ \A b \in IndexBlocks(h.mem, h.root, {}) :
              /\ b[1] \in 0 .. Cardinality(Indexes)
              /\ \E g \in Indexes : b[2] = GroupAt(h, g)
         /\ \A b, c \in IndexBlocks(h.mem, h.root, {}) : b[1] = c[1] => b = c
<1>1. Cardinality(Indexes) \in Nat /\ IsFiniteSet(Indexes)
  BY IndexesFinite
<1>2. CASE ~h.root.sub
  <2>1. IndexBlocks(h.mem, h.root, {}) = {<<0, h.root.page>>}
    BY <1>2 DEF IndexBlocks
  <2>2. GroupAt(h, 0) = h.root.page /\ 0 \in Indexes
    BY <1>2, Layout DEF GroupAt
  <2>. QED  BY <1>1, <2>1, <2>2
<1>3. CASE h.root.sub
  <2>. DEFINE ptr(g)  == h.mem[h.root.page].ptrs[g]
              some    == {g \in Indexes : ptr(g) # Null}
              rank(g) == Cardinality({f \in some : f < g})
  <2>1. \A x : x \in IndexBlocks(h.mem, h.root, {}) <=> \E g \in some : x = <<rank(g), ptr(g)>>
    BY <1>3 DEF IndexBlocks
  <2>2. \A g \in some : g \in Indexes /\ ptr(g) = GroupAt(h, g) /\ g \in Int
    BY <1>3, Numbers DEF GroupAt, Ptr
  <2>3. some \in SUBSET Indexes
    OBVIOUS
  <2>. HIDE DEF some, ptr
  <2>4. \A g \in some : rank(g) \in 0 .. Cardinality(Indexes)
    <3>. TAKE g \in some
    <3>. DEFINE S == {f \in some : f < g}
    <3>1. S \in SUBSET Indexes
      BY <2>3
    <3>. HIDE DEF S
    <3>2. IsFiniteSet(S) /\ Cardinality(S) <= Cardinality(Indexes)
      BY <1>1, <3>1, FS_Subset
    <3>3. Cardinality(S) \in Nat
      BY <3>2, FS_CardinalityType
    <3>4. Cardinality(S) \in 0 .. Cardinality(Indexes)
      BY <1>1, <3>2, <3>3
    <3>. QED  BY <3>4 DEF S
  <2>5. \A f, g \in some : f < g => rank(f) # rank(g)
    BY <2>3, RanksApart
  <2>. HIDE DEF rank
  <2>6. \A f, g \in some : rank(f) = rank(g) => f = g
    BY <2>2, <2>5
  <2>7. ASSUME NEW b \in IndexBlocks(h.mem, h.root, {})
        PROVE  /\ b[1] \in 0 .. Cardinality(Indexes)
               /\ \E g \in Indexes : b[2] = GroupAt(h, g)
    <3>1. PICK g \in some : b = <<rank(g), ptr(g)>>
      BY <2>1
    <3>. QED  BY <2>2, <2>4, <3>1
  <2>8. ASSUME NEW b \in IndexBlocks(h.mem, h.root, {}), NEW c \in IndexBlocks(h.mem, h.root, {}), b[1] = c[1]
        PROVE  b = c
    <3>1. PICK g \in some : b = <<rank(g), ptr(g)>>
      BY <2>1
    <3>2. PICK f \in some : c = <<rank(f), ptr(f)>>
      BY <2>1
    <3>3. rank(g) = rank(f)
      BY <2>8, <3>1, <3>2
    <3>4. g = f
      BY <2>6, <3>3
    <3>. QED  BY <3>1, <3>2, <3>4
  <2>. QED  BY <2>7, <2>8
<1>. QED  BY <1>2, <1>3

\* The slot a mount gives the entry at position a of the page that pointer i of block b leads to.
SlotAt(b, i, a) == (b * PtrsPerPage + i) * EntriesPerPage + a

\* It tells block, pointer and position.
LEMMA SlotAtApart ==
  ASSUME NEW b \in Nat, NEW i \in Indexes, NEW a \in 0 .. EntriesPerPage - 1,
         NEW c \in Nat, NEW j \in Indexes, NEW e \in 0 .. EntriesPerPage - 1,
         SlotAt(b, i, a) = SlotAt(c, j, e)
  PROVE  b = c /\ i = j /\ a = e
<1>1. /\ PtrsPerPage \in Nat \ {0} /\ EntriesPerPage \in Nat \ {0}
      /\ i \in 0 .. PtrsPerPage - 1 /\ j \in 0 .. PtrsPerPage - 1
  BY Layout DEF Indexes
<1>. DEFINE m == PtrsPerPage * b + i
            n == PtrsPerPage * c + j
<1>2. m \in Nat /\ n \in Nat
  BY <1>1, Z3
<1>3. SlotAt(b, i, a) = EntriesPerPage * m + a /\ SlotAt(c, j, e) = EntriesPerPage * n + e
  BY <1>1, Z3 DEF SlotAt
<1>4. /\ m \div PtrsPerPage = b /\ m % PtrsPerPage = i
      /\ n \div PtrsPerPage = c /\ n % PtrsPerPage = j
  BY <1>1, DivModUnique
<1>. HIDE DEF m, n
<1>5. /\ (EntriesPerPage * m + a) \div EntriesPerPage = m /\ (EntriesPerPage * m + a) % EntriesPerPage = a
      /\ (EntriesPerPage * n + e) \div EntriesPerPage = n /\ (EntriesPerPage * n + e) % EntriesPerPage = e
  BY <1>1, <1>2, DivModUnique
<1>6. m = n /\ a = e
  BY <1>3, <1>5
<1>. QED  BY <1>4, <1>6

\* It is a natural number.
LEMMA SlotAtNat ==
  ASSUME NEW b \in Nat, NEW i \in Indexes, NEW a \in 0 .. EntriesPerPage - 1
  PROVE  SlotAt(b, i, a) \in Nat
<1>1. PtrsPerPage \in Nat /\ EntriesPerPage \in Nat /\ i \in Nat /\ a \in Nat
  BY Layout, Numbers
<1>. QED  BY <1>1, Z3 DEF SlotAt

\* The entries of a page are those of one group with the inner index i.
OneGroup(h, page, i) ==
  \E g \in Indexes : \A d \in EntriesOf(h.mem[page]) : \E o \in h.objects : At(o, g, i) /\ d = OnDisk(o)

\* So are the ones on the page that pointer i of a block leads to.
LEMMA PageOfEntries ==
  ASSUME NEW h, Sound(h), NEW b \in IndexBlocks(h.mem, h.root, {}), NEW i \in Indexes,
         Ptr(h, b[2], i) # Null
  PROVE  OneGroup(h, Ptr(h, b[2], i), i)
<1>1. h.root.sub \in BOOLEAN /\ \A g \in Indexes : EntryPageOK(h, g, i)
  BY DEF Sound, Apart, WellFormed, MirroredBut
<1>2. PICK g \in Indexes : b[2] = GroupAt(h, g)
  BY <1>1, BlocksApart
<1>3. GroupAt(h, g) # Null
  <2>1. CASE h.root.sub
    <3>. DEFINE ptr(f)  == h.mem[h.root.page].ptrs[f]
                some    == {f \in Indexes : ptr(f) # Null}
                rank(f) == Cardinality({x \in some : x < f})
    <3>1. \E f \in some : b = <<rank(f), ptr(f)>>
      BY <2>1 DEF IndexBlocks
    <3>. HIDE DEF rank
    <3>2. b[2] # Null
      BY <3>1
    <3>. QED  BY <1>2, <3>2
  <2>2. CASE ~h.root.sub
    <3>1. b = <<0, h.root.page>>
      BY <2>2 DEF IndexBlocks
    <3>2. h.root.page \in DirPages(h) /\ DirPages(h) \intersect RootPages = {}
      BY DEF Sound, Apart, DirectoryApart, DirPages
    <3>3. b[2] = h.root.page /\ h.root.page # Null
      BY <3>1, <3>2, Layout
    <3>. QED  BY <1>2, <3>3
  <2>. QED  BY <1>1, <2>1, <2>2
<1>4. DirAt(h, g, i) = Ptr(h, b[2], i)
  BY <1>2, <1>3 DEF DirAt, GroupAt
<1>5. h.mem[Ptr(h, b[2], i)].items = {OnDisk(o) : o \in {o \in h.objects : At(o, g, i)}}
  BY <1>1, <1>4 DEF EntryPageOK
<1>6. ASSUME NEW d \in EntriesOf(h.mem[Ptr(h, b[2], i)])
      PROVE  \E o \in h.objects : At(o, g, i) /\ d = OnDisk(o)
  BY <1>5 DEF EntriesOf
<1>. QED  BY <1>6 DEF OneGroup

\* An entry of the volume in the slot it was found at.
Moved(h, users, b, i, o) == LoadedEntry(OnDisk(o), SlotAt(b[1], i, o.slot % EntriesPerPage), users)

\* Every entry a mount finds is one of the volume, where it was found.
LEMMA EntriesMoved ==
  ASSUME NEW h, Sound(h), NEW users, NEW x \in EntriesOn(h.mem, h.root, users, {})
  PROVE  \E b \in IndexBlocks(h.mem, h.root, {}) : \E i \in Indexes : \E d \in EntriesOf(h.mem[Ptr(h, b[2], i)]) :
           \E o \in h.objects : Ptr(h, b[2], i) # Null /\ d = OnDisk(o) /\ x = Moved(h, users, b, i, o)
<1>1. PICK b \in IndexBlocks(h.mem, h.root, {}), i \in Indexes :
        /\ h.mem[b[2]].ptrs[i] \notin {Null} \union {}
        /\ \E d \in EntriesOf(h.mem[h.mem[b[2]].ptrs[i]]) :
             x = LoadedEntry(d, (b[1] * PtrsPerPage + i) * EntriesPerPage + d.at, users)
  BY EntriesFound
<1>2. Ptr(h, b[2], i) = h.mem[b[2]].ptrs[i] /\ Ptr(h, b[2], i) # Null
  BY <1>1 DEF Ptr
<1>3. PICK d \in EntriesOf(h.mem[Ptr(h, b[2], i)]) :
        x = LoadedEntry(d, (b[1] * PtrsPerPage + i) * EntriesPerPage + d.at, users)
  BY <1>1, <1>2
<1>4. PICK o \in h.objects : d = OnDisk(o)
  <2>1. OneGroup(h, Ptr(h, b[2], i), i)
    BY <1>2, PageOfEntries
  <2>. QED  BY <1>3, <2>1 DEF OneGroup
<1>5. d.at = o.slot % EntriesPerPage
  BY <1>4 DEF OnDisk
<1>6. x = Moved(h, users, b, i, o)
  BY <1>3, <1>4, <1>5 DEF Moved, SlotAt
<1>. QED  BY <1>2, <1>4, <1>6

\* What a mount finds of an entry: what it was, in the slot it was found at.
LEMMA MovedFields ==
  ASSUME NEW h, NEW users, NEW b, NEW i, NEW o, NEW x, x = Moved(h, users, b, i, o)
  PROVE  /\ DOMAIN x = EntryFields /\ x.slot = SlotAt(b[1], i, o.slot % EntriesPerPage)
         /\ x.kind = o.kind /\ x.page = o.page /\ x.pages = o.pages
<1>. DEFINE d == OnDisk(o)
<1>1. d.kind = o.kind /\ d.page = o.page /\ d.pages = o.pages
  BY DEF OnDisk
<1>. HIDE DEF d
<1>2. x = LoadedEntry(d, SlotAt(b[1], i, o.slot % EntriesPerPage), users)
  BY DEF Moved, d
<1>. QED  BY <1>1, <1>2 DEF LoadedEntry, EntryFields

\* No two entries a mount finds are in one slot.
LEMMA FoundApart ==
  ASSUME NEW h, Sound(h), NEW users, NEW S, S = EntriesOn(h.mem, h.root, users, {}),
         NEW x \in S, NEW y \in S, x.slot = y.slot
  PROVE  x = y
<1>1. h.root.sub \in BOOLEAN /\ \A o \in h.objects : o.slot \in Slots
  BY DEF Sound, Apart, WellFormed, IsEntry
<1>2. PICK b \in IndexBlocks(h.mem, h.root, {}) : \E i \in Indexes : \E d \in EntriesOf(h.mem[Ptr(h, b[2], i)]) :
           \E o \in h.objects : Ptr(h, b[2], i) # Null /\ d = OnDisk(o) /\ x = Moved(h, users, b, i, o)
  BY EntriesMoved
<1>3. PICK i \in Indexes : \E d \in EntriesOf(h.mem[Ptr(h, b[2], i)]) :
           \E o \in h.objects : Ptr(h, b[2], i) # Null /\ d = OnDisk(o) /\ x = Moved(h, users, b, i, o)
  BY <1>2
<1>4. PICK d \in EntriesOf(h.mem[Ptr(h, b[2], i)]), o \in h.objects :
           Ptr(h, b[2], i) # Null /\ d = OnDisk(o) /\ x = Moved(h, users, b, i, o)
  BY <1>3
<1>5. PICK c \in IndexBlocks(h.mem, h.root, {}) : \E j \in Indexes : \E e \in EntriesOf(h.mem[Ptr(h, c[2], j)]) :
           \E q \in h.objects : Ptr(h, c[2], j) # Null /\ e = OnDisk(q) /\ y = Moved(h, users, c, j, q)
  BY EntriesMoved
<1>6. PICK j \in Indexes : \E e \in EntriesOf(h.mem[Ptr(h, c[2], j)]) :
           \E q \in h.objects : Ptr(h, c[2], j) # Null /\ e = OnDisk(q) /\ y = Moved(h, users, c, j, q)
  BY <1>5
<1>7. PICK e \in EntriesOf(h.mem[Ptr(h, c[2], j)]), q \in h.objects :
           Ptr(h, c[2], j) # Null /\ e = OnDisk(q) /\ y = Moved(h, users, c, j, q)
  BY <1>6
<1>8. /\ o.slot % EntriesPerPage \in 0 .. EntriesPerPage - 1
      /\ q.slot % EntriesPerPage \in 0 .. EntriesPerPage - 1
      /\ b[1] \in Nat /\ c[1] \in Nat
  <2>1. o.slot \in Slots /\ q.slot \in Slots
    BY <1>1
  <2>2. b[1] \in 0 .. Cardinality(Indexes) /\ c[1] \in 0 .. Cardinality(Indexes)
    BY <1>1, BlocksApart
  <2>. QED  BY <2>1, <2>2, SlotParts, IndexesFinite
<1>9. b[1] = c[1] /\ i = j /\ o.slot % EntriesPerPage = q.slot % EntriesPerPage
  <2>1. SlotAt(b[1], i, o.slot % EntriesPerPage) = SlotAt(c[1], j, q.slot % EntriesPerPage)
    BY <1>4, <1>7, MovedFields
  <2>. QED  BY <1>8, <2>1, SlotAtApart
<1>10. b = c
  BY <1>1, <1>9, BlocksApart
<1>11. PICK g \in Indexes : \A f \in EntriesOf(h.mem[Ptr(h, b[2], i)]) :
           \E p \in h.objects : At(p, g, i) /\ f = OnDisk(p)
  <2>1. Ptr(h, b[2], i) # Null
    BY <1>4
  <2>2. OneGroup(h, Ptr(h, b[2], i), i)
    BY <2>1, PageOfEntries
  <2>. QED  BY <2>2 DEF OneGroup
<1>12. PICK p \in h.objects : At(p, g, i) /\ d = OnDisk(p)
  BY <1>11
<1>13. PICK r \in h.objects : At(r, g, i) /\ e = OnDisk(r)
  BY <1>9, <1>10, <1>11
<1>14. p.slot % EntriesPerPage = r.slot % EntriesPerPage
  <2>1. OnDisk(p).at = p.slot % EntriesPerPage /\ OnDisk(r).at = r.slot % EntriesPerPage
    BY DEF OnDisk
  <2>2. OnDisk(o).at = o.slot % EntriesPerPage /\ OnDisk(q).at = q.slot % EntriesPerPage
    BY DEF OnDisk
  <2>. QED  BY <1>4, <1>7, <1>9, <1>12, <1>13, <2>1, <2>2
<1>15. p.slot = r.slot
  <2>1. p.slot \in Slots /\ r.slot \in Slots
    BY <1>1
  <2>2. GroupOf(p.slot) = GroupOf(r.slot) /\ Inner(p.slot) = Inner(r.slot)
    BY <1>12, <1>13 DEF At
  <2>3. PageOf(p.slot) = PageOf(r.slot)
    BY <2>1, <2>2, SlotParts
  <2>. QED  BY <1>14, <2>1, <2>3, SlotParts
<1>16. d = e
  BY <1>12, <1>13, <1>15 DEF Sound, Apart, SlotsApart
<1>. QED  BY <1>4, <1>7, <1>9, <1>10, <1>16 DEF Moved

\* They are finitely many.
LEMMA FoundFinite ==
  ASSUME NEW h, Sound(h), NEW users, NEW S, S = EntriesOn(h.mem, h.root, users, {})
  PROVE  IsFiniteSet(S)
<1>. DEFINE N == 0 .. Cardinality(Indexes)
            R == (h.objects \X N) \X Indexes
            f == [y \in R |-> LoadedEntry(OnDisk(y[1][1]), SlotAt(y[1][2], y[2], y[1][1].slot % EntriesPerPage), users)]
            T == {f[y] : y \in R}
<1>1. IsFiniteSet(h.objects)
  BY SoundCheckable DEF Checkable
<1>2. IsFiniteSet(N)
  BY IndexesFinite, FS_Interval
<1>3. IsFiniteSet(R)
  <2>1. IsFiniteSet(h.objects \X N)
    BY <1>1, <1>2, FS_Product
  <2>. QED  BY <2>1, IndexesFinite, FS_Product
<1>4. f \in Surjection(R, T)
  BY DEF Surjection
<1>5. IsFiniteSet(T)
  <2>. HIDE DEF f, T, R
  <2>. QED  BY <1>3, <1>4, FS_Surjection
<1>6. ASSUME NEW x \in S
      PROVE  x \in T
  <2>1. PICK b \in IndexBlocks(h.mem, h.root, {}), i \in Indexes, o \in h.objects : x = Moved(h, users, b, i, o)
    BY EntriesMoved
  <2>2. b[1] \in N
    BY BlocksApart DEF Sound, Apart, WellFormed
  <2>. DEFINE y == <<<<o, b[1]>>, i>>
  <2>3. y \in R /\ y[1][1] = o /\ y[1][2] = b[1] /\ y[2] = i
    BY <2>2
  <2>. HIDE DEF y, R
  <2>4. f[y] = x
    BY <2>1, <2>3 DEF Moved
  <2>. HIDE DEF f
  <2>. QED  BY <2>3, <2>4
<1>. HIDE DEF T
<1>7. S \in SUBSET T
  BY <1>6
<1>. QED  BY <1>5, <1>7, FS_Subset

\* So a volume can be checked after any reload of a sound one, also when files have become
\* invisible or have got other slots.
LEMMA ReloadCheckable ==
  ASSUME NEW h, Sound(h), Bits(h), NEW v, v = Load(h.mem)
  PROVE  Checkable(v)
<1>. DEFINE users == UsersOn(h.mem, {})
            S     == EntriesOn(h.mem, h.root, users, {})
            num(x) == [x EXCEPT !.num = NumberAtLoad(S, x)]
<1>1. /\ v.mem = h.mem /\ v.root = h.root /\ v.used = h.mem[BitPage].items
      /\ v.objects = {num(x) : x \in S}
  <2>1. RootOn(h.mem) = h.root
    BY ReloadRoot
  <2>. QED  BY <2>1 DEF Load, LoadFrom, Numbered
<1>. HIDE DEF S, users
<1>2. Checkable(h)
  BY SoundCheckable
<1>3. Damaged(h, v)
  <2>1. v.used \subseteq h.used /\ h.used \ v.used \subseteq Window
    BY <1>1 DEF Bits
  <2>2. \A p \in Window : ~(p < FirstAlloc) /\ p \in Pages
    <3>1. Top \in Int /\ FirstAlloc \in Int
      BY BitMapAssumption DEF Top
    <3>. QED  BY <3>1, WindowType DEF Window
  <2>3. \A p \in DirPages(h) \union RootPages : p < FirstAlloc => p \in v.used
    BY <1>2, <2>1, <2>2 DEF Checkable
  <2>. QED  BY <1>1, <1>2, <2>1, <2>3 DEF Damaged, Checkable, SamePtrs
<1>4. ASSUME NEW x \in S
      PROVE  /\ num(x).slot = x.slot /\ x.slot \in Nat
             /\ \E o \in h.objects : num(x).kind = o.kind /\ num(x).page = o.page /\ num(x).pages = o.pages
  <2>1. PICK b \in IndexBlocks(h.mem, h.root, {}), i \in Indexes, o \in h.objects : x = Moved(h, users, b, i, o)
    BY EntriesMoved DEF S
  <2>2. /\ DOMAIN x = EntryFields /\ x.slot = SlotAt(b[1], i, o.slot % EntriesPerPage)
        /\ x.kind = o.kind /\ x.page = o.page /\ x.pages = o.pages
    BY <2>1, MovedFields
  <2>3. /\ num(x).slot = x.slot /\ num(x).kind = x.kind /\ num(x).page = x.page /\ num(x).pages = x.pages
    BY <2>2 DEF EntryFields
  <2>4. b[1] \in Nat /\ o.slot % EntriesPerPage \in 0 .. EntriesPerPage - 1
    <3>1. o.slot \in Slots /\ h.root.sub \in BOOLEAN
      BY DEF Sound, Apart, WellFormed, IsEntry
    <3>2. b[1] \in 0 .. Cardinality(Indexes)
      BY <3>1, BlocksApart
    <3>. QED  BY <3>1, <3>2, SlotParts, IndexesFinite
  <2>5. x.slot \in Nat
    BY <2>2, <2>4, SlotAtNat
  <2>. HIDE DEF num
  <2>. QED  BY <2>2, <2>3, <2>5
<1>5. IsFiniteSet(v.objects)
  <2>. DEFINE n == [x \in S |-> num(x)]
  <2>1. IsFiniteSet(S)
    BY FoundFinite DEF S
  <2>2. n \in Surjection(S, v.objects)
    BY <1>1 DEF Surjection
  <2>. HIDE DEF n
  <2>. QED  BY <2>1, <2>2, FS_Surjection
<1>6. ASSUME NEW q \in v.objects
      PROVE  Placeable(v, q)
  <2>1. PICK x \in S : q = num(x)
    BY <1>1
  <2>. HIDE DEF num
  <2>2. q.slot \in Nat
    BY <1>4, <2>1
  <2>3. PICK o \in h.objects : q.kind = o.kind /\ q.page = o.page /\ q.pages = o.pages
    BY <1>4, <2>1
  <2>4. PagesOf(v.mem, q) = PagesOf(h.mem, o)
    BY <1>1, <2>3, SameWalk
  <2>5. Placeable(h, o)
    BY <1>2 DEF Checkable
  <2>. QED  BY <2>2, <2>3, <2>4, <2>5 DEF Placeable
<1>7. ASSUME NEW q \in v.objects, NEW r \in v.objects, q.slot = r.slot
      PROVE  q = r
  <2>1. PICK x \in S : q = num(x)
    BY <1>1
  <2>2. PICK y \in S : r = num(y)
    BY <1>1
  <2>. HIDE DEF num
  <2>3. x.slot = y.slot
    BY <1>4, <1>7, <2>1, <2>2
  <2>4. x = y
    BY <2>3, FoundApart DEF S
  <2>. QED  BY <2>1, <2>2, <2>4
<1>. QED  BY <1>2, <1>3, <1>5, <1>6, <1>7, DamagedCheckable

-----------------------------------------------------------------------------
\* The inductive invariant: the volume is sound and its bit file in use until a call hurts it,
\* and what that call leaves can still be checked.
FsckSound == Checkable(fs) /\ (~hurt => Sound(fs) /\ Bits(fs))

\* Only an update that runs out of pages hurts the volume.
LEMMA HurtByNoSpace ==
  ASSUME NEW who, NEW name, ~hurt, Sound(fs), FileCall(who, name), hurt'
  PROVE  \E n \in Lengths, holes \in HoleSets, v \in Contents : UpdateNoSpace(who, name, n, holes, v)
<1>1. Lengths \subseteq Nat
  BY VolumeAssumption
<1>2. ASSUME NEW n, NEW holes, NEW v, Create(who, name, n, holes, v)
      PROVE  hurt' = hurt
  BY <1>2 DEF Create
<1>3. ASSUME NEW n \in Lengths, NEW holes, NEW v, CreateNoSpace(who, name, n, holes, v)
      PROVE  hurt' = hurt
  BY <1>1, <1>3, CreateNoSpaceQuiet DEF QuietCall
<1>4. ASSUME NEW n, NEW holes, NEW v, Update(who, name, n, holes, v)
      PROVE  hurt' = hurt
  BY <1>4 DEF Update
<1>5. ASSUME NEW n, NEW holes,
             \/ CreateRefused(who, name, n, holes) \/ UpdateRefused(who, name, n, holes)
             \/ ContiguousRefused(who, name, n)
      PROVE  hurt' = hurt
  BY <1>5, RefusedQuiet DEF QuietCall
<1>6. ASSUME NEW n, NEW v, UpdateContiguous(who, name, n, v)
      PROVE  hurt' = hurt
  BY <1>6 DEF UpdateContiguous
<1>7. ASSUME NEW n, CreateContiguous(who, name, n)
      PROVE  hurt' = hurt
  BY <1>7 DEF CreateContiguous
<1>8. ASSUME NEW a, NEW b, NEW v, Patch(who, name, a, b, v)
      PROVE  hurt' = hurt
  BY <1>8 DEF Patch
<1>9. ASSUME NEW to, Rename(who, name, to)
      PROVE  hurt' = hurt
  BY <1>9 DEF Rename
<1>10. ASSUME Delete(who, name)
       PROVE  hurt' = hurt
  BY <1>10 DEF Delete
<1>. QED  BY <1>2, <1>3, <1>4, <1>5, <1>6, <1>7, <1>8, <1>9, <1>10 DEF FileCall

\* The invariant is kept.
LEMMA FsckStep ==
  ASSUME FsckSound, [Next]_vars
  PROVE  FsckSound'
<1>1. SUFFICES ASSUME ~hurt, Next
               PROVE  FsckSound'
  BY DEF Next, Abandoned, vars, FsckSound
<1>2. Sound(fs) /\ Bits(fs)
  BY <1>1 DEF FsckSound
<1>3. SUFFICES (Sound(fs') /\ Bits(fs')) \/ (hurt' /\ Checkable(fs'))
  BY SoundCheckable DEF FsckSound
<1>4. ASSUME NEW who \in Callers, NEW name \in Names, FileCall(who, name)
      PROVE  (Sound(fs') /\ Bits(fs')) \/ (hurt' /\ Checkable(fs'))
  <2>1. CASE hurt'
    <3>1. PICK n \in Lengths, holes \in HoleSets, v \in Contents : UpdateNoSpace(who, name, n, holes, v)
      BY <1>1, <1>2, <1>4, <2>1, HurtByNoSpace
    <3>2. n \in Nat
      BY VolumeAssumption
    <3>. QED  BY <1>2, <2>1, <3>1, <3>2, UpdateNoSpaceCheckable
  <2>2. CASE ~hurt'
    <3>1. Sound(fs')
      BY <1>1, <1>2, <1>4, <2>2, FileCallSound
    <3>2. Bits(fs')
      BY <1>2, <1>4, <2>2, FileCallLeaves
    <3>. QED  BY <3>1, <3>2
  <2>. QED  BY <2>1, <2>2
<1>5. CASE UserCall
  BY <1>2, <1>5, UserCallSound, UserCallBits
<1>6. CASE Reopen
  <2>1. fs' = Load(fs.mem) /\ (hurt' <=> ReloadLoses(fs))
    BY <1>1, <1>6 DEF Reopen
  <2>2. Checkable(fs')
    BY <1>2, <2>1, ReloadCheckable
  <2>3. ASSUME ~hurt'
        PROVE  Sound(fs') /\ Bits(fs')
    <3>1. Sound(fs')
      BY <1>1, <1>2, <1>6, <2>3, ReopenSound
    <3>2. fs'.mem = fs.mem /\ fs'.used = fs.mem[BitPage].items
      BY <1>2, <2>1, <2>3, ReloadParts DEF ReloadLoses
    <3>. QED  BY <3>1, <3>2 DEF Bits
  <2>. QED  BY <2>2, <2>3
<1>7. CASE Abandoned
  BY <1>1, <1>7 DEF Abandoned
<1>. QED  BY <1>1, <1>4, <1>5, <1>6, <1>7 DEF Next

\* In any run of calls, also after the one that hurts the volume, fsck reports an error exactly
\* when a page referred to is free or linked twice, and as orphans exactly the pages nothing
\* refers to; when it finds nothing, ndfs_verify_integrity finds nothing.
THEOREM FsckAlwaysAgrees == Spec => []FsckAgrees
<1>1. Init => FsckSound
  <2>. SUFFICES ASSUME Init
                PROVE  FsckSound
    OBVIOUS
  <2>1. fs = Load(FreshMem)
    BY DEF Init
  <2>2. Sound(fs) /\ fs.mem = FreshMem /\ fs.used = FixedPages
    BY <2>1, InitSound, FreshLoaded
  <2>3. Bits(fs)
    BY <2>2, FreshPages DEF Bits
  <2>. QED  BY <2>2, <2>3, SoundCheckable DEF FsckSound
<1>2. FsckSound /\ [Next]_vars => FsckSound'
  BY FsckStep
<1>3. FsckSound => FsckAgrees
  <2>. SUFFICES ASSUME FsckSound
                PROVE  FsckAgrees
    OBVIOUS
  <2>1. FsckRight(fs)
    BY FsckFinds DEF FsckSound
  <2>. QED  BY <2>1 DEF FsckRight, FsckAgrees
<1>. QED  BY <1>1, <1>2, <1>3, PTL DEF Spec
===============================================================================
