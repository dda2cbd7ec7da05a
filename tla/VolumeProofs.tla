----------------------------- MODULE VolumeProofs -----------------------------
(***************************************************************************)
(* Every call on a volume keeps it sound.                                  *)
(***************************************************************************)
EXTENDS VolumePages

-----------------------------------------------------------------------------
(***************************************************************************)
(* What a mutation does before it stores its metadata.                     *)
(***************************************************************************)
\* The same users, charged the same but for those whose record is on the pages U.
UsersLike(h, h2, U) ==
  /\ DOMAIN h2.users = DOMAIN h.users
  /\ \A v \in DOMAIN h.users :
       /\ DOMAIN h2.users[v] = UserFields
       /\ v \div EntriesPerPage \notin U => h2.users[v].used = h.users[v].used

\* The same object blocks are recorded and permitted.
SameBlocks(h, h2) ==
  \A v \in DOMAIN h.users : h2.users[v].alloc = h.users[v].alloc /\ h2.users[v].max = h.users[v].max

\* The entries K of h stay as they are, and there is at most one other, n in N, on pages of
\* its own among T.  No page of the directory and no index page of K is in T.
Exchanged(h, h2, T, K, N) ==
  /\ h2.root = h.root
  /\ T \intersect (DirPages(h) \union RootPages) = {}
  /\ \A q \in Pages \ T : h2.mem[q] = h.mem[q]
  /\ DirPages(h) \union RootPages \subseteq h2.used
  /\ K \subseteq h.objects /\ h2.objects = K \union N
  /\ \A o \in K : T \intersect IndexOf(h.mem, o) = {} /\ PagesOf(h.mem, o) \subseteq h2.used
  /\ \A m, n \in N : m = n

\* The pages of an entry that comes in.
Fits(h, h2, n) ==
  /\ \A r \in Refs(h2.mem, n) : r[2] \in Window \intersect h2.used
  /\ \A r, s \in Refs(h2.mem, n) : r[2] = s[2] => r = s
  /\ PagesOf(h2.mem, n) \intersect (DirPages(h) \union RootPages) = {}
  /\ InRow(n.user, n.slot)

\* One entry exchanged for another keeps the pages apart; its page and the one of the user who
\* pays are the only ones out of step.
LEMMA Rewritten ==
  ASSUME NEW h, Sound(h), NEW h2, WellFormed(h2), NEW T \in SUBSET Pages, NEW K, NEW N,
         Exchanged(h, h2, T, K, N),
         \A n \in N : Fits(h, h2, n) /\ HasDirPage(h, n),
         \A n \in N, o \in K : n.slot # o.slot /\ PagesOf(h2.mem, n) \intersect PagesOf(h.mem, o) = {},
         NEW G, \A o \in (h.objects \ K) \union N : Pos(o.slot) \in G,
         NEW U, UsersLike(h, h2, U)
  PROVE  Apart(h2) /\ MirroredBut(h2, G, U) /\ SameDirectory(h, h2)
<1>1. Apart(h) /\ WellFormed(h) /\ MirroredBut(h, {}, {})
  BY DEF Sound, Apart
<1>2. SamePtrs(h.mem, h2.mem, IndexPages(h))
  <2>1. IndexPages(h) \subseteq DirPages(h) \union RootPages
    BY <1>1, IndexIsDir DEF WellFormed
  <2>2. IndexPages(h) \subseteq Pages
    BY <1>1, InUse DEF WellFormed
  <2>. QED  BY <2>1, <2>2 DEF Exchanged, SamePtrs
<1>3. SameDirectory(h, h2)
  BY <1>2, SameIndex DEF SameDirectory, Exchanged
<1>4. ASSUME NEW o \in K
      PROVE  SamePtrs(h.mem, h2.mem, IndexOf(h.mem, o)) /\ PagesOf(h.mem, o) \subseteq h2.used
  <2>1. o \in h.objects
    BY DEF Exchanged
  <2>2. FilePages(h) \subseteq Pages
    BY <1>1, InUse DEF WellFormed
  <2>3. IndexOf(h.mem, o) \subseteq Pages
    BY <2>1, <2>2 DEF IndexOf, PagesOf, FilePages
  <2>4. T \intersect IndexOf(h.mem, o) = {} /\ PagesOf(h.mem, o) \subseteq h2.used
    BY DEF Exchanged
  <2>. QED  BY <2>3, <2>4 DEF SamePtrs, Exchanged
<1>5. ASSUME NEW n \in N
      PROVE  FileApart(h2, n) /\ InRow(n.user, n.slot)
  BY <1>3 DEF Fits, FileApart, SameDirectory
<1>6. Apart(h2)
  <2>1. h2.root = h.root /\ DirPages(h) \union RootPages \subseteq h2.used
    BY DEF Exchanged
  <2>2. K \in SUBSET h.objects /\ h2.objects = K \union N /\ \A m, n \in N : m = n
    BY DEF Exchanged
  <2>. QED  BY <1>1, <1>2, <1>4, <1>5, <2>1, <2>2, ApartStep
<1>7. MirroredBut(h2, G, U)
  <2>1. \A p \in DirPages(h) : h2.mem[p].items = h.mem[p].items
    <3>1. DirPages(h) \subseteq Pages
      BY <1>1, InUse DEF WellFormed
    <3>. QED  BY <3>1 DEF Exchanged
  <2>2. MasterOK(h2) /\ h2.mem[BitPage].items \subseteq Pages
    <3>1. MasterPage \in Pages \ T /\ BitPage \in Pages \ T
      BY Layout DEF Exchanged, RootPages
    <3>. QED  BY <1>1, <3>1 DEF Exchanged, MasterOK, MirroredBut
  <2>3. ASSUME NEW g \in Indexes, NEW i \in Indexes, <<g, i>> \notin G
        PROVE  {o \in h2.objects : At(o, g, i)} = {o \in h.objects : At(o, g, i)}
    <3>1. \A o \in (h.objects \ K) \union N : ~At(o, g, i)
      BY <2>3 DEF At, Pos
    <3>. QED  BY <3>1 DEF Exchanged
  <2>4. ASSUME NEW o \in h2.objects
        PROVE  HasDirPage(h, o) /\ o.slot \in Slots
    <3>1. o.slot \in Slots
      BY DEF WellFormed, IsEntry
    <3>2. HasDirPage(h, o)
      BY <1>1 DEF MirroredBut, Exchanged
    <3>. QED  BY <3>1, <3>2
  <2>5. DOMAIN h.users \subseteq UserIds /\ DOMAIN h2.users \subseteq UserIds
    BY <1>1 DEF WellFormed
  <2>6. ASSUME NEW u \in UserIds, u \div EntriesPerPage \notin U
        PROVE  /\ (u \in DOMAIN h2.users) <=> (u \in DOMAIN h.users)
               /\ u \in DOMAIN h.users => h2.users[u].used = h.users[u].used
    BY <2>6 DEF UsersLike
  <2>7. {} \subseteq G /\ {} \subseteq U
    OBVIOUS
  <2>. QED  BY <1>1, <1>3, <2>1, <2>2, <2>3, <2>4, <2>5, <2>6, <2>7, MirrorStep
<1>. QED  BY <1>3, <1>6, <1>7

\* Only the records of users change.
EditedUsers(h, h2) ==
  /\ DOMAIN h2 = VolumeFields
  /\ h2.used = h.used /\ h2.objects = h.objects /\ h2.root = h.root /\ h2.mem = h.mem

\* A change of the users' other figures keeps a volume sound.
LEMMA UsersEdited ==
  ASSUME NEW h, Sound(h), NEW h2, EditedUsers(h, h2), NEW U, UsersLike(h, h2, U)
  PROVE  Apart(h2) /\ MirroredBut(h2, {}, U) /\ SameDirectory(h, h2)
<1>1. Apart(h) /\ WellFormed(h)
  BY DEF Sound, Apart
<1>2. WellFormed(h2)
  BY <1>1 DEF WellFormed, EditedUsers, UsersLike, IsEntry
<1>. DEFINE T == {}
            K == h.objects
            N == {}
            G == {}
<1>3. Exchanged(h, h2, T, K, N)
  <2>1. DirPages(h) \union RootPages \subseteq h.used
    BY <1>1, InUse
  <2>2. \A o \in h.objects : PagesOf(h.mem, o) \subseteq h.used
    BY <1>1, InUse DEF FilePages
  <2>. QED  BY <2>1, <2>2 DEF Exchanged, EditedUsers
<1>4. /\ T \in SUBSET Pages
      /\ \A n \in N : Fits(h, h2, n) /\ HasDirPage(h, n)
      /\ \A n \in N, o \in K : n.slot # o.slot /\ PagesOf(h2.mem, n) \intersect PagesOf(h.mem, o) = {}
      /\ \A o \in (h.objects \ K) \union N : Pos(o.slot) \in G
  OBVIOUS
<1>5. Apart(h2) /\ MirroredBut(h2, G, U) /\ SameDirectory(h, h2)
  <2>. HIDE DEF T, K, N, G
  <2>. QED  BY <1>2, <1>3, <1>4, Rewritten
<1>. QED  BY <1>5

\* Raising a reservation charges no page.
LEMMA ReservingEdits ==
  ASSUME WellFormed(fs), NEW u \in Users, NEW extra
  PROVE  /\ EditedUsers(fs, Reserving(u, extra)) /\ UsersLike(fs, Reserving(u, extra), {})
         /\ SameBlocks(fs, Reserving(u, extra))
<1>1. DOMAIN fs = VolumeFields /\ \A v \in DOMAIN fs.users : DOMAIN fs.users[v] = UserFields
  BY DEF WellFormed
<1>. QED  BY <1>1 DEF Reserving, EditedUsers, UsersLike, SameBlocks, Users, VolumeFields, UserFields

\* The user u of h, given the slot s, has his blocks counted again in d.  The slot is in a block
\* he has, or he may have one more.
Opened(h, d, u, s) ==
  /\ \A v \in DOMAIN h.users :
       /\ d.users[v].max = h.users[v].max
       /\ d.users[v].alloc = IF v = u THEN BlocksWith(h.objects, u, s, h.users[u].max)
                             ELSE h.users[v].alloc
  /\ \/ GroupOf(s) = Home(u) \/ UsesGroup(h.objects, u, GroupOf(s))
     \/ ~(h.users[u].alloc >= h.users[u].max)

\* Nor does recording a block.
LEMMA WithSlotEdits ==
  ASSUME WellFormed(fs), NEW u \in Users, NEW extra, FreeSlot(u) # NoSlot
  PROVE  /\ EditedUsers(fs, WithSlot(u, extra)) /\ UsersLike(fs, WithSlot(u, extra), {})
         /\ Opened(fs, WithSlot(u, extra), u, FreeSlot(u))
<1>. DEFINE h == Reserving(u, extra)
            w == WithSlot(u, extra)
            s == FreeSlot(u)
            n == BlocksWith(fs.objects, u, s, fs.users[u].max)
<1>1. EditedUsers(fs, h) /\ UsersLike(fs, h, {}) /\ SameBlocks(fs, h)
  BY ReservingEdits
<1>2. w = [h EXCEPT !.users[u].alloc = n]
  BY DEF WithSlot
<1>3. u \in UserIds
  BY DEF WellFormed, Users
<1>4. \/ GroupOf(s) = Home(u) \/ UsesGroup(fs.objects, u, GroupOf(s))
      \/ ~(fs.users[u].alloc >= fs.users[u].max)
  BY <1>3, FreeUserSlot DEF FreeSlot
<1>. HIDE DEF h, w, s, n
<1>5. EditedUsers(fs, w) /\ UsersLike(fs, w, {})
  BY <1>1, <1>2 DEF EditedUsers, UsersLike, Users, VolumeFields, UserFields
<1>6. ASSUME NEW v \in DOMAIN fs.users
      PROVE  /\ w.users[v].max = fs.users[v].max
             /\ w.users[v].alloc = IF v = u THEN n ELSE fs.users[v].alloc
  BY <1>1, <1>2 DEF EditedUsers, UsersLike, SameBlocks, Users, VolumeFields, UserFields
<1>7. Opened(fs, w, u, s)
  BY <1>4, <1>6 DEF Opened, n
<1>. QED  BY <1>5, <1>7 DEF w, s

\* The directory of d has grown since h, the files and the charges are the same.
Prepared(h, d) ==
  /\ Sound(d) /\ d.objects = h.objects /\ UsersLike(h, d, {})
  /\ h.used \subseteq d.used /\ d.used \subseteq h.used \union DirPages(d)
  /\ d.used \subseteq h.used \union Window
  /\ DirPages(h) \subseteq DirPages(d)
  /\ \A q \in FilePages(h) : d.mem[q] = h.mem[q]
  /\ SameRecords(h, d) /\ LinksKept(h, d)

\* The slot and the directory page of a new entry.
LEMMA WithDirKeeps ==
  ASSUME Sound(fs), NEW u \in Users, NEW extra, FreeSlot(u) # NoSlot,
         NEW d, d = WithDir(u, extra)
  PROVE  /\ Prepared(fs, d.h)
         /\ FreeSlot(u) \in Slots /\ ~SlotInUse(fs.objects, FreeSlot(u)) /\ InRow(u, FreeSlot(u))
         /\ d.page # Null => DirAt(d.h, GroupOf(FreeSlot(u)), Inner(FreeSlot(u))) # Null
         /\ Opened(fs, d.h, u, FreeSlot(u))
<1>. DEFINE h == WithSlot(u, extra)
            s == FreeSlot(u)
<1>1. WellFormed(fs) /\ u \in UserIds
  BY DEF Sound, Apart, WellFormed, Users
<1>2. s \in Slots /\ ~SlotInUse(fs.objects, s) /\ InRow(u, s)
  BY <1>1, FreeUserSlot DEF FreeSlot
<1>3. EditedUsers(fs, h) /\ UsersLike(fs, h, {}) /\ Opened(fs, h, u, s)
  BY <1>1, WithSlotEdits
<1>4. d = EnsureDir(h, s)
  BY DEF WithDir
<1>. HIDE DEF h, s
<1>5. Apart(h) /\ MirroredBut(h, {}, {})
  BY <1>3, UsersEdited
<1>6. /\ Apart(d.h) /\ MirroredBut(d.h, {}, {}) /\ Grown(h, d.h)
      /\ d.page # Null => DirAt(d.h, GroupOf(s), Inner(s)) = d.page
  BY <1>2, <1>4, <1>5, EnsureDirKeeps
<1>7. Sound(d.h) /\ d.h.objects = fs.objects /\ d.h.users = h.users
  BY <1>3, <1>6 DEF Sound, Grown, EditedUsers
<1>8. UsersLike(fs, d.h, {})
  BY <1>3, <1>7 DEF UsersLike
<1>9. IndexPages(h) = IndexPages(fs) /\ DirPages(h) = DirPages(fs) /\ FilePages(h) = FilePages(fs)
  BY <1>3 DEF EditedUsers, IndexPages, GroupPages, DirPages, FilePages, Ptr
<1>10. SameRecords(fs, d.h)
  BY <1>3, <1>6 DEF EditedUsers, Grown, SameRecords, RecordsOn, Ptr
<1>11. LinksKept(fs, d.h)
  BY <1>3, <1>6, <1>9 DEF EditedUsers, Grown, LinksKept, Ptr
<1>12. Prepared(fs, d.h)
  BY <1>3, <1>6, <1>7, <1>8, <1>9, <1>10, <1>11 DEF Prepared, Grown, EditedUsers
<1>13. Opened(fs, d.h, u, s)
  BY <1>3, <1>7 DEF Opened
<1>. QED  BY <1>2, <1>6, <1>12, <1>13 DEF s

\* A user's record is changed and written.
LEMMA UserEditSaved ==
  ASSUME NEW h, Sound(h), NEW u \in UserIds, NEW g, EditedUsers(h, g),
         UsersLike(h, g, {u \div EntriesPerPage}), NEW h2, h2 = WriteUserPage(g, u)
  PROVE  Sound(h2)
<1>1. Apart(g) /\ MirroredBut(g, {}, {u \div EntriesPerPage})
  BY UsersEdited
<1>. QED  BY <1>1, UserPageWritten DEF Sound

\* ndfs_update_user_quota keeps a volume sound.
LEMMA SetQuotaSound ==
  ASSUME NEW u, NEW quota, Sound(fs), SetQuota(u, quota)
  PROVE  Sound(fs')
<1>. DEFINE g == [fs EXCEPT !.users[u].reserved = quota]
<1>1. WellFormed(fs) /\ u \in UserIds /\ u \in DOMAIN fs.users
  BY DEF Sound, Apart, WellFormed, SetQuota, Users
<1>2. EditedUsers(fs, g) /\ UsersLike(fs, g, {u \div EntriesPerPage})
  BY <1>1 DEF WellFormed, EditedUsers, UsersLike, VolumeFields, UserFields
<1>3. fs' = WriteUserPage(g, u)
  BY DEF SetQuota
<1>. HIDE DEF g
<1>. QED  BY <1>1, <1>2, <1>3, UserEditSaved

\* So do ndfs_give_object_blocks and ndfs_take_object_blocks.
LEMMA SetMaxSound ==
  ASSUME NEW u \in Users, NEW max, Sound(fs), SetMax(u, max)
  PROVE  Sound(fs')
<1>. DEFINE g == [fs EXCEPT !.users[u].max = max]
<1>1. WellFormed(fs) /\ u \in UserIds /\ u \in DOMAIN fs.users
  BY DEF Sound, Apart, WellFormed, Users
<1>2. EditedUsers(fs, g) /\ UsersLike(fs, g, {u \div EntriesPerPage})
  BY <1>1 DEF WellFormed, EditedUsers, UsersLike, VolumeFields, UserFields
<1>3. fs' = WriteUserPage(g, u)
  BY DEF SetMax
<1>. HIDE DEF g
<1>. QED  BY <1>1, <1>2, <1>3, UserEditSaved

\* A refused call raises a reservation, may record a block and may make a directory page.
LEMMA RefusedSound ==
  ASSUME Sound(fs), NEW u \in Users, NEW extra,
         \/ fs' = fs \/ fs' = Reserving(u, extra)
         \/ FreeSlot(u) # NoSlot /\ fs' = WithDir(u, extra).h
  PROVE  Sound(fs')
<1>1. CASE fs' = fs
  BY <1>1
<1>2. CASE fs' = Reserving(u, extra)
  <2>1. WellFormed(fs)
    BY DEF Sound, Apart
  <2>2. EditedUsers(fs, fs') /\ UsersLike(fs, fs', {})
    BY <1>2, <2>1, ReservingEdits
  <2>3. Apart(fs') /\ MirroredBut(fs', {}, {})
    BY <2>2, UsersEdited
  <2>. QED  BY <2>3 DEF Sound
<1>3. CASE FreeSlot(u) # NoSlot /\ fs' = WithDir(u, extra).h
  BY <1>3, WithDirKeeps DEF Prepared
<1>. QED  BY <1>1, <1>2, <1>3

\* Users come and go, those whose record is on the pages U.
LEMMA UsersChanged ==
  ASSUME NEW h, Sound(h), NEW g, EditedUsers(h, g), WellFormed(g), NEW U,
         \A v \in UserIds : v \div EntriesPerPage \notin U =>
           /\ (v \in DOMAIN g.users) <=> (v \in DOMAIN h.users)
           /\ v \in DOMAIN h.users => g.users[v].used = h.users[v].used
  PROVE  Apart(g) /\ MirroredBut(g, {}, U)
<1>1. Apart(h) /\ WellFormed(h) /\ MirroredBut(h, {}, {})
  BY DEF Sound, Apart
<1>2. Apart(g) /\ SameDirectory(h, g)
  <2>1. SamePtrs(h.mem, g.mem, IndexPages(h) \union FilePages(h))
    BY DEF SamePtrs, EditedUsers
  <2>2. g.root = h.root /\ g.objects = h.objects /\ h.used \subseteq g.used
    BY DEF EditedUsers
  <2>. QED  BY <1>1, <2>1, <2>2, ApartKept
<1>. DEFINE G == {}
            Z == {}
<1>3. MirroredBut(h, Z, Z) /\ Z \subseteq G /\ Z \subseteq U
  BY <1>1
<1>4. \A p \in DirPages(h) : g.mem[p].items = h.mem[p].items
  BY DEF EditedUsers
<1>5. MasterOK(g) /\ g.mem[BitPage].items \subseteq Pages
  BY <1>1 DEF EditedUsers, MasterOK, MirroredBut
<1>6. \A f, i \in Indexes : <<f, i>> \notin G =>
        {o \in g.objects : At(o, f, i)} = {o \in h.objects : At(o, f, i)}
  BY DEF EditedUsers
<1>7. \A o \in g.objects : HasDirPage(h, o) /\ o.slot \in Slots
  BY <1>1 DEF EditedUsers, MirroredBut, WellFormed, IsEntry
<1>8. DOMAIN h.users \subseteq UserIds /\ DOMAIN g.users \subseteq UserIds
  BY <1>1 DEF WellFormed
<1>9. MirroredBut(g, G, U)
  <2>. HIDE DEF G, Z
  <2>. QED  BY <1>1, <1>2, <1>3, <1>4, <1>5, <1>6, <1>7, <1>8, MirrorStep
<1>. QED  BY <1>2, <1>9

\* ndfs_remove_user
RemovalOf(u, g) ==
  /\ u \in UserIds /\ \A o \in fs.objects : o.user # u
  /\ EditedUsers(fs, g) /\ Apart(g) /\ MirroredBut(g, {}, {u \div EntriesPerPage})
  /\ DOMAIN g.users = DOMAIN fs.users \ {u} /\ \A v \in DOMAIN g.users : g.users[v] = fs.users[v]
  /\ fs' = WriteUserPage(g, u)

\* What it does to a sound volume.
LEMMA RemoveUserDoes ==
  ASSUME NEW u, Sound(fs), RemoveUser(u)
  PROVE  \E g : RemovalOf(u, g)
<1>. DEFINE users == [v \in Users \ {u} |-> fs.users[v]]
            g     == [fs EXCEPT !.users = users]
<1>1. WellFormed(fs) /\ u \in UserIds /\ u \in DOMAIN fs.users
  BY DEF Sound, Apart, WellFormed, RemoveUser, Users
<1>2. fs' = WriteUserPage(g, u)
  <2>1. [fs EXCEPT !.users = [v \in Users \ {u} |-> @[v]]] = g
    BY <1>1 DEF WellFormed, VolumeFields
  <2>. QED  BY <2>1 DEF RemoveUser
<1>3. DOMAIN users = DOMAIN fs.users \ {u} /\ \A v \in DOMAIN fs.users \ {u} : users[v] = fs.users[v]
  BY DEF Users
<1>. HIDE DEF users
<1>4. EditedUsers(fs, g) /\ g.users = users
  BY <1>1 DEF WellFormed, EditedUsers, VolumeFields
<1>. HIDE DEF g
<1>5. WellFormed(g)
  <2>1. \A o \in g.objects : IsEntry(g, o)
    BY <1>1, <1>3, <1>4 DEF WellFormed, IsEntry, EditedUsers, RemoveUser
  <2>. QED  BY <1>1, <1>3, <1>4, <2>1 DEF WellFormed, EditedUsers
<1>6. ASSUME NEW v \in UserIds, v \div EntriesPerPage \notin {u \div EntriesPerPage}
      PROVE  /\ (v \in DOMAIN g.users) <=> (v \in DOMAIN fs.users)
             /\ v \in DOMAIN fs.users => g.users[v].used = fs.users[v].used
  <2>1. v # u
    BY <1>6
  <2>. QED  BY <1>3, <1>4, <2>1
<1>7. Apart(g) /\ MirroredBut(g, {}, {u \div EntriesPerPage})
  BY <1>4, <1>5, <1>6, UsersChanged
<1>8. \A o \in fs.objects : o.user # u
  BY DEF RemoveUser
<1>9. RemovalOf(u, g)
  BY <1>1, <1>2, <1>3, <1>4, <1>7, <1>8 DEF RemovalOf
<1>. QED  BY <1>9

\* A user without files leaves.
LEMMA RemoveUserSound ==
  ASSUME NEW u, Sound(fs), RemoveUser(u)
  PROVE  Sound(fs')
BY RemoveUserDoes, UserPageWritten DEF RemovalOf, Sound

\* ndfs_add_user: g has the user u, h his page if one could be made.
AdditionOf(u, g, h) ==
  /\ u \in UserIds /\ u \notin DOMAIN fs.users
  /\ EditedUsers(fs, g) /\ Apart(g) /\ Grown(g, h)
  /\ DOMAIN g.users = DOMAIN fs.users \union {u}
  /\ g.users[u].used = 0 /\ g.users[u].alloc = 1 /\ g.users[u].max = 1
  /\ \A v \in DOMAIN fs.users : g.users[v] = fs.users[v]
  /\ Apart(h) /\ MirroredBut(h, {}, {u \div EntriesPerPage})
  /\ fs' = WriteBitFile(WriteUserPage(h, u))

\* What it does to a sound volume.
LEMMA AddUserDoes ==
  ASSUME NEW quota, Sound(fs), AddUser(quota)
  PROVE  \E u, g, h : AdditionOf(u, g, h)
<1>. DEFINE u     == Least(UserIds \ DOMAIN fs.users)
            users == [v \in DOMAIN fs.users \union {u} |-> IF v = u THEN NewUser(quota) ELSE fs.users[v]]
            g     == [fs EXCEPT !.users = users]
            r     == EnsureUserPage(g, u)
            w     == WriteUserPage(r.h, u)
<1>1. WellFormed(fs) /\ DOMAIN fs.users \subseteq UserIds
  BY DEF Sound, Apart, WellFormed
<1>2. u \in UserIds /\ u \notin DOMAIN fs.users
  <2>1. UserIds \subseteq Nat
    BY Layout DEF UserIds
  <2>2. DOMAIN fs.users # UserIds
    BY DEF AddUser, Users
  <2>3. UserIds \ DOMAIN fs.users # {} /\ UserIds \ DOMAIN fs.users \in SUBSET Nat
    BY <1>1, <2>1, <2>2
  <2>. QED  BY <2>3, LeastFound
<1>3. fs' = WriteBitFile(w)
  BY DEF AddUser, Adding
<1>. HIDE DEF u
<1>4. /\ DOMAIN users = DOMAIN fs.users \union {u} /\ DOMAIN users[u] = UserFields
      /\ users[u].used = 0 /\ users[u].alloc = 1 /\ users[u].max = 1
      /\ \A v \in DOMAIN fs.users : users[v] = fs.users[v]
  BY <1>2 DEF NewUser, UserFields
<1>. HIDE DEF users
<1>5. EditedUsers(fs, g) /\ g.users = users
  BY <1>1 DEF WellFormed, EditedUsers, VolumeFields
<1>. HIDE DEF g
<1>6. WellFormed(g)
  <2>1. \A o \in g.objects : IsEntry(g, o)
    BY <1>1, <1>4, <1>5 DEF WellFormed, IsEntry, EditedUsers
  <2>2. \A v \in DOMAIN g.users : DOMAIN g.users[v] = UserFields
    BY <1>1, <1>4, <1>5 DEF WellFormed
  <2>. QED  BY <1>1, <1>2, <1>4, <1>5, <2>1, <2>2 DEF WellFormed, EditedUsers
<1>7. ASSUME NEW v \in UserIds, v \div EntriesPerPage \notin {u \div EntriesPerPage}
      PROVE  /\ (v \in DOMAIN g.users) <=> (v \in DOMAIN fs.users)
             /\ v \in DOMAIN fs.users => g.users[v].used = fs.users[v].used
  <2>1. v # u
    BY <1>7
  <2>. QED  BY <1>4, <1>5, <2>1
<1>8. Apart(g) /\ MirroredBut(g, {}, {u \div EntriesPerPage})
  BY <1>5, <1>6, <1>7, UsersChanged
<1>9. Apart(r.h) /\ MirroredBut(r.h, {}, {u \div EntriesPerPage}) /\ Grown(g, r.h)
  <2>1. r = LinkedAt(g, UserIndex, u \div EntriesPerPage)
    BY DEF EnsureUserPage
  <2>2. UserIndex \in IndexPages(g) /\ u \div EntriesPerPage \in Indexes
    BY <1>2, UserPart DEF IndexPages
  <2>3. u \div EntriesPerPage \in {u \div EntriesPerPage}
    OBVIOUS
  <2>. HIDE DEF r
  <2>. QED  BY <1>8, <2>1, <2>2, <2>3, LinkedKeeps
<1>. HIDE DEF r
<1>10. AdditionOf(u, g, r.h)
  BY <1>2, <1>3, <1>4, <1>5, <1>8, <1>9 DEF AdditionOf
<1>. QED  BY <1>10

\* A user comes, whose page may have to be made.
LEMMA AddUserSound ==
  ASSUME NEW quota, Sound(fs), AddUser(quota)
  PROVE  Sound(fs')
<1>1. PICK u, g, h : AdditionOf(u, g, h)
  BY AddUserDoes
<1>. DEFINE w == WriteUserPage(h, u)
<1>2. Apart(h) /\ MirroredBut(h, {}, {u \div EntriesPerPage}) /\ u \in UserIds /\ fs' = WriteBitFile(w)
  BY <1>1 DEF AdditionOf
<1>3. Apart(w) /\ MirroredBut(w, {}, {})
  BY <1>2, UserPageWritten
<1>. HIDE DEF w
<1>. QED  BY <1>2, <1>3, BitFileWritten DEF Sound

-----------------------------------------------------------------------------
(***************************************************************************)
(* Entries come, change and go.                                            *)
(***************************************************************************)
\* What an entry is made of before its pages are there.
EntryShape(h, o) ==
  /\ DOMAIN o = EntryFields /\ o.slot \in Slots /\ o.user \in DOMAIN h.users /\ o.named = TRUE
  /\ o.kind \in {"contiguous", "indexed", "subindexed"} /\ o.page \in Pages /\ o.pages \in Nat
  /\ (o.kind = "contiguous" => o.pages > 0)
  /\ InRow(o.user, o.slot) /\ HasDirPage(h, o)

\* Free pages only: no place of the volume is disturbed.
LEMMA ExtendedSound ==
  ASSUME NEW h, Sound(h), NEW T, NEW g, Extended(h, g, T)
  PROVE  Sound(g) /\ g.used \subseteq Pages
<1>. DEFINE K == h.objects
            N == {}
            G == {}
            U == {}
<1>1. Apart(h) /\ WellFormed(h)
  BY DEF Sound, Apart
<1>2. T \in SUBSET Pages /\ T \intersect h.used = {}
  BY WindowType DEF Extended, FreePages
<1>3. WellFormed(g)
  BY <1>1, <1>2 DEF WellFormed, Extended, IsEntry
<1>4. Exchanged(h, g, T, K, N)
  <2>1. DirPages(h) \union RootPages \subseteq h.used
    BY <1>1, InUse
  <2>2. ASSUME NEW o \in h.objects
        PROVE  T \intersect IndexOf(h.mem, o) = {} /\ PagesOf(h.mem, o) \subseteq g.used
    <3>1. PagesOf(h.mem, o) \subseteq h.used
      BY <1>1, InUse DEF FilePages
    <3>2. IndexOf(h.mem, o) \subseteq PagesOf(h.mem, o)
      BY DEF IndexOf, PagesOf
    <3>. QED  BY <1>2, <3>1, <3>2 DEF Extended
  <2>. QED  BY <1>2, <2>1, <2>2 DEF Exchanged, Extended
<1>5. /\ \A n \in N : Fits(h, g, n) /\ HasDirPage(h, n)
      /\ \A n \in N, o \in K : n.slot # o.slot /\ PagesOf(g.mem, n) \intersect PagesOf(h.mem, o) = {}
      /\ \A o \in (h.objects \ K) \union N : Pos(o.slot) \in G
  OBVIOUS
<1>6. UsersLike(h, g, U)
  BY <1>1 DEF UsersLike, Extended, WellFormed
<1>7. Apart(g) /\ MirroredBut(g, G, U)
  <2>. HIDE DEF K, N, G, U
  <2>. QED  BY <1>2, <1>3, <1>4, <1>5, <1>6, Rewritten
<1>. QED  BY <1>3, <1>7 DEF Sound, WellFormed

\* The new entry in the table, and its owner charged.
Added(g, u, o) == [g EXCEPT !.objects = @ \union {o}, !.users[u].used = @ + o.pages]

\* A new entry on pages that were free keeps the pages apart.
LEMMA AddedSound ==
  ASSUME NEW h, Sound(h), NEW T, NEW g, Extended(h, g, T), NEW o, EntryShape(h, o),
         ~SlotInUse(h.objects, o.slot), Occupies(g.mem, o, T), NEW u, u = o.user,
         NEW a, a = Added(g, u, o)
  PROVE  /\ Apart(a) /\ MirroredBut(a, {Pos(o.slot)}, {u \div EntriesPerPage})
         /\ SameDirectory(h, a) /\ o.slot \in Slots /\ u \in UserIds
<1>. DEFINE K == h.objects
            N == {o}
            G == {Pos(o.slot)}
            U == {u \div EntriesPerPage}
<1>1. Apart(h) /\ WellFormed(h)
  BY DEF Sound, Apart
<1>2. T \in SUBSET Pages /\ T \intersect h.used = {} /\ T \subseteq Window
  BY WindowType DEF Extended, FreePages
<1>3. /\ DOMAIN a = VolumeFields /\ a.used = h.used \union T /\ a.objects = h.objects \union {o}
      /\ a.root = h.root /\ a.mem = g.mem /\ UsersLike(h, a, U)
  <2>1. DOMAIN g = VolumeFields /\ g.users = h.users /\ u \in DOMAIN h.users
    BY DEF Extended, EntryShape
  <2>2. \A v \in DOMAIN h.users : DOMAIN h.users[v] = UserFields
    BY <1>1 DEF WellFormed
  <2>3. /\ DOMAIN a = VolumeFields /\ a.used = g.used /\ a.objects = g.objects \union {o}
        /\ a.root = g.root /\ a.mem = g.mem
        /\ a.users = [h.users EXCEPT ![u].used = @ + o.pages]
    BY <2>1 DEF Added, VolumeFields
  <2>4. UsersLike(h, a, U)
    BY <2>1, <2>2, <2>3 DEF UsersLike, UserFields
  <2>. QED  BY <2>3, <2>4 DEF Extended
<1>4. WellFormed(a)
  <2>1. IsEntry(a, o)
    BY <1>3 DEF IsEntry, EntryShape, UsersLike
  <2>2. \A q \in h.objects : IsEntry(a, q)
    BY <1>1, <1>3 DEF IsEntry, WellFormed, UsersLike
  <2>3. IsMem(a.mem)
    BY <1>3 DEF Extended
  <2>. QED  BY <1>1, <1>2, <1>3, <2>1, <2>2, <2>3 DEF WellFormed, UsersLike
<1>5. DirPages(h) \union RootPages \subseteq h.used /\ \A q \in h.objects : PagesOf(h.mem, q) \subseteq h.used
  BY <1>1, InUse DEF FilePages
<1>6. Exchanged(h, a, T, K, N)
  <2>1. ASSUME NEW q \in h.objects
        PROVE  T \intersect IndexOf(h.mem, q) = {} /\ PagesOf(h.mem, q) \subseteq a.used
    <3>1. IndexOf(h.mem, q) \subseteq PagesOf(h.mem, q)
      BY DEF IndexOf, PagesOf
    <3>. QED  BY <1>2, <1>3, <1>5, <3>1
  <2>2. \A q \in Pages \ T : a.mem[q] = h.mem[q]
    BY <1>3 DEF Extended
  <2>. QED  BY <1>2, <1>3, <1>5, <2>1, <2>2 DEF Exchanged
<1>7. Fits(h, a, o) /\ HasDirPage(h, o)
  <2>1. PagesOf(a.mem, o) = T /\ \A r, s \in Refs(a.mem, o) : r[2] = s[2] => r = s
    BY <1>3 DEF Occupies
  <2>2. \A r \in Refs(a.mem, o) : r[2] \in T
    BY <2>1 DEF PagesOf
  <2>. QED  BY <1>2, <1>3, <1>5, <2>1, <2>2 DEF Fits, EntryShape
<1>8. ASSUME NEW q \in h.objects
      PROVE  o.slot # q.slot /\ PagesOf(a.mem, o) \intersect PagesOf(h.mem, q) = {}
  BY <1>2, <1>3, <1>5 DEF SlotInUse, Occupies
<1>9. /\ \A n \in N : Fits(h, a, n) /\ HasDirPage(h, n)
      /\ \A n \in N, q \in K : n.slot # q.slot /\ PagesOf(a.mem, n) \intersect PagesOf(h.mem, q) = {}
      /\ \A q \in (h.objects \ K) \union N : Pos(q.slot) \in G
  BY <1>7, <1>8
<1>10. UsersLike(h, a, U)
  BY <1>3
<1>11. Apart(a) /\ MirroredBut(a, G, U) /\ SameDirectory(h, a)
  <2>. HIDE DEF K, N, G, U
  <2>. QED  BY <1>2, <1>4, <1>6, <1>9, <1>10, Rewritten
<1>12. o.slot \in Slots /\ u \in UserIds
  BY <1>1 DEF EntryShape, WellFormed
<1>. QED  BY <1>11, <1>12

\* Stored, it keeps a volume sound.
LEMMA EnteredSound ==
  ASSUME NEW h, Sound(h), NEW T, NEW g, Extended(h, g, T), NEW o, EntryShape(h, o),
         ~SlotInUse(h.objects, o.slot), Occupies(g.mem, o, T), NEW u, u = o.user,
         NEW h2, h2 = Entered(g, u, o)
  PROVE  Sound(h2)
<1>. DEFINE a == Added(g, u, o)
<1>1. h2 = Saved(a, o.slot, u)
  BY DEF Entered, Added
<1>. HIDE DEF a
<1>2. /\ Apart(a) /\ MirroredBut(a, {Pos(o.slot)}, {u \div EntriesPerPage})
      /\ SameDirectory(h, a) /\ o.slot \in Slots /\ u \in UserIds
  BY AddedSound DEF a
<1>. QED  BY <1>1, <1>2, SavedSound

\* The pages a call writes, and those it charges, are so many.
LEMMA Counts ==
  ASSUME NEW len \in Nat, NEW holes
  PROVE  AtLeastOne(len) \in Nat \ {0} /\ Real(AtLeastOne(len), holes) \in Nat
<1>. DEFINE n == AtLeastOne(len)
<1>1. n \in Nat \ {0}
  BY DEF AtLeastOne
<1>. HIDE DEF n
<1>2. IsFiniteSet(0 .. n - 1)
  BY <1>1, FS_Interval
<1>3. IsFiniteSet((0 .. n - 1) \ holes)
  BY <1>2, FS_Subset
<1>4. Real(n, holes) \in Nat
  BY <1>3, FS_CardinalityType DEF Real
<1>. QED  BY <1>1, <1>4 DEF n

\* Who pays is a user.
LEMMA PayersAreUsers == \A who : Payers(who) \subseteq Users
BY DEF Payers

\* The entry of a new file.
LEMMA NewEntry ==
  ASSUME Sound(fs), NEW u \in Users, NEW extra, HasEntry(u, extra), NEW name, NEW page \in Pages,
         NEW kind \in {"contiguous", "indexed", "subindexed"}, NEW pages \in Nat, NEW size,
         kind = "contiguous" => pages > 0,
         NEW o, o = Entry(u, name, kind, page, pages, size)
  PROVE  /\ Prepared(fs, WithDir(u, extra).h) /\ EntryShape(WithDir(u, extra).h, o)
         /\ ~SlotInUse(WithDir(u, extra).h.objects, o.slot)
         /\ o.user = u /\ o.kind = kind /\ o.page = page /\ o.pages = pages
         /\ o.name = name /\ o.size = size
         /\ Opened(fs, WithDir(u, extra).h, u, o.slot)
<1>. DEFINE d == WithDir(u, extra)
<1>1. FreeSlot(u) # NoSlot /\ d.page # Null
  BY DEF HasEntry
<1>2. /\ Prepared(fs, d.h)
      /\ FreeSlot(u) \in Slots /\ ~SlotInUse(fs.objects, FreeSlot(u)) /\ InRow(u, FreeSlot(u))
      /\ d.page # Null => DirAt(d.h, GroupOf(FreeSlot(u)), Inner(FreeSlot(u))) # Null
      /\ Opened(fs, d.h, u, FreeSlot(u))
  BY <1>1, WithDirKeeps
<1>. HIDE DEF d
<1>3. /\ DOMAIN o = EntryFields /\ o.slot = FreeSlot(u) /\ o.user = u /\ o.kind = kind
      /\ o.page = page /\ o.pages = pages /\ o.named = TRUE /\ o.name = name /\ o.size = size
  BY DEF Entry, EntryFields
<1>4. EntryShape(d.h, o)
  BY <1>1, <1>2, <1>3 DEF EntryShape, HasDirPage, UsersLike, Users, Prepared
<1>. QED  BY <1>2, <1>3, <1>4 DEF d, Prepared

\* From h a directory d was prepared and pages T taken and written, which gave g; there o is
\* entered for the user u, and h2 is the result.
Creation(h, h2, u, o, T, d, g) ==
  /\ Prepared(h, d) /\ Extended(d, g, T)
  /\ EntryShape(d, o) /\ ~SlotInUse(d.objects, o.slot) /\ Occupies(g.mem, o, T) /\ o.user = u
  /\ Opened(h, d, u, o.slot)
  /\ h2 = Entered(g, u, o)

\* create_new_file
CreationOf(who, name, len, holes, v, u, o, T, d, g) ==
  LET n == AtLeastOne(len) IN
  /\ u \in Payers(who) /\ Found(who, name) = {}
  /\ n <= MaxFilePages
  /\ Creation(fs, fs', u, o, T, d, g)
  /\ o.name = name /\ o.kind = KindFor(n) /\ o.pages = Real(n, holes) /\ o.size = n
  /\ TreeOf(g.mem, o, n, holes, Written(len, v))
  /\ Wanting(o.slot, Expected(n, holes, Written(len, v)))

\* What create_new_file does to a sound volume.
LEMMA CreateDoes ==
  ASSUME NEW who, NEW name, NEW len \in Nat, NEW holes, NEW v, Sound(fs),
         Create(who, name, len, holes, v)
  PROVE  \E u, o, T, d, g : CreationOf(who, name, len, holes, v, u, o, T, d, g)
<1>. DEFINE n == AtLeastOne(len)
            x == Real(n, holes)
<1>1. PICK u \in Payers(who) :
        LET b == Build(WithDir(u, x).h, n, holes, Written(len, v))
            o == Entry(u, name, KindFor(n), b.page, x, n) IN
        /\ Found(who, name) = {}
        /\ n <= MaxFilePages /\ HasEntry(u, x) /\ b.page # Null /\ fs' = Entered(b.h, u, o)
        /\ Wanting(o.slot, Expected(n, holes, Written(len, v)))
  BY DEF Create
<1>. DEFINE d == WithDir(u, x).h
            b == Build(d, n, holes, Written(len, v))
            o == Entry(u, name, KindFor(n), b.page, x, n)
<1>2. n \in Nat \ {0} /\ x \in Nat
  BY Counts
<1>3. /\ n <= MaxFilePages /\ HasEntry(u, x) /\ b.page # Null /\ fs' = Entered(b.h, u, o)
      /\ Wanting(o.slot, Expected(n, holes, Written(len, v)))
  BY <1>1
<1>4. u \in Users
  BY PayersAreUsers
<1>5. KindFor(n) \in {"contiguous", "indexed", "subindexed"} /\ (KindFor(n) = "contiguous" => x > 0)
  BY DEF KindFor
<1>. HIDE DEF n, x, b, o
<1>6. Prepared(fs, d)
  BY <1>3, <1>4, WithDirKeeps DEF HasEntry
<1>7. DOMAIN d = VolumeFields /\ IsMem(d.mem)
  BY <1>6 DEF Prepared, Sound, Apart, WellFormed
<1>8. b.page \in Pages /\ \E T : Built(d, b, T, n, holes, Written(len, v))
  <2>. HIDE DEF d
  <2>. QED  BY <1>2, <1>3, <1>7, BuildShape DEF b
<1>9. /\ EntryShape(d, o) /\ ~SlotInUse(d.objects, o.slot) /\ Opened(fs, d, u, o.slot)
      /\ o.user = u /\ o.kind = KindFor(n) /\ o.page = b.page /\ o.pages = x
      /\ o.name = name /\ o.size = n
  <2>. DEFINE kind == KindFor(n)
  <2>1. kind \in {"contiguous", "indexed", "subindexed"} /\ (kind = "contiguous" => x > 0)
    BY <1>5
  <2>2. o = Entry(u, name, kind, b.page, x, n)
    BY DEF o
  <2>. HIDE DEF kind
  <2>3. /\ EntryShape(d, o) /\ ~SlotInUse(d.objects, o.slot) /\ Opened(fs, d, u, o.slot)
        /\ o.user = u /\ o.kind = kind /\ o.page = b.page /\ o.pages = x
        /\ o.name = name /\ o.size = n
    BY <1>2, <1>3, <1>4, <1>8, <2>1, <2>2, NewEntry
  <2>. QED  BY <2>3 DEF kind
<1>. HIDE DEF d
<1>10. PICK T : /\ Extended(d, b.h, T) /\ Occupies(b.h.mem, o, T)
                /\ TreeOf(b.h.mem, o, n, holes, Written(len, v))
  BY <1>3, <1>8, <1>9 DEF Built
<1>11. Creation(fs, fs', u, o, T, d, b.h)
  BY <1>3, <1>6, <1>9, <1>10 DEF Creation
<1>12. CreationOf(who, name, len, holes, v, u, o, T, d, b.h)
  BY <1>1, <1>3, <1>9, <1>10, <1>11 DEF CreationOf, n, x
<1>. QED  BY <1>12

\* It keeps the volume sound.
LEMMA CreationSound ==
  ASSUME NEW h, NEW h2, NEW u, NEW o, NEW T, NEW d, NEW g, Creation(h, h2, u, o, T, d, g)
  PROVE  Sound(h2)
BY EnteredSound DEF Creation, Prepared

\* So does create_new_file.
LEMMA CreateSound ==
  ASSUME NEW who, NEW name, NEW len \in Nat, NEW holes, NEW v, Sound(fs),
         Create(who, name, len, holes, v)
  PROVE  Sound(fs')
BY CreateDoes, CreationSound DEF CreationOf

\* The tree of a new file did not fit: its pages stay marked.
LEMMA CreateNoSpaceSound ==
  ASSUME NEW who, NEW name, NEW len \in Nat, NEW holes, NEW v, Sound(fs),
         CreateNoSpace(who, name, len, holes, v)
  PROVE  Sound(fs')
<1>. DEFINE n == AtLeastOne(len)
            x == Real(n, holes)
<1>1. PICK u \in Payers(who) :
        LET b == Build(WithDir(u, x).h, n, holes, Written(len, v)) IN
        n <= MaxFilePages /\ HasEntry(u, x) /\ fs' = b.h
  BY DEF CreateNoSpace, Refused
<1>. DEFINE d == WithDir(u, x).h
            b == Build(d, n, holes, Written(len, v))
<1>2. n \in Nat \ {0}
  BY Counts
<1>3. n <= MaxFilePages /\ HasEntry(u, x) /\ fs' = b.h
  BY <1>1
<1>4. u \in Users
  BY PayersAreUsers
<1>. HIDE DEF n, x, b
<1>5. Sound(d)
  BY <1>3, <1>4, WithDirKeeps DEF HasEntry, Prepared
<1>. HIDE DEF d
<1>6. DOMAIN d = VolumeFields /\ IsMem(d.mem)
  BY <1>5 DEF Sound, Apart, WellFormed
<1>7. PICK T : Extended(d, b.h, T)
  BY <1>2, <1>3, <1>6, BuildShape DEF b, Built
<1>. QED  BY <1>3, <1>5, <1>7, ExtendedSound

\* Creation refused before anything is built.
LEMMA CreateRefusedSound ==
  ASSUME NEW who, NEW name, NEW len, NEW holes, Sound(fs), CreateRefused(who, name, len, holes)
  PROVE  Sound(fs')
<1>. DEFINE x == Real(AtLeastOne(len), holes)
<1>1. PICK u \in Payers(who) :
        \/ fs' = fs \/ fs' = Reserving(u, x)
        \/ FreeSlot(u) # NoSlot /\ fs' = WithDir(u, x).h
  BY DEF CreateRefused, NoRoom, NoSlotLeft, NoDirPage, Refused
<1>2. u \in Users
  BY PayersAreUsers
<1>. QED  BY <1>1, <1>2, RefusedSound

\* The pages of a run.
LEMMA RunRefs ==
  ASSUME NEW mem, NEW o, o.kind = "contiguous", o.page \in Int, o.pages \in Nat
  PROVE  /\ \A x : x \in Refs(mem, o) <=> \E i \in 0 .. o.pages - 1 : x = <<<<0, i>>, o.page + i>>
         /\ Occupies(mem, o, o.page .. o.page + o.pages - 1)
<1>1. \A x : x \in Refs(mem, o) <=> \E i \in 0 .. o.pages - 1 : x = <<<<0, i>>, o.page + i>>
  BY DEF Refs
<1>2. ASSUME NEW p
      PROVE  p \in PagesOf(mem, o) <=> p \in o.page .. o.page + o.pages - 1
  <2>1. p \in PagesOf(mem, o) <=> \E r \in Refs(mem, o) : p = r[2]
    BY DEF PagesOf
  <2>2. \A i : <<<<0, i>>, o.page + i>>[2] = o.page + i
    OBVIOUS
  <2>3. p \in PagesOf(mem, o) <=> \E i \in 0 .. o.pages - 1 : p = o.page + i
    <3>1. ASSUME NEW r \in Refs(mem, o), p = r[2]
          PROVE  \E i \in 0 .. o.pages - 1 : p = o.page + i
      <4>1. PICK i \in 0 .. o.pages - 1 : r = <<<<0, i>>, o.page + i>>
        BY <1>1
      <4>. QED  BY <2>2, <3>1, <4>1
    <3>2. ASSUME NEW i \in 0 .. o.pages - 1, p = o.page + i
          PROVE  \E r \in Refs(mem, o) : p = r[2]
      <4>. DEFINE r == <<<<0, i>>, o.page + i>>
      <4>1. r \in Refs(mem, o)
        BY <1>1
      <4>2. p = r[2]
        BY <3>2
      <4>. QED  BY <4>1, <4>2
    <3>. QED  BY <2>1, <3>1, <3>2
  <2>4. ASSUME p \in o.page .. o.page + o.pages - 1
        PROVE  \E i \in 0 .. o.pages - 1 : p = o.page + i
    <3>1. p - o.page \in 0 .. o.pages - 1 /\ p = o.page + (p - o.page)
      BY <2>4
    <3>. QED  BY <3>1
  <2>5. ASSUME NEW i \in 0 .. o.pages - 1
        PROVE  o.page + i \in o.page .. o.page + o.pages - 1
    OBVIOUS
  <2>. QED  BY <2>3, <2>4, <2>5
<1>3. \A r, s \in Refs(mem, o) : r[2] = s[2] => r = s
  <2>. SUFFICES ASSUME NEW r \in Refs(mem, o), NEW s \in Refs(mem, o), r[2] = s[2]
                PROVE  r = s
    OBVIOUS
  <2>1. PICK i \in 0 .. o.pages - 1 : r = <<<<0, i>>, o.page + i>>
    BY <1>1
  <2>2. PICK j \in 0 .. o.pages - 1 : s = <<<<0, j>>, o.page + j>>
    BY <1>1
  <2>3. i = j
    BY <2>1, <2>2
  <2>. QED  BY <2>1, <2>2, <2>3
<1>. QED  BY <1>1, <1>2, <1>3 DEF Occupies

\* A run is rewritten in place.
LEMMA RunWritten ==
  ASSUME NEW mem, IsMem(mem), NEW first, NEW pages, NEW n, NEW v,
         NEW mem2, mem2 = RunContent(mem, first, pages, n, v)
  PROVE  IsMem(mem2) /\ \A q \in Pages \ (first .. first + pages - 1) : mem2[q] = mem[q]
<1>1. DOMAIN mem2 = Pages /\ \A q \in Pages \ (first .. first + pages - 1) : mem2[q] = mem[q]
  BY DEF RunContent
<1>2. ASSUME NEW q \in Pages
      PROVE  DOMAIN mem2[q] = PageFields /\ mem2[q].ptrs \in [Indexes -> Pages]
  <2>1. \/ mem2[q] = mem[q] \/ mem2[q] = Blank \/ \E S : mem2[q] = Holding(S)
    BY DEF RunContent
  <2>. QED  BY <2>1, PageContent DEF IsMem
<1>. QED  BY <1>1, <1>2 DEF IsMem

\* ndfs_create_contiguous_file
RunOf(who, name, n, u, o, T, d, g) ==
  /\ u \in Payers(who) /\ Found(who, name) = {}
  /\ Creation(fs, fs', u, o, T, d, g)
  /\ o.name = name /\ o.kind = "contiguous" /\ o.pages = n /\ o.size = 0
  /\ g.mem = RunContent(d.mem, o.page, n, 0, Zeros)
  /\ Wanting(o.slot, Expected(n, {}, Zeros))

\* What ndfs_create_contiguous_file does to a sound volume.
LEMMA CreateContiguousDoes ==
  ASSUME NEW who, NEW name, NEW n \in Nat \ {0}, Sound(fs), CreateContiguous(who, name, n)
  PROVE  \E u, o, T, d, g : RunOf(who, name, n, u, o, T, d, g)
<1>1. PICK u \in Payers(who) :
        LET d     == WithDir(u, n).h
            first == FindFreeRange(d.used, n)
            o     == Entry(u, name, "contiguous", first, n, 0)
            h     == [d EXCEPT !.used = @ \union (first .. first + n - 1),
                               !.mem = RunContent(@, first, n, 0, Zeros)] IN
        /\ Found(who, name) = {}
        /\ HasEntry(u, n) /\ HasFreeRange(d.used, n) /\ fs' = Entered(h, u, o)
        /\ Wanting(o.slot, Expected(n, {}, Zeros))
  BY DEF CreateContiguous
<1>. DEFINE d     == WithDir(u, n).h
            first == FindFreeRange(d.used, n)
            T     == first .. first + n - 1
            o     == Entry(u, name, "contiguous", first, n, 0)
            g     == [d EXCEPT !.used = @ \union T, !.mem = RunContent(@, first, n, 0, Zeros)]
<1>2. /\ HasEntry(u, n) /\ HasFreeRange(d.used, n) /\ fs' = Entered(g, u, o)
      /\ Wanting(o.slot, Expected(n, {}, Zeros))
  BY <1>1
<1>3. u \in Users
  BY PayersAreUsers
<1>. HIDE DEF o, g
<1>4. first \in Window /\ T \subseteq FreePages(d.used)
  BY <1>2, FindFreeRangeFound DEF IsFreeRun
<1>5. /\ Prepared(fs, d) /\ EntryShape(d, o) /\ ~SlotInUse(d.objects, o.slot)
      /\ Opened(fs, d, u, o.slot)
      /\ o.user = u /\ o.kind = "contiguous" /\ o.page = first /\ o.pages = n
      /\ o.name = name /\ o.size = 0
  <2>1. first \in Pages
    BY <1>4, WindowType
  <2>. QED  BY <1>2, <1>3, <2>1, NewEntry DEF o
<1>. HIDE DEF d
<1>6. first \in Int
  BY <1>4 DEF Window
<1>. HIDE DEF first
<1>7. DOMAIN d = VolumeFields /\ IsMem(d.mem)
  BY <1>5 DEF Prepared, Sound, Apart, WellFormed
<1>8. Extended(d, g, T) /\ g.mem = RunContent(d.mem, first, n, 0, Zeros)
  <2>. DEFINE mem2 == RunContent(d.mem, first, n, 0, Zeros)
  <2>1. IsMem(mem2) /\ \A q \in Pages \ T : mem2[q] = d.mem[q]
    BY <1>7, RunWritten
  <2>. HIDE DEF mem2, T
  <2>2. /\ DOMAIN g = VolumeFields /\ g.used = d.used \union T /\ g.mem = mem2
        /\ g.users = d.users /\ g.objects = d.objects /\ g.root = d.root
    BY <1>7 DEF g, mem2, VolumeFields
  <2>. QED  BY <1>4, <2>1, <2>2 DEF Extended, mem2
<1>9. Occupies(g.mem, o, T)
  BY <1>5, <1>6, RunRefs
<1>. HIDE DEF T
<1>10. Creation(fs, fs', u, o, T, d, g)
  BY <1>2, <1>5, <1>8, <1>9 DEF Creation
<1>11. RunOf(who, name, n, u, o, T, d, g)
  BY <1>1, <1>2, <1>5, <1>8, <1>10 DEF RunOf
<1>. QED  BY <1>11

\* It keeps the volume sound.
LEMMA CreateContiguousSound ==
  ASSUME NEW who, NEW name, NEW n \in Nat \ {0}, Sound(fs), CreateContiguous(who, name, n)
  PROVE  Sound(fs')
BY CreateContiguousDoes, CreationSound DEF RunOf

\* A run was refused.
LEMMA ContiguousRefusedSound ==
  ASSUME NEW who, NEW name, NEW n, Sound(fs), ContiguousRefused(who, name, n)
  PROVE  Sound(fs')
<1>1. PICK u \in Payers(who) :
        \/ fs' = fs \/ fs' = Reserving(u, n)
        \/ FreeSlot(u) # NoSlot /\ fs' = WithDir(u, n).h
  BY DEF ContiguousRefused, NoRoom, NoSlotLeft, NoDirPage, HasEntry, Refused
<1>2. u \in Users
  BY PayersAreUsers
<1>. QED  BY <1>1, <1>2, RefusedSound

-----------------------------------------------------------------------------
\* The entry o of h becomes new, in the same slot, on pages T that no other place has.
Swapped(h, g, o, new, T) ==
  /\ DOMAIN g = VolumeFields /\ IsMem(g.mem) /\ g.root = h.root
  /\ g.objects = (h.objects \ {o}) \union {new}
  /\ g.used \subseteq Pages /\ g.used = (h.used \ PagesOf(h.mem, o)) \union T
  /\ T \subseteq Window /\ T \intersect (h.used \ PagesOf(h.mem, o)) = {}
  /\ \A q \in Pages \ T : g.mem[q] = h.mem[q]

\* Only one entry is rewritten, onto pages that were free or its own.
LEMMA SwappedSound ==
  ASSUME NEW h, Sound(h), NEW o \in h.objects, NEW new, NEW T, NEW g, Swapped(h, g, o, new, T),
         EntryShape(h, new), new.slot = o.slot, Occupies(g.mem, new, T),
         NEW U, UsersLike(h, g, U)
  PROVE  Apart(g) /\ MirroredBut(g, {Pos(o.slot)}, U) /\ SameDirectory(h, g) /\ o.slot \in Slots
<1>. DEFINE K == h.objects \ {o}
            N == {new}
            G == {Pos(o.slot)}
            own == PagesOf(h.mem, o)
<1>1. Apart(h) /\ WellFormed(h)
  BY DEF Sound, Apart
<1>2. T \in SUBSET Pages
  BY WindowType DEF Swapped
<1>3. WellFormed(g)
  <2>1. IsEntry(g, new)
    BY DEF IsEntry, EntryShape, UsersLike
  <2>2. \A q \in h.objects : IsEntry(g, q)
    BY <1>1 DEF IsEntry, WellFormed, UsersLike
  <2>. QED  BY <1>1, <2>1, <2>2 DEF WellFormed, Swapped, UsersLike
<1>4. DirPages(h) \union RootPages \subseteq h.used \ own
  <2>1. DirPages(h) \union RootPages \subseteq h.used
    BY <1>1, InUse
  <2>2. own \intersect (DirPages(h) \union RootPages) = {}
    BY <1>1 DEF Apart, FilesApart, FileApart
  <2>. QED  BY <2>1, <2>2
<1>5. ASSUME NEW q \in K
      PROVE  PagesOf(h.mem, q) \subseteq h.used \ own
  <2>1. PagesOf(h.mem, q) \subseteq h.used
    BY <1>1, InUse DEF FilePages
  <2>2. PagesOf(h.mem, q) \intersect own = {}
    BY <1>1 DEF Apart, FilesApart
  <2>. QED  BY <2>1, <2>2
<1>. HIDE DEF own
<1>6. h.used \ own \subseteq g.used /\ T \subseteq g.used /\ T \intersect (h.used \ own) = {}
  BY DEF Swapped, own
<1>7. Exchanged(h, g, T, K, N)
  <2>1. ASSUME NEW q \in K
        PROVE  T \intersect IndexOf(h.mem, q) = {} /\ PagesOf(h.mem, q) \subseteq g.used
    <3>1. IndexOf(h.mem, q) \subseteq PagesOf(h.mem, q)
      BY DEF IndexOf, PagesOf
    <3>. QED  BY <1>5, <1>6, <3>1
  <2>2. g.root = h.root /\ g.objects = K \union N /\ \A q \in Pages \ T : g.mem[q] = h.mem[q]
    BY DEF Swapped
  <2>3. T \intersect (DirPages(h) \union RootPages) = {} /\ DirPages(h) \union RootPages \subseteq g.used
    BY <1>4, <1>6
  <2>4. K \subseteq h.objects /\ \A m, n \in N : m = n
    OBVIOUS
  <2>. HIDE DEF K, N
  <2>. QED  BY <2>1, <2>2, <2>3, <2>4 DEF Exchanged
<1>8. Fits(h, g, new) /\ HasDirPage(h, new)
  <2>1. PagesOf(g.mem, new) = T /\ \A r, s \in Refs(g.mem, new) : r[2] = s[2] => r = s
    BY DEF Occupies
  <2>2. \A r \in Refs(g.mem, new) : r[2] \in T
    BY <2>1 DEF PagesOf
  <2>3. T \subseteq Window
    BY DEF Swapped
  <2>. QED  BY <1>4, <1>6, <2>1, <2>2, <2>3 DEF Fits, EntryShape
<1>9. ASSUME NEW q \in K
      PROVE  new.slot # q.slot /\ PagesOf(g.mem, new) \intersect PagesOf(h.mem, q) = {}
  <2>1. new.slot # q.slot
    BY <1>1 DEF Apart, SlotsApart
  <2>. QED  BY <1>5, <1>6, <2>1 DEF Occupies
<1>10. /\ \A n \in N : Fits(h, g, n) /\ HasDirPage(h, n)
       /\ \A n \in N, q \in K : n.slot # q.slot /\ PagesOf(g.mem, n) \intersect PagesOf(h.mem, q) = {}
       /\ \A q \in (h.objects \ K) \union N : Pos(q.slot) \in G
  BY <1>8, <1>9
<1>11. o.slot \in Slots
  BY <1>1 DEF WellFormed, IsEntry
<1>12. Apart(g) /\ MirroredBut(g, G, U) /\ SameDirectory(h, g)
  <2>1. Sound(h) /\ UsersLike(h, g, U)
    OBVIOUS
  <2>. HIDE DEF K, N, G
  <2>. QED  BY ONLY <2>1, <1>2, <1>3, <1>7, <1>10, Rewritten
<1>. QED  BY <1>11, <1>12

\* The volume g is h with the entry o become new, on the pages T.
Revision(h, g, o, new, T, U) ==
  /\ o \in h.objects /\ Swapped(h, g, o, new, T) /\ UsersLike(h, g, U)
  /\ EntryShape(h, new) /\ new.slot = o.slot /\ new.user = o.user /\ Occupies(g.mem, new, T)

\* What is known of an entry.
LEMMA OldEntry ==
  ASSUME NEW h, Sound(h), NEW o \in h.objects
  PROVE  /\ EntryShape(h, o) /\ Occupies(h.mem, o, PagesOf(h.mem, o))
         /\ PagesOf(h.mem, o) \subseteq Window /\ PagesOf(h.mem, o) \subseteq h.used
<1>1. IsEntry(h, o) /\ FileApart(h, o) /\ InRow(o.user, o.slot) /\ HasDirPage(h, o)
  BY DEF Sound, Apart, WellFormed, FilesApart, SlotsApart, MirroredBut
<1>2. EntryShape(h, o)
  BY <1>1 DEF EntryShape, IsEntry
<1>3. PagesOf(h.mem, o) \subseteq Window \intersect h.used
  BY <1>1 DEF FileApart, PagesOf
<1>4. Occupies(h.mem, o, PagesOf(h.mem, o))
  BY <1>1 DEF Occupies, FileApart
<1>. QED  BY <1>2, <1>3, <1>4

\* What a call finds is an entry.
LEMMA FoundIsEntry == \A who, name : Found(who, name) \subseteq fs.objects
BY DEF Found

\* The walk of a file looks at where it is, and at nothing else of its entry.
LEMMA SameWalk ==
  ASSUME NEW mem, NEW o, NEW q, q.kind = o.kind, q.page = o.page, q.pages = o.pages
  PROVE  Refs(mem, q) = Refs(mem, o) /\ PagesOf(mem, q) = PagesOf(mem, o)
<1>1. Refs(mem, q) = Refs(mem, o)
  BY DEF Refs
<1>. QED  BY <1>1 DEF PagesOf

\* An entry changed in place, with its owner's page of entries rewritten.
LEMMA SwappedWritten ==
  ASSUME NEW h, Sound(h), NEW o \in h.objects, NEW new, NEW T, NEW g, Swapped(h, g, o, new, T),
         EntryShape(h, new), new.slot = o.slot, Occupies(g.mem, new, T), g.users = h.users,
         NEW h2, h2 = WriteObjectPage(g, o.slot)
  PROVE  Sound(h2)
<1>1. UsersLike(h, g, {})
  BY DEF UsersLike, Sound, Apart, WellFormed
<1>2. Apart(g) /\ MirroredBut(g, {Pos(o.slot)}, {}) /\ SameDirectory(h, g) /\ o.slot \in Slots
  BY <1>1, SwappedSound
<1>. QED  BY <1>2, ObjectPageWritten DEF Sound

\* ndfs_rename
RenamingOf(who, name, newName, o, new, T, g) ==
  /\ o \in Found(who, name)
  /\ Revision(fs, g, o, new, T, {}) /\ g.users = fs.users /\ g.mem = fs.mem
  /\ new = [o EXCEPT !.name = newName]
  /\ fs' = WriteObjectPage(g, o.slot)

\* What ndfs_rename does to a sound volume.
LEMMA RenameDoes ==
  ASSUME NEW who, NEW name, NEW newName, Sound(fs), Rename(who, name, newName)
  PROVE  \E o, new, T, g : RenamingOf(who, name, newName, o, new, T, g)
<1>1. PICK o \in Found(who, name) :
        fs' = WriteObjectPage(Replace(fs, o, [o EXCEPT !.name = newName]), o.slot)
  BY DEF Rename
<1>. DEFINE new == [o EXCEPT !.name = newName]
            g   == Replace(fs, o, new)
            T   == PagesOf(fs.mem, o)
<1>2. fs' = WriteObjectPage(g, o.slot) /\ o \in fs.objects
  BY <1>1, FoundIsEntry
<1>3. EntryShape(fs, o) /\ Occupies(fs.mem, o, T) /\ T \subseteq Window /\ T \subseteq fs.used
  BY <1>2, OldEntry
<1>4. DOMAIN fs = VolumeFields /\ IsMem(fs.mem) /\ fs.used \subseteq Pages
  BY DEF Sound, Apart, WellFormed
<1>5. /\ DOMAIN new = EntryFields /\ new.slot = o.slot /\ new.user = o.user /\ new.named = o.named
      /\ new.kind = o.kind /\ new.page = o.page /\ new.pages = o.pages
      /\ new = [o EXCEPT !.name = newName]
  BY <1>3 DEF EntryShape, EntryFields
<1>. HIDE DEF new, T
<1>6. EntryShape(fs, new)
  BY <1>3, <1>5 DEF EntryShape, HasDirPage
<1>7. /\ DOMAIN g = VolumeFields /\ g.used = fs.used /\ g.users = fs.users /\ g.root = fs.root
      /\ g.mem = fs.mem /\ g.objects = (fs.objects \ {o}) \union {new}
  BY <1>4 DEF Replace, VolumeFields
<1>. HIDE DEF g
<1>8. Swapped(fs, g, o, new, T)
  BY <1>3, <1>4, <1>7 DEF Swapped, T
<1>9. Occupies(g.mem, new, T)
  <2>1. Refs(fs.mem, new) = Refs(fs.mem, o) /\ PagesOf(fs.mem, new) = PagesOf(fs.mem, o)
    BY <1>5, SameWalk
  <2>. QED  BY <1>3, <1>7, <2>1 DEF Occupies
<1>10. UsersLike(fs, g, {})
  BY <1>7 DEF UsersLike, Sound, Apart, WellFormed
<1>11. Revision(fs, g, o, new, T, {})
  BY <1>2, <1>5, <1>6, <1>8, <1>9, <1>10 DEF Revision
<1>12. RenamingOf(who, name, newName, o, new, T, g)
  BY <1>2, <1>5, <1>7, <1>11 DEF RenamingOf
<1>. QED  BY <1>12

\* It keeps the volume sound.
LEMMA RenameSound ==
  ASSUME NEW who, NEW name, NEW newName, Sound(fs), Rename(who, name, newName)
  PROVE  Sound(fs')
BY RenameDoes, SwappedWritten DEF RenamingOf, Revision

\* update_existing_contiguous_file
RewritingOf(who, name, len, v, o, new, T, g) ==
  /\ o \in Found(who, name) /\ o.kind = "contiguous" /\ len <= o.pages
  /\ Revision(fs, g, o, new, T, {}) /\ g.users = fs.users
  /\ g.mem = RunContent(fs.mem, o.page, o.pages, len, v)
  /\ new = [o EXCEPT !.size = len]
  /\ fs' = WriteObjectPage(g, o.slot)
  /\ Wanting(o.slot, [i \in 0 .. o.pages - 1 |-> IF i < len THEN Item(v, i) ELSE {}])

\* What update_existing_contiguous_file does to a sound volume.
LEMMA UpdateContiguousDoes ==
  ASSUME NEW who, NEW name, NEW len, NEW v, Sound(fs), UpdateContiguous(who, name, len, v)
  PROVE  \E o, new, T, g : RewritingOf(who, name, len, v, o, new, T, g)
<1>1. PICK o \in Found(who, name) :
        /\ o.kind = "contiguous" /\ len <= o.pages
        /\ Wanting(o.slot, [i \in 0 .. o.pages - 1 |-> IF i < len THEN Item(v, i) ELSE {}])
        /\ fs' = WriteObjectPage([Replace(fs, o, [o EXCEPT !.size = len]) EXCEPT !.mem =
                                    RunContent(fs.mem, o.page, o.pages, len, v)], o.slot)
  BY DEF UpdateContiguous
<1>. DEFINE new  == [o EXCEPT !.size = len]
            mem2 == RunContent(fs.mem, o.page, o.pages, len, v)
            g    == [Replace(fs, o, new) EXCEPT !.mem = mem2]
            T    == PagesOf(fs.mem, o)
<1>2. /\ fs' = WriteObjectPage(g, o.slot) /\ o \in fs.objects /\ o.kind = "contiguous"
      /\ len <= o.pages
      /\ Wanting(o.slot, [i \in 0 .. o.pages - 1 |-> IF i < len THEN Item(v, i) ELSE {}])
  BY <1>1, FoundIsEntry
<1>3. EntryShape(fs, o) /\ T \subseteq Window /\ T \subseteq fs.used
  BY <1>2, OldEntry
<1>4. DOMAIN fs = VolumeFields /\ IsMem(fs.mem) /\ fs.used \subseteq Pages
  BY DEF Sound, Apart, WellFormed
<1>5. /\ DOMAIN new = EntryFields /\ new.slot = o.slot /\ new.user = o.user /\ new.named = o.named
      /\ new.kind = o.kind /\ new.page = o.page /\ new.pages = o.pages
      /\ new = [o EXCEPT !.size = len]
  BY <1>3 DEF EntryShape, EntryFields
<1>. HIDE DEF new, T, mem2
<1>6. EntryShape(fs, new)
  BY <1>3, <1>5 DEF EntryShape, HasDirPage
<1>7. o.page \in Int /\ o.pages \in Nat
  <2>1. o.page \in Pages /\ o.pages \in Nat
    BY <1>3 DEF EntryShape
  <2>2. Pages \subseteq Int
    BY DEF Pages
  <2>. QED  BY <2>1, <2>2
<1>8. T = o.page .. o.page + o.pages - 1
  BY <1>2, <1>7, RunRefs DEF T, Occupies
<1>9. Occupies(mem2, new, T)
  <2>1. new.kind = "contiguous" /\ new.page \in Int /\ new.pages \in Nat
    BY <1>2, <1>5, <1>7
  <2>2. Occupies(mem2, new, new.page .. new.page + new.pages - 1)
    BY <2>1, RunRefs
  <2>. QED  BY <1>5, <1>8, <2>2
<1>10. IsMem(mem2) /\ \A q \in Pages \ T : mem2[q] = fs.mem[q]
  BY <1>4, <1>8, RunWritten DEF mem2
<1>11. /\ DOMAIN g = VolumeFields /\ g.used = fs.used /\ g.users = fs.users /\ g.root = fs.root
       /\ g.mem = mem2 /\ g.objects = (fs.objects \ {o}) \union {new}
  BY <1>4 DEF Replace, VolumeFields
<1>. HIDE DEF g
<1>12. Swapped(fs, g, o, new, T)
  BY <1>3, <1>4, <1>10, <1>11 DEF Swapped, T
<1>13. UsersLike(fs, g, {})
  BY <1>11 DEF UsersLike, Sound, Apart, WellFormed
<1>14. Revision(fs, g, o, new, T, {})
  BY <1>2, <1>5, <1>6, <1>9, <1>11, <1>12, <1>13 DEF Revision
<1>15. RewritingOf(who, name, len, v, o, new, T, g)
  BY <1>2, <1>5, <1>11, <1>14 DEF RewritingOf, mem2
<1>. QED  BY <1>15

\* It keeps the volume sound.
LEMMA UpdateContiguousSound ==
  ASSUME NEW who, NEW name, NEW len, NEW v, Sound(fs), UpdateContiguous(who, name, len, v)
  PROVE  Sound(fs')
<1>1. PICK o, new, T, g : RewritingOf(who, name, len, v, o, new, T, g)
  BY UpdateContiguousDoes
<1>2. /\ o \in fs.objects /\ Swapped(fs, g, o, new, T) /\ EntryShape(fs, new)
      /\ new.slot = o.slot /\ Occupies(g.mem, new, T) /\ g.users = fs.users
      /\ fs' = WriteObjectPage(g, o.slot)
  BY <1>1 DEF RewritingOf, Revision
<1>. QED  BY <1>2, SwappedWritten

\* The old pages of a file are given back and refunded.
GivenBack(w, o, u) ==
  /\ DOMAIN w = VolumeFields /\ w.used = fs.used \ PagesOf(fs.mem, o)
  /\ w.objects = fs.objects /\ w.root = fs.root /\ w.mem = fs.mem
  /\ UsersLike(fs, w, {u \div EntriesPerPage})
  /\ \A q \in DOMAIN fs.users :
       w.users[q].used = IF q = u THEN Less(fs.users[q].used, RealPages(fs.mem, o))
                         ELSE fs.users[q].used
  /\ SameBlocks(fs, w)

\* What an update does first.
LEMMA OldPagesFreed ==
  ASSUME WellFormed(fs), NEW u \in Users, NEW extra, NEW o
  PROVE  GivenBack(WithoutOld(Reserving(u, extra), o, u), o, u)
<1>. DEFINE h == Reserving(u, extra)
            w == WithoutOld(h, o, u)
<1>1. EditedUsers(fs, h) /\ UsersLike(fs, h, {}) /\ SameBlocks(fs, h)
  BY ReservingEdits
<1>2. w = [h EXCEPT !.used = @ \ PagesOf(h.mem, o), !.users[u].used = Less(@, RealPages(h.mem, o))]
  BY DEF WithoutOld
<1>. HIDE DEF h, w
<1>3. u \in DOMAIN h.users
  BY <1>1 DEF UsersLike, Users
<1>4. /\ DOMAIN w = VolumeFields /\ w.used = h.used \ PagesOf(h.mem, o)
      /\ w.objects = h.objects /\ w.root = h.root /\ w.mem = h.mem
      /\ w.users = [h.users EXCEPT ![u].used = Less(@, RealPages(h.mem, o))]
  BY <1>1, <1>2 DEF EditedUsers, VolumeFields
<1>5. UsersLike(fs, w, {u \div EntriesPerPage})
  BY <1>1, <1>3, <1>4 DEF UsersLike, UserFields
<1>6. ASSUME NEW q \in DOMAIN fs.users
      PROVE  w.users[q].used = IF q = u THEN Less(fs.users[q].used, RealPages(fs.mem, o))
                               ELSE fs.users[q].used
  BY <1>1, <1>3, <1>4 DEF UsersLike, UserFields, EditedUsers
<1>7. SameBlocks(fs, w)
  BY <1>1, <1>3, <1>4 DEF UsersLike, UserFields, SameBlocks
<1>8. GivenBack(w, o, u)
  BY <1>1, <1>4, <1>5, <1>6, <1>7 DEF EditedUsers, GivenBack
<1>. QED  BY <1>8 DEF w, h

\* The new tree and its charge put in the place of the old one.
Renewed(g, o, new, u) == [Replace(g, o, new) EXCEPT !.users[u].used = @ + new.pages]

\* update_existing_file
UpdatingOf(who, name, len, holes, v, u, o, new, T, g) ==
  LET n == AtLeastOne(len) IN
  /\ u \in Payers(who) /\ o \in Found(who, name)
  /\ n <= MaxFilePages
  /\ Revision(fs, g, o, new, T, {u \div EntriesPerPage})
  /\ \A q \in DOMAIN fs.users :
       g.users[q].used = IF q = u THEN Less(fs.users[q].used, RealPages(fs.mem, o)) + new.pages
                         ELSE fs.users[q].used
  /\ SameBlocks(fs, g)
  /\ new = [o EXCEPT !.kind = KindFor(n), !.page = new.page, !.pages = Real(n, holes), !.size = n]
  /\ TreeOf(g.mem, new, n, holes, Written(len, v))
  /\ fs' = Saved(g, o.slot, u)
  /\ Wanting(o.slot, Expected(n, holes, Written(len, v)))

\* What update_existing_file does to a sound volume.
LEMMA UpdateDoes ==
  ASSUME NEW who, NEW name, NEW len \in Nat, NEW holes, NEW v, Sound(fs),
         Update(who, name, len, holes, v)
  PROVE  \E u, o, new, T, g : UpdatingOf(who, name, len, holes, v, u, o, new, T, g)
<1>. DEFINE n == AtLeastOne(len)
            x == Real(n, holes)
<1>1. PICK u \in Payers(who), o \in Found(who, name) :
        LET b   == Build(WithoutOld(Reserving(u, Extra(o, n, holes)), o, u), n, holes, Written(len, v))
            new == [o EXCEPT !.kind = KindFor(n), !.page = b.page, !.pages = x, !.size = n] IN
        /\ n <= MaxFilePages /\ b.page # Null
        /\ fs' = Saved([Replace(b.h, o, new) EXCEPT !.users[u].used = @ + new.pages], o.slot, u)
        /\ Wanting(o.slot, Expected(n, holes, Written(len, v)))
  BY DEF Update
<1>. DEFINE w   == WithoutOld(Reserving(u, Extra(o, n, holes)), o, u)
            b   == Build(w, n, holes, Written(len, v))
            new == [o EXCEPT !.kind = KindFor(n), !.page = b.page, !.pages = x, !.size = n]
            g   == Renewed(b.h, o, new, u)
            own == PagesOf(fs.mem, o)
<1>2. /\ n <= MaxFilePages /\ b.page # Null /\ fs' = Saved(g, o.slot, u)
      /\ Wanting(o.slot, Expected(n, holes, Written(len, v)))
  BY <1>1 DEF Renewed
<1>3. o \in fs.objects /\ u \in Users
  BY FoundIsEntry, PayersAreUsers
<1>4. n \in Nat \ {0} /\ x \in Nat
  BY Counts
<1>. HIDE DEF n, x, b, new, g, own
<1>5. EntryShape(fs, o) /\ own \subseteq Window /\ own \subseteq fs.used
  BY <1>3, OldEntry DEF own
<1>6. WellFormed(fs) /\ u \in UserIds
  BY <1>3 DEF Sound, Apart, WellFormed, Users
<1>7. /\ DOMAIN w = VolumeFields /\ w.used = fs.used \ own
      /\ w.objects = fs.objects /\ w.root = fs.root /\ w.mem = fs.mem
      /\ UsersLike(fs, w, {u \div EntriesPerPage})
      /\ \A q \in DOMAIN fs.users :
           w.users[q].used = IF q = u THEN Less(fs.users[q].used, RealPages(fs.mem, o))
                             ELSE fs.users[q].used
      /\ SameBlocks(fs, w)
  <2>1. GivenBack(w, o, u)
    BY <1>3, <1>6, OldPagesFreed DEF w
  <2>. QED  BY <2>1 DEF GivenBack, own
<1>. HIDE DEF w
<1>8. b.page \in Pages /\ \E T : Built(w, b, T, n, holes, Written(len, v))
  <2>1. IsMem(w.mem) /\ DOMAIN w = VolumeFields
    BY <1>6, <1>7 DEF WellFormed
  <2>. QED  BY <1>2, <1>4, <2>1, BuildShape DEF b
<1>9. /\ DOMAIN new = EntryFields /\ new.slot = o.slot /\ new.user = o.user /\ new.named = o.named
      /\ new.kind = KindFor(n) /\ new.page = b.page /\ new.pages = x
      /\ new = [o EXCEPT !.kind = KindFor(n), !.page = new.page, !.pages = x, !.size = n]
  BY <1>5 DEF EntryShape, EntryFields, new
<1>10. EntryShape(fs, new)
  BY <1>4, <1>5, <1>8, <1>9 DEF EntryShape, HasDirPage, KindFor
<1>11. PICK T : /\ Extended(w, b.h, T) /\ Occupies(b.h.mem, new, T)
                /\ TreeOf(b.h.mem, new, n, holes, Written(len, v))
  BY <1>2, <1>8, <1>9 DEF Built
<1>12. /\ DOMAIN g = VolumeFields /\ g.used = b.h.used /\ g.root = b.h.root /\ g.mem = b.h.mem
       /\ g.objects = (b.h.objects \ {o}) \union {new}
       /\ g.users = [b.h.users EXCEPT ![u].used = @ + new.pages]
  <2>1. DOMAIN b.h = VolumeFields
    BY <1>11 DEF Extended
  <2>. QED  BY <2>1 DEF g, Renewed, Replace, VolumeFields
<1>13. /\ UsersLike(fs, g, {u \div EntriesPerPage})
       /\ \A q \in DOMAIN fs.users :
            g.users[q].used = IF q = u THEN Less(fs.users[q].used, RealPages(fs.mem, o)) + new.pages
                              ELSE fs.users[q].used
       /\ SameBlocks(fs, g)
  <2>1. b.h.users = w.users /\ u \in DOMAIN fs.users
    BY <1>3, <1>11 DEF Extended, Users
  <2>2. UsersLike(fs, g, {u \div EntriesPerPage})
    BY <1>7, <1>12, <2>1 DEF UsersLike, UserFields
  <2>3. ASSUME NEW q \in DOMAIN fs.users
        PROVE  g.users[q].used = IF q = u THEN Less(fs.users[q].used, RealPages(fs.mem, o)) + new.pages
                                 ELSE fs.users[q].used
    BY <1>7, <1>12, <2>1 DEF UsersLike, UserFields
  <2>4. SameBlocks(fs, g)
    BY <1>7, <1>12, <2>1 DEF UsersLike, UserFields, SameBlocks
  <2>. QED  BY <2>2, <2>3, <2>4
<1>14. Swapped(fs, g, o, new, T)
  <2>1. IsMem(g.mem) /\ T \subseteq FreePages(w.used) /\ g.used = w.used \union T
    BY <1>11, <1>12 DEF Extended
  <2>2. T \subseteq Window /\ T \subseteq Pages /\ T \intersect (fs.used \ own) = {}
    BY <1>7, <2>1, WindowType DEF FreePages
  <2>3. g.root = fs.root /\ g.objects = (fs.objects \ {o}) \union {new}
        /\ \A q \in Pages \ T : g.mem[q] = fs.mem[q]
    BY <1>7, <1>11, <1>12 DEF Extended
  <2>4. g.used \subseteq Pages /\ g.used = (fs.used \ own) \union T
    BY <1>6, <1>7, <2>1, <2>2 DEF WellFormed
  <2>5. DOMAIN g = VolumeFields
    BY <1>12
  <2>. HIDE DEF g, new, w
  <2>. QED  BY ONLY <2>1, <2>2, <2>3, <2>4, <2>5 DEF Swapped, own
<1>15. Occupies(g.mem, new, T)
  BY <1>11, <1>12
<1>16. Revision(fs, g, o, new, T, {u \div EntriesPerPage})
  BY <1>3, <1>9, <1>10, <1>13, <1>14, <1>15 DEF Revision
<1>17. TreeOf(g.mem, new, n, holes, Written(len, v))
  BY <1>11, <1>12
<1>18. UpdatingOf(who, name, len, holes, v, u, o, new, T, g)
  BY <1>2, <1>9, <1>13, <1>16, <1>17 DEF UpdatingOf, n, x
<1>. QED  BY <1>18

\* A revised entry stored with its user keeps the volume sound.
LEMMA RevisionSaved ==
  ASSUME Sound(fs), NEW u \in Users, NEW o, NEW new, NEW T, NEW g,
         Revision(fs, g, o, new, T, {u \div EntriesPerPage}), NEW h2, h2 = Saved(g, o.slot, u)
  PROVE  Sound(h2)
<1>1. u \in UserIds
  BY DEF Sound, Apart, WellFormed, Users
<1>2. /\ Apart(g) /\ MirroredBut(g, {Pos(o.slot)}, {u \div EntriesPerPage})
      /\ SameDirectory(fs, g) /\ o.slot \in Slots
  BY SwappedSound DEF Revision
<1>. QED  BY <1>1, <1>2, SavedSound

\* So does update_existing_file.
LEMMA UpdateSound ==
  ASSUME NEW who, NEW name, NEW len \in Nat, NEW holes, NEW v, Sound(fs),
         Update(who, name, len, holes, v)
  PROVE  Sound(fs')
<1>1. PICK u, o, new, T, g : UpdatingOf(who, name, len, holes, v, u, o, new, T, g)
  BY UpdateDoes
<1>. QED  BY <1>1, PayersAreUsers, RevisionSaved DEF UpdatingOf

\* A new tree that does not fit leaves the bit file a set of pages.
LEMMA UpdateNoSpaceUsed ==
  ASSUME NEW who, NEW name, NEW len \in Nat, NEW holes, NEW v, Sound(fs),
         UpdateNoSpace(who, name, len, holes, v)
  PROVE  fs'.used \subseteq Pages
<1>. DEFINE n == AtLeastOne(len)
<1>1. PICK u \in Payers(who), o \in Found(who, name) :
        LET b == Build(WithoutOld(Reserving(u, Extra(o, n, holes)), o, u), n, holes, Written(len, v)) IN
        n <= MaxFilePages /\ fs' = b.h
  BY DEF UpdateNoSpace
<1>. DEFINE w == WithoutOld(Reserving(u, Extra(o, n, holes)), o, u)
            b == Build(w, n, holes, Written(len, v))
            own == PagesOf(fs.mem, o)
<1>2. n <= MaxFilePages /\ fs' = b.h
  BY <1>1
<1>3. u \in Users /\ n \in Nat \ {0}
  BY PayersAreUsers, Counts
<1>. HIDE DEF n, b, own
<1>4. WellFormed(fs)
  BY DEF Sound, Apart
<1>5. /\ DOMAIN w = VolumeFields /\ w.used = fs.used \ own
      /\ w.objects = fs.objects /\ w.root = fs.root /\ w.mem = fs.mem
  <2>1. GivenBack(w, o, u)
    BY <1>3, <1>4, OldPagesFreed DEF w
  <2>. HIDE DEF w
  <2>. QED  BY <2>1 DEF GivenBack, own
<1>. HIDE DEF w
<1>6. PICK T : Extended(w, b.h, T)
  <2>1. IsMem(w.mem) /\ DOMAIN w = VolumeFields
    BY <1>4, <1>5 DEF WellFormed
  <2>. QED  BY <1>2, <1>3, <2>1, BuildShape DEF b, Built
<1>. QED  BY <1>2, <1>4, <1>5, <1>6, WindowType DEF Extended, FreePages, WellFormed

\* An update refused before anything is freed.
LEMMA UpdateRefusedSound ==
  ASSUME NEW who, NEW name, NEW len, NEW holes, Sound(fs), UpdateRefused(who, name, len, holes)
  PROVE  Sound(fs')
<1>1. PICK u \in Payers(who), o \in Found(who, name) :
        fs' = fs \/ fs' = Reserving(u, Extra(o, AtLeastOne(len), holes))
  BY DEF UpdateRefused, NoRoom, Refused
<1>2. u \in Users
  BY PayersAreUsers
<1>. QED  BY <1>1, <1>2, RefusedSound

\* ndfs_delete_file
DeletionOf(who, name, o, g) ==
  /\ o \in Found(who, name)
  /\ Apart(g) /\ MirroredBut(g, {Pos(o.slot)}, {o.user \div EntriesPerPage}) /\ SameDirectory(fs, g)
  /\ g.used = fs.used \ PagesOf(fs.mem, o) /\ g.objects = fs.objects \ {o} /\ g.mem = fs.mem
  /\ DOMAIN g.users = DOMAIN fs.users
  /\ \A u \in DOMAIN fs.users :
       g.users[u].used = IF u = o.user THEN Less(fs.users[u].used, RealPages(fs.mem, o))
                         ELSE fs.users[u].used
  /\ SameBlocks(fs, g)
  /\ o.slot \in Slots /\ o.user \in UserIds /\ fs' = Saved(g, o.slot, o.user)
  /\ want' = [s \in DOMAIN want \ {o.slot} |-> want[s]]

\* What ndfs_delete_file does to a sound volume.
LEMMA DeleteDoes ==
  ASSUME NEW who, NEW name, Sound(fs), Delete(who, name)
  PROVE  \E o, g : DeletionOf(who, name, o, g)
<1>1. PICK o \in Found(who, name) :
        /\ fs' = Saved(WithoutEntry(fs, o), o.slot, o.user)
        /\ want' = [s \in DOMAIN want \ {o.slot} |-> want[s]]
  BY DEF Delete
<1>. DEFINE g   == WithoutEntry(fs, o)
            own == PagesOf(fs.mem, o)
            K   == fs.objects \ {o}
            N   == {}
            T   == {}
            G   == {Pos(o.slot)}
            U   == {o.user \div EntriesPerPage}
<1>2. o \in fs.objects
  BY FoundIsEntry
<1>3. Apart(fs) /\ WellFormed(fs)
  BY DEF Sound, Apart
<1>4. o.slot \in Slots /\ o.user \in DOMAIN fs.users /\ o.user \in UserIds
  BY <1>2, <1>3 DEF WellFormed, IsEntry
<1>5. /\ DOMAIN g = VolumeFields /\ g.used = fs.used \ own /\ g.objects = fs.objects \ {o}
      /\ g.root = fs.root /\ g.mem = fs.mem
      /\ g.users = [u \in DOMAIN fs.users |->
           IF u = o.user THEN [fs.users[u] EXCEPT !.used = Less(@, RealPages(fs.mem, o))] ELSE fs.users[u]]
  BY <1>3 DEF WithoutEntry, WellFormed, VolumeFields
<1>. HIDE DEF g
<1>6. UsersLike(fs, g, U)
  <2>1. \A u \in DOMAIN fs.users : DOMAIN fs.users[u] = UserFields
    BY <1>3 DEF WellFormed
  <2>. QED  BY <1>5, <2>1 DEF UsersLike, UserFields
<1>7. WellFormed(g)
  <2>1. \A q \in g.objects : IsEntry(g, q)
    BY <1>3, <1>5, <1>6 DEF WellFormed, IsEntry, UsersLike
  <2>. QED  BY <1>3, <1>5, <1>6, <2>1 DEF WellFormed, UsersLike
<1>8. Exchanged(fs, g, T, K, N)
  <2>1. DirPages(fs) \union RootPages \subseteq g.used
    <3>1. DirPages(fs) \union RootPages \subseteq fs.used
      BY <1>3, InUse
    <3>2. own \intersect (DirPages(fs) \union RootPages) = {}
      BY <1>2, <1>3 DEF Apart, FilesApart, FileApart
    <3>. QED  BY <1>5, <3>1, <3>2
  <2>2. ASSUME NEW q \in K
        PROVE  T \intersect IndexOf(fs.mem, q) = {} /\ PagesOf(fs.mem, q) \subseteq g.used
    <3>1. PagesOf(fs.mem, q) \subseteq fs.used
      BY <1>3, InUse DEF FilePages
    <3>2. PagesOf(fs.mem, q) \intersect own = {}
      BY <1>2, <1>3 DEF Apart, FilesApart
    <3>. QED  BY <1>5, <3>1, <3>2
  <2>3. g.root = fs.root /\ \A q \in Pages \ T : g.mem[q] = fs.mem[q]
    BY <1>5
  <2>4. /\ T \intersect (DirPages(fs) \union RootPages) = {} /\ K \subseteq fs.objects
        /\ g.objects = K \union N /\ \A m, n \in N : m = n
    BY <1>5
  <2>. HIDE DEF K, N, T
  <2>. QED  BY <2>1, <2>2, <2>3, <2>4 DEF Exchanged
<1>9. /\ T \in SUBSET Pages
      /\ \A n \in N : Fits(fs, g, n) /\ HasDirPage(fs, n)
      /\ \A n \in N, q \in K : n.slot # q.slot /\ PagesOf(g.mem, n) \intersect PagesOf(fs.mem, q) = {}
      /\ \A q \in (fs.objects \ K) \union N : Pos(q.slot) \in G
  OBVIOUS
<1>10. Apart(g) /\ MirroredBut(g, G, U) /\ SameDirectory(fs, g)
  <2>. HIDE DEF K, N, T, G, U, own
  <2>1. Sound(fs)
    OBVIOUS
  <2>. QED  BY ONLY <1>6, <1>7, <1>8, <1>9, <2>1, Rewritten
<1>11. /\ DOMAIN g.users = DOMAIN fs.users
       /\ \A u \in DOMAIN fs.users :
            g.users[u].used = IF u = o.user THEN Less(fs.users[u].used, RealPages(fs.mem, o))
                              ELSE fs.users[u].used
       /\ SameBlocks(fs, g)
  <2>1. \A u \in DOMAIN fs.users : DOMAIN fs.users[u] = UserFields
    BY <1>3 DEF WellFormed
  <2>. QED  BY <1>5, <2>1 DEF UserFields, SameBlocks
<1>12. fs' = Saved(g, o.slot, o.user)
  BY <1>1 DEF g
<1>13. DeletionOf(who, name, o, g)
  BY <1>1, <1>4, <1>5, <1>10, <1>11, <1>12 DEF DeletionOf
<1>. QED  BY <1>13

\* It keeps the volume sound.
LEMMA DeleteSound ==
  ASSUME NEW who, NEW name, Sound(fs), Delete(who, name)
  PROVE  Sound(fs')
<1>1. PICK o, g : DeletionOf(who, name, o, g)
  BY DeleteDoes
<1>2. /\ Apart(g) /\ MirroredBut(g, {Pos(o.slot)}, {o.user \div EntriesPerPage})
      /\ o.slot \in Slots /\ o.user \in UserIds /\ fs' = Saved(g, o.slot, o.user)
  BY <1>1 DEF DeletionOf
<1>. QED  BY <1>2, SavedSound

\* A page of content is a data page.
LEMMA ContentRole ==
  ASSUME NEW mem, NEW o, NEW i \in Nat
  PROVE  IsData(RoleOfPage(mem, o, i))
<1>1. i % PtrsPerPage \in Nat
  BY Layout, DivMod
<1>2. RoleOfPage(mem, o, i)[2] = i \/ RoleOfPage(mem, o, i)[2] = i % PtrsPerPage
  BY DEF RoleOfPage
<1>. QED  BY <1>1, <1>2 DEF IsData

\* A data page is no index page of any file, and no page of the directory.
LEMMA DataPageApart ==
  ASSUME NEW h, Sound(h), NEW o \in h.objects, NEW r \in Refs(h.mem, o), IsData(r[1])
  PROVE  /\ r[2] \in Pages /\ r[2] \notin DirPages(h) \union RootPages
         /\ \A q \in h.objects : r[2] \notin IndexOf(h.mem, q)
<1>1. FileApart(h, o) /\ r[2] \in PagesOf(h.mem, o)
  BY DEF Sound, Apart, FilesApart, PagesOf
<1>2. r[2] \in Pages /\ r[2] \notin DirPages(h) \union RootPages
  BY <1>1, WindowType DEF FileApart
<1>3. ASSUME NEW q \in h.objects, r[2] \in IndexOf(h.mem, q)
      PROVE  FALSE
  <2>1. PICK s \in Refs(h.mem, q) : ~IsData(s[1]) /\ s[2] = r[2]
    BY <1>3 DEF IndexOf
  <2>2. CASE q = o
    BY <1>1, <2>1, <2>2 DEF FileApart
  <2>3. CASE q # o
    <3>1. PagesOf(h.mem, o) \intersect PagesOf(h.mem, q) = {}
      BY <2>3 DEF Sound, Apart, FilesApart
    <3>2. r[2] \in PagesOf(h.mem, q)
      BY <2>1 DEF PagesOf
    <3>. QED  BY <1>1, <3>1, <3>2
  <2>. QED  BY <2>2, <2>3
<1>. QED  BY <1>2, <1>3

\* The reference a page of content is read through, none for a hole.
RefsAt(mem, o, i) == {r \in Refs(mem, o) : r[1] = RoleOfPage(mem, o, i)}

\* ndfs_patch_file_region, which reaches the pages S of the file.
PatchingOf(who, name, first, last, v, o, S) ==
  /\ o \in Found(who, name)
  /\ last < IF o.kind = "contiguous" THEN o.pages ELSE o.size
  /\ S \subseteq first .. last
  /\ Sound(fs') /\ SameDirectory(fs, fs') /\ SameButMem(fs, fs')
  /\ \A i \in S : RefsAt(fs.mem, o, i) # {}
  /\ \A p \in Pages : \/ fs'.mem[p] = fs.mem[p]
                      \/ \E i \in S : \E r \in RefsAt(fs.mem, o, i) : r[2] = p
  /\ \A i \in S : \A r \in RefsAt(fs.mem, o, i) :
       \E j \in S : \E s \in RefsAt(fs.mem, o, j) : s[2] = r[2] /\ fs'.mem[r[2]].items = Item(v, j)
  /\ Wanting(o.slot, [i \in DOMAIN want[o.slot] |-> IF i \in S THEN Item(v, i) ELSE want[o.slot][i]])

\* What it does to a sound volume.
LEMMA PatchDoes ==
  ASSUME NEW who, NEW name, NEW first \in Nat, NEW last, NEW v, Sound(fs), Patch(who, name, first, last, v)
  PROVE  \E o, S : PatchingOf(who, name, first, last, v, o, S)
<1>1. PICK o \in Found(who, name) :
        LET page(i) == {r[2] : r \in {r \in Refs(fs.mem, o) : r[1] = RoleOfPage(fs.mem, o, i)}}
            reached == {i \in first .. last : \A j \in first .. i : page(j) # {}}
            hit     == UNION {page(i) : i \in reached}
        IN /\ last < IF o.kind = "contiguous" THEN o.pages ELSE o.size
           /\ fs' = [fs EXCEPT !.mem = [p \in Pages |->
                       IF p \in hit THEN Holding(Item(v, CHOOSE i \in reached : p \in page(i)))
                       ELSE fs.mem[p]]]
           /\ Wanting(o.slot, [i \in DOMAIN want[o.slot] |->
                                 IF i \in reached THEN Item(v, i) ELSE want[o.slot][i]])
  BY DEF Patch
<1>. DEFINE page(i) == {r[2] : r \in {r \in Refs(fs.mem, o) : r[1] = RoleOfPage(fs.mem, o, i)}}
            reached == {i \in first .. last : \A j \in first .. i : page(j) # {}}
            hit     == UNION {page(i) : i \in reached}
            content(p) == Item(v, CHOOSE i \in reached : p \in page(i))
            mem2    == [p \in Pages |-> IF p \in hit THEN Holding(content(p)) ELSE fs.mem[p]]
<1>2. o \in fs.objects
  BY FoundIsEntry
<1>3. Apart(fs) /\ WellFormed(fs)
  BY DEF Sound, Apart
<1>4. fs' = [fs EXCEPT !.mem = mem2]
  BY <1>1
<1>5. ASSUME NEW p \in hit
      PROVE  /\ p \in Pages /\ p \notin DirPages(fs) \union RootPages
             /\ \A q \in fs.objects : p \notin IndexOf(fs.mem, q)
  <2>1. PICK i \in reached : p \in page(i)
    OBVIOUS
  <2>2. PICK r \in Refs(fs.mem, o) : r[1] = RoleOfPage(fs.mem, o, i) /\ p = r[2]
    BY <2>1
  <2>3. i \in Nat
    BY DEF reached
  <2>. HIDE DEF hit, reached, page, mem2
  <2>4. IsData(r[1])
    BY <2>2, <2>3, ContentRole
  <2>. QED  BY <1>2, <2>2, <2>4, DataPageApart
<1>6. /\ \A i \in reached : RefsAt(fs.mem, o, i) # {}
      /\ \A p \in hit : \E i \in reached : \E r \in RefsAt(fs.mem, o, i) : r[2] = p
      /\ \A i \in reached : \A r \in RefsAt(fs.mem, o, i) : r[2] \in hit
      /\ \A p \in hit : \E j \in reached : \E s \in RefsAt(fs.mem, o, j) :
           s[2] = p /\ content(p) = Item(v, j)
  <2>1. \A i : page(i) = {r[2] : r \in RefsAt(fs.mem, o, i)}
    BY DEF RefsAt
  <2>2. \A i \in reached : i \in first .. i /\ page(i) # {}
    OBVIOUS
  <2>3. \A p \in hit : \E i \in reached : p \in page(i)
    OBVIOUS
  <2>. HIDE DEF page, reached
  <2>4. ASSUME NEW p \in hit
        PROVE  \E j \in reached : \E s \in RefsAt(fs.mem, o, j) : s[2] = p /\ content(p) = Item(v, j)
    <3>. DEFINE j == CHOOSE i \in reached : p \in page(i)
    <3>1. j \in reached /\ p \in page(j)
      BY <2>3
    <3>2. content(p) = Item(v, j)
      OBVIOUS
    <3>. HIDE DEF j, content
    <3>3. \E s \in RefsAt(fs.mem, o, j) : s[2] = p
      BY <2>1, <3>1
    <3>. QED  BY <3>1, <3>2, <3>3
  <2>5. \A i \in reached : RefsAt(fs.mem, o, i) # {}
    BY <2>1, <2>2
  <2>6. \A p \in hit : \E i \in reached : \E r \in RefsAt(fs.mem, o, i) : r[2] = p
    BY <2>1, <2>3
  <2>7. \A i \in reached : \A r \in RefsAt(fs.mem, o, i) : r[2] \in hit
    BY <2>1
  <2>. QED  BY <2>4, <2>5, <2>6, <2>7
<1>. HIDE DEF hit, content
<1>7. IsMem(mem2) /\ \A q \in Pages \ hit : mem2[q] = fs.mem[q]
  BY <1>3, PageContent DEF WellFormed, IsMem
<1>8. \A p \in hit : mem2[p].items = content(p)
  BY <1>5, PageContent
<1>. HIDE DEF mem2
<1>9. /\ DOMAIN fs' = VolumeFields /\ fs'.used = fs.used /\ fs'.objects = fs.objects
      /\ fs'.root = fs.root /\ fs'.mem = mem2 /\ fs'.users = fs.users
  BY <1>3, <1>4 DEF WellFormed, VolumeFields
<1>. DEFINE T == hit
            h == fs'
            K == fs.objects
            N == {}
            G == {}
            U == {}
<1>. HIDE DEF h
<1>10. WellFormed(h)
  <2>1. \A q \in h.objects : IsEntry(h, q)
    BY <1>3, <1>9 DEF h, WellFormed, IsEntry
  <2>. QED  BY <1>3, <1>7, <1>9, <2>1 DEF h, WellFormed
<1>11. Exchanged(fs, h, T, K, N)
  <2>1. DirPages(fs) \union RootPages \subseteq h.used
    BY <1>3, <1>9, InUse DEF h
  <2>2. ASSUME NEW q \in K
        PROVE  T \intersect IndexOf(fs.mem, q) = {} /\ PagesOf(fs.mem, q) \subseteq h.used
    <3>1. PagesOf(fs.mem, q) \subseteq fs.used
      BY <1>3, InUse DEF FilePages
    <3>. QED  BY <1>5, <1>9, <3>1 DEF h
  <2>3. h.root = fs.root /\ \A q \in Pages \ T : h.mem[q] = fs.mem[q]
    BY <1>7, <1>9 DEF h
  <2>4. T \intersect (DirPages(fs) \union RootPages) = {}
    BY <1>5
  <2>5. K \subseteq fs.objects /\ h.objects = K \union N /\ \A m, n \in N : m = n
    BY <1>9 DEF h
  <2>. HIDE DEF K, N, T
  <2>. QED  BY <2>1, <2>2, <2>3, <2>4, <2>5 DEF Exchanged
<1>12. /\ T \in SUBSET Pages
       /\ \A n \in N : Fits(fs, h, n) /\ HasDirPage(fs, n)
       /\ \A n \in N, q \in K : n.slot # q.slot /\ PagesOf(h.mem, n) \intersect PagesOf(fs.mem, q) = {}
       /\ \A q \in (fs.objects \ K) \union N : Pos(q.slot) \in G
  BY <1>5
<1>13. UsersLike(fs, h, U)
  BY <1>3, <1>9 DEF h, UsersLike, WellFormed
<1>14. Apart(h) /\ MirroredBut(h, G, U) /\ SameDirectory(fs, h)
  <2>. HIDE DEF K, N, T, G, U
  <2>. QED  BY <1>10, <1>11, <1>12, <1>13, Rewritten
<1>15. Sound(fs') /\ SameDirectory(fs, fs') /\ SameButMem(fs, fs')
  BY <1>9, <1>14 DEF Sound, h, SameButMem
<1>16. /\ last < (IF o.kind = "contiguous" THEN o.pages ELSE o.size) /\ reached \subseteq first .. last
       /\ Wanting(o.slot, [i \in DOMAIN want[o.slot] |->
                            IF i \in reached THEN Item(v, i) ELSE want[o.slot][i]])
  BY <1>1
<1>17. /\ \A p \in Pages : \/ fs'.mem[p] = fs.mem[p]
                           \/ \E i \in reached : \E r \in RefsAt(fs.mem, o, i) : r[2] = p
       /\ \A i \in reached : \A r \in RefsAt(fs.mem, o, i) :
            \E j \in reached : \E s \in RefsAt(fs.mem, o, j) : s[2] = r[2] /\ fs'.mem[r[2]].items = Item(v, j)
  <2>. HIDE DEF reached
  <2>. QED  BY <1>6, <1>7, <1>8, <1>9
<1>18. PatchingOf(who, name, first, last, v, o, reached)
  <2>. HIDE DEF reached
  <2>. QED  BY <1>6, <1>15, <1>16, <1>17 DEF PatchingOf
<1>. QED  BY <1>18

\* It keeps the volume sound.
LEMMA PatchSound ==
  ASSUME NEW who, NEW name, NEW first \in Nat, NEW last, NEW v, Sound(fs), Patch(who, name, first, last, v)
  PROVE  Sound(fs')
BY PatchDoes DEF PatchingOf

-----------------------------------------------------------------------------
(***************************************************************************)
(* What refers to what, as the checks of the source count it.              *)
(***************************************************************************)
\* The links of one index page.
LEMMA LinksAt ==
  ASSUME NEW h, NEW a, NEW r
  PROVE  r \in LinksOf(h, a) <=> \E i \in Indexes : r = <<a, i, Ptr(h, a, i)>>
BY DEF LinksOf

\* The pages a sub-index points at are the group index pages.
LEMMA BlocksAreGroups ==
  ASSUME NEW h
  PROVE  {r[3] : r \in LinksOf(h, h.root.page)} = {Ptr(h, h.root.page, i) : i \in Indexes}
<1>1. ASSUME NEW p \in {r[3] : r \in LinksOf(h, h.root.page)}
      PROVE  p \in {Ptr(h, h.root.page, i) : i \in Indexes}
  <2>1. PICK r \in LinksOf(h, h.root.page) : p = r[3]
    BY <1>1
  <2>2. PICK i \in Indexes : r = <<h.root.page, i, Ptr(h, h.root.page, i)>>
    BY LinksAt
  <2>. QED  BY <2>1, <2>2
<1>2. ASSUME NEW i \in Indexes
      PROVE  Ptr(h, h.root.page, i) \in {r[3] : r \in LinksOf(h, h.root.page)}
  <2>. DEFINE r == <<h.root.page, i, Ptr(h, h.root.page, i)>>
  <2>1. r \in LinksOf(h, h.root.page)
    BY LinksAt
  <2>2. r[3] = Ptr(h, h.root.page, i)
    OBVIOUS
  <2>. QED  BY <2>1, <2>2
<1>. QED  BY <1>1, <1>2

\* The directory's references are the pointers of its index pages, and the root pointer.
LEMMA DirectoryLinks ==
  ASSUME NEW h, h.root.sub \in BOOLEAN, NEW r
  PROVE  r \in DirectoryRefs(h) <=>
           \/ r = <<Null, 0, h.root.page>>
           \/ \E a \in IndexPages(h) : r \in LinksOf(h, a) /\ r[3] # Null
<1>. DEFINE root == h.root.page
            links(a) == LinksOf(h, a)
<1>1. CASE h.root.sub
  <2>. DEFINE all == links(root) \union links(UserIndex) \union UNION {links(b) : b \in GroupPages(h)}
  <2>1. {x[3] : x \in links(root)} \ {Null} = GroupPages(h)
    BY <1>1, BlocksAreGroups DEF GroupPages
  <2>2. DirectoryRefs(h) = {<<Null, 0, root>>} \union {x \in all : x[3] # Null}
    BY <1>1, <2>1 DEF DirectoryRefs
  <2>3. \A x : x \in all <=> \E a \in IndexPages(h) : x \in links(a)
    <3>. HIDE DEF links
    <3>. QED  BY DEF IndexPages
  <2>. HIDE DEF all
  <2>. QED  BY <2>2, <2>3
<1>2. CASE ~h.root.sub
  <2>. DEFINE all == {} \union links(UserIndex) \union UNION {links(b) : b \in {root}}
  <2>1. DirectoryRefs(h) = {<<Null, 0, root>>} \union {x \in all : x[3] # Null}
    BY <1>2 DEF DirectoryRefs
  <2>2. \A x : x \in all <=> \E a \in IndexPages(h) : x \in links(a)
    <3>. HIDE DEF links
    <3>. QED  BY <1>2 DEF IndexPages, GroupPages
  <2>. HIDE DEF all
  <2>. QED  BY <2>1, <2>2
<1>. QED  BY <1>1, <1>2

\* They lead to the pages of the directory.
LEMMA DirectoryPages ==
  ASSUME NEW h, h.root.sub \in BOOLEAN
  PROVE  {r[3] : r \in DirectoryRefs(h)} = DirPages(h)
<1>1. ASSUME NEW p \in {r[3] : r \in DirectoryRefs(h)}
      PROVE  p \in DirPages(h)
  <2>1. PICK r \in DirectoryRefs(h) : p = r[3]
    BY <1>1
  <2>2. CASE r = <<Null, 0, h.root.page>>
    BY <2>1, <2>2 DEF DirPages
  <2>3. CASE \E a \in IndexPages(h) : r \in LinksOf(h, a) /\ r[3] # Null
    <3>1. PICK a \in IndexPages(h) : r \in LinksOf(h, a) /\ r[3] # Null
      BY <2>3
    <3>2. PICK i \in Indexes : r = <<a, i, Ptr(h, a, i)>>
      BY <3>1, LinksAt
    <3>. QED  BY <2>1, <3>1, <3>2 DEF DirPages
  <2>. QED  BY <2>2, <2>3, DirectoryLinks
<1>2. ASSUME NEW p \in DirPages(h)
      PROVE  p \in {r[3] : r \in DirectoryRefs(h)}
  <2>1. CASE p = h.root.page
    <3>. DEFINE r == <<Null, 0, h.root.page>>
    <3>1. r \in DirectoryRefs(h) /\ r[3] = p
      BY <2>1, DirectoryLinks
    <3>. QED  BY <3>1
  <2>2. CASE p # h.root.page
    <3>1. PICK a \in IndexPages(h), i \in Indexes : p = Ptr(h, a, i) /\ p # Null
      BY <2>2 DEF DirPages
    <3>. DEFINE r == <<a, i, Ptr(h, a, i)>>
    <3>2. r \in LinksOf(h, a) /\ r[3] = p
      BY <3>1, LinksAt
    <3>. HIDE DEF r
    <3>3. r \in DirectoryRefs(h)
      BY <3>1, <3>2, DirectoryLinks
    <3>. QED  BY <3>2, <3>3
  <2>. QED  BY <2>1, <2>2
<1>. QED  BY <1>1, <1>2

\* A file's references are those of its walk, under its slot.
LEMMA FileLinks ==
  ASSUME NEW h, NEW x
  PROVE  x \in FileRefs(h) <=> \E o \in h.objects : \E r \in Refs(h.mem, o) : x = <<o.slot, r[1], r[2]>>
BY DEF FileRefs

\* They lead to the pages of the files.
LEMMA FileLinkPages ==
  ASSUME NEW h
  PROVE  {x[3] : x \in FileRefs(h)} = FilePages(h)
<1>1. ASSUME NEW p \in {x[3] : x \in FileRefs(h)}
      PROVE  p \in FilePages(h)
  <2>1. PICK x \in FileRefs(h) : p = x[3]
    BY <1>1
  <2>2. PICK o \in h.objects : \E r \in Refs(h.mem, o) : x = <<o.slot, r[1], r[2]>>
    BY FileLinks
  <2>3. PICK r \in Refs(h.mem, o) : x = <<o.slot, r[1], r[2]>>
    BY <2>2
  <2>. QED  BY <2>1, <2>3 DEF FilePages, PagesOf
<1>2. ASSUME NEW p \in FilePages(h)
      PROVE  p \in {x[3] : x \in FileRefs(h)}
  <2>1. PICK o \in h.objects : \E r \in Refs(h.mem, o) : p = r[2]
    BY DEF FilePages, PagesOf
  <2>2. PICK r \in Refs(h.mem, o) : p = r[2]
    BY <2>1
  <2>. DEFINE x == <<o.slot, r[1], r[2]>>
  <2>3. x \in FileRefs(h)
    BY FileLinks
  <2>4. x[3] = p
    BY <2>2
  <2>. QED  BY <2>3, <2>4
<1>. QED  BY <1>1, <1>2

\* All that is referred to.
LEMMA ReferencedPages ==
  ASSUME NEW h, h.root.sub \in BOOLEAN
  PROVE  Referenced(h) = DirPages(h) \union FilePages(h) \union RootPages
BY DirectoryPages, FileLinkPages DEF Referenced

\* A sound volume refers to each of its pages once.
LEMMA SoundLinkedOnce ==
  ASSUME NEW h, Sound(h)
  PROVE  LinkedOnce(h) /\ Referenced(h) \subseteq h.used
<1>1. Apart(h) /\ WellFormed(h) /\ h.root.sub \in BOOLEAN
  BY DEF Sound, Apart, WellFormed
<1>2. OnePlaceEach(DirectoryRefs(h))
  <2>. SUFFICES ASSUME NEW r \in DirectoryRefs(h), NEW s \in DirectoryRefs(h), r[3] = s[3]
                PROVE  r = s
    BY DEF OnePlaceEach
  <2>1. \A x \in DirectoryRefs(h) :
          \/ x = <<Null, 0, h.root.page>>
          \/ \E a \in IndexPages(h), i \in Indexes : Ptr(h, a, i) # Null /\ x = <<a, i, Ptr(h, a, i)>>
    <3>. TAKE x \in DirectoryRefs(h)
    <3>1. CASE \E a \in IndexPages(h) : x \in LinksOf(h, a) /\ x[3] # Null
      <4>1. PICK a \in IndexPages(h) : x \in LinksOf(h, a) /\ x[3] # Null
        BY <3>1
      <4>2. PICK i \in Indexes : x = <<a, i, Ptr(h, a, i)>>
        BY <4>1, LinksAt
      <4>. QED  BY <4>1, <4>2
    <3>. QED  BY <1>1, <3>1, DirectoryLinks
  <2>2. /\ \A a \in IndexPages(h), i \in Indexes : Ptr(h, a, i) # h.root.page
        /\ \A a, b \in IndexPages(h), i, j \in Indexes :
             Ptr(h, a, i) # Null /\ Ptr(h, a, i) = Ptr(h, b, j) => a = b /\ i = j
    BY <1>1 DEF Apart, DirectoryApart
  <2>3. CASE r = <<Null, 0, h.root.page>> /\ s = <<Null, 0, h.root.page>>
    BY <2>3
  <2>4. ASSUME NEW a \in IndexPages(h), NEW i \in Indexes, r = <<a, i, Ptr(h, a, i)>>, Ptr(h, a, i) # Null,
               NEW b \in IndexPages(h), NEW j \in Indexes, s = <<b, j, Ptr(h, b, j)>>
        PROVE  r = s
    <3>1. Ptr(h, a, i) = Ptr(h, b, j)
      BY <2>4
    <3>2. a = b /\ i = j
      BY <2>2, <2>4, <3>1
    <3>. QED  BY <2>4, <3>2
  <2>5. ASSUME NEW a \in IndexPages(h), NEW i \in Indexes, NEW x, x = <<a, i, Ptr(h, a, i)>>
        PROVE  x[3] # h.root.page
    BY <2>2, <2>5
  <2>6. <<Null, 0, h.root.page>>[3] = h.root.page
    OBVIOUS
  <2>7. CASE r = <<Null, 0, h.root.page>>
    BY <2>1, <2>5, <2>6, <2>7
  <2>8. CASE s = <<Null, 0, h.root.page>>
    BY <2>1, <2>5, <2>6, <2>8
  <2>. QED  BY <2>1, <2>4, <2>7, <2>8
<1>3. OnePlaceEach(FileRefs(h))
  <2>. SUFFICES ASSUME NEW x \in FileRefs(h), NEW y \in FileRefs(h), x[3] = y[3]
                PROVE  x = y
    BY DEF OnePlaceEach
  <2>1. PICK o \in h.objects : \E r \in Refs(h.mem, o) : x = <<o.slot, r[1], r[2]>>
    BY FileLinks
  <2>2. PICK r \in Refs(h.mem, o) : x = <<o.slot, r[1], r[2]>>
    BY <2>1
  <2>3. PICK q \in h.objects : \E s \in Refs(h.mem, q) : y = <<q.slot, s[1], s[2]>>
    BY FileLinks
  <2>4. PICK s \in Refs(h.mem, q) : y = <<q.slot, s[1], s[2]>>
    BY <2>3
  <2>5. r[2] = s[2] /\ r[2] \in PagesOf(h.mem, o) /\ s[2] \in PagesOf(h.mem, q)
    BY <2>2, <2>4 DEF PagesOf
  <2>6. o = q
    BY <1>1, <2>5 DEF Apart, FilesApart
  <2>7. r = s
    BY <1>1, <2>5, <2>6 DEF Apart, FilesApart, FileApart
  <2>. QED  BY <2>2, <2>4, <2>6, <2>7
<1>4. FilePages(h) \intersect (DirPages(h) \union RootPages) = {}
  BY <1>1 DEF Apart, FilesApart, FileApart, FilePages
<1>5. DirPages(h) \union RootPages \union FilePages(h) \subseteq h.used
  BY <1>1, InUse
<1>6. {r[3] : r \in DirectoryRefs(h)} = DirPages(h)
  BY <1>1, DirectoryPages
<1>7. {r[3] : r \in FileRefs(h)} = FilePages(h)
  BY FileLinkPages
<1>8. LinkedOnce(h)
  BY <1>2, <1>3, <1>4, <1>6, <1>7 DEF LinkedOnce
<1>9. Referenced(h) = DirPages(h) \union FilePages(h) \union RootPages
  BY <1>1, ReferencedPages
<1>. QED  BY <1>5, <1>8, <1>9

-----------------------------------------------------------------------------
(***************************************************************************)
(* What a reload finds.                                                    *)
(***************************************************************************)
\* The root pointer on page 0.
LEMMA ReloadRoot ==
  ASSUME NEW h, Sound(h)
  PROVE  RootOn(h.mem) = h.root
BY DEF Sound, MirroredBut, MasterOK, RootOn

\* The users whose page exists, with their charges.
LEMMA ReloadUsers ==
  ASSUME NEW h, Sound(h), ~PagelessUser(h), NEW users, users = UsersOn(h.mem, {})
  PROVE  /\ DOMAIN users = DOMAIN h.users
         /\ \A u \in DOMAIN h.users :
              /\ DOMAIN users[u] = UserFields /\ users[u].used = h.users[u].used
              /\ \E i \in Indexes : \E r \in RecordsOn(h, i) : r.id = u /\ r.entry = users[u]
<1>. DEFINE below == Below(h.mem, UserIndex, {})
            recs  == UNION {h.mem[p].items : p \in below}
            kept  == {r \in recs : IsUserRecord(r)}
<1>1. users = [u \in {r.id : r \in kept} |-> (CHOOSE r \in kept : r.id = u).entry]
  BY DEF UsersOn
<1>2. \A p : p \in below <=> \E i \in Indexes : p = Ptr(h, UserIndex, i) /\ p # Null
  BY DEF Below, Ptr
<1>3. \A r : r \in recs <=> \E p \in below : r \in h.mem[p].items
  OBVIOUS
<1>. HIDE DEF below, recs
<1>4. DOMAIN h.users \subseteq UserIds /\ MirroredBut(h, {}, {})
  BY DEF Sound, Apart, WellFormed
<1>5. \A i \in Indexes : UserPageOK(h, i)
  BY <1>4 DEF MirroredBut
<1>6. ASSUME NEW r \in recs
      PROVE  /\ DOMAIN r = {"id", "entry"} /\ DOMAIN r.entry = UserFields
             /\ r.id \in DOMAIN h.users /\ r.entry.used = h.users[r.id].used
             /\ \E i \in Indexes : r \in RecordsOn(h, i)
  <2>1. PICK p \in below : r \in h.mem[p].items
    BY <1>3
  <2>2. PICK i \in Indexes : p = Ptr(h, UserIndex, i) /\ p # Null
    BY <1>2
  <2>3. IsRecord(h, r, i)
    BY <1>5, <2>1, <2>2 DEF UserPageOK
  <2>. QED  BY <2>1, <2>2, <2>3 DEF IsRecord, RecordsOn
<1>7. kept = recs
  BY <1>6 DEF IsUserRecord
<1>8. ASSUME NEW u \in DOMAIN h.users
      PROVE  \E r \in recs : r.id = u
  <2>. DEFINE i == u \div EntriesPerPage
  <2>1. i \in Indexes
    BY <1>4, UserPart
  <2>2. Ptr(h, UserIndex, i) # Null
    BY DEF PagelessUser
  <2>3. Ptr(h, UserIndex, i) \in below
    BY <1>2, <2>1, <2>2
  <2>4. \E r \in h.mem[Ptr(h, UserIndex, i)].items : r.id = u
    BY <1>5, <2>1, <2>2 DEF UserPageOK
  <2>. QED  BY <1>3, <2>3, <2>4
<1>. HIDE DEF kept
<1>9. DOMAIN users = DOMAIN h.users
  <2>1. {r.id : r \in recs} = DOMAIN h.users
    BY <1>6, <1>8
  <2>. QED  BY <1>1, <1>7, <2>1
<1>10. ASSUME NEW u \in DOMAIN h.users
       PROVE  /\ DOMAIN users[u] = UserFields /\ users[u].used = h.users[u].used
              /\ \E i \in Indexes : \E r \in RecordsOn(h, i) : r.id = u /\ r.entry = users[u]
  <2>. DEFINE c == CHOOSE r \in recs : r.id = u
  <2>1. c \in recs /\ c.id = u
    BY <1>8
  <2>2. users[u] = c.entry
    BY <1>1, <1>7, <1>9
  <2>. HIDE DEF c
  <2>. QED  BY <1>6, <2>1, <2>2
<1>. QED  BY <1>9, <1>10

\* A group index page is found at its place when no group before it is missing.
LEMMA GroupsCounted ==
  ASSUME NEW some \in SUBSET Indexes, NEW g \in Indexes, \A f \in Indexes : f < g => f \in some
  PROVE  Cardinality({f \in some : f < g}) = g
<1>1. g \in Nat /\ \A f \in 0 .. g - 1 : f \in Indexes /\ f < g
  BY Layout DEF Indexes
<1>2. {f \in some : f < g} = 0 .. g - 1
  <2>1. \A f \in Indexes : f \in Int /\ f >= 0
    BY DEF Indexes
  <2>2. \A f \in some : f < g => f \in 0 .. g - 1
    BY <1>1, <2>1
  <2>3. \A f \in 0 .. g - 1 : f \in some /\ f < g
    BY <1>1
  <2>. QED  BY <2>2, <2>3
<1>3. Cardinality(0 .. g - 1) = g
  BY <1>1, FS_Interval
<1>. QED  BY <1>2, <1>3

\* The walk of the object file visits every group index page as the group it is.
LEMMA ReloadBlocks ==
  ASSUME NEW h, Sound(h), ~SkippedGroup(h), NEW x
  PROVE  x \in IndexBlocks(h.mem, h.root, {})
           <=> \E g \in Indexes : GroupAt(h, g) # Null /\ x = <<g, GroupAt(h, g)>>
<1>1. h.root.sub \in BOOLEAN /\ h.root.page # Null
  <2>1. h.root.page \in DirPages(h) /\ DirPages(h) \intersect RootPages = {}
    BY DEF Sound, Apart, DirectoryApart, DirPages
  <2>. QED  BY <2>1, Layout DEF Sound, Apart, WellFormed
<1>2. CASE ~h.root.sub
  <2>1. IndexBlocks(h.mem, h.root, {}) = {<<0, h.root.page>>}
    BY <1>2 DEF IndexBlocks
  <2>2. 0 \in Indexes /\ \A g \in Indexes : GroupAt(h, g) = IF g = 0 THEN h.root.page ELSE Null
    BY <1>2, Layout DEF GroupAt
  <2>. QED  BY <1>1, <2>1, <2>2
<1>3. CASE h.root.sub
  <2>. DEFINE ptr(g) == Ptr(h, h.root.page, g)
              some   == {g \in Indexes : ptr(g) # Null}
  <2>1. \A g \in Indexes : GroupAt(h, g) = ptr(g)
    BY <1>3 DEF GroupAt
  <2>2. IndexBlocks(h.mem, h.root, {}) = {<<Cardinality({f \in some : f < g}), ptr(g)>> : g \in some}
    BY <1>3 DEF IndexBlocks, Ptr
  <2>3. \A f, g \in Indexes : f < g /\ ptr(g) # Null => ptr(f) # Null
    BY <1>3 DEF SkippedGroup
  <2>. HIDE DEF ptr
  <2>4. ASSUME NEW g \in some
        PROVE  Cardinality({f \in some : f < g}) = g
    <3>1. g \in Indexes /\ \A f \in Indexes : f < g => f \in some
      BY <2>3
    <3>. HIDE DEF some
    <3>2. some \in SUBSET Indexes
      BY DEF some
    <3>. QED  BY <3>1, <3>2, GroupsCounted
  <2>5. x \in IndexBlocks(h.mem, h.root, {}) <=> \E g \in some : x = <<g, ptr(g)>>
    <3>. DEFINE rank(g) == Cardinality({f \in some : f < g})
    <3>1. x \in IndexBlocks(h.mem, h.root, {}) <=> \E g \in some : x = <<rank(g), ptr(g)>>
      BY <2>2
    <3>2. \A g \in some : rank(g) = g
      BY <2>4
    <3>. HIDE DEF rank, some
    <3>. QED  BY <3>1, <3>2
  <2>. QED  BY <2>1, <2>5
<1>. QED  BY <1>1, <1>2, <1>3

\* The entry a page holds, read back in its place, is the entry that was put there but for
\* what the media do not keep.
LEMMA EntryReadBack ==
  ASSUME NEW h, NEW o, IsEntry(h, o), NEW users, o.user \in DOMAIN users
  PROVE  LoadedEntry(OnDisk(o), o.slot, users) = Stored(o)
<1>. DEFINE d    == OnDisk(o)
            size == IF o.size = 0 THEN 1 ELSE o.size
<1>1. /\ DOMAIN d = {"at", "user", "name", "kind", "page", "pages", "size"}
      /\ d.at = o.slot % EntriesPerPage /\ d.user = o.user /\ d.name = o.name /\ d.kind = o.kind
      /\ d.page = o.page /\ d.pages = o.pages /\ d.size = size
  BY DEF OnDisk
<1>. HIDE DEF d, size
<1>2. LoadedEntry(d, o.slot, users) =
        [slot |-> o.slot, user |-> o.user, name |-> o.name, kind |-> o.kind, page |-> o.page,
         pages |-> o.pages, size |-> size, num |-> 0, named |-> TRUE]
  BY <1>1 DEF LoadedEntry
<1>3. Stored(o) =
        [slot |-> o.slot, user |-> o.user, name |-> o.name, kind |-> o.kind, page |-> o.page,
         pages |-> o.pages, size |-> size, num |-> 0, named |-> TRUE]
  <2>1. DOMAIN o = EntryFields /\ o.named = TRUE
    BY DEF IsEntry
  <2>2. Stored(o) = [[o EXCEPT !.num = 0] EXCEPT !.size = size]
    BY <2>1 DEF Stored, EntryFields, size
  <2>3. /\ Stored(o).slot = o.slot /\ Stored(o).user = o.user /\ Stored(o).name = o.name
        /\ Stored(o).kind = o.kind /\ Stored(o).page = o.page /\ Stored(o).pages = o.pages
        /\ Stored(o).size = size /\ Stored(o).num = 0 /\ Stored(o).named = TRUE
    BY <2>1, <2>2 DEF EntryFields
  <2>4. Stored(o) = [f \in EntryFields |-> Stored(o)[f]]
    BY <2>1, <2>2 DEF EntryFields
  <2>. HIDE DEF Stored
  <2>. QED  BY <2>3, <2>4 DEF EntryFields
<1>. QED  BY <1>2, <1>3 DEF d

\* Where the walk finds entries, the pages in bad being unreadable.
LEMMA EntriesFound ==
  ASSUME NEW mem, NEW root, NEW users, NEW bad, NEW x
  PROVE  x \in EntriesOn(mem, root, users, bad) <=>
           \E b \in IndexBlocks(mem, root, bad), i \in Indexes :
             /\ mem[b[2]].ptrs[i] \notin {Null} \union bad
             /\ \E d \in EntriesOf(mem[mem[b[2]].ptrs[i]]) :
                  x = LoadedEntry(d, (b[1] * PtrsPerPage + i) * EntriesPerPage + d.at, users)
<1>. DEFINE here(b, i) == {LoadedEntry(d, (b[1] * PtrsPerPage + i) * EntriesPerPage + d.at, users) :
                             d \in EntriesOf(mem[mem[b[2]].ptrs[i]])}
            full(b) == {i \in Indexes : mem[b[2]].ptrs[i] \notin {Null} \union bad}
            block(b) == UNION {here(b, i) : i \in full(b)}
<1>1. EntriesOn(mem, root, users, bad) = UNION {block(b) : b \in IndexBlocks(mem, root, bad)}
  BY DEF EntriesOn
<1>2. \A b, i : x \in here(b, i) <=>
        \E d \in EntriesOf(mem[mem[b[2]].ptrs[i]]) :
          x = LoadedEntry(d, (b[1] * PtrsPerPage + i) * EntriesPerPage + d.at, users)
  OBVIOUS
<1>. HIDE DEF here
<1>3. \A b : x \in block(b) <=>
        \E i \in Indexes : mem[b[2]].ptrs[i] \notin {Null} \union bad /\ x \in here(b, i)
  OBVIOUS
<1>. HIDE DEF block
<1>4. x \in EntriesOn(mem, root, users, bad) <=> \E b \in IndexBlocks(mem, root, bad) : x \in block(b)
  BY <1>1
<1>. QED  BY <1>2, <1>3, <1>4

\* The entries whose page can be read.
Readable(h, bad) == {o \in h.objects : DirPage(h, o.slot) \notin bad}

\* A walk that can read every group index page finds the entries whose page it can read, each
\* in its place on the media.
LEMMA EntriesReadable ==
  ASSUME NEW h, Sound(h), ~SkippedGroup(h), NEW users, NEW bad,
         IndexBlocks(h.mem, h.root, bad) = IndexBlocks(h.mem, h.root, {})
  PROVE  EntriesOn(h.mem, h.root, users, bad) =
           {LoadedEntry(OnDisk(o), o.slot, users) : o \in Readable(h, bad)}
<1>. DEFINE mem == h.mem
            S == EntriesOn(mem, h.root, users, bad)
<1>1. /\ \A o \in h.objects : IsEntry(h, o) /\ HasDirPage(h, o)
      /\ \A g, i \in Indexes : EntryPageOK(h, g, i)
  BY DEF Sound, Apart, WellFormed, MirroredBut
<1>2. \A g, i \in Indexes : DirAt(h, g, i) = IF GroupAt(h, g) = Null THEN Null ELSE mem[GroupAt(h, g)].ptrs[i]
  BY DEF DirAt, GroupAt, Ptr
<1>3. \A o : DirPage(h, o.slot) = DirAt(h, GroupOf(o.slot), Inner(o.slot))
  BY DEF DirPage, DirAt
<1>4. \A o : "name" \in DOMAIN OnDisk(o) /\ OnDisk(o).at = o.slot % EntriesPerPage
  BY DEF OnDisk
<1>5. ASSUME NEW o \in h.objects
      PROVE  /\ GroupOf(o.slot) \in Indexes /\ Inner(o.slot) \in Indexes
             /\ (GroupOf(o.slot) * PtrsPerPage + Inner(o.slot)) * EntriesPerPage + OnDisk(o).at = o.slot
  <2>1. o.slot \in Slots
    BY <1>1 DEF IsEntry
  <2>2. /\ GroupOf(o.slot) \in Indexes /\ Inner(o.slot) \in Indexes
        /\ PageOf(o.slot) = GroupOf(o.slot) * PtrsPerPage + Inner(o.slot)
        /\ o.slot = PageOf(o.slot) * EntriesPerPage + (o.slot % EntriesPerPage)
    BY <2>1, SlotParts
  <2>. QED  BY <1>4, <2>2
<1>6. ASSUME NEW x \in S
      PROVE  \E o \in h.objects : DirPage(h, o.slot) \notin bad /\ x = LoadedEntry(OnDisk(o), o.slot, users)
  <2>1. PICK b \in IndexBlocks(mem, h.root, {}), i \in Indexes :
          /\ mem[b[2]].ptrs[i] \notin {Null} \union bad
          /\ \E d \in EntriesOf(mem[mem[b[2]].ptrs[i]]) :
               x = LoadedEntry(d, (b[1] * PtrsPerPage + i) * EntriesPerPage + d.at, users)
    BY EntriesFound
  <2>2. PICK g \in Indexes : GroupAt(h, g) # Null /\ b = <<g, GroupAt(h, g)>>
    BY ReloadBlocks
  <2>3. mem[b[2]].ptrs[i] = DirAt(h, g, i) /\ b[1] = g
    BY <1>2, <2>2
  <2>4. PICK d \in EntriesOf(mem[DirAt(h, g, i)]) :
          x = LoadedEntry(d, (g * PtrsPerPage + i) * EntriesPerPage + d.at, users)
    BY <2>1, <2>3
  <2>5. d \in mem[DirAt(h, g, i)].items
    BY DEF EntriesOf
  <2>6. mem[DirAt(h, g, i)].items = {OnDisk(o) : o \in {o \in h.objects : At(o, g, i)}}
    BY <1>1, <2>1, <2>3 DEF EntryPageOK
  <2>7. PICK o \in h.objects : At(o, g, i) /\ d = OnDisk(o)
    BY <2>5, <2>6
  <2>8. GroupOf(o.slot) = g /\ Inner(o.slot) = i
    BY <2>7 DEF At
  <2>9. DirPage(h, o.slot) \notin bad
    BY <1>3, <2>1, <2>3, <2>8
  <2>10. (g * PtrsPerPage + i) * EntriesPerPage + d.at = o.slot
    BY <1>5, <2>7, <2>8
  <2>. QED  BY <2>4, <2>7, <2>9, <2>10
<1>7. ASSUME NEW o \in h.objects, DirPage(h, o.slot) \notin bad
      PROVE  LoadedEntry(OnDisk(o), o.slot, users) \in S
  <2>. DEFINE g == GroupOf(o.slot)
              i == Inner(o.slot)
              d == OnDisk(o)
              b == <<g, GroupAt(h, g)>>
              x == LoadedEntry(d, o.slot, users)
  <2>1. g \in Indexes /\ i \in Indexes /\ (g * PtrsPerPage + i) * EntriesPerPage + d.at = o.slot
    BY <1>5
  <2>2. DirAt(h, g, i) # Null /\ DirAt(h, g, i) \notin bad
    BY <1>1, <1>3, <1>7 DEF HasDirPage
  <2>3. At(o, g, i)
    BY DEF At
  <2>. HIDE DEF g, i
  <2>4. mem[DirAt(h, g, i)].items = {OnDisk(q) : q \in {q \in h.objects : At(q, g, i)}}
    BY <1>1, <2>1, <2>2 DEF EntryPageOK
  <2>5. d \in mem[DirAt(h, g, i)].items /\ "name" \in DOMAIN d
    BY <1>4, <2>3, <2>4
  <2>. HIDE DEF d
  <2>6. d \in EntriesOf(mem[DirAt(h, g, i)])
    BY <2>5 DEF EntriesOf
  <2>7. GroupAt(h, g) # Null /\ mem[GroupAt(h, g)].ptrs[i] = DirAt(h, g, i)
    BY <1>2, <2>1, <2>2
  <2>8. b \in IndexBlocks(mem, h.root, {}) /\ b[1] = g /\ b[2] = GroupAt(h, g)
    BY <2>1, <2>7, ReloadBlocks
  <2>. HIDE DEF b
  <2>9. x = LoadedEntry(d, (g * PtrsPerPage + i) * EntriesPerPage + d.at, users)
    BY <2>1
  <2>10. /\ mem[b[2]].ptrs[i] \notin {Null} \union bad
         /\ \E e \in EntriesOf(mem[mem[b[2]].ptrs[i]]) :
              x = LoadedEntry(e, (b[1] * PtrsPerPage + i) * EntriesPerPage + e.at, users)
    BY <2>2, <2>6, <2>7, <2>8, <2>9
  <2>11. b \in IndexBlocks(mem, h.root, bad)
    BY <2>8
  <2>12. x \in S
    <3>. HIDE DEF x
    <3>. QED  BY <2>1, <2>10, <2>11, EntriesFound
  <2>. QED  BY <2>12 DEF x, d
<1>. QED  BY <1>6, <1>7 DEF Readable

\* A reload finds every entry and no other.
LEMMA ReloadEntries ==
  ASSUME NEW h, Sound(h), ~SkippedGroup(h), NEW users, DOMAIN users = DOMAIN h.users
  PROVE  EntriesOn(h.mem, h.root, users, {}) = {Stored(o) : o \in h.objects}
<1>1. ASSUME NEW o \in h.objects
      PROVE  LoadedEntry(OnDisk(o), o.slot, users) = Stored(o)
  <2>1. IsEntry(h, o) /\ o.user \in DOMAIN users
    BY DEF Sound, Apart, WellFormed, IsEntry
  <2>. QED  BY <2>1, EntryReadBack
<1>2. EntriesOn(h.mem, h.root, users, {}) =
        {LoadedEntry(OnDisk(o), o.slot, users) : o \in Readable(h, {})}
  BY EntriesReadable
<1>. QED  BY <1>1, <1>2 DEF Readable

\* An entry as a reload brings it back, with the number it gives it.
Renumbered(v, o) == [Stored(o) EXCEPT !.num = NumberAtLoad({Stored(q) : q \in v.objects}, Stored(o))]

\* It is the same file in the same place.
SameFile(q, o) ==
  /\ DOMAIN q = EntryFields
  /\ q.slot = o.slot /\ q.user = o.user /\ q.name = o.name /\ q.kind = o.kind
  /\ q.page = o.page /\ q.pages = o.pages /\ q.named = TRUE
  /\ q.size = IF o.size = 0 THEN 1 ELSE o.size

\* Giving it a number does not change that.
LEMMA RenumberedFields ==
  ASSUME NEW h, NEW o, IsEntry(h, o), NEW q, q = Renumbered(h, o)
  PROVE  SameFile(q, o)
<1>1. DOMAIN o = EntryFields /\ o.named = TRUE
  BY DEF IsEntry
<1>. DEFINE s == Stored(o)
<1>2. /\ DOMAIN s = EntryFields
      /\ s.slot = o.slot /\ s.user = o.user /\ s.name = o.name /\ s.kind = o.kind
      /\ s.page = o.page /\ s.pages = o.pages /\ s.named = TRUE
      /\ s.size = IF o.size = 0 THEN 1 ELSE o.size
  BY <1>1 DEF Stored, EntryFields
<1>3. PICK n : q = [s EXCEPT !.num = n]
  BY DEF Renumbered
<1>. HIDE DEF s
<1>. QED  BY <1>2, <1>3 DEF EntryFields, SameFile

\* What the media keep of it is what they kept.
LEMMA RenumberedSame ==
  ASSUME NEW h, NEW o, IsEntry(h, o), NEW q, q = Renumbered(h, o)
  PROVE  OnDisk(q) = OnDisk(o) /\ Stored(q) = Stored(o)
<1>1. /\ DOMAIN q = EntryFields
      /\ q.slot = o.slot /\ q.user = o.user /\ q.name = o.name /\ q.kind = o.kind
      /\ q.page = o.page /\ q.pages = o.pages /\ q.named = TRUE
      /\ q.size = IF o.size = 0 THEN 1 ELSE o.size
  <2>1. SameFile(q, o)
    BY RenumberedFields
  <2>. QED  BY <2>1 DEF SameFile
<1>2. OnDisk(q) = OnDisk(o)
  BY <1>1 DEF OnDisk
<1>3. Stored(q) = Stored(o)
  <2>1. DOMAIN o = EntryFields /\ o.named = TRUE
    BY DEF IsEntry
  <2>. DEFINE s == Stored(o)
              t == Stored(q)
  <2>2. /\ DOMAIN s = EntryFields
        /\ s.slot = o.slot /\ s.user = o.user /\ s.name = o.name /\ s.kind = o.kind
        /\ s.page = o.page /\ s.pages = o.pages /\ s.named = TRUE
        /\ s.size = (IF o.size = 0 THEN 1 ELSE o.size) /\ s.num = 0
    BY <2>1 DEF Stored, EntryFields
  <2>3. /\ DOMAIN t = EntryFields
        /\ t.slot = q.slot /\ t.user = q.user /\ t.name = q.name /\ t.kind = q.kind
        /\ t.page = q.page /\ t.pages = q.pages /\ t.named = TRUE
        /\ t.size = (IF q.size = 0 THEN 1 ELSE q.size) /\ t.num = 0
    BY <1>1 DEF Stored, EntryFields
  <2>4. s = [f \in EntryFields |-> s[f]] /\ t = [f \in EntryFields |-> t[f]]
    BY <1>1, <2>1 DEF Stored, EntryFields
  <2>. HIDE DEF s, t
  <2>5. \A f \in EntryFields : s[f] = t[f]
    BY <1>1, <2>2, <2>3 DEF EntryFields
  <2>. QED  BY <2>4, <2>5 DEF s, t
<1>. QED  BY <1>2, <1>3

\* The volume a reload makes.
LEMMA ReloadParts ==
  ASSUME NEW h, Sound(h), ~PagelessUser(h), ~SkippedGroup(h), NEW v, v = Load(h.mem)
  PROVE  /\ DOMAIN v = VolumeFields /\ v.used = h.mem[BitPage].items
         /\ v.root = h.root /\ v.mem = h.mem /\ UsersLike(h, v, {})
         /\ v.objects = {Renumbered(h, o) : o \in h.objects}
         /\ \A u \in DOMAIN h.users :
              \E i \in Indexes : \E r \in RecordsOn(h, i) : r.id = u /\ r.entry = v.users[u]
<1>. DEFINE users == UsersOn(h.mem, {})
            S     == EntriesOn(h.mem, RootOn(h.mem), users, {})
<1>1. v = [used |-> h.mem[BitPage].items, users |-> users, root |-> RootOn(h.mem), mem |-> h.mem,
           objects |-> Numbered(S)]
  BY DEF Load, LoadFrom
<1>2. /\ DOMAIN users = DOMAIN h.users
      /\ \A u \in DOMAIN h.users : DOMAIN users[u] = UserFields /\ users[u].used = h.users[u].used
      /\ \A u \in DOMAIN h.users :
           \E i \in Indexes : \E r \in RecordsOn(h, i) : r.id = u /\ r.entry = users[u]
  BY ReloadUsers
<1>. HIDE DEF users
<1>3. RootOn(h.mem) = h.root
  BY ReloadRoot
<1>4. S = {Stored(o) : o \in h.objects}
  BY <1>2, <1>3, ReloadEntries
<1>5. Numbered(S) = {Renumbered(h, o) : o \in h.objects}
  <2>1. Numbered(S) = {[s EXCEPT !.num = NumberAtLoad(S, s)] : s \in S}
    BY DEF Numbered
  <2>. HIDE DEF S
  <2>2. \A o : Renumbered(h, o) = [Stored(o) EXCEPT !.num = NumberAtLoad(S, Stored(o))]
    BY <1>4 DEF Renumbered
  <2>3. ASSUME NEW x \in Numbered(S)
        PROVE  x \in {Renumbered(h, o) : o \in h.objects}
    <3>1. PICK s \in S : x = [s EXCEPT !.num = NumberAtLoad(S, s)]
      BY <2>1
    <3>2. PICK o \in h.objects : s = Stored(o)
      BY <1>4
    <3>3. x = Renumbered(h, o)
      BY <2>2, <3>1, <3>2
    <3>. QED  BY <3>3
  <2>4. ASSUME NEW o \in h.objects
        PROVE  Renumbered(h, o) \in Numbered(S)
    <3>1. Stored(o) \in S
      BY <1>4
    <3>. QED  BY <2>1, <2>2, <3>1
  <2>. QED  BY <2>3, <2>4
<1>. HIDE DEF S
<1>. QED  BY <1>1, <1>2, <1>3, <1>5 DEF VolumeFields, UsersLike

\* What a reload brings back is sound when the bit file had been stored.
LEMMA ReloadSound ==
  ASSUME NEW h, Sound(h), ~ReloadLoses(h), NEW v, v = Load(h.mem)
  PROVE  Sound(v)
<1>1. Apart(h) /\ WellFormed(h) /\ MirroredBut(h, {}, {})
  BY DEF Sound, Apart
<1>2. /\ DOMAIN v = VolumeFields /\ v.used = h.mem[BitPage].items
      /\ v.root = h.root /\ v.mem = h.mem /\ UsersLike(h, v, {})
      /\ v.objects = {Renumbered(h, o) : o \in h.objects}
  BY ReloadParts DEF ReloadLoses
<1>3. v.used \subseteq Pages /\ DirPages(h) \union FilePages(h) \union RootPages \subseteq v.used
  <2>1. Referenced(h) = DirPages(h) \union FilePages(h) \union RootPages
    BY <1>1, ReferencedPages DEF WellFormed
  <2>. QED  BY <1>1, <1>2, <2>1 DEF ReloadLoses, BitsBehind, MirroredBut
<1>4. ASSUME NEW q \in v.objects
      PROVE  \E o \in h.objects :
               /\ q = Renumbered(h, o) /\ DOMAIN q = EntryFields
               /\ q.slot = o.slot /\ q.user = o.user /\ q.kind = o.kind
               /\ q.page = o.page /\ q.pages = o.pages /\ q.named = TRUE
               /\ Refs(v.mem, q) = Refs(h.mem, o) /\ PagesOf(v.mem, q) = PagesOf(h.mem, o)
  <2>1. PICK o \in h.objects : q = Renumbered(h, o)
    BY <1>2
  <2>2. IsEntry(h, o)
    BY <1>1 DEF WellFormed
  <2>3. SameFile(q, o)
    BY <2>1, <2>2, RenumberedFields
  <2>4. Refs(h.mem, q) = Refs(h.mem, o) /\ PagesOf(h.mem, q) = PagesOf(h.mem, o)
    BY <2>3, SameWalk DEF SameFile
  <2>. QED  BY <1>2, <2>1, <2>3, <2>4 DEF SameFile
<1>5. WellFormed(v)
  <2>1. \A q \in v.objects : IsEntry(v, q)
    <3>. TAKE q \in v.objects
    <3>1. PICK o \in h.objects :
            /\ DOMAIN q = EntryFields
            /\ q.slot = o.slot /\ q.user = o.user /\ q.kind = o.kind
            /\ q.page = o.page /\ q.pages = o.pages /\ q.named = TRUE
      BY <1>4
    <3>2. IsEntry(h, o)
      BY <1>1 DEF WellFormed
    <3>. QED  BY <1>2, <3>1, <3>2 DEF IsEntry, UsersLike
  <2>. QED  BY <1>1, <1>2, <1>3, <2>1 DEF WellFormed, UsersLike
<1>6. SameDirectory(h, v)
  BY <1>2, SameIndex DEF SameDirectory, SamePtrs
<1>7. DirectoryApart(v)
  BY <1>1, <1>3, <1>6 DEF Apart, DirectoryApart, SameDirectory
<1>8. FilesApart(v)
  <2>1. ASSUME NEW q \in v.objects
        PROVE  FileApart(v, q)
    <3>1. PICK o \in h.objects :
            Refs(v.mem, q) = Refs(h.mem, o) /\ PagesOf(v.mem, q) = PagesOf(h.mem, o)
      BY <1>4
    <3>2. FileApart(h, o) /\ PagesOf(h.mem, o) \subseteq v.used
      BY <1>1, <1>3 DEF Apart, FilesApart, FilePages
    <3>3. \A r \in Refs(h.mem, o) : r[2] \in PagesOf(h.mem, o)
      BY DEF PagesOf
    <3>4. DirPages(v) = DirPages(h)
      BY <1>6 DEF SameDirectory
    <3>. QED  BY <3>1, <3>2, <3>3, <3>4 DEF FileApart
  <2>2. ASSUME NEW q \in v.objects, NEW s \in v.objects, q # s
        PROVE  PagesOf(v.mem, q) \intersect PagesOf(v.mem, s) = {}
    <3>1. PICK o \in h.objects : q = Renumbered(h, o) /\ PagesOf(v.mem, q) = PagesOf(h.mem, o)
      BY <1>4
    <3>2. PICK p \in h.objects : s = Renumbered(h, p) /\ PagesOf(v.mem, s) = PagesOf(h.mem, p)
      BY <1>4
    <3>3. o # p
      BY <2>2, <3>1, <3>2
    <3>. QED  BY <1>1, <3>1, <3>2, <3>3 DEF Apart, FilesApart
  <2>. QED  BY <2>1, <2>2 DEF FilesApart
<1>9. SlotsApart(v)
  <2>1. \A q \in v.objects : InRow(q.user, q.slot)
    <3>. TAKE q \in v.objects
    <3>1. PICK o \in h.objects : q.slot = o.slot /\ q.user = o.user
      BY <1>4
    <3>. QED  BY <1>1, <3>1 DEF Apart, SlotsApart
  <2>2. ASSUME NEW q \in v.objects, NEW s \in v.objects, q.slot = s.slot
        PROVE  q = s
    <3>1. PICK o \in h.objects : q = Renumbered(h, o) /\ q.slot = o.slot
      BY <1>4
    <3>2. PICK p \in h.objects : s = Renumbered(h, p) /\ s.slot = p.slot
      BY <1>4
    <3>3. o = p
      BY <1>1, <2>2, <3>1, <3>2 DEF Apart, SlotsApart
    <3>. QED  BY <3>1, <3>2, <3>3
  <2>. QED  BY <2>1, <2>2 DEF SlotsApart
<1>10. ASSUME NEW g \in Indexes, NEW i \in Indexes
       PROVE  EntryPageOK(v, g, i)
  <2>. DEFINE S == {OnDisk(o) : o \in {o \in h.objects : At(o, g, i)}}
              R == {OnDisk(q) : q \in {q \in v.objects : At(q, g, i)}}
  <2>1. R = S
    <3>1. \A o \in h.objects : /\ Renumbered(h, o) \in v.objects
                               /\ OnDisk(Renumbered(h, o)) = OnDisk(o)
                               /\ At(Renumbered(h, o), g, i) <=> At(o, g, i)
      <4>. TAKE o \in h.objects
      <4>1. IsEntry(h, o)
        BY <1>1 DEF WellFormed
      <4>. DEFINE q == Renumbered(h, o)
      <4>2. q.slot = o.slot
        <5>. HIDE DEF q
        <5>1. q = Renumbered(h, o)
          BY DEF q
        <5>2. SameFile(q, o)
          BY <4>1, <5>1, RenumberedFields
        <5>. QED  BY <5>2 DEF SameFile
      <4>3. OnDisk(Renumbered(h, o)) = OnDisk(o)
        BY <4>1, RenumberedSame
      <4>. QED  BY <1>2, <4>2, <4>3 DEF At
    <3>2. \A q \in v.objects : \E o \in h.objects : q = Renumbered(h, o)
      BY <1>2
    <3>3. \A x \in R : x \in S
      BY <3>1, <3>2
    <3>4. \A x \in S : x \in R
      BY <3>1
    <3>. QED  BY <3>3, <3>4
  <2>2. EntryPageOK(h, g, i)
    BY <1>1 DEF MirroredBut
  <2>3. DirAt(v, g, i) = DirAt(h, g, i)
    BY <1>6 DEF SameDirectory
  <2>. HIDE DEF R, S
  <2>4. DirAt(h, g, i) # Null => h.mem[DirAt(h, g, i)].items = S
    BY <2>2 DEF EntryPageOK, S
  <2>5. DirAt(v, g, i) # Null => v.mem[DirAt(v, g, i)].items = R
    BY <1>2, <2>1, <2>3, <2>4
  <2>. QED  BY <2>5 DEF EntryPageOK, R
<1>11. ASSUME NEW i \in Indexes
       PROVE  UserPageOK(v, i)
  <2>1. UserPageOK(h, i)
    BY <1>1 DEF MirroredBut
  <2>2. Ptr(v, UserIndex, i) = Ptr(h, UserIndex, i)
    BY <1>6 DEF SameDirectory, IndexPages
  <2>3. \A r : IsRecord(h, r, i) => IsRecord(v, r, i)
    BY <1>2 DEF IsRecord, UsersLike
  <2>. QED  BY <1>2, <2>1, <2>2, <2>3 DEF UserPageOK, UsersLike
<1>12. \A q \in v.objects : HasDirPage(v, q)
  <2>. TAKE q \in v.objects
  <2>1. PICK o \in h.objects : q.slot = o.slot
    BY <1>4
  <2>2. o.slot \in Slots /\ HasDirPage(h, o)
    BY <1>1 DEF WellFormed, IsEntry, MirroredBut
  <2>. QED  BY <1>6, <2>1, <2>2, SlotParts DEF SameDirectory, HasDirPage
<1>13. MirroredBut(v, {}, {})
  <2>1. MasterOK(v) /\ v.mem[BitPage].items \subseteq Pages
    BY <1>1, <1>2 DEF MirroredBut, MasterOK
  <2>. QED  BY <1>10, <1>11, <1>12, <2>1 DEF MirroredBut
<1>. QED  BY <1>5, <1>7, <1>8, <1>9, <1>13 DEF Sound, Apart

\* And it shows what the volume showed.
LEMMA ReloadVisible ==
  ASSUME NEW h, Sound(h), ~PagelessUser(h), ~SkippedGroup(h)
  PROVE  Visible(Load(h.mem)) = Visible(h)
<1>. DEFINE v == Load(h.mem)
            shown(q) == <<Stored(q), ReadFile(h.mem, Stored(q))>>
            charged(w) == [u \in DOMAIN w.users |-> w.users[u].used]
<1>1. /\ v.mem = h.mem /\ UsersLike(h, v, {})
      /\ v.objects = {Renumbered(h, o) : o \in h.objects}
  BY ReloadParts
<1>. HIDE DEF v
<1>2. \A o \in h.objects : Stored(Renumbered(h, o)) = Stored(o)
  BY RenumberedSame DEF Sound, Apart, WellFormed
<1>3. {shown(q) : q \in v.objects} = {shown(o) : o \in h.objects}
  <2>1. \A o \in h.objects : shown(Renumbered(h, o)) = shown(o)
    BY <1>2
  <2>. HIDE DEF shown
  <2>. QED  BY <1>1, <2>1
<1>4. charged(v) = charged(h)
  BY <1>1 DEF UsersLike
<1>5. Visible(v) = [files |-> {shown(q) : q \in v.objects}, charged |-> charged(v)]
  BY <1>1 DEF Visible
<1>6. Visible(h) = [files |-> {shown(o) : o \in h.objects}, charged |-> charged(h)]
  BY DEF Visible
<1>. QED  BY <1>3, <1>4, <1>5, <1>6 DEF v

-----------------------------------------------------------------------------
(***************************************************************************)
(* The specification.                                                      *)
(***************************************************************************)
\* A reload leaves a sound volume, or one known to have lost something.
LEMMA ReopenSound ==
  ASSUME Sound(fs), ~hurt, Reopen
  PROVE  fs'.used \subseteq Pages /\ (~hurt' => Sound(fs'))
<1>1. fs' = Load(fs.mem) /\ (hurt' <=> ReloadLoses(fs))
  BY DEF Reopen
<1>2. fs'.used = fs.mem[BitPage].items
  BY <1>1 DEF Load, LoadFrom
<1>3. fs.mem[BitPage].items \subseteq Pages
  BY DEF Sound, MirroredBut
<1>4. ~hurt' => Sound(fs')
  BY <1>1, ReloadSound
<1>. QED  BY <1>2, <1>3, <1>4

\* A call on a file.
LEMMA FileCallSound ==
  ASSUME NEW who, NEW name, Sound(fs), ~hurt, FileCall(who, name)
  PROVE  fs'.used \subseteq Pages /\ (~hurt' => Sound(fs'))
<1>1. Lengths \subseteq Nat /\ Spans \subseteq Nat \X Nat
  BY VolumeAssumption
<1>2. \A h : Sound(h) => h.used \subseteq Pages
  BY DEF Sound, Apart, WellFormed
<1>3. SUFFICES Sound(fs') \/ (hurt' /\ fs'.used \subseteq Pages)
  BY <1>2
<1>4. ASSUME NEW n \in Lengths, NEW holes \in HoleSets, NEW v \in Contents,
             \/ Create(who, name, n, holes, v) \/ CreateNoSpace(who, name, n, holes, v)
             \/ Update(who, name, n, holes, v)
      PROVE  Sound(fs')
  BY <1>1, <1>4, CreateSound, CreateNoSpaceSound, UpdateSound
<1>5. ASSUME NEW n \in Lengths, NEW holes \in HoleSets, NEW v \in Contents,
             UpdateNoSpace(who, name, n, holes, v)
      PROVE  hurt' /\ fs'.used \subseteq Pages
  <2>1. fs'.used \subseteq Pages
    BY <1>1, <1>5, UpdateNoSpaceUsed
  <2>2. hurt'
    BY <1>5 DEF UpdateNoSpace
  <2>. QED  BY <2>1, <2>2
<1>6. ASSUME NEW n \in Lengths, NEW holes \in HoleSets,
             CreateRefused(who, name, n, holes) \/ UpdateRefused(who, name, n, holes)
      PROVE  Sound(fs')
  BY <1>6, CreateRefusedSound, UpdateRefusedSound
<1>7. ASSUME NEW n \in Lengths, NEW v \in Contents, UpdateContiguous(who, name, n, v)
      PROVE  Sound(fs')
  BY <1>7, UpdateContiguousSound
<1>8. ASSUME NEW n \in Lengths \ {0}, CreateContiguous(who, name, n) \/ ContiguousRefused(who, name, n)
      PROVE  Sound(fs')
  BY <1>1, <1>8, CreateContiguousSound, ContiguousRefusedSound
<1>9. ASSUME NEW span \in Spans, NEW v \in Contents, Patch(who, name, span[1], span[2], v)
      PROVE  Sound(fs')
  <2>1. span[1] \in Nat
    BY <1>1
  <2>. QED  BY <1>9, <2>1, PatchSound
<1>10. ASSUME NEW new \in Names, Rename(who, name, new)
       PROVE  Sound(fs')
  BY <1>10, RenameSound
<1>11. CASE Delete(who, name)
  BY <1>11, DeleteSound
<1>. QED  BY <1>4, <1>5, <1>6, <1>7, <1>8, <1>9, <1>10, <1>11 DEF FileCall

\* A call on a user.
LEMMA UserCallSound ==
  ASSUME Sound(fs), UserCall
  PROVE  Sound(fs')
<1>1. ASSUME NEW u, GiveObjectBlock(u) \/ TakeObjectBlock(u)
      PROVE  Sound(fs')
  <2>1. CASE GiveObjectBlock(u)
    BY <2>1, SetMaxSound DEF GiveObjectBlock
  <2>2. CASE TakeObjectBlock(u)
    BY <2>2, SetMaxSound DEF TakeObjectBlock
  <2>. QED  BY <1>1, <2>1, <2>2
<1>2. ASSUME NEW u, RemoveUser(u)
      PROVE  Sound(fs')
  BY <1>2, RemoveUserSound
<1>3. ASSUME NEW u, NEW q, SetQuota(u, q)
      PROVE  Sound(fs')
  BY <1>3, SetQuotaSound
<1>4. ASSUME NEW q, AddUser(q)
      PROVE  Sound(fs')
  BY <1>4, AddUserSound
<1>. QED  BY <1>1, <1>2, <1>3, <1>4 DEF UserCall

\* Every step of the volume.
LEMMA NextSound ==
  ASSUME SoundUntilHurt, [Next]_vars
  PROVE  SoundUntilHurt'
<1>1. CASE ~hurt /\ \E who \in Callers, name \in Names : FileCall(who, name)
  BY <1>1, FileCallSound DEF SoundUntilHurt
<1>2. CASE ~hurt /\ UserCall
  <2>1. Sound(fs')
    BY <1>2, UserCallSound DEF SoundUntilHurt
  <2>. QED  BY <2>1 DEF SoundUntilHurt, Sound, Apart, WellFormed
<1>3. CASE ~hurt /\ Reopen
  BY <1>3, ReopenSound DEF SoundUntilHurt
<1>4. CASE Abandoned \/ UNCHANGED vars
  BY <1>4 DEF Abandoned, vars, SoundUntilHurt
<1>. QED  BY <1>1, <1>2, <1>3, <1>4 DEF Next

-----------------------------------------------------------------------------
\* The pages ndfs_create_image writes.
LEMMA FreshPages ==
  /\ IsMem(FreshMem)
  /\ FreshMem[MasterPage].items = {[root |-> [sub |-> FALSE, page |-> ObjectIndex], free |-> TotalPages]}
  /\ FreshMem[BitPage].items = FixedPages /\ FixedPages \subseteq Pages
  /\ \A i \in Indexes : FreshMem[ObjectIndex].ptrs[i] = IF i = 0 THEN ObjectPage0 ELSE Null
  /\ \A i \in Indexes : FreshMem[UserIndex].ptrs[i] = IF i = 0 THEN UserPage0 ELSE Null
  /\ FreshMem[ObjectPage0].items = {}
  /\ FreshMem[UserPage0].items = {[id |-> 0, entry |-> NewUser(0)]}
<1>1. /\ BitPage \in Nat \ {0} /\ TotalPages \in Nat /\ BitPage + 4 < TotalPages
      /\ MasterPage = 0 /\ ObjectIndex = BitPage + 1 /\ ObjectPage0 = BitPage + 2
      /\ UserIndex = BitPage + 3 /\ UserPage0 = BitPage + 4
  BY Layout, LayoutAssumption DEF MasterPage, ObjectIndex, ObjectPage0, UserIndex, UserPage0
<1>2. {MasterPage, BitPage, ObjectIndex, ObjectPage0, UserIndex, UserPage0} \subseteq Pages
  BY Layout
<1>3. FixedPages \subseteq Pages
  BY <1>1 DEF FixedPages, Pages
<1>. DEFINE m == {[root |-> [sub |-> FALSE, page |-> ObjectIndex], free |-> TotalPages]}
            a == [Blank EXCEPT !.ptrs[0] = ObjectPage0]
            b == [Blank EXCEPT !.ptrs[0] = UserPage0]
            r == {[id |-> 0, entry |-> NewUser(0)]}
<1>4. FreshMem = [p \in Pages |->
     CASE p = MasterPage  -> Holding(m)
       [] p = BitPage     -> Holding(FixedPages)
       [] p = ObjectIndex -> a
       [] p = UserIndex   -> b
       [] p = UserPage0   -> Holding(r)
       [] OTHER           -> Blank]
  BY DEF FreshMem
<1>5. /\ DOMAIN a = PageFields /\ a.ptrs \in [Indexes -> Pages]
      /\ \A i \in Indexes : a.ptrs[i] = IF i = 0 THEN ObjectPage0 ELSE Null
  BY <1>2, PageContent, Layout DEF PageFields
<1>6. /\ DOMAIN b = PageFields /\ b.ptrs \in [Indexes -> Pages]
      /\ \A i \in Indexes : b.ptrs[i] = IF i = 0 THEN UserPage0 ELSE Null
  BY <1>2, PageContent, Layout DEF PageFields
<1>. HIDE DEF m, a, b, r
<1>7. /\ DOMAIN FreshMem = Pages
      /\ FreshMem[MasterPage] = Holding(m) /\ FreshMem[BitPage] = Holding(FixedPages)
      /\ FreshMem[ObjectIndex] = a /\ FreshMem[UserIndex] = b /\ FreshMem[UserPage0] = Holding(r)
      /\ FreshMem[ObjectPage0] = Blank
  BY <1>1, <1>2, <1>4
<1>8. \A p \in Pages : FreshMem[p] \in {Holding(m), Holding(FixedPages), a, b, Holding(r), Blank}
  BY <1>4
<1>9. IsMem(FreshMem)
  BY <1>5, <1>6, <1>7, <1>8, PageContent DEF IsMem
<1>. QED  BY <1>3, <1>5, <1>6, <1>7, <1>9, PageContent DEF m, r

\* The user and the entries found there: SYSTEM, and none.
LEMMA FreshLoaded ==
  ASSUME NEW h, h = Load(FreshMem)
  PROVE  /\ DOMAIN h = VolumeFields /\ h.used = FixedPages /\ h.mem = FreshMem /\ h.objects = {}
         /\ h.root = [sub |-> FALSE, page |-> ObjectIndex]
         /\ DOMAIN h.users = {0} /\ h.users[0] = NewUser(0)
<1>. DEFINE mem  == FreshMem
            root == [sub |-> FALSE, page |-> ObjectIndex]
            rec  == [id |-> 0, entry |-> NewUser(0)]
            users == UsersOn(mem, {})
<1>1. RootOn(mem) = root
  <2>1. mem[MasterPage].items = {[root |-> root, free |-> TotalPages]}
    BY FreshPages
  <2>. HIDE DEF mem, root
  <2>2. \A m \in mem[MasterPage].items : m.root = root
    BY <2>1
  <2>3. (CHOOSE m \in mem[MasterPage].items : TRUE) \in mem[MasterPage].items
    BY <2>1
  <2>. QED  BY <2>2, <2>3 DEF RootOn
<1>2. ObjectPage0 # Null /\ UserPage0 # Null /\ 0 \in Indexes
  BY Layout DEF ObjectPage0, UserPage0
<1>3. DOMAIN users = {0} /\ users[0] = NewUser(0)
  <2>1. \A p : p \in Below(mem, UserIndex, {}) <=> p = UserPage0
    BY <1>2, FreshPages DEF Below
  <2>2. Below(mem, UserIndex, {}) = {UserPage0}
    BY <2>1
  <2>3. mem[UserPage0].items = {rec}
    BY FreshPages
  <2>4. IsUserRecord(rec) /\ rec.id = 0 /\ rec.entry = NewUser(0)
    BY DEF IsUserRecord
  <2>. HIDE DEF mem, rec
  <2>5. UNION {mem[p].items : p \in Below(mem, UserIndex, {})} = {rec}
    BY <2>2, <2>3
  <2>6. {q \in {rec} : IsUserRecord(q)} = {rec}
    BY <2>4
  <2>7. users = [u \in {r.id : r \in {rec}} |-> (CHOOSE r \in {rec} : r.id = u).entry]
    BY <2>5, <2>6 DEF UsersOn
  <2>. QED  BY <2>4, <2>7
<1>4. EntriesOn(mem, root, users, {}) = {}
  <2>. SUFFICES ASSUME NEW x \in EntriesOn(mem, root, users, {})
                PROVE  FALSE
    OBVIOUS
  <2>. HIDE DEF users
  <2>1. PICK b \in IndexBlocks(mem, root, {}), i \in Indexes :
          /\ mem[b[2]].ptrs[i] # Null
          /\ \E d \in EntriesOf(mem[mem[b[2]].ptrs[i]]) :
               x = LoadedEntry(d, (b[1] * PtrsPerPage + i) * EntriesPerPage + d.at, users)
    BY EntriesFound
  <2>2. b[2] = ObjectIndex
    BY DEF IndexBlocks
  <2>3. mem[b[2]].ptrs[i] = ObjectPage0
    BY <2>1, <2>2, FreshPages
  <2>4. EntriesOf(mem[ObjectPage0]) = {}
    BY FreshPages DEF EntriesOf
  <2>. QED  BY <2>1, <2>3, <2>4
<1>5. mem[BitPage].items = FixedPages
  BY FreshPages
<1>. HIDE DEF users, mem, root
<1>6. Numbered({}) = {}
  BY DEF Numbered
<1>7. h = [used |-> mem[BitPage].items, users |-> users, root |-> RootOn(mem), mem |-> mem,
           objects |-> Numbered(EntriesOn(mem, RootOn(mem), users, {}))]
  BY DEF Load, LoadFrom, users, mem
<1>8. /\ DOMAIN h = VolumeFields /\ h.used = FixedPages /\ h.mem = mem /\ h.objects = {}
      /\ h.root = root /\ h.users = users
  BY <1>1, <1>4, <1>5, <1>6, <1>7 DEF VolumeFields
<1>. QED  BY <1>3, <1>8 DEF mem, root

\* A new image, opened, is sound.
LEMMA InitSound ==
  ASSUME NEW h, h = Load(FreshMem)
  PROVE  Sound(h)
<1>1. /\ DOMAIN h = VolumeFields /\ h.used = FixedPages /\ h.mem = FreshMem /\ h.objects = {}
      /\ h.root = [sub |-> FALSE, page |-> ObjectIndex]
      /\ DOMAIN h.users = {0} /\ h.users[0] = NewUser(0)
  BY FreshLoaded
<1>2. h.root.sub = FALSE /\ h.root.page = ObjectIndex /\ DOMAIN h.root = {"sub", "page"}
  BY <1>1
<1>3. /\ BitPage \in Nat \ {0}
      /\ MasterPage = 0 /\ ObjectIndex = BitPage + 1 /\ ObjectPage0 = BitPage + 2
      /\ UserIndex = BitPage + 3 /\ UserPage0 = BitPage + 4
      /\ Null = 0 /\ 0 \in Indexes /\ RootPages = {0, BitPage, BitPage + 3}
  BY Layout DEF MasterPage, ObjectIndex, ObjectPage0, UserIndex, UserPage0, RootPages
<1>4. /\ \A i \in Indexes : Ptr(h, ObjectIndex, i) = IF i = 0 THEN ObjectPage0 ELSE Null
      /\ \A i \in Indexes : Ptr(h, UserIndex, i) = IF i = 0 THEN UserPage0 ELSE Null
  BY <1>1, FreshPages DEF Ptr
<1>5. WellFormed(h)
  <2>1. 0 \in UserIds
    BY Layout DEF UserIds
  <2>2. DOMAIN NewUser(0) = UserFields
    BY DEF NewUser, UserFields
  <2>. QED  BY <1>1, <1>2, <2>1, <2>2, FreshPages DEF WellFormed
<1>6. IndexPages(h) = {ObjectIndex, UserIndex}
  BY <1>2 DEF IndexPages, GroupPages
<1>7. \A p : p \in DirPages(h) <=> p \in {ObjectIndex, ObjectPage0, UserPage0}
  BY <1>2, <1>3, <1>4, <1>6 DEF DirPages
<1>8. DirectoryApart(h)
  <2>1. h.root.page \in Pages
    BY <1>2, Layout
  <2>2. DirPages(h) \intersect RootPages = {}
    BY <1>3, <1>7
  <2>3. \A a \in IndexPages(h), i \in Indexes : Ptr(h, a, i) # h.root.page
    BY <1>2, <1>3, <1>4, <1>6
  <2>4. \A a, b \in IndexPages(h), i, j \in Indexes :
          Ptr(h, a, i) # Null /\ Ptr(h, a, i) = Ptr(h, b, j) => a = b /\ i = j
    BY <1>3, <1>4, <1>6
  <2>5. DirPages(h) \union RootPages \subseteq h.used
    BY <1>1, <1>3, <1>7 DEF FixedPages
  <2>. QED  BY <2>1, <2>2, <2>3, <2>4, <2>5 DEF DirectoryApart
<1>9. FilesApart(h) /\ SlotsApart(h)
  BY <1>1 DEF FilesApart, SlotsApart
<1>10. ASSUME NEW g \in Indexes, NEW i \in Indexes
       PROVE  EntryPageOK(h, g, i)
  <2>1. DirAt(h, g, i) # Null => DirAt(h, g, i) = ObjectPage0
    BY <1>2, <1>4 DEF DirAt
  <2>2. h.mem[ObjectPage0].items = {}
    BY <1>1, FreshPages
  <2>. QED  BY <1>1, <2>1, <2>2 DEF EntryPageOK
<1>11. ASSUME NEW i \in Indexes
       PROVE  UserPageOK(h, i)
  <2>1. CASE i # 0
    BY <1>4, <2>1 DEF UserPageOK
  <2>2. CASE i = 0
    <3>. DEFINE rec == [id |-> 0, entry |-> NewUser(0)]
    <3>1. Ptr(h, UserIndex, i) = UserPage0
      BY <1>4, <2>2
    <3>2. h.mem[UserPage0].items = {rec}
      BY <1>1, FreshPages
    <3>3. 0 \div EntriesPerPage = 0
      BY Layout
    <3>4. DOMAIN rec = {"id", "entry"} /\ rec.id = 0 /\ rec.entry = NewUser(0)
      OBVIOUS
    <3>. HIDE DEF rec
    <3>5. IsRecord(h, rec, i)
      BY <1>1, <2>2, <3>3, <3>4 DEF IsRecord, NewUser, UserFields
    <3>. QED  BY <1>1, <3>1, <3>2, <3>4, <3>5 DEF UserPageOK
  <2>. QED  BY <2>1, <2>2
<1>12. MasterOK(h)
  BY <1>1, FreshPages DEF MasterOK
<1>13. MirroredBut(h, {}, {})
  BY <1>1, <1>10, <1>11, <1>12, FreshPages DEF MirroredBut
<1>. QED  BY <1>5, <1>8, <1>9, <1>13 DEF Sound, Apart

-----------------------------------------------------------------------------
\* Through any sequence of calls, refusals and reloads the structures of a volume keep their
\* shape, their pages apart and the media in step with memory, until a call has hurt it; the
\* bitmap never marks a page the device does not have.
THEOREM VolumeSound == Spec => []SoundUntilHurt
<1>1. Init => SoundUntilHurt
  <2>. SUFFICES ASSUME Init
                PROVE  SoundUntilHurt
    OBVIOUS
  <2>1. fs = Load(FreshMem)
    BY DEF Init
  <2>2. Sound(fs)
    BY <2>1, InitSound
  <2>. QED  BY <2>2 DEF SoundUntilHurt, Sound, Apart, WellFormed
<1>2. SoundUntilHurt /\ [Next]_vars => SoundUntilHurt'
  BY NextSound
<1>. QED  BY <1>1, <1>2, PTL DEF Spec

\* No page a file or the directory refers to is ever free: no allocation hands it out again.
THEOREM UsedWhileReferenced == Spec => []ReferencedIsUsed
<1>1. SoundUntilHurt => ReferencedIsUsed
  BY SoundLinkedOnce DEF SoundUntilHurt, ReferencedIsUsed
<1>. QED  BY <1>1, VolumeSound, PTL

\* No page ever belongs to two files, twice to one, or to a file and the directory.
THEOREM NeverCrossLinked == Spec => []NoCrossLinks
<1>1. SoundUntilHurt => NoCrossLinks
  BY SoundLinkedOnce DEF SoundUntilHurt, NoCrossLinks
<1>. QED  BY <1>1, VolumeSound, PTL

\* Every page of a file is in the window the allocator looks at, under any declared capacity.
THEOREM FilesInsideCapacity == Spec => []InsideCapacity
<1>1. \A p \in Window : FirstAlloc <= p /\ p < TotalPages /\ (Ceiling > 0 => p < Ceiling)
  BY BitMapAssumption DEF Window, Top
<1>2. ASSUME SoundUntilHurt, ~hurt, NEW x \in FileRefs(fs)
      PROVE  x[3] \in Window
  <2>1. PICK o \in fs.objects : \E r \in Refs(fs.mem, o) : x = <<o.slot, r[1], r[2]>>
    BY FileLinks
  <2>2. PICK r \in Refs(fs.mem, o) : x = <<o.slot, r[1], r[2]>>
    BY <2>1
  <2>3. r[2] \in Window
    BY <1>2 DEF SoundUntilHurt, Sound, Apart, FilesApart, FileApart
  <2>. QED  BY <2>2, <2>3
<1>3. SoundUntilHurt => InsideCapacity
  BY <1>1, <1>2 DEF InsideCapacity
<1>. QED  BY <1>3, VolumeSound, PTL

\* Two entries never share a slot, and each is in its owner's row, at home or above.
THEOREM EntriesInPlace == Spec => []EntriesPlaced
<1>1. SoundUntilHurt => EntriesPlaced
  BY DEF SoundUntilHurt, Sound, Apart, SlotsApart, InRow, EntriesPlaced
<1>. QED  BY <1>1, VolumeSound, PTL

\* The bytes of the bit file tell the library and SINTRAN the same pages, for every width of a
\* byte and of a page, whatever the volume went through.
THEOREM BitFileShared == Spec => []BitFileIsSintrans
<1>1. SoundUntilHurt => BitFileIsSintrans
  BY LoadedIsWritten, SintranReadsWritten DEF SoundUntilHurt, BitFileIsSintrans
<1>. QED  BY <1>1, VolumeSound, PTL

\* Between any two calls the pages alone give back every file, its content and every charge,
\* except in the three states a reload is known to lose something from.
THEOREM ReloadsTheSame == Spec => []ReloadSame
<1>1. SoundUntilHurt => ReloadSame
  BY ReloadVisible DEF SoundUntilHurt, ReloadSame, ReloadLoses
<1>. QED  BY <1>1, VolumeSound, PTL
-----------------------------------------------------------------------------
(***************************************************************************)
(* A mount of pages some of which cannot be read.                          *)
(***************************************************************************)
\* The records and entries of a sound volume are on pages that no walk finds other pages
\* through: without one of them the group index pages are all still read.
LEMMA GroupsReadable ==
  ASSUME NEW h, Sound(h), ~SkippedGroup(h),
         NEW bad, bad \subseteq {UserIndex, BitPage} \union Below(h.mem, UserIndex, {})
                    \union UNION {Below(h.mem, b[2], {}) : b \in IndexBlocks(h.mem, h.root, {})}
  PROVE  IndexBlocks(h.mem, h.root, bad) = IndexBlocks(h.mem, h.root, {})
<1>. DEFINE ptr(g) == Ptr(h, h.root.page, g)
            blocks == IndexBlocks(h.mem, h.root, {})
            leaves == UNION {Below(h.mem, b[2], {}) : b \in blocks}
<1>1. Apart(h) /\ DirectoryApart(h)
  BY DEF Sound, Apart
<1>2. ASSUME NEW g \in Indexes, h.root.sub, ptr(g) # Null
      PROVE  ptr(g) \notin bad
  <2>1. ptr(g) \in IndexPages(h) /\ ptr(g) \in DirPages(h)
    BY <1>2 DEF IndexPages, GroupPages, DirPages
  <2>2. ptr(g) \notin {UserIndex, BitPage}
    BY <1>1, <2>1 DEF DirectoryApart, RootPages
  <2>3. ptr(g) \notin Below(h.mem, UserIndex, {})
    <3>1. \A i \in Indexes : Ptr(h, UserIndex, i) # Null => Ptr(h, UserIndex, i) # ptr(g)
      BY <1>1, <2>1, UserPage
    <3>. QED  BY <3>1 DEF Below, Ptr
  <2>4. ptr(g) \notin leaves
    <3>. SUFFICES ASSUME NEW b \in blocks, ptr(g) \in Below(h.mem, b[2], {})
                  PROVE  FALSE
      OBVIOUS
    <3>1. PICK f \in Indexes : GroupAt(h, f) # Null /\ b = <<f, GroupAt(h, f)>>
      BY ReloadBlocks
    <3>2. PICK i \in Indexes : ptr(g) = Ptr(h, GroupAt(h, f), i)
      BY <3>1 DEF Below, Ptr
    <3>3. DirAt(h, f, i) = ptr(g)
      BY <3>1, <3>2 DEF DirAt, GroupAt
    <3>. QED  BY <1>1, <1>2, <2>1, <3>3, EntryPage
  <2>. QED  BY <2>2, <2>3, <2>4
<1>3. CASE ~h.root.sub
  BY <1>3 DEF IndexBlocks
<1>4. CASE h.root.sub
  <2>. DEFINE some(S) == {g \in Indexes : h.mem[h.root.page].ptrs[g] \notin {Null} \union S}
  <2>1. some(bad) = some({})
    BY <1>2, <1>4 DEF Ptr
  <2>2. \A S : IndexBlocks(h.mem, h.root, S) =
                 {<<Cardinality({f \in some(S) : f < g}), h.mem[h.root.page].ptrs[g]>> : g \in some(S)}
    BY <1>4 DEF IndexBlocks
  <2>. HIDE DEF some
  <2>3. IndexBlocks(h.mem, h.root, bad) =
          {<<Cardinality({f \in some(bad) : f < g}), h.mem[h.root.page].ptrs[g]>> : g \in some(bad)}
    BY <2>2, Zenon
  <2>4. IndexBlocks(h.mem, h.root, {}) =
          {<<Cardinality({f \in some({}) : f < g}), h.mem[h.root.page].ptrs[g]>> : g \in some({})}
    BY <2>2, Zenon
  <2>. QED  BY <2>1, <2>3, <2>4, Zenon
<1>. QED  BY <1>3, <1>4

\* The users whose page can be read.
ReadableUsers(h, bad) ==
  {u \in DOMAIN h.users : /\ UserIndex \notin bad
                          /\ Ptr(h, UserIndex, u \div EntriesPerPage) \notin {Null} \union bad}

\* A mount finds no others.
LEMMA UsersReadable ==
  ASSUME NEW h, Sound(h), NEW bad
  PROVE  DOMAIN UsersOn(h.mem, bad) = ReadableUsers(h, bad)
<1>. DEFINE below == Below(h.mem, UserIndex, bad)
            recs  == IF UserIndex \in bad THEN {} ELSE UNION {h.mem[p].items : p \in below}
            kept  == {r \in recs : IsUserRecord(r)}
<1>1. DOMAIN UsersOn(h.mem, bad) = {r.id : r \in kept}
  BY DEF UsersOn
<1>2. \A p : p \in below <=> \E i \in Indexes : p = Ptr(h, UserIndex, i) /\ p \notin {Null} \union bad
  BY DEF Below, Ptr
<1>3. \A r : r \in recs <=> UserIndex \notin bad /\ \E p \in below : r \in h.mem[p].items
  OBVIOUS
<1>. HIDE DEF below, recs
<1>4. DOMAIN h.users \subseteq UserIds /\ \A i \in Indexes : UserPageOK(h, i)
  BY DEF Sound, Apart, WellFormed, MirroredBut
<1>5. ASSUME NEW r \in kept
      PROVE  /\ r.id \in DOMAIN h.users /\ UserIndex \notin bad
             /\ Ptr(h, UserIndex, r.id \div EntriesPerPage) \notin {Null} \union bad
  <2>1. PICK p \in below : r \in h.mem[p].items
    BY <1>3
  <2>2. PICK i \in Indexes : p = Ptr(h, UserIndex, i) /\ p \notin {Null} \union bad
    BY <1>2
  <2>3. IsRecord(h, r, i)
    BY <1>4, <2>1, <2>2 DEF UserPageOK
  <2>. QED  BY <1>3, <2>2, <2>3 DEF IsRecord
<1>6. ASSUME NEW u \in DOMAIN h.users, UserIndex \notin bad,
             Ptr(h, UserIndex, u \div EntriesPerPage) \notin {Null} \union bad
      PROVE  \E r \in kept : r.id = u
  <2>. DEFINE i == u \div EntriesPerPage
  <2>1. i \in Indexes
    BY <1>4, UserPart
  <2>2. PICK r \in h.mem[Ptr(h, UserIndex, i)].items : r.id = u
    BY <1>4, <1>6, <2>1 DEF UserPageOK
  <2>3. IsRecord(h, r, i)
    BY <1>4, <1>6, <2>1 DEF UserPageOK
  <2>4. Ptr(h, UserIndex, i) \in below
    BY <1>2, <1>6, <2>1
  <2>. QED  BY <1>3, <1>6, <2>2, <2>3, <2>4 DEF IsRecord, IsUserRecord
<1>. HIDE DEF kept
<1>. QED  BY <1>1, <1>5, <1>6 DEF ReadableUsers

\* What is seen of the entries a mount finds.
LEMMA SeenReadable ==
  ASSUME NEW h, Sound(h), ~SkippedGroup(h), NEW users, NEW bad,
         IndexBlocks(h.mem, h.root, bad) = IndexBlocks(h.mem, h.root, {})
  PROVE  Seen(Numbered(EntriesOn(h.mem, h.root, users, bad))) =
           Seen(Readable(h, bad))
<1>. DEFINE S    == EntriesOn(h.mem, h.root, users, bad)
            K    == Readable(h, bad)
            v(o) == <<o.slot, o.user, o.name, o.page>>
            e(o) == LoadedEntry(OnDisk(o), o.slot, users)
            n(s) == [s EXCEPT !.num = NumberAtLoad(S, s)]
<1>1. \A T : Seen(T) = {v(o) : o \in T}
  BY DEF Seen
<1>2. Numbered(S) = {n(s) : s \in S}
  BY DEF Numbered
<1>3. ASSUME NEW s
      PROVE  s \in S <=> \E o \in K : s = e(o)
  <2>1. S = {e(o) : o \in K}
    BY EntriesReadable
  <2>. HIDE DEF S, e
  <2>. QED  BY <2>1
<1>4. ASSUME NEW o \in K
      PROVE  v(n(e(o))) = v(o)
  <2>1. e(o) = [slot |-> o.slot, user |-> o.user, name |-> o.name, kind |-> o.kind, page |-> o.page,
                pages |-> o.pages, size |-> OnDisk(o).size, num |-> 0, named |-> o.user \in DOMAIN users]
    BY DEF LoadedEntry, OnDisk
  <2>. HIDE DEF e, S
  <2>. QED  BY <2>1
<1>. HIDE DEF S, K, e, n, v
<1>5. \A x : x \in Seen(Numbered(S)) <=> \E s \in S : x = v(n(s))
  BY <1>1, <1>2
<1>6. \A x : x \in Seen(Numbered(S)) <=> \E o \in K : x = v(n(e(o)))
  BY <1>3, <1>5
<1>7. \A x : x \in Seen(K) <=> \E o \in K : x = v(o)
  BY <1>1
<1>8. \A x : x \in Seen(Numbered(S)) <=> x \in Seen(K)
  BY <1>4, <1>6, <1>7
<1>9. Seen(Numbered(S)) = Seen(K)
  BY <1>1, <1>8
<1>. QED  BY <1>9 DEF S, K

\* A page that the walk of the object file meets is counted when it cannot be read.
LEMMA EntryPageCounted ==
  ASSUME NEW h, Sound(h), ~SkippedGroup(h), NEW bad, IsFiniteSet(bad),
         IndexBlocks(h.mem, h.root, bad) = IndexBlocks(h.mem, h.root, {}),
         NEW o \in h.objects, DirPage(h, o.slot) \in bad
  PROVE  DamageReport(h.mem, bad).object_pages > 0
<1>. DEFINE g      == GroupOf(o.slot)
            i      == Inner(o.slot)
            groups == IF h.root.sub THEN {h.mem[h.root.page].ptrs[f] : f \in Indexes} \ {Null} ELSE {}
            blocks == {b[2] : b \in IndexBlocks(h.mem, h.root, bad)}
            onWalk == groups \union UNION {Below(h.mem, b, {}) : b \in blocks}
<1>1. RootOn(h.mem) = h.root
  BY ReloadRoot
<1>2. DamageReport(h.mem, bad).object_pages = Cardinality(onWalk \intersect bad)
  BY <1>1 DEF DamageReport
<1>3. IsEntry(h, o) /\ HasDirPage(h, o)
  BY DEF Sound, Apart, WellFormed, MirroredBut
<1>4. g \in Indexes /\ i \in Indexes
  BY <1>3, SlotParts DEF IsEntry
<1>5. DirPage(h, o.slot) = DirAt(h, g, i) /\ DirAt(h, g, i) # Null
  BY <1>3 DEF DirPage, DirAt, HasDirPage
<1>. HIDE DEF g, i
<1>6. GroupAt(h, g) # Null /\ DirAt(h, g, i) = h.mem[GroupAt(h, g)].ptrs[i]
  BY <1>5 DEF DirAt, GroupAt, Ptr
<1>7. <<g, GroupAt(h, g)>> \in IndexBlocks(h.mem, h.root, bad)
  BY <1>4, <1>6, ReloadBlocks
<1>8. GroupAt(h, g) \in blocks
  BY <1>7
<1>9. DirAt(h, g, i) \in Below(h.mem, GroupAt(h, g), {})
  BY <1>4, <1>5, <1>6 DEF Below
<1>. HIDE DEF blocks, groups
<1>10. DirPage(h, o.slot) \in onWalk \intersect bad
  BY <1>5, <1>8, <1>9
<1>11. IsFiniteSet(onWalk \intersect bad)
  BY FS_Intersection
<1>. HIDE DEF onWalk
<1>. QED  BY <1>2, <1>10, <1>11, FS_EmptySet, FS_CardinalityType

\* What the pages in bad cost: the entries and users that are on them, and their loss is counted.
CostsItself(h, bad) ==
  LET whole  == Load(h.mem)
      part   == LoadFrom(h.mem, bad, {})
      report == DamageReport(h.mem, bad)
      gone   == {u \in DOMAIN whole.users : Ptr(whole, UserIndex, u \div EntriesPerPage) \in bad}
  IN /\ Seen(part.objects) = Seen({o \in whole.objects : DirPage(whole, o.slot) \notin bad})
     /\ DOMAIN part.users = IF UserIndex \in bad THEN {} ELSE DOMAIN whole.users \ gone
     /\ Seen(part.objects) # Seen(whole.objects) => report.object_pages > 0
     /\ gone # {} /\ UserIndex \notin bad => report.user_pages > 0

\* However many of the pages that hold entries or users are lost, they cost what is on them.
LEMMA LostPagesSpare ==
  ASSUME NEW h, Sound(h), ~SkippedGroup(h), NEW bad, IsFiniteSet(bad),
         bad \subseteq {UserIndex, BitPage} \union Below(h.mem, UserIndex, {})
           \union UNION {Below(h.mem, b[2], {}) : b \in IndexBlocks(h.mem, h.root, {})}
  PROVE  CostsItself(h, bad)
<1>. DEFINE whole  == Load(h.mem)
            part   == LoadFrom(h.mem, bad, {})
            gone   == {u \in DOMAIN whole.users : Ptr(whole, UserIndex, u \div EntriesPerPage) \in bad}
            whose  == UsersOn(h.mem, {})
            theirs == UsersOn(h.mem, bad)
            S      == EntriesOn(h.mem, h.root, whose, {})
<1>1. RootOn(h.mem) = h.root
  BY ReloadRoot
<1>2. IndexBlocks(h.mem, h.root, bad) = IndexBlocks(h.mem, h.root, {})
  BY GroupsReadable
<1>3. /\ whole.mem = h.mem /\ whole.root = h.root /\ whole.users = whose
      /\ whole.objects = Numbered(S)
  BY <1>1 DEF Load, LoadFrom
<1>4. part.users = theirs /\ part.objects = Numbered(EntriesOn(h.mem, h.root, theirs, bad))
  BY <1>1 DEF LoadFrom
<1>5. DOMAIN h.users \subseteq UserIds
  BY DEF Sound, Apart, WellFormed
<1>6. DOMAIN whose = {u \in DOMAIN h.users : Ptr(h, UserIndex, u \div EntriesPerPage) # Null}
  BY UsersReadable DEF ReadableUsers
<1>7. DOMAIN theirs = ReadableUsers(h, bad)
  BY UsersReadable
<1>8. Seen(part.objects) = Seen(Readable(h, bad))
  BY <1>2, <1>4, SeenReadable
<1>. HIDE DEF whose, theirs, whole, part
<1>9. \A u : Ptr(whole, UserIndex, u \div EntriesPerPage) = Ptr(h, UserIndex, u \div EntriesPerPage)
  BY <1>3 DEF Ptr
<1>10. gone = {u \in DOMAIN whose : Ptr(h, UserIndex, u \div EntriesPerPage) \in bad}
  BY <1>3, <1>9
<1>11. DOMAIN part.users = IF UserIndex \in bad THEN {} ELSE DOMAIN whole.users \ gone
  BY <1>3, <1>4, <1>6, <1>7, <1>10 DEF ReadableUsers
<1>12. gone # {} /\ UserIndex \notin bad => DamageReport(h.mem, bad).user_pages > 0
  <2>. SUFFICES ASSUME gone # {}, UserIndex \notin bad
                PROVE  DamageReport(h.mem, bad).user_pages > 0
    OBVIOUS
  <2>. DEFINE lost == Below(h.mem, UserIndex, {}) \intersect bad
  <2>1. PICK u \in DOMAIN h.users : /\ Ptr(h, UserIndex, u \div EntriesPerPage) # Null
                                    /\ Ptr(h, UserIndex, u \div EntriesPerPage) \in bad
    BY <1>6, <1>10
  <2>2. u \div EntriesPerPage \in Indexes
    BY <1>5, UserPart
  <2>3. Ptr(h, UserIndex, u \div EntriesPerPage) \in lost
    BY <2>1, <2>2 DEF Below, Ptr
  <2>4. IsFiniteSet(lost)
    BY FS_Intersection
  <2>5. DamageReport(h.mem, bad).user_pages = Cardinality(lost)
    BY DEF DamageReport
  <2>. HIDE DEF lost
  <2>. QED  BY <2>3, <2>4, <2>5, FS_EmptySet, FS_CardinalityType
<1>13. Seen(whole.objects) = Seen(Readable(h, {}))
  <2>. DEFINE none == {}
  <2>1. IndexBlocks(h.mem, h.root, none) = IndexBlocks(h.mem, h.root, {})
    OBVIOUS
  <2>2. Seen(Numbered(EntriesOn(h.mem, h.root, whose, none))) = Seen(Readable(h, none))
    <3>. HIDE DEF none
    <3>. QED  BY <2>1, SeenReadable
  <2>. QED  BY <1>3, <2>2
<1>14. Readable(h, {}) = h.objects
  BY DEF Readable
<1>15. Seen({o \in whole.objects : DirPage(whole, o.slot) \notin bad}) = Seen(Readable(h, bad))
  <2>. DEFINE v(o) == <<o.slot, o.user, o.name, o.page>>
  <2>1. \A T : Seen(T) = {v(o) : o \in T}
    BY DEF Seen
  <2>2. \A s : DirPage(whole, s) = DirPage(h, s)
    BY <1>3 DEF DirPage, Ptr
  <2>3. \A o, q : v(o) = v(q) => o.slot = q.slot
    OBVIOUS
  <2>. HIDE DEF v
  <2>4. \A x : (\E o \in whole.objects : x = v(o)) <=> \E o \in h.objects : x = v(o)
    <3>1. {v(o) : o \in whole.objects} = {v(o) : o \in h.objects}
      BY <1>13, <1>14, <2>1
    <3>. QED  BY <3>1
  <2>5. ASSUME NEW x
        PROVE  (\E o \in whole.objects : DirPage(whole, o.slot) \notin bad /\ x = v(o))
                 <=> \E o \in h.objects : DirPage(h, o.slot) \notin bad /\ x = v(o)
    <3>1. ASSUME NEW o \in whole.objects, DirPage(whole, o.slot) \notin bad, x = v(o)
          PROVE  \E q \in h.objects : DirPage(h, q.slot) \notin bad /\ x = v(q)
      <4>1. PICK q \in h.objects : x = v(q)
        BY <2>4, <3>1
      <4>. QED  BY <2>2, <2>3, <3>1, <4>1
    <3>2. ASSUME NEW o \in h.objects, DirPage(h, o.slot) \notin bad, x = v(o)
          PROVE  \E q \in whole.objects : DirPage(whole, q.slot) \notin bad /\ x = v(q)
      <4>1. PICK q \in whole.objects : x = v(q)
        BY <2>4, <3>2
      <4>. QED  BY <2>2, <2>3, <3>2, <4>1
    <3>. QED  BY <3>1, <3>2
  <2>. DEFINE L == {o \in whole.objects : DirPage(whole, o.slot) \notin bad}
  <2>6. \A x : x \in {v(o) : o \in L} <=> x \in {v(o) : o \in Readable(h, bad)}
    BY <2>5 DEF Readable
  <2>7. {v(o) : o \in L} = {v(o) : o \in Readable(h, bad)}
    BY <2>6
  <2>. HIDE DEF L
  <2>8. Seen(L) = Seen(Readable(h, bad))
    BY <2>1, <2>7
  <2>. QED  BY <2>8 DEF L
<1>16. Seen(part.objects) # Seen(whole.objects) => DamageReport(h.mem, bad).object_pages > 0
  <2>. SUFFICES ASSUME Seen(part.objects) # Seen(whole.objects)
                PROVE  DamageReport(h.mem, bad).object_pages > 0
    OBVIOUS
  <2>1. Readable(h, bad) # h.objects
    BY <1>8, <1>13, <1>14
  <2>2. PICK o \in h.objects : DirPage(h, o.slot) \in bad
    BY <2>1 DEF Readable
  <2>. QED  BY <1>2, <2>2, EntryPageCounted
<1>. QED  BY <1>8, <1>11, <1>12, <1>15, <1>16 DEF CostsItself, whole, part

\* "A lost page must cost only what was written on that page" (CHANGELOG 0.0.7): whatever was
\* done to the volume, with any two of the directory's pages unreadable a mount finds every other
\* entry in its place and every other user, and counts what it lost; a group that was skipped,
\* and the pages of the groups, excepted (load_structures).
THEOREM LostPagesCostThemselves == Spec => []LostPageCostsItself
<1>1. SoundUntilHurt => LostPageCostsItself
  <2>. SUFFICES ASSUME SoundUntilHurt, ~hurt, ~SkippedGroup(fs)
                PROVE  \A b, c \in LeafPages : CostsItself(fs, {b, c})
    BY DEF LostPageCostsItself, CostsItself
  <2>. TAKE b, c \in LeafPages
  <2>1. Sound(fs)
    BY DEF SoundUntilHurt
  <2>2. {b, c} \subseteq {UserIndex, BitPage} \union Below(fs.mem, UserIndex, {})
          \union UNION {Below(fs.mem, a[2], {}) : a \in IndexBlocks(fs.mem, fs.root, {})}
    BY DEF LeafPages
  <2>3. IsFiniteSet({b, c})
    <3>1. IsFiniteSet({b})
      BY FS_Singleton
    <3>2. IsFiniteSet({b} \union {c})
      BY <3>1, FS_AddElement
    <3>. QED  BY <3>2, {b, c} = {b} \union {c}
  <2>. QED  BY <2>1, <2>2, <2>3, LostPagesSpare
<1>. QED  BY <1>1, VolumeSound, PTL
===============================================================================
