------------------------------- MODULE Diagnosis -------------------------------
(***************************************************************************)
(* Volume seen from outside: the promise of Directory, the check of Fsck   *)
(* over every state, the bytes of the bit file, and a mount of pages some  *)
(* of which cannot be read.                                                *)
(***************************************************************************)
EXTENDS Volume, Fsck, BitFile

\* The files of an open volume, as Directory knows them.
FilesNow ==
  {[id |-> o.slot, user |-> o.user, name |-> o.name, text |-> ReadFile(fs.mem, Stored(o)),
    pages |-> DataPages(fs.mem, o)] : o \in fs.objects}

Promise == INSTANCE Directory WITH
  files   <- FilesNow,
  users   <- Users,
  charged <- [u \in Users |-> fs.users[u].used],
  broken  <- hurt

\* Every call on the volume is one step of Directory, however many pages it writes, and
\* changes nothing when it is refused, whatever it had allocated by then; closing and opening
\* the volume changes nothing.  Asked where every path names its user, until the volume is hurt.
ImplementsDirectory == Promise!DirSpec

-----------------------------------------------------------------------------
\* A mount finds the bits that were stored, and SINTRAN reads the same ones, to the last page
\* of a device that ends in the middle of a word (the 616 pages of an ND floppy).
BitFileIsSintrans ==
  Loaded(BitPages(fs.used)) = fs.used /\ SintranReads(BitPages(fs.used)) = fs.used

-----------------------------------------------------------------------------

\* fsck reports an error exactly when a page referred to is free or is referred to from two
\* places, and warns of exactly the pages nothing refers to: no phantom cross-link or orphan
\* (the bugs A, B and C of tests/test_fsck.c) and nothing missed, also on a volume that a
\* call has left damaged.  When it finds no error, ndfs_verify_integrity finds none.
FsckAgrees ==
  LET report == Report(fs) IN
  /\ Clean(report) <=> Referenced(fs) \subseteq fs.used /\ LinkedOnce(fs)
  /\ report.orphaned = {p \in Orphans(fs) : p >= FirstAlloc}
  /\ Clean(report) => Verified(fs)

-----------------------------------------------------------------------------
\* The pages that hold entries and users, and the index page of the users.  The group index
\* pages are left out: losing one moves the entries behind it.
LeafPages == {UserIndex, BitPage} \union Below(fs.mem, UserIndex, {})
               \union UNION {Below(fs.mem, b[2], {}) : b \in IndexBlocks(fs.mem, fs.root, {})}

Seen(objects) == {<<o.slot, o.user, o.name, o.page>> : o \in objects}

\* "A lost page must cost only what was written on that page" (CHANGELOG 0.0.7): with any two
\* of the directory's pages unreadable a mount finds every other entry, in the place it has on
\* the media, and every other user; what is lost is counted, users by a lost index excepted.
LostPageCostsItself ==
  ~hurt /\ ~SkippedGroup(fs) => \A b, c \in LeafPages :
    LET bad    == {b, c}
        whole  == Load(fs.mem)
        part   == LoadFrom(fs.mem, bad, {})
        report == DamageReport(fs.mem, bad)
        gone   == {u \in DOMAIN whole.users : Ptr(whole, UserIndex, u \div EntriesPerPage) \in bad}
    IN /\ Seen(part.objects) = Seen({o \in whole.objects : DirPage(whole, o.slot) \notin bad})
       /\ DOMAIN part.users = IF UserIndex \in bad THEN {} ELSE DOMAIN whole.users \ gone
       /\ Seen(part.objects) # Seen(whole.objects) => report.object_pages > 0
       /\ gone # {} /\ UserIndex \notin bad => report.user_pages > 0
==============================================================================
