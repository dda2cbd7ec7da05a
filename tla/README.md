# A TLA+ development of the NDFS library

NDFS is the file system of the Norsk Data SINTRAN III disks. The repository holds three
implementations of it: a C library with a command line tool (`ndfs-c`), a Python port and a
TypeScript port. This directory models the C library, the only one that works on a disk
page by page through a cache, the start-up command editor built on it, and the sessions of the
tool. It has specifications, the TLC configurations that check them on small
instances, and proofs, for every size, that the cache implements a page memory, that a volume implements an abstract
directory of files, and of what the tool says and stores.

All line numbers are in `src/ndfs-c/src/filesystem.c` unless a file is named.

## 1. Inventory

| component | state it keeps | operations | what is hard | what makes it correct |
|---|---|---|---|---|
| Block-IO backend (`backend_stdio.c`, buffer backend 1976-2003) | the pages of the image | `read_block`, `write_block` | either can fail, untouched or half way | nothing is assumed |
| Page cache (58-272, 2321-2340) | 8 slots: page, dirty, pins, use stamp, buffer | `read_page`, `write_page_ptr`, pin, unpin, commit, close | raw pointers into slots outlive the call; eviction; failing transfers; crash | a page in at most one slot; pinned and recently used pointers stay valid; reads return the last write; a successful commit leaves nothing pending |
| Allocation bitmap (`bit_file.c`) | one bit per page, the declared capacity; the pages the bits are stored on | find, find a run, mark, free, count, load, store | capacity smaller or larger than the device; top-down scan; byte order of words and a device that ends inside one | only free pages inside the window are handed out; SINTRAN reads the same bits |
| Object file (470-735, 970-1294, 1908-1970) | loaded entries, root pointer; index and directory pages on disk | load, find a slot, make a directory page, rewrite a page | each user has a row in every group, overflow blocks skip groups, conversion to a sub-index in the middle of a creation | no shared slot, entries where their owner's row is, a reload finds the same entries |
| File trees (739-967, 1336-1540) | index, sub-index and data pages | build, free, count, read | full disk half way, holes, the boundary between one and two levels | no page in two places, files read back |
| Volume operations (1542-1803, 2342-3168, 3239-3309) | users with their quota and block counts | create, update, patch, contiguous creation, delete, rename, users, quota, object blocks | partial failure of a call that has already allocated; memory and pages drifting apart; a crash inside the commit | every call is one step of an abstract directory or none; a call that succeeds loses no page and is on the disk |
| Mount and damage report (519-735, 2010-2060) | counters of lost pages | open | unreadable pages | one lost page costs only what it named |
| fsck and verify (3442-3845) | reference counts | walk and report | it is a second description of the format | reports exactly the states where the invariants fail |
| Users: friends, passwords, access words (2840-3035, 3182; `user_friend.c`, `user_entry.c`) | words of a user or object entry | add, remove, set, clear | a reference is a name or an index | a friend is in one slot |
| ndtool (`tools/ndtool/`) | the image in memory, the modified flag, the path to save to, `-n` | a command line; a shell with save, save-as and quit | which commands store and which mark; writes on the host that fail; a pointer into a reused buffer | an unmarked image is stored; what is said is true; `-n` writes nothing |
| Start-up commands (`sintran.c`) | text area and length cell in segment images | read, write, repair, diagnose | nothing marks the real buffer; interruption; a patch over two pages | what is stored is read; neither code nor remains of a buffer are taken for one, and code is not written over |
| Wildcards (`wildmatch.c`) | two places to go on from | match | going back | ends, and agrees with its definition |
| Image creator (`image_creator.c`) | none | create an image | geometry | the first state of a volume |
| `boot_loader.c`, `parity.c`, `xat.c`, `ndfs_name.c`, `nd_time.c` | none | parse, print, convert | byte formats | not modelled, section 8 |
| Python port, TypeScript port | - | - | - | not modelled, section 8 |

Calls go down: ndtool and the start-up editor call the volume operations, these call the bitmap, the object
file and the tree code, and all of them reach the disk only through the page cache, which calls the backend.
ndtool runs this on an image it has read whole into memory, and writes that image to the host itself.
There is one thread. Nothing runs concurrently; what interleaves is the library with the failures
of the backend, with crashes, and with itself: a pointer obtained by one step is used after others
have run, and the memory image of the directory is used long after the pages were written.

## 2. Modules

Page layer, in order of dependency:

- `PageStore`: what the page layer promises. A memory of pages, a disk that lags behind it by the
  pending pages, commit and loss.
- `PageCache`: `cache_get` and everything around it. `cache` is the slot array (page, dirty, pin,
  buf), `lru` the order of the stamps, `held` the pinned pointers of the running operation, one
  per pin level, `out` the result of the call. `GetHit`, `GetMiss`, `GetMissFlushFails`,
  `GetMissReadFails` and `GetOutOfRange` are the paths through `cache_get`; `StorePinned` is a
  block pointer stored through a pinned page without a further `write_page_ptr`.
- `LoosePointers`: follows one pointer kept without a pin next to the cache.
- `PageCacheProofs`: the proofs about both, and that the cache implements `PageStore`.

Volume, in order of dependency:

- `BitMap`: the bitmap as the set of used pages. `Top` is `bf_top_index`; `NthFree` gives the page the
  k-th of a series of find/mark pairs returns, so a whole tree is allocated by one operator.
- `BitFile`: that set as bytes, words and pages, as it is stored and loaded, and as SINTRAN reads it.
- `ObjectBlocks`: slots, homes, the search for a slot, the number of blocks, both file number rules.
- `ObjectFile`: the pages of the directory. A page is a table of pointers and a set of items. The
  record `h` that goes through the operators is `struct ndfs_filesystem`: `used`, `users`, `objects`,
  `root`, `mem`. An operator that allocates returns the state it leaves *and* the page, `Null` when the disk
  is full: what was done before is kept, as in the code. `Load` is `load_structures`, `LoadFrom` the same with
  unreadable pages, `DamageReport` the counters.
- `FileTree`: the pages of a file by role, `Build` (`allocate_and_write_data`), `Refs`
  (`free_file_blocks` and the readers).
- `Volume`: one action per public mutation and one for each way it is refused; `Reopen` is close and
  open. `fs` is the volume, `out` the result of the last call, `want` a history variable with what each file
  was last given, `hurt` marks states after a call that is known to break the volume (section 5).
- `Fsck`: the walk of `ndfs_fsck`, written from its own code, and the five parts of its report.
- `Directory`: what a volume promises: files that belong to users, each call done whole or not at
  all, charges that follow from the files. Of a file's pages it knows which they are, so that a charge is their number and
  no two files share one; not how they hang together.
- `Diagnosis`: composes `Volume`, `Fsck` and `BitFile`, and instantiates `Directory` with the files
  read back from the pages: `ImplementsDirectory` is the refinement.
- `Durable`: `Volume` over a disk that lags behind. A call dirties pages, any subset of them is stored early, then the
  commit stores all or fails; the program can stop at any time and a mount finds the disk.
- `DirectoryProofs`: what follows from `Directory`.
- `VolumePages`, `VolumeProofs`, `VolumeFiles`, `DurableProofs`: the proofs about the volume, each on top of the one before. What the
  allocator returns, what the bit file holds and what the operators of `ObjectFile` and `FileTree` do to sound pages; that every
  call keeps a volume sound; what the calls do to contents, charges and lost pages, and that they implement `Directory`; what the disk
  holds between two calls and inside one; what fsck finds.

Beside them:

- `Accounts`: an image as users and files of one page; the calls on user records, friends, access words and files, each
  an operator that returns the image and whether it succeeded. The page structure below is `Volume`'s subject.
- `Tool`: sessions of ndtool over `Accounts`. `im` is the image in memory, `host` the files on the host, `path`
  what `ctx->image_path` leads to, `modified` the flag, `said` how the last command ended. `failed` and `short` are history
  variables: that a host file was not written whole, and that the last one was cut short without the tool noticing.
- `ToolProofs`: the proofs about `-n`, the modified mark and the exit status.
- `ImageLayout`: where `image_creator.c` puts the pages of a new image, in real sizes, with its proof. `Volume` starts from such an image.
- `StartCommands`: `sintran.c`: encoding, parsing, the search for the buffer, write, repair, interruption.
- `WildMatch`: `ndfs_wildmatch`, one step of its loops per action.

`MCPageCache`, `MCLoosePointers`, `MCVolume`, `MCDurable`, `MCTool`, `MCStartCommands` and `MCWildMatch` instantiate
them for TLC.

## 3. Abstractions and bounds

- Page layer: a content is one value per page; the stamp clock is the order it induces. `cache` has three pages for two
  slots and one pin level, so that every page can be evicted and a pinned page can be in the way; `cache_loose` has four
  pages for three slots and adds reads that fail half way. More pin levels are covered by the proofs. There is
  no bound but the constants.
- Sizes are scaled: `PtrsPerPage` for 512, `EntriesPerPage` for 32, `PagesPerBlock` for 8, `MaxUsers`, `MaxBlocks`, and
  in the bit file `ByteBits` for 8 and `PageBytes` for 2048.
  They only enter through divisions and comparisons. With two or three pointers per page the sub-index, its
  second group, the over-large file, the second object block and the second directory group are all reached. In `volume_files` a
  byte has 3 bits and 15 pages end inside a word of 6: the case of an ND floppy with its 616 pages and 16-bit words.
- Lengths are in pages and an empty content is one page of zeros, as the code writes it. The last page of a file
  is whole. A content is a value; page i of it is the item `<<v, i>>`.
- The order of the object array is not kept in `Volume`: where the code returns the first match, any match may be
  returned. `Accounts` keeps it, because `chmod` depends on it.
- `mem` is what `read_page` returns: in `Volume` no transfer fails. That is `PageStore` with `out` never `NoPage`.
- `Durable` puts the disk back: `MaxEarly` = 1 page has been stored when a call ends without storing all, any subset when it is
  interrupted. It runs with one user, a file that no call is about, two more names of two pages with or without a hole, and patches of both pages; the order of the stores is left open, so every order of
  the slots is covered. After a commit that failed nothing is claimed of the disk.
- One call is excepted from `CrashInsideSparesOthers`: the creation that converts the object file to a sub-index. Page 0,
  with the new root, may be stored before the sub-index page it names, and then every file is lost; and when that creation is
  refused after the conversion, the same can happen later (`state` = `"midway"`). A patch that meets a hole returns without
  a commit and leaves the blocks before the hole in memory, changed: a crash after it is not followed either. TLC finds both at once when the
  exceptions are taken out. No source claims otherwise. Two more are what any mount loses, crash or not (section 5): the files of a user whose page
  could not be made, and entries behind a gap in the groups, which part of a call may have on the disk before the group below. They do not occur at the bounds
  of `volume_crash`; the proof needs them.
- `LostPageCostsItself` leaves out the index pages of the groups (losing one moves the entries behind it, section 5) and excepts the
  user index from the counting (losing it costs every user and no counter shows it, 533). The bits of a bit-file
  page that cannot be read are any set (720: part of the buffer is not initialised), and nothing is claimed of allocations made from them.
- `LiveState` (a VIEW of `MCVolume`; `LiveDurable` of `MCDurable` keeps all pages, since garbage on the disk matters after a crash) drops the result of the last call, page 0's free count and pages nothing refers to, which no later
  call reads. The action properties are checked on every transition.
- `TotalPages` is 15 to 18 so that every run fills the volume; `Names`, `Contents`, `Lengths`, `HoleSets`,
  `Spans`, `Callers`, `Managed` and `Quotas` are the inputs.
- Blocks are given and taken one at a time (`n` at once is `n` such calls, except that a refused call stops at once).
- `Tool`: sessions of at most `MaxCommands` = 3 commands, enough for a change, something that stores or clears the mark, and a
  save; two users with a file of one name each, three user indexes, two friend slots, a disk with two free pages. A host write may fail at
  the open, half way, or at the close, which the tool does not notice (`Faults`). A stored page is whole: how a file's pages change is `Volume`'s subject.
- `StartCommands`: a text area of `Cap` = 8 bytes for 260, `MaxText` = 6 for 254, two versions, three usable
  segments of which two overlap in what they may hold, one buffer split over two pages. The parity bit is left out. `Areas`, a VIEW, drops the last call, which no later one reads. The areas start with one of three
  lists or with one of six texts that are no buffer (`Code`): those of the specification's `B,`, one with a word that a repair looks for, an empty one, one
  cut by a NUL, and two that pass for a buffer (section 5).
- `WildMatch`: every pattern and every name of up to 4 characters over two letters, one of them in both cases. A `*` or `?` in the
  name itself is left out: there the code's direct comparison comes first and the two characters mean themselves.

## 4. Runs that pass

| run | what it shows |
|---|---|
| `cache` | the cache implements `PageStore` under failing stores and reads, pins, close and crash; held pointers stay valid, counts are right, there is a victim; a failed read changes no other page when it leaves the buffer alone |
| `cache_loose` | unpinned pointers survive a stated number of accesses, failures included |
| `volume_files` | one user, two names, lengths 0, 3 and 5 of at most 4 pages, holes, contiguous files, patches, a full volume |
| `volume_users` | two users who come and go, quotas, object blocks, the conversion to a sub-index, and mounts with any two directory pages unreadable |
| `volume_homes` | an overflow block that has to skip another user's home, starting from a volume with four users, a used home in the second group and a file that no call is about; paths without user name |
| `volume_crash` | any subset of a call's pages stored when the program stops, commits that fail, refused calls and stopped patches that leave dirty pages |
| `tool` | every command of a session or a command line, with `-n` and host writes that fail, also unnoticed |
| `start_commands` | lists written, interrupted, torn and repaired while code, remains and damaged texts lie in the candidate areas |
| `wildmatch` | the matching loop ends and gives the defined answer |

What the properties say:

- `ImplementsPageStore`, `ImplementsDirectory`: refinements. The second says that every call on a volume, however many pages it writes and
  wherever it fails, creates, changes or deletes one file as seen by a reader of the pages, or none, with the charges
  following. `volume_crash` adds that the disk alone gives the same between calls.
- `ReferencedIsUsed` and `NoCrossLinks` are what fsck looks for in phases 2 and 3; `FsckAgrees` compares fsck's own walk
  with them in every state, also after the call that breaks a volume. `QuotaIsRealPages` is the rule of the comment at
  907-924; `ReadsBack` follows every file through every other operation; `ReloadSame` compares memory with
  what the pages alone would give; `EntriesPlaced` and `BlocksCounted` are about the rows of the object file (the second counts the
  blocks above a user's home: for the home itself it does not hold, section 5); `InsideCapacity`
  about the ceiling; `SuccessLeaksNothing` about single calls; `BitFileIsSintrans` about the byte order.
- `CleanIsOnDisk`, `CrashBetweenCallsLosesNothing`, `CrashInsideSparesOthers`: what is on the disk, at the layer of slots, of calls, and
  inside a call.
- `UnmarkedIsStored`, `ExitStatusTellsTruth`, `DryRunWritesNothing`, `FriendsStayDistinct`, `QuotaStaysCovered`: the tool.
  `UnmarkedIsStored` is claimed until a save-as (section 5) and while no host write has failed: `save`, `quit` and the commands that save
  look at the modified flag and not at the result. `ExitStatusTellsTruth` excepts one case, a write that fails at `fclose` only: success is reported and the
  file is cut short (section 5).
- `StoredIsRead`, `NothingInvented`, `CodeSpared`: the start-up commands. `StoredIsRead` leaves out the empty list (420: its cell is 0, which no reader
  believes) and repairs made while an area is believed, `NothingInvented` areas torn between their pages. Texts that are not laid out as the encoder does it
  (`LaidOut`) may pass for a buffer, be read and be written over: `NothingInvented` and `CodeSpared` except them (section 5). `CodeSpared` is about the concern
  of the specification's sections 3 and 5, that a write or a repair patches SINTRAN code; the code in the run holds one of the words of a repair at most.

Every property is broken by a mutant that is a plausible bug (definitions commented "Bug:").

Fairness appears once: `WildMatch` has `WF_vars(Next)`, because a function that has been called runs until it returns, and
`Returns` says that it does. Nothing else in this code waits for anything: the library is called, runs to the end and
returns, its actions are whole calls, and nothing obliges a user to make the next one. Deadlock is checked in the page layer, the volume and
the start-up commands; a tool session and a match do end.

## 5. Where code and comments disagree

Three are runs whose property TLC refutes.

| run | the code | the comment |
|---|---|---|
| `rejected_update` | an update frees before it allocates and does not restore (1766-1775) | 1759: a rejected write leaves the file untouched |
| `uncommitted` | giving or taking object blocks returns without `commit_writes` (3265) | 2323: called at the tail of every public mutation |
| `shell_saveas` | `save F` keeps a pointer into the line buffer; the next save goes elsewhere, and "Image saved" is printed (`cmd_shell.c:646`) | `cmd_shell.c:57`: save changes to disk |

More follow from the models in the same way and have no run of their own:

- a short read overwrites a victim that keeps its old page id (219), against the CHANGELOG's "A lost page must cost only what was
  written on that page": `CleanSlotsStored` is proved only for reads that fail without touching the buffer;
- a null group pointer is not counted at load (626), against 582-584: every entry keeps its object index. `SkippedGroup` in `ReloadLoses`;
- a failed creation leaves linked pages unmarked in the stored bit file (1578), against 2792-2795. `BitsBehind` in `ReloadLoses`;
- a user added when no page is left for his user page is reported as added and gone after the next mount (2796 drops the result, against
  1253: "vanishes on the next mount"). `PagelessUser` in `ReloadLoses`;
- the recorded block count outlives its entries, so a user is told that his blocks are full when one is empty (1067, against `types.h:48`);
- a failed creation leaves page 0's free count as it was (1578, against 1819: "kept in sync with the live bitmap on every allocation/free");
- the number of a file created in an overflow block that skipped a group comes from the physical group (1602, against 456), and users of
  index 64 and above get none at creation;
- a user created later can find a foreign overflow block in his home (2768, against 1065: "never places a block in another user's home");
- blocks in use are counted up to the maximum (1122) and when a block is opened. Where a user comes while his home holds another's entries, his first block is a
  higher one and counts as 1; his maximum may be lowered to 1; and when the other's entries are gone his next file goes to his home, so that he has two
  blocks, one recorded and one permitted (against `include/ndfs/filesystem.h:348`, "blocks in use, 1..max", and 405: the maximum never falls below them).
  TLC finds this six calls after the other's block was filled and the user created, when `BlocksCounted` is made to count the home;
- a path without user name can update another user's file and charges the first user (2410, against 913). The runs for quota and for
  `ImplementsDirectory` use paths with a user name;
- an area is believed when the length of what was parsed is the one in its cell (`sintran.c:303`), against "A real buffer round-trips exactly; a
  coincidental parse does not" (`docs/SINTRAN-INITIAL-COMMANDS-SPEC.md:91`). A command is copied up to its quote and then taken for a C string, so a NUL in it
  ends it: the two bytes `D`, NUL with 2 in the cell are read as the command `D`. Nor must the pads be there: `BB'D''` with 6 in the cell is read as `BB` and `D`.
  TLC finds both in the first state when `LaidOut` is taken out of `NothingInvented`, and code written over one call later when it is taken out of `CodeSpared`;
- the shell stores at once what its user commands and `chmod` change, together with all changes before them, against ndtool's `README.md:633`:
  nothing is written until save.

Places where nothing in the sources says what should happen, and the models follow the code: the stamp clock wraps after 2^32 accesses (225; a rank in
the model); `ndfs_close` drops the result of the last flush (2150); the bit file is sized by the device, so that on a device of
some 16384 pages more than declared a rewrite would reach the page behind it (682; one page in `Volume`; proved harmless for the images the creator makes); a
refused call keeps the raised reservation (2464); a rename may produce a second file of one name (2671); reading steps over a null group
without counting it (790; never written by this library); the index of a removed user stays in friend slots (2803); `chmod` checks one
user's file and changes the first of that name (`cmd_chmod.c:191`), and clears the flag before saving (195);
an edit that ends in the second it began is dropped (`cmd_shell.c:299`); Ctrl-D leaves the shell without asking; the result of `fclose` is dropped
(`ndtool.c:523`), so that a host file whose last buffer could not be written is short and success is reported: `short` in `Tool`.

Once an update has failed half way, or a reload has lost something, nothing good can be said of the volume: the passing runs set `hurt`
there and stop. `hurt` is set by exactly these: `UpdateNoSpace`, `Reopen` under `ReloadLoses`, and in `Durable` a crash
where a commit had failed or a conversion was left midway. `FsckAgrees` and `BitFileIsSintrans` have no such exemption.

## 6. Proofs

The theorems hold for every value of the constants within the ASSUMEs of the modules: any number of pages, pointers per page, users,
groups and pins, any sets of names, contents, holes and lengths. What the ASSUMEs ask is what the code has: sizes are positive, an index
block has no more pages than an index has pointers, the user file needs one index page (`MaxUsers <= PtrsPerPage * EntriesPerPage`; 256
users against 512 pages of 32), the device holds the created image (`BitPage + 4 < TotalPages`), pins are fewer than slots, and the marker values
(`NoUser`, `Zeros`, `NoPage`, `Torn`, `Ok`, `IoError`) are no ordinary values.

### The page layer

`PageCacheProofs` proves, for every set of faults and every behaviour of `Spec`:

- `TypeCorrect` (with the distinctness of the use ranks), `Aliasing`, `PinsHold`, `PinCountsExact`, `VictimExists`;
- `CleanSlotsStored`, `FailedReadsLocal` and `DiskLagsOnPending`, when `"torn_read" \notin Faults`. The assumption is needed: a torn read
  leaves torn content in a clean slot (section 5).

The invariants are not inductive one by one. That a pinned pointer stays valid needs that its page is in only
one slot, that pin counts are the number of pointers into the slot, and that a pointer taken for writing is in a dirty slot; that a
victim exists needs the pin counts and `Cardinality(PinLevels) < NumSlots`. `Inv` is their conjunction, proved
action by action in `SpecInv`; `Coherent` adds that clean slots equal the disk.

`UnpinnedPointersLive` and `UnpinnedBuffersIntact` are about `LoosePointers`. `LooseInv` adds to `Inv` that every slot used after the one the pointer
leads into holds a page of `since`, the pages asked for since. The victim is the free slot or the least recently used unpinned one; if that were the
pointer's, then the slots used later, which are all the unpinned others, would hold as many pages as there are slots
no pin can take, less one, all of them in `since`, and `since` would have reached `Reach` before (`PinnedFew` and the counting lemmas after it).

`CacheImplementsStore`: `Spec` implies `Store!Spec` with `mem` the slot's buffer when the
page is resident and the disk otherwise, and `pending` the dirty pages. Each action maps to a step of the
store or a stutter; a failed read maps to `Read`, a failed eviction to a `Settles` that may tear a pending page.

### The volume

`VolumePages` begins with the lemmas about the allocator, among them that find/mark pairs return different free pages of the window, and a run is free
to its last page; and about the bit file: distinct pages have distinct bits, words and bytes are read back as they were written, by the
library (`LoadedIsWritten`) and by SINTRAN's formula (`SintranReadsWritten`).

`VolumeSound` of `VolumeProofs` is the inductive invariant of `Volume`, `SoundUntilHurt`, in parts:

- `WellFormed`: the shape of the structures;
- `DirectoryApart`, `FilesApart`: each page of the directory and of every file has one place that refers to it, is marked, and, for files,
  is in the window of the allocator; `SlotsApart`: entries are in slots of their own in their owner's row;
- `MirroredBut(h, {}, {})`: each entry page holds the entries of its slots and each user page one record for each of its users, with what they are charged;
  page 0 names the root.

None of the properties is inductive without the rest. That an allocation does not take a page of a file needs that pages
of files are marked; that freeing one file leaves the others marked needs that they share nothing, and share nothing with the directory; that
a new directory page does not destroy a file's page needs both; that a surgical write of one page keeps the media in step needs that no
two positions of the object file are on one page, and that slots and positions correspond. Inside a call the mirror is broken and
mended page by page: `MirroredBut` names the entry positions and user pages that are still to be written. `VolumePages` states what each
operator (`Take`, `EnsureDir`, `Wrapped`, `Build`, `Freed`, `WriteObjectPage`, `WriteUserPage`, `WriteBitFile`, ...) does to such pages; `VolumeProofs` has one
lemma for each action. The invariant holds until `hurt`, for the reasons given at the end of section 5, and
`fs.used \subseteq Pages` holds after it too, which `BitFileIsSintrans` needs.

From it follow `UsedWhileReferenced`, `NeverCrossLinked`, `FilesInsideCapacity`, `EntriesInPlace`, `BitFileShared` and `ReloadsTheSame`: `Load` walks
the groups of the object file in order and stops counting at a gap, so the last one needs that where `ReloadLoses` is false there is no gap
below a used group, that the bits are all stored, and that every user has his page.

`LostPagesCostThemselves` follows from it too, for any finite set of lost pages (`CostsItself`): no page of entries or users is one that the walk finds others
through, so each group is visited as it is when all can be read (`GroupsReadable`), and each entry page that can be read holds the entries of its position
and no others (`EntriesReadable`; `ReloadsTheSame` is its instance with nothing lost).

`VolumeFiles` proves what calls do to files:

- `NothingLeaksOnSuccess`, an action property, from `VolumeSound` and one lemma per action on what is marked and no longer referred to;
- `FilesReadBack`, with `ToldRight`: what the pages of each file tell is what `want` says for the whole length of its tree, also the blocks that lie
  behind its recorded size. `ReadsBack` alone is not inductive: a patch may go to such a block;
- `ChargesAreRealPages`, with `ChargedRight`: a user's charge is the number of data pages of his files. Where the code counts before it frees
  (1746) and after it has built, the counts are those of disjoint sets of pages (`RunCount` and `CountedPages` for contiguous files and trees);
- `VolumeIsDirectory`: `Spec` implies `ImplementsDirectory`. A file of `Directory` is what can be read of an entry through the pages, with
  the data pages it is on. The initial volume has none. A step of `Volume` is `hurt'`, changes nothing that can be seen (`QuietAllowed`), or is one of
  a creation, a change of text or of name, a deletion, a user who comes or goes, a stopped patch, or a reload, and each of these has a lemma that gives
  the step of `Directory` it is (`FilesCreated`, `FilesChanged`, `FilesDeleted`, `FilesSame`, ..., put together in `NextPromised`). That one file changes and
  no other does needs all of `SoundUntilHurt`; that the charges follow needs `ChargedRight`; `Flagged` says that `hurt` is a flag.

`ChargesAreRealPages` and `VolumeIsDirectory` are proved for `NoUser \notin Callers`, paths that name their user. It is the one hypothesis that the code does not enforce: a path without user
name may charge one user for another's file (section 5), and with such callers the two properties are false.

`BlocksStayCounted`: what is recorded of a user's object blocks covers the groups his entries are in above his home (`Covers`), in memory and in every record on the
user pages (`Covered`). Memory alone would not do: a refused call counts a block in memory and leaves the page, and the reload after it brings the
older record back. A block is opened only below the maximum and counted with the entry that is put there (`CountedCovers`, `OpenedCovers`).

`DurableProofs` proves `CrashesLoseNothing` over `Durable`. The disk is behind memory in two ways when nothing has failed: the object block calls return without a
commit, and a refused call leaves what it allocated. `DurableSound` says how far: `Follows`, the disk has each page that memory refers to, as memory has
it, but for the user pages, which may be older in what a mount does not show (block counts) but name the same users with the same charges. This would not
be kept by a refused call that has linked new directory pages and then had some of them stored; but then the bit file is behind, since those pages are not marked in it
(`QuietTwice`, `EnsureDirQuiet`), and when a later call brings the bit file up to date, it commits. For this `BitsInUse`, the
stored bits are of pages in use and behind only by pages that an allocation returned, is part of the invariant: a page that was free cannot seem stored. A mount of a disk that follows is then `ReloadsTheSame` for
the volume with the disk's pages (`DiskSound`, `DiskReloads`).

`CrashesInsideSpareOthers` is about the other crash, with any part of a call's pages on the disk: no file that the call leaves as it is can be lost. `DurableSound` does
not carry it, since it says nothing of the disk while the bit file is behind. A second invariant does, `DiskBehind`: the pages of the disk lead to every
entry and every user that memory has (`RootFound`, `EntryFound`, `UserFound`), each through the page where memory has it, and agree with memory on the pages of the files; what else is
on a directory page is left open. Both memories, the disk and the one the call leaves, lead to what they have in common by the same pages, because no call takes a page away from the directory
(`LinksKept`, with `FileCallLinks` and `UserCallLinks`), so whatever mixture of their pages is stored leads there too (`MixtureLeads`), and a mount loads it (`EntryLoaded`, `UserLoaded`). The
content is `MixtureReads`: a file with the same references in both memories has the same pointers on its index pages (`RefsTellPtrs`), and each of its data pages
reads the same in both. The root pointer must stay for all this, hence the conversion is excepted.

`FsckAlwaysAgrees`, in `DurableProofs` too, says of every run of calls, to its end, that fsck finds what is wrong with the volume and nothing else. `SoundUntilHurt` cannot
carry it: an update that runs out of pages leaves an entry on pages that are free or belong to the tree it could not complete, and a reload that loses
something moves entries to other slots. `FsckSound` adds what fsck itself takes for granted, `Checkable`: the directory is a tree whose reserved pages are marked,
and each file is on pages that an allocation can return, shared or free as they may be. Two things are proved about it.

- A volume that is `Checkable` is judged rightly (`FsckFinds`). fsck counts, for each page, the paths of its walk that end there, so the theorem matches paths with
  references. For a file a path tells the role in which its last page is reached, and the other way round (`FilePaths`, with one lemma for each
  kind of tree). The walk of the directory meets each of its pages once (`SystemPaths`), which is why no page of the directory is a phantom cross-link. Then a count above one is two
  references to a page (`WalkOnce`) and a count of none is a page that nothing refers to (`WalkLeads`).
- Every call leaves a `Checkable` volume. A sound one is (`SoundCheckable`). After an update that ran out of pages, the pages taken for the new tree point at
  one another only, so that a file whose index page was among them still leads to pages the allocator can return (`OverwrittenPages`, `UpdateNoSpaceCheckable`). After
  a reload the entries found are old ones in other slots, no two in one (`FoundApart`): the numbers that a mount gives to index blocks are apart, also where it
  skips a group (`BlocksApart`, `RanksApart`).

`DirectoryProofs` proves `FilesKeptApart` of `Directory`: until something is lost no two files have one id, every file has an owner, no two
files share a page, and the charge of a user is the number of pages of his files. `Kept` is inductive as it stands: `InitKept`, then one lemma for each
kind of step (`CreatesKept`, `ChangesKept`), then `NextKept`. By `VolumeIsDirectory` it holds of the files of an open volume.

`ImageLayout` proves `CreatedImageSound` for the four templates and every custom device of 32 pages or more: the pages of a new image
are apart, on the device and exactly the marked ones, and the bit file as it is rewritten after opening, with the size of the device and not of
the declaration, fits before the next page (the two sizes differ in the SMD and Winchester templates). `BitmapPagesBound` is the lemma for
custom sizes: a page of bits for every 16384 pages leaves the second half of the device far from full.

### The tool

`ToolProofs` proves, for any image, any number of commands and host writes that fail at the open, half way or at the close:

- `DryRunKeepsHost`. `Quiet` is what each command does: `-n` stays as it is, and with it the host does;
- `UnmarkedStaysStored`, `ExitStatusTrue` and `StoredWhereCloseWorks`, together: `ToldRight` adds to the two properties that the host files stay the same ones and that a command line
  works on the image it was started on until its command is done, and that only a failure at the close goes unnoticed. `WriteEnds` and `SavedOrTold` are what
  a write and a save leave on the host, then one lemma for each command. `ExitStatusTrue` has the exception for `fclose`; without such failures
  (`"close" \notin Faults`) success means stored, which is `StoredWhereCloseWorks`.

### What is only model-checked

- `FriendsStayDistinct`, `QuotaStaysCovered`: `Accounts` walks over the entries with folds, and what a fold returns is proved by induction.
- `StoredIsRead`, `NothingInvented`, `CodeSpared` (`Parse`, and texts put together from a list), `AgreesWithDefinition` (`Matches`): defined by
  recursion over data, out of reach for the same reason.
- `Returns` is liveness.

## 7. Plan

1. (done) Page layer with proofs; volume operations with TLC.
2. (done) `Durable`, mounts with unreadable pages, `Fsck`, `Directory` and the refinement, `BitFile`, the tool, the start-up commands, wildcards.
3. (done) Proofs about the allocator and the bit file, `LoosePointers`, the volume and its refinement of `Directory`, the modified mark and the exit status.
4. (done) Proof of `CrashBetweenCallsLosesNothing`.
5. (done) Proofs of `BlocksCounted` and `LostPageCostsItself`.
6. (done) Proof of `FsckAgrees`.
7. (done) Proof of `CrashInsideSparesOthers`.

## 8. Not modelled

- Formatting, parsing and byte layouts without state: names and dates, the bits of an object entry, the checksum of the extended
  information, boot blocks and BPUN images, parity, the XAT sidecar. They are functions of bytes, which tests cover directly.
- In ndtool: option parsing, listing, extraction, creation of images, help. None of them changes an image.
- How SEGFIL0 is found and its segment table read (`sintran.c`): the table is a constant of `StartCommands`. The diagnosis (546): it changes nothing, and
  takes the steps of the location, line by line, for every candidate, so that a model of it would be the model of the location again.
- In `image_creator.c`: the directory name, the extended information, and the FLOMON code of floppies.
- The Python and TypeScript ports, which repeat the volume logic on an image kept whole in memory, without the page layer.
