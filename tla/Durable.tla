-------------------------------- MODULE Durable --------------------------------
(***************************************************************************)
(* Volume over a disk that lags behind it.  A mutation dirties pages in    *)
(* the cache; any of them may reach the disk early, by eviction; the       *)
(* mutation ends in commit_writes, which stores them all or fails.  The    *)
(* program can stop at any moment, and a later mount finds the disk.       *)
(* The page cache itself is module PageCache: here a page is stored or not.*)
(***************************************************************************)
EXTENDS Volume, FiniteSetsExt

CONSTANT MaxEarly   \* how many pages a call has stored when it ends without having stored all

ASSUME DurableAssumption == MaxEarly \in Nat

VARIABLES
  disk,   \* page -> content, what the backend holds
  state   \* "stored": the disk has every completed call; "failed": a commit was not
          \* completed; "midway": a refused call has converted the object file, or a patch that
          \* met a hole has written the blocks before it, and that is left in memory

dvars == <<fs, out, want, hurt, disk, state>>

DurableInit == Init /\ disk = FreshMem /\ state = "stored"

\* The disk after any part of the pages the call has changed was stored.
ImagesOf(S) == [p \in Pages |-> IF p \in S THEN fs'.mem[p] ELSE disk[p]]
Dirty  == {p \in Pages : disk[p] # fs'.mem[p]}
Images == {ImagesOf(S) : S \in SUBSET Dirty}

\* The call ends when some of them have been.
Early == \E k \in 0 .. MaxEarly : \E S \in kSubset(k, Dirty) : disk' = ImagesOf(S)

Committing ==
  \/ \E who \in Callers, name \in Names : FileCall(who, name)
  \/ \E q \in Quotas : AddUser(q)
  \/ \E u \in Managed : RemoveUser(u)
  \/ \E u \in Managed, q \in Quotas : SetQuota(u, q)

\* commit_writes after success.
Commits == disk' = fs'.mem /\ state' = "stored"

\* The backend refuses a page: the caller is told, the change stays in memory.
CommitFails == Early /\ disk' # fs'.mem /\ state' = "failed"

\* commit_writes after an error stores nothing, nor do the object block calls: what was
\* evicted is on the disk.
LeftDirty ==
  /\ Early
  /\ state' = IF fs'.root # fs.root \/ out' = "corrupt" THEN "midway" ELSE state

Call ==
  \/ /\ Committing
     /\ \/ out' = "ok" /\ (Commits \/ CommitFails)
        \/ out' # "ok" /\ LeftDirty
  \/ (\E u \in Managed : GiveObjectBlock(u) \/ TakeObjectBlock(u)) /\ LeftDirty

CloseAndOpen == Reopen /\ Commits

Crash ==
  /\ Mountable(disk, {})
  /\ fs' = Load(disk)
  /\ want' = [s \in {o.slot : o \in fs'.objects} |->
                IF s \in DOMAIN want THEN want[s] ELSE Expected(0, {}, Zeros)]
  /\ out' = "opened"
  /\ hurt' = (state # "stored" \/ ReloadLoses(fs))
  /\ state' = "stored"
  /\ UNCHANGED disk

DurableNext ==
  \/ ~hurt /\ (Call \/ CloseAndOpen \/ Crash)
  \/ Abandoned /\ UNCHANGED <<disk, state>>

DurableSpec == DurableInit /\ [][DurableNext]_dvars

-----------------------------------------------------------------------------
FilesOf(h) == Visible(h).files

\* "a crash between operations no longer loses committed writes" (comment of commit_writes):
\* as long as no commit has failed, the disk alone gives back every file and every charge,
\* whatever refused calls have left dirty.
CrashBetweenCallsLosesNothing ==
  ~hurt /\ ~ReloadLoses(fs) /\ state = "stored" => Visible(Load(disk)) = Visible(fs)

\* The files a call leaves where they are and as they are.
Others == {f \in FilesOf(fs) \intersect FilesOf(fs') : Refs(fs.mem, f[1]) = Refs(fs'.mem, f[1])}

\* A crash in the middle of a call, or of closing the volume, costs no file but the one the call
\* is about, whichever pages have been stored; except in the call that converts the object file,
\* and but for what a reload loses anyway: the users without a page, and the places of the
\* entries beyond a group without index page.
CrashInsideSparesOthers ==
  [][ ~hurt' /\ ~PagelessUser(fs) /\ state = "stored" /\ state' = "stored" /\ fs'.root = fs.root
        => \A image \in Images :
             ~SkippedGroup(Load(image)) => Others \subseteq FilesOf(Load(image)) ]_dvars

\* "Called at the tail of every public mutation so the on-disk image tracks each change
\* immediately" (comment of commit_writes): after a call that succeeds everything is stored.
EveryMutationStored == [][out' = "ok" /\ state' = "stored" => disk' = fs'.mem]_dvars
==============================================================================
