------------------------------ MODULE PageStore ------------------------------
(***************************************************************************)
(* What the page layer of the C library promises to the rest of it: a      *)
(* memory of pages, a disk that lags behind it by the pages written since  *)
(* they were last stored, and a commit that closes the gap.  Nothing here  *)
(* mentions slots, pins or eviction: module PageCache implements this.     *)
(***************************************************************************)
EXTENDS Naturals

CONSTANTS
  Pages,   \* the page ids of the image, 0 .. total_pages-1
  Values,  \* the contents a page can be given
  Torn     \* what an interrupted transfer leaves behind

CONSTANTS Ok, NoPage, IoError   \* results: done, NULL, NDFS_ERR_IO

VARIABLES
  mem,      \* page -> what a read of it returns
  disk,     \* page -> what the backend holds
  pending,  \* the pages whose last write is not on the disk yet
  out       \* result of the last call

vars == <<mem, disk, pending, out>>

Contents == Values \union {Torn}
Results  == Contents \union {Ok, NoPage, IoError}

TypeOK ==
  /\ mem \in [Pages -> Contents]
  /\ disk \in [Pages -> Contents]
  /\ pending \in SUBSET Pages
  /\ out \in Results

Init ==
  /\ disk \in [Pages -> Values]
  /\ mem = disk
  /\ pending = {}
  /\ out = Ok

(***************************************************************************)
(* Behind the caller's back some pending pages may reach the disk, and a   *)
(* failing store may tear one that stays pending.  A page that is not      *)
(* pending is never touched.                                               *)
(***************************************************************************)
MaySettle(p) ==
  IF p \notin pending THEN {disk[p]}
  ELSE IF p \notin pending' THEN {mem[p]}
  ELSE {disk[p], Torn}

Settles ==
  /\ disk' \in [Pages -> Contents]
  /\ \A p \in Pages : disk'[p] \in MaySettle(p)

\* A read returns the last content written to the page, or fails.
Read(p) ==
  /\ pending' \subseteq pending
  /\ Settles
  /\ out' \in {mem[p], NoPage}
  /\ UNCHANGED mem

\* A write takes effect for later reads at once and is pending from then on.
Write(p, v) ==
  /\ p \in pending' /\ pending' \subseteq pending \union {p}
  /\ Settles
  /\ mem' = [mem EXCEPT ![p] = v]
  /\ out' = Ok

\* A commit that reports success leaves nothing pending.
Commit ==
  /\ disk' = mem
  /\ pending' = {}
  /\ out' = Ok
  /\ UNCHANGED mem

\* A commit that reports an error keeps every page it did not store pending.
CommitFails ==
  /\ pending' \subseteq pending
  /\ Settles
  /\ out' = IoError
  /\ UNCHANGED mem

\* The handle is gone, by ndfs_close or by a crash: the disk is what is left, with each
\* pending page stored, torn or as it was.
Lose ==
  /\ disk' \in [Pages -> Contents]
  /\ \A p \in Pages : disk'[p] \in {disk[p]} \union (IF p \in pending THEN {mem[p], Torn} ELSE {})
  /\ pending' = {}
  /\ mem' = disk'
  /\ out' = Ok

Next ==
  \/ \E p \in Pages : Read(p)
  \/ \E p \in Pages, v \in Values : Write(p, v)
  \/ Commit
  \/ CommitFails
  \/ Lose

Spec == Init /\ [][Next]_vars

\* The disk is behind memory only on the pages that are pending.
LagIsPending == \A p \in Pages : disk[p] # mem[p] => p \in pending
==============================================================================
