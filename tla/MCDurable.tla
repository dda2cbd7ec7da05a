------------------------------- MODULE MCDurable -------------------------------
EXTENDS Durable, TLC

CONSTANT OldName   \* the name of a file that is there from the start and no call is about

NameSymmetry == Permutations(Names)

FullyAllocated == {{}}
NoSpan         == {}
SecondMissing  == {{}, {1}}
FirstTwo       == {<<0, 1>>}

\* A new volume on which user 0 may have two blocks and has created OldName, of one page.
WithOldFile ==
  LET b == Build(Load(FreshMem), 1, {}, CHOOSE v \in Contents : TRUE)
      o == [slot |-> 0, user |-> 0, name |-> OldName, kind |-> "indexed", page |-> b.page,
            pages |-> 1, size |-> 1, num |-> 0, named |-> TRUE]
      h == [b.h EXCEPT !.objects = {o},
                       !.users[0] = [reserved |-> 1, used |-> 1, max |-> 2, alloc |-> 1]]
  IN WriteBitFile(WriteUserPage(WriteObjectPage(h, 0), 0))

OldFileInit ==
  /\ fs = WithOldFile
  /\ out = "ok"
  /\ want = [s \in {0} |-> Expected(1, {}, CHOOSE v \in Contents : TRUE)]
  /\ hurt = FALSE
  /\ disk = WithOldFile.mem
  /\ state = "stored"

OldFileSpec == OldFileInit /\ [][DurableNext]_dvars

\* The free count on page 0 is read by nobody.
Unmastered(mem) == [p \in Pages |-> IF p = MasterPage THEN Holding({RootOn(mem)}) ELSE mem[p]]

\* All pages count here: garbage left on the disk can be found after a crash.  After a commit
\* that failed no property and no call looks at the disk: the next commit stores everything, and
\* a crash is not followed further.
LiveDurable ==
  <<fs = fs, fs.used, fs.users, fs.objects, fs.root, Unmastered(fs.mem), want, hurt, state,
    IF state = "stored" THEN Unmastered(disk) ELSE FreshMem>>
==============================================================================
