------------------------------- MODULE MCVolume -------------------------------
EXTENDS Diagnosis, TLC

NameSymmetry == Permutations(Names)

\* A volume to which users have been added, up to the one whose home is the second group.
Populated(n) ==
  LET users[k \in 0 .. n] == IF k = 0 THEN Load(FreshMem) ELSE Adding(users[k - 1], 0) IN users[n]

\* The same after the last of them has created a file in his home and deleted it, and the first
\* has been given all blocks and has created a file that no call is about.
Content == CHOOSE v \in Contents : TRUE

HomeUsed(n) ==
  LET d == EnsureDir(Populated(n), PhysicalSlot(n, Home(n), 0)).h
      b == Build(d, 1, {}, Content)
      o == [slot |-> 0, user |-> 0, name |-> "old", kind |-> "indexed", page |-> b.page,
            pages |-> 1, size |-> 1, num |-> 0, named |-> TRUE]
      h == [b.h EXCEPT !.objects = {o},
                       !.users[0] = [reserved |-> 1, used |-> 1, max |-> MaxBlocks, alloc |-> 1]]
  IN WriteBitFile(WriteUserPage(WriteObjectPage(h, 0), 0))

HomeUsedInit ==
  /\ fs = HomeUsed(UsersPerGroup)
  /\ out = "ok" /\ want = [s \in {0} |-> Expected(1, {}, Content)] /\ hurt = FALSE

HomeUsedSpec == HomeUsedInit /\ [][Next]_vars

FullyAllocated == {{}}
SomeHoles      == {{}, {1}}
OneSpan        == {<<0, 1>>}
NoSpan         == {}

\* Two states are one to TLC when they differ only in what no later call reads: the result of
\* the last call, the free count on page 0, and pages nothing refers to (fs = fs makes TLC
\* evaluate the whole state before it stores it).
LiveState ==
  <<fs = fs, fs.used, fs.users, fs.objects, fs.root,
    [p \in Referenced(fs) \ {MasterPage} |-> fs.mem[p]], want, hurt>>
==============================================================================
