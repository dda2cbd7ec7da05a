----------------------------- MODULE ObjectBlocks -----------------------------
(***************************************************************************)
(* Where a user's file entries live.  The object file is a table of pages  *)
(* of EntriesPerPage entries.  A group of PagesPerGroup of its pages gives *)
(* every one of UsersPerGroup users a row of PagesPerBlock pages: an       *)
(* object block.  A user's first block is in group user/UsersPerGroup, the *)
(* home group, the next ones in the same row of higher groups.             *)
(* "objects" is the set of loaded entries, each with a user and a slot,    *)
(* "valid" the set of existing users.                                      *)
(***************************************************************************)
EXTENDS Integers, FiniteSets

CONSTANTS
  PtrsPerPage,     \* NDFS_MAX_OBJECT_FILE_PTRS = NDFS_PAGES_PER_INDEX_BLOCK (512)
  EntriesPerPage,  \* NDFS_ENTRIES_PER_PAGE (32)
  PagesPerBlock,   \* NDFS_PAGES_PER_OBJECT_BLOCK (8)
  MaxUsers,        \* NDFS_MAX_USERS (256)
  MaxBlocks        \* NDFS_MAX_OBJECT_BLOCKS (16)

ASSUME ObjectBlocksAssumption ==
  /\ {PtrsPerPage, EntriesPerPage, PagesPerBlock, MaxUsers, MaxBlocks} \subseteq Nat \ {0}
  /\ PagesPerBlock <= PtrsPerPage
  /\ MaxUsers <= PtrsPerPage * EntriesPerPage   \* the user file has one index page

UsersPerGroup == PtrsPerPage \div PagesPerBlock
FilesPerBlock == PagesPerBlock * EntriesPerPage
UserIds       == 0 .. MaxUsers - 1
Groups        == 0 .. PtrsPerPage - 1
Slots         == 0 .. PtrsPerPage * PtrsPerPage * EntriesPerPage - 1

PageOf(slot)  == slot \div EntriesPerPage
GroupOf(slot) == PageOf(slot) \div PtrsPerPage
Home(u)       == u \div UsersPerGroup

\* physical_slot_in_group
PhysicalSlot(u, g, k) ==
  (g * PtrsPerPage + (u % UsersPerGroup) * PagesPerBlock + (k \div EntriesPerPage))
    * EntriesPerPage + (k % EntriesPerPage)

UsesGroup(objects, u, g) == \E o \in objects : o.user = u /\ GroupOf(o.slot) = g
SlotInUse(objects, s)    == \E o \in objects : o.slot = s

Least(S) == CHOOSE x \in S : \A y \in S : x <= y

\* Bug: one slot too many is looked at in each block.
OpenSlotsBeyond(objects, u) ==
  {s \in {PhysicalSlot(u, g, k) : g \in {g \in Home(u) .. PtrsPerPage - 1 :
                                           g = Home(u) \/ UsesGroup(objects, u, g)},
                                  k \in 0 .. FilesPerBlock} : ~SlotInUse(objects, s)}

\* The free slots of the blocks the user already has: those it has entries in, and home.
OpenSlots(objects, u) ==
  {s \in {PhysicalSlot(u, g, k) : g \in {g \in Home(u) .. PtrsPerPage - 1 :
                                           g = Home(u) \/ UsesGroup(objects, u, g)},
                                  k \in 0 .. FilesPerBlock - 1} : ~SlotInUse(objects, s)}

\* The row of the user in group g is the home of this user.
HomeOwner(u, g) == g * UsersPerGroup + (u % UsersPerGroup)

\* The first slots of the blocks that can still be opened: not another user's home.
NextBlocks(objects, valid, u) ==
  {s \in {PhysicalSlot(u, g, 0) : g \in {g \in Home(u) + 1 .. PtrsPerPage - 1 :
                                           /\ ~UsesGroup(objects, u, g)
                                           /\ HomeOwner(u, g) \notin valid}}
     : ~SlotInUse(objects, s)}

NoSlot == -1

\* find_free_user_slot: the lowest hole, else the next block when the maximum allows.
FindFreeUserSlot(objects, valid, u, max, allocated) ==
  IF OpenSlots(objects, u) # {} THEN Least(OpenSlots(objects, u))
  ELSE IF allocated >= max \/ NextBlocks(objects, valid, u) = {} THEN NoSlot
  ELSE Least(NextBlocks(objects, valid, u))

\* allocate_user_object_slot: the groups occupied with the new slot, at most the maximum.
BlocksWith(objects, u, slot, max) ==
  LET n == Cardinality({g \in Groups : UsesGroup(objects, u, g) \/ g = GroupOf(slot)})
  IN IF n > max THEN max ELSE n

(***************************************************************************)
(* The number SINTRAN shows for a file.  On creation it is computed from   *)
(* the position alone (ndfs_oe_compute_file_number), on load from the rank *)
(* of the group among those the user occupies (assign_file_numbers).       *)
(***************************************************************************)
NumberAtCreate(slot, u) ==
  LET offset == (PageOf(slot) % PtrsPerPage) - u * PagesPerBlock
  IN IF offset \in 0 .. PagesPerBlock - 1
       THEN GroupOf(slot) * FilesPerBlock + offset * EntriesPerPage + (slot % EntriesPerPage)
       ELSE NoSlot

NumberAtLoad(objects, o) ==
  LET offset == (PageOf(o.slot) % PtrsPerPage) - ((o.user % UsersPerGroup) * PagesPerBlock)
      rank   == Cardinality({g \in 0 .. GroupOf(o.slot) - 1 : UsesGroup(objects, o.user, g)})
  IN IF offset \in 0 .. PagesPerBlock - 1
       THEN rank * FilesPerBlock + offset * EntriesPerPage + (o.slot % EntriesPerPage)
       ELSE 0
==============================================================================
