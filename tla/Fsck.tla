--------------------------------- MODULE Fsck ---------------------------------
(***************************************************************************)
(* ndfs_fsck and ndfs_verify_integrity: the walk that counts how often     *)
(* each page is referred to, and what is reported from the counts.  It is  *)
(* written from the walk's own code, apart from Refs and DirectoryRefs, so *)
(* that the two can be compared.  A reference is a path: the entry or      *)
(* structure it starts from, the pages gone through, the page reached.     *)
(***************************************************************************)
EXTENDS FileTree, Sequences

Last(path) == path[Len(path)]

\* fsck_ref_index_data: one step further from "path", over every pointer that is no hole.
Through(h, path) == {Append(Append(path, i), Ptr(h, Last(path), i)) :
                       i \in {i \in Indexes : Ptr(h, Last(path), i) # Null}}

\* fsck_ref_subindexed: the group index pages and what they point at.
ThroughBoth(h, path) == Through(h, path) \union UNION {Through(h, q) : q \in Through(h, path)}

\* Phase 2 for one file.
\* Bug: the first page of a contiguous file is counted as its index page too.
FileWalkContTwice(h, o) ==
  LET top == <<o.slot, o.page>> IN
  CASE o.page = Null          -> {}
    [] o.kind = "indexed"     -> {top} \union Through(h, top)
    [] o.kind = "contiguous"  -> {top} \union {<<o.slot, j, o.page + j>> : j \in 0 .. o.pages - 1}
    [] o.kind = "subindexed"  -> {top} \union ThroughBoth(h, top)

FileWalk(h, o) ==
  LET top == <<o.slot, o.page>> IN
  CASE o.page = Null          -> {}
    [] o.kind = "indexed"     -> {top} \union Through(h, top)
    [] o.kind = "contiguous"  -> {<<o.slot, j, o.page + j>> : j \in 0 .. o.pages - 1}
    [] o.kind = "subindexed"  -> {top} \union ThroughBoth(h, top)

\* Phase 2 for the object file, the user file and the bit file.
SystemWalk(h) ==
  LET objects == <<-1, h.root.page>>
      users   == <<-2, UserIndex>>
  IN {objects, users, <<-3, BitPage>>} \union Through(h, users)
       \union (IF h.root.sub THEN ThroughBoth(h, objects) ELSE Through(h, objects))

\* fsck_ref: reserved pages and pages outside the volume are never counted.
Counted(h) == {r \in SystemWalk(h) \union UNION {FileWalk(h, o) : o \in h.objects} :
                 FirstAlloc <= Last(r) /\ Last(r) < TotalPages}

RefCount(h) == [p \in Pages |-> Cardinality({r \in Counted(h) : Last(r) = p})]

\* Phases 3 to 5, the counts over the walk taken once.
Report(h) ==
  LET count == RefCount(h) IN
  [orphaned   |-> {p \in h.used : count[p] = 0 /\ p >= FirstAlloc},
   free       |-> {p \in Pages \ h.used : count[p] > 0},
   multiply   |-> {p \in Pages : count[p] > 1},
   mischarged |-> {u \in DOMAIN h.users : h.users[u].used #
                     Cardinality({ref \in UNION {{o} \X Refs(h.mem, o) : o \in h.objects} :
                                    ref[1].user = u /\ IsData(ref[2][1])})},
   pointless  |-> {o.slot : o \in {o \in h.objects : o.page = Null /\ o.pages > 0}}]

\* The errors; orphans and charges are warnings.
Clean(report) == report.free = {} /\ report.multiply = {} /\ report.pointless = {}

\* ndfs_verify_integrity looks at the first page of each file only.
Verified(h) == \A o \in h.objects : o.page # Null => o.page \in h.used
==============================================================================
