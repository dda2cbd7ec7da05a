------------------------------- MODULE FileTree -------------------------------
(***************************************************************************)
(* The pages of one file: a contiguous run, an index page with its data    *)
(* pages, or a sub-index page with group index pages and theirs.  A page   *)
(* of a tree is named by its role <<group, position>>: the top page, the   *)
(* index page of a group, or a data page.                                  *)
(***************************************************************************)
EXTENDS ObjectFile

TopRole         == <<-1, -1>>
GroupRole(g)    == <<g, -1>>
IsData(role)    == role[2] >= 0

\* NDFS_MAX_OBJECT_FILE_PAGES
MaxFilePages == PtrsPerPage * PtrsPerPage

-----------------------------------------------------------------------------
\* What the pointers of an index page refer to, under the roles of group g.
Pointed(mem, page, g) ==
  {<<<<g, i>>, mem[page].ptrs[i]>> : i \in {i \in Indexes : mem[page].ptrs[i] # Null}}

\* The walk of free_file_blocks and of the readers: every page of a file with its role.
Refs(mem, o) ==
  LET groups == {<<GroupRole(g), mem[o.page].ptrs[g]>> :
                   g \in {g \in Indexes : mem[o.page].ptrs[g] # Null}}
  IN CASE o.kind = "contiguous" -> {<<<<0, i>>, o.page + i>> : i \in 0 .. o.pages - 1}
       [] o.kind = "indexed"    -> {<<TopRole, o.page>>} \union Pointed(mem, o.page, 0)
       [] o.kind = "subindexed" -> {<<TopRole, o.page>>} \union groups
                                     \union UNION {Pointed(mem, r[2], r[1][1]) : r \in groups}

\* Bug: every file is freed as if it were a contiguous run.
PagesAsRun(mem, o) == o.page .. o.page + o.pages - 1

PagesOf(mem, o) == {r[2] : r \in Refs(mem, o)}

\* The pages of a file that hold its content.
DataPages(mem, o) == {r[2] : r \in {r \in Refs(mem, o) : IsData(r[1])}}

\* count_real_data_pages_in_object
RealPages(mem, o) == Cardinality({r \in Refs(mem, o) : IsData(r[1])})

\* read_subindexed_data steps over a null group pointer without counting its pages.
RoleOfPage(mem, o, i) ==
  IF o.kind # "subindexed" THEN <<0, i>>
  ELSE LET some == {g \in Indexes : mem[o.page].ptrs[g] # Null}
       IN <<CHOOSE g \in Indexes \union {PtrsPerPage} :
              /\ Cardinality({f \in some : f < g}) = i \div PtrsPerPage
              /\ g \in some \/ g = PtrsPerPage,
            i % PtrsPerPage>>

\* The i-th page of a file as read_object_data returns it: nothing where there is a hole.
ReadPage(mem, o, i) ==
  LET found == {r \in Refs(mem, o) : r[1] = RoleOfPage(mem, o, i)}
  IN IF found = {} THEN {} ELSE mem[(CHOOSE r \in found : TRUE)[2]].items

ReadFile(mem, o) == [i \in 0 .. o.size - 1 |-> ReadPage(mem, o, i)]

-----------------------------------------------------------------------------
(***************************************************************************)
(* allocate_and_write_data: a file of n pages, the holes of which have no  *)
(* page, with content v: its i-th page holds Item(v, i).                   *)
(***************************************************************************)
KindFor(n) == IF n <= PtrsPerPage THEN "indexed" ELSE "subindexed"

DataRole(n, i) == IF KindFor(n) = "indexed" THEN <<0, i>> ELSE <<i \div PtrsPerPage, i % PtrsPerPage>>

\* The pages the tree needs.
RolesFor(n, holes) ==
  {TopRole}
  \union (IF KindFor(n) = "indexed" THEN {} ELSE {GroupRole(g) : g \in 0 .. (n - 1) \div PtrsPerPage})
  \union {DataRole(n, i) : i \in (0 .. n - 1) \ holes}

\* They are allocated from the top down and from left to right.
Before(r, s) == r[1] < s[1] \/ (r[1] = s[1] /\ r[2] < s[2])

Rank(role, roles) == 1 + Cardinality({r \in roles : Before(r, role)})

\* The roles that found a page before the disk was full.
Placed(h, roles) == {r \in roles : Rank(r, roles) <= Cardinality(FreePages(h.used))}

Zeros == "zeros"   \* the content of a page of zero bytes

Item(v, i) == IF v = Zeros THEN {} ELSE {[part |-> i, content |-> v]}

\* Bug: the data pages are written from the start of the content in every group.
TreeContentRestarting(n, v, role, at) ==
  LET below == IF role = TopRole /\ KindFor(n) = "subindexed"
                 THEN [g \in Indexes |-> IF GroupRole(g) \in DOMAIN at THEN at[GroupRole(g)] ELSE Null]
                 ELSE [i \in Indexes |-> IF <<role[1], i>> \in DOMAIN at THEN at[<<role[1], i>>] ELSE Null]
  IN IF IsData(role) THEN Holding(Item(v, role[2]))
     ELSE [Blank EXCEPT !.ptrs = below]

\* What is stored on the page of a role, "at" being the page of each placed role.
TreeContent(n, v, role, at) ==
  LET group == IF role = TopRole THEN 0 ELSE role[1]
      below == IF role = TopRole /\ KindFor(n) = "subindexed"
                 THEN [g \in Indexes |-> GroupRole(g)] ELSE [i \in Indexes |-> <<group, i>>]
  IN IF IsData(role) THEN Holding(Item(v, role[1] * PtrsPerPage + role[2]))
     ELSE [Blank EXCEPT !.ptrs =
             [i \in Indexes |-> IF below[i] \in DOMAIN at THEN at[below[i]] ELSE Null]]

Build(h, n, holes, v) ==
  LET roles  == RolesFor(n, holes)
      placed == Placed(h, roles)
      at     == [r \in placed |-> NthFree(h.used, Rank(r, roles))]
      taken  == {at[r] : r \in placed}
      held   == [p \in taken |-> CHOOSE r \in placed : at[r] = p]
  IN [h |-> [h EXCEPT !.used = @ \union taken,
                      !.mem  = [p \in Pages |-> IF p \in taken THEN TreeContent(n, v, held[p], at)
                                                ELSE h.mem[p]]],
      page |-> IF placed = roles THEN at[TopRole] ELSE Null]

-----------------------------------------------------------------------------
\* Pages a run of a contiguous file is rewritten with: n pages of content, the rest zero.
RunContent(mem, first, pages, n, v) ==
  [p \in Pages |-> IF p \notin first .. first + pages - 1 THEN mem[p]
                   ELSE IF p - first < n THEN Holding(Item(v, p - first)) ELSE Blank]
==============================================================================
