-------------------------------- MODULE BitMap --------------------------------
(***************************************************************************)
(* The allocation bitmap of ndfs-c/src/bit_file.c, as the set "used" of    *)
(* the pages whose bit is set.  The allocator looks at the window from     *)
(* NDFS_FIRST_ALLOC_BLOCK to the declared capacity and takes the highest   *)
(* free pages first.                                                       *)
(***************************************************************************)
EXTENDS Integers, FiniteSets

CONSTANTS
  TotalPages,  \* the pages of the device, total_pages
  FirstAlloc,  \* NDFS_FIRST_ALLOC_BLOCK
  Ceiling      \* alloc_ceiling, the declared capacity (0 when there is none)

ASSUME BitMapAssumption ==
  /\ TotalPages \in Nat \ {0}
  /\ FirstAlloc \in Nat \ {0}
  /\ Ceiling \in Nat

Pages == 0 .. TotalPages - 1

\* Bug: the scan starts at the top of the device, not of the declared capacity.
TopOfDevice == TotalPages - 1

\* bf_top_index: a missing or over-large ceiling is clamped to the device.
Top == (IF Ceiling = 0 \/ Ceiling > TotalPages THEN TotalPages ELSE Ceiling) - 1

Window == FirstAlloc .. Top

\* ndfs_bf_count_free counts the whole device, the pages no allocation can return included.
CountFree(used) == TotalPages - Cardinality(used)

FreePages(used) == Window \ used

\* The pages successive calls of ndfs_bf_find_free, each followed by ndfs_bf_mark_used,
\* hand out: the k-th is the free page with k-1 free pages above it.
NthFree(used, k) ==
  CHOOSE p \in FreePages(used) : Cardinality({q \in FreePages(used) : q > p}) = k - 1

FindFree(used) == NthFree(used, 1)

\* Bug: the last page of the run is not looked at.
IsFreeRunShort(used, p, n) == p .. p + n - 2 \subseteq FreePages(used)

IsFreeRun(used, p, n) == p .. p + n - 1 \subseteq FreePages(used)

\* ndfs_bf_find_free_range: the highest run of n free pages, named by its lowest page.
HasFreeRange(used, n) == \E p \in Window : IsFreeRun(used, p, n)
FindFreeRange(used, n) ==
  CHOOSE p \in Window : /\ IsFreeRun(used, p, n)
                        /\ \A q \in Window : IsFreeRun(used, q, n) => q <= p
==============================================================================
