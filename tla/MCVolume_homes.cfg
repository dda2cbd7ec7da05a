SPECIFICATION HomeUsedSpec
CONSTANTS
  TotalPages = 18
  FirstAlloc = 2
  Ceiling = 18
  ByteBits = 8
  PageBytes = 2
  BitPage = 3
  PtrsPerPage = 3
  EntriesPerPage = 2
  PagesPerBlock = 1
  MaxUsers = 4
  MaxBlocks = 2
  Names = {n1, n2, n3}
  Contents = {a}
  Lengths = {1}
  HoleSets <- FullyAllocated
  Spans <- NoSpan
  Callers = {NoUser}
  NoUser = NoUser
  Managed = {0}
  Quotas = {}
INVARIANTS EntriesPlaced ReloadSame
SYMMETRY NameSymmetry
VIEW LiveState
