SPECIFICATION OldFileSpec
CONSTANTS
  TotalPages = 15
  FirstAlloc = 2
  Ceiling = 14
  BitPage = 3
  PtrsPerPage = 2
  EntriesPerPage = 2
  PagesPerBlock = 1
  MaxUsers = 1
  MaxBlocks = 2
  Names = {n1, n2}
  OldName = old
  Contents = {a}
  Lengths = {1}
  HoleSets <- FullyAllocated
  Spans <- NoSpan
  Callers = {0}
  NoUser = NoUser
  Managed = {0}
  Quotas = {}
  MaxEarly = 1
PROPERTY EveryMutationStored
VIEW LiveDurable
SYMMETRY NameSymmetry
