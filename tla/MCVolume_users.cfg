SPECIFICATION Spec
CONSTANTS
  TotalPages = 16
  FirstAlloc = 2
  Ceiling = 15
  ByteBits = 8
  PageBytes = 2
  BitPage = 3
  PtrsPerPage = 2
  EntriesPerPage = 1
  PagesPerBlock = 1
  MaxUsers = 2
  MaxBlocks = 2
  Names = {n1, n2, n3}
  Contents = {a}
  Lengths = {1}
  HoleSets <- FullyAllocated
  Spans <- NoSpan
  Callers = {1}
  NoUser = NoUser
  Managed = {1}
  Quotas = {0}
INVARIANTS QuotaIsRealPages ReloadSame NoCrossLinks BlocksCounted LostPageCostsItself
PROPERTIES SuccessLeaksNothing ImplementsDirectory
VIEW LiveState
SYMMETRY NameSymmetry
