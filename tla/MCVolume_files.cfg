SPECIFICATION Spec
CONSTANTS
  TotalPages = 15
  FirstAlloc = 2
  Ceiling = 14
  ByteBits = 3
  PageBytes = 4
  BitPage = 3
  PtrsPerPage = 2
  EntriesPerPage = 2
  PagesPerBlock = 1
  MaxUsers = 1
  MaxBlocks = 1
  Names = {n1, n2}
  Contents = {a}
  Lengths = {0, 3, 5}
  Spans <- OneSpan
  HoleSets <- SomeHoles
  Callers = {0}
  NoUser = NoUser
  Managed = {0}
  Quotas = {}
INVARIANTS ReferencedIsUsed NoCrossLinks ReadsBack QuotaIsRealPages InsideCapacity FsckAgrees BitFileIsSintrans
PROPERTIES SuccessLeaksNothing ImplementsDirectory
VIEW LiveState
SYMMETRY NameSymmetry
