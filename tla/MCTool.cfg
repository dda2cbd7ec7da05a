CONSTANTS
  system = system
  bob = bob
  f1 = f1
  f2 = f2
  bad = bad
  NoOne = NoOne
  Torn = Torn
  Absent = Absent
  UserIds = {0, 1, 2}
  MaxFriends = 2
  MaxBlocks = 2
  Disk = 4
  Tiers <- AllTiers
  First <- Start
  UserNames = {system, bob}
  FileNames = {f1, f2}
  Texts = {"new"}
  Amounts = {1}
  Rights <- Grants
  Clauses <- Specs
  Batches <- Puts
  Unreadable = bad
  DefaultAccess <- OpenAccess
  Modes = {"shell", "once"}
  Faults = {"open", "write", "close"}
  MaxCommands = 3
SPECIFICATION Spec
INVARIANTS UnmarkedIsStored ExitStatusTellsTruth DryRunWritesNothing
INVARIANTS FriendsStayDistinct QuotaStaysCovered
CHECK_DEADLOCK FALSE
