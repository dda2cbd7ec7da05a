SPECIFICATION LooseSpec
CONSTANTS
  Pages = {p1, p2, p3, p4}
  NumSlots = 3
  PinLevels = {sub}
  Values = {a}
  Torn = Torn
  Faults = {"write", "torn_read"}
  Ok = Ok
  NoPage = NoPage
  IoError = IoError
SYMMETRY Symmetry
INVARIANTS LoosePointerLive
PROPERTY LooseBufferIntact
