SPECIFICATION Spec
CONSTANTS
  Pages = {p1, p2, p3}
  NumSlots = 2
  PinLevels = {sub}
  Values = {a, b}
  Torn = Torn
  Faults = {"write", "read"}
  Ok = Ok
  NoPage = NoPage
  IoError = IoError
SYMMETRY Symmetry
INVARIANTS TypeOK OneSlotPerPage HeldPointersLive PinsCounted SomeVictim CleanIsOnDisk
PROPERTIES ImplementsPageStore FailedReadCostsOnlyItself
