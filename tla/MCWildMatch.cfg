CONSTANTS
  Letters <- Chars
  Fold <- Lower
  MaxName = 4
  MaxPattern = 4
SPECIFICATION Spec
INVARIANTS AgreesWithDefinition
PROPERTY Returns
CHECK_DEADLOCK FALSE
