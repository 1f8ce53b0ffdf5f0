SPECIFICATION Spec
CONSTANTS
  Size = 3
  MaxRead = 2
  MaxWant = 3
  None = None
INVARIANTS
  TypeOK
  ReadsExactly
  ResumesAtPosition
  EndIsReal
  CancelStops
PROPERTIES
  Terminates
