SPECIFICATION Spec
\* A finished builder is spent: nothing can be done with it.
CHECK_DEADLOCK FALSE
CONSTANTS
  MaxWord = 20
  ByteBits = 2
  OffsetBytes = 2
  None = None
  OtherId = 99
  RowCounts = {0, 2}
  Schemas <- MCSchemas
  Columns <- MCColumns
  LimitSets <- MCLimitSets
INVARIANTS
  TypeOK
  FinishIsExact
  EveryValueServed
