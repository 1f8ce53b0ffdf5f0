SPECIFICATION BuildersSpec
CONSTANTS
  MaxWord = 5
  ByteBits = 2
  None = None
  MaxBytes = 2
  Rows <- MCRows
  Types <- MCTypes
  Values = {"b1"}
  Offsets = {"o1"}
INVARIANTS
  BuildersTypeOK
  NullCountExact
  BitmapFaithful
  ColumnWellFormed
