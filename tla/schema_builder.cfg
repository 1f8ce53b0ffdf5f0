SPECIFICATION Spec
CONSTANTS
  MaxWord = 100000
  None = None
  MaxEntries = 1
  MaxFields = 3
  Slash = 47
  Drafts <- MCDrafts
  Keys <- MCKeys
  Values <- MCValues
  LimitSets <- MCLimitSets
  Reserved <- MCReserved
  Own <- MCOwn
  Texts <- MCTexts
INVARIANTS
  FinishIsExact
  CanonicalIdentifies
  FieldsServed
  Utf8IsExact
