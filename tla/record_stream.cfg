SPECIFICATION Spec
CONSTANTS
  KnownTypes = {"data_block"}
  UnknownTypes = {"0x40"}
  MaxWord = 2
  MaxExtension = 1
  EnvelopeSize = 1
  Contents <- MCContents
  Limits <- MCLimits
  None = None
INVARIANTS
  TypeOK
  AcceptsPrefix
  NothingMandatorySkipped
  NextRecordReadable
  ErrorsNameTheCause
  LengthsFit
