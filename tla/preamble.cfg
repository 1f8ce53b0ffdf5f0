SPECIFICATION Spec
CONSTANTS
  MaxWord = 255
  ByteBits = 2
  CrcBytes = 2
  WideBytes = 3
  VersionBytes = 2
  None = None
  Polynomial <- MCPolynomial
  Magic <- MCMagic
  CurrentMajor <- One
  Versions <- MCVersions
  Following <- MCFollowing
INVARIANTS
  ChecksumOfWhole
  DamageIsNamed
  VersionsReadBack
