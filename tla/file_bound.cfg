SPECIFICATION Spec
CONSTANTS
  MaxSize = 2
  MaxWrite = 2
  DiskSpace = 3
  MaxLen = 3
  Tags = {"x", "y"}
  None = None
INVARIANT FileBounded
