SPECIFICATION FormatsSpec
CONSTANTS
  PerArea = 2
  StoreSizes <- MCStoreSizes
  Limit = 4
  zeros = zeros
  ones = ones
  Values <- MCValues
  Origin <- MCOrigin
  Sizes <- MCSizes
  DeviceSizes <- MCDeviceSizes
  Alignment = 64
  PerBlock = 2
  MaxSlots = 9
  MaxSectors = 256
  Word = 512
  MbrMax = 20
  MaxChanges = 2
  Chars <- MCChars
  Starts <- MCStarts
  MaxText = 3
  MaxNodes = 5
  MaxDepth = 2
  Keys <- MCKeys
  Lists <- MCLists
  MaxEdits = 1
INVARIANT StoreIsKept
INVARIANT DiskIsFound
INVARIANT SyntaxIsSound
PROPERTY FormatsEnd
\* A sealed or refused store, a disk that was read or refused and a text that
\* was changed enough are the end.
CHECK_DEADLOCK FALSE
