SPECIFICATION Spec
CONSTANTS
  Worlds <- MCWorlds
  Blocks = {b1, b2}
  MaxMetadata = 2
  Overflow = 8
  None = None
  Malformed = Malformed
  b1 = b1
  b2 = b2
INVARIANT ResolvesSoundly
PROPERTY ResolutionEnds
\* A resolution that ended stays ended.
CHECK_DEADLOCK FALSE
