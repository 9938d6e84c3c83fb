SPECIFICATION Spec
CONSTANTS
  Alphabet = {42, 63, 91, 92, 93, 94, 45, 97, 233}
  MaxPattern = 4
  Runes = {47, 97, 233, 8364, 65533}
  MaxName = 2
  Trees <- MCTrees
  Contexts <- MCContexts
  Files <- MCFiles
  Patterns <- MCPatterns
  MaxDepth = 1
  Images <- MCImages
  Jobs <- MCJobs
  Mnt = 1
  MaxLinks = 5
INVARIANT MatchesAsDefined
INVARIANT ContextIsFaithful
INVARIANT CopiesExactly
PROPERTY CopyEnds
\* A rejected pattern, a served request and a COPY that ended are the end.
CHECK_DEADLOCK FALSE
