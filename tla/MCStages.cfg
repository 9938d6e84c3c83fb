SPECIFICATION StagesSpec
CONSTANTS
  Cases <- MCCases
  Names <- MCNames
  MaxMoves = 2
  MaxDirectives = 2
  Mnt = "mnt"
  None = None
  Inputs <- MCInputs
  MaxLinks = 3
  StageNames = {1, 2, 3}
  MaxSelectors = 2
INVARIANT SoundOrder
INVARIANT SoundVerdict
INVARIANT StageIsKept
INVARIANT RootIsSafe
PROPERTY PlannerEnds
PROPERTY StageEnds
\* An unmounted stage and a started or failed command are the end.
CHECK_DEADLOCK FALSE
