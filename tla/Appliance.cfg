SPECIFICATION ApplianceSpec
CONSTANTS
  MaxBabble = 2
  Points = {root, esp}
  Domains = {run1}
  MaxFaults = 2
INVARIANT ApplianceIsSound
PROPERTY ApplianceEnds
\* The process ends, and a guest may wait for ever for a host that left.
CHECK_DEADLOCK FALSE
