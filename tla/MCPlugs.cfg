SPECIFICATION Spec
CONSTANTS
  Readers = {r1, r2}
  Writer = w
  MaxSnapshots = 3
  Undisturbed = TRUE
  NoSnapshot = none
  NumPlugs = 3
  Capabilities = {a, b}
  Manifests <- MCManifests
INVARIANTS
  TypeOK
  RequirementsRun
  StopsMatchStarts
  
SYMMETRY Symmetry
CHECK_DEADLOCK FALSE
