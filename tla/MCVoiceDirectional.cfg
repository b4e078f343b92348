SPECIFICATION Spec
CONSTANTS
  c1 = c1
  c2 = c2
  c3 = c3
  Connections = {c1, c2, c3}
  UserOf <- Owners
  Controlled <- FromFirst
  MaxTime = 2
  MaxControls = 2
  MaxChanges = 2
  MaxRemovals = 1
SYMMETRY Alike
INVARIANTS
  CutsFollowBlocks
  
\* The model ends with the recording.
CHECK_DEADLOCK FALSE
