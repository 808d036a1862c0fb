SPECIFICATION Spec
CONSTANTS
  Callers = {c1, c2}
  Keys = {k1, k2}
  Replicas = {r1, r2}
  MaxGates = 3
SYMMETRY Names
INVARIANTS
  MemoryIsAtPin
  RoutedIsPinned
  ResetIsComplete
  OneCallPerSession
  GatesAreThoseInUse
  WaitsClimb
PROPERTIES
  NoReplay
\* The bound on the order of gates may stop the model.
CHECK_DEADLOCK FALSE
