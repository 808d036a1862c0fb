SPECIFICATION Spec
CONSTANTS
  Callers = {c1, c2}
  Keys = {k1, k2}
  Replicas = {r1}
  MaxGates = 2
INVARIANTS
  FailedReplicaStops
\* The bound on the order of gates may stop the model.
CHECK_DEADLOCK FALSE
