SPECIFICATION Spec
CONSTANTS
  Requests = {q1, q2, q3, q4}
  max_batch_size = 2
  CollateFails = FALSE
  MaxStops = 1
INVARIANTS
  OwedOnce
  OwnAnswer
PROPERTIES
  EveryRequestIsAnswered
\* The model ends when every request has its answer.
CHECK_DEADLOCK FALSE
