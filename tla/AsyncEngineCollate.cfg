SPECIFICATION Spec
CONSTANTS
  Requests = {q1, q2}
  max_batch_size = 2
  CollateFails = TRUE
  MaxStops = 0
PROPERTIES
  EveryRequestIsAnswered
\* The model ends when every request has its answer.
CHECK_DEADLOCK FALSE
