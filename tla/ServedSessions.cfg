SPECIFICATION ServedSpec
CONSTANTS
  a0 = a0
  a1 = a1
  b0 = b0
  Handlers = {h1, h2}
  Sessions = {s1}
  StepIds = {a0, a1, b0}
  ResetIds = {r, q}
  StepOf <- MCStepOf
  Contents = {x, y}
  Continuing = {y}
  maximum_sessions = 1
  idempotency_cache_size = 1
  history_frames = 1
  MaxRevision = 5
SYMMETRY Interchangeable
INVARIANTS
  AdapterFollowsSession
  ClosedLeavesNothing
  NoEarlyRepeat
  MemoryFollowsEpisode
PROPERTIES
  AnswersAreCommitted
  AnswersAreOfThisEpisode
\* The bound on revisions stops the model.
CHECK_DEADLOCK FALSE
