SPECIFICATION Spec
CONSTANTS
  window_size = 4
  num_history = 2
  batch_size = 2
  capacity = 10
  pool_tokens = 17
  dynamic_pool = TRUE
  page = 8
  max_new_tokens = 2
  tree_width = 3
  StartSizes = {4}
  turn_size = 1
  Frames = {2}
  Answers = {1, 2, 3}
  MaxCalls = 3
  MaxMemories = 4
  MaxFailures = 2
INVARIANTS MemoriesKeepTheirText RowsHoldTheirContext SlowMemoryIsComplete DecodeStaysInBounds
CHECK_DEADLOCK FALSE
