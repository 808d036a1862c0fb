SPECIFICATION RefitSpec
CONSTANTS
  Keys = {k1}
  Threads = {t1, t2}
  EventsFail = TRUE
  MaxLeases = 2
  MaxEpoch = 1
  Tensors = {w1, w2}
  MaxVersion = 2
  SerialRefit = TRUE
INVARIANTS
  MemoryIsOfThisPolicy
PROPERTIES
  PublishedVersionIsInstalled
\* The bounds on leases, epochs and versions stop the model.
CHECK_DEADLOCK FALSE
