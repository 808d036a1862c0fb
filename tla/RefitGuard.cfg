SPECIFICATION RefitSpec
CONSTANTS
  Keys = {k1}
  Threads = {t1}
  EventsFail = FALSE
  MaxLeases = 2
  MaxEpoch = 1
  Tensors = {w1}
  MaxVersion = 1
  SerialRefit = FALSE
INVARIANTS
  GuardSeesSessionState
CHECK_DEADLOCK FALSE
