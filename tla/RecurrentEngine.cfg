SPECIFICATION EngineSpec
CONSTANTS
  Keys = {k1, k2}
  Threads = {t1, t2}
  EventsFail = TRUE
  MaxLeases = 3
  MaxEpoch = 1
INVARIANTS
  ActiveLeaseIsCurrent
  CommittedIsOneEpisode
  NoOrphanLease
PROPERTIES
  StaleStaysStale
  ImplementsRegister
  GroupsCommitWhole
  SessionsBecomeFree
\* The bounds on leases and epochs stop the model when they are reached.
CHECK_DEADLOCK FALSE
