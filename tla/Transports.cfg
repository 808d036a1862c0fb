SPECIFICATION TransportSpec
CONSTANTS
  Callers = {c1, c2, c3}
  max_batch = 2
  max_pending = 2
  Peers = {p1, p2}
  max_in_flight = 1
  Nobody = Nobody
INVARIANTS
  OwedOnce
  PermitsAreKept
  WirelessDrains
PROPERTIES
  EveryRequestIsAnswered
  ShutdownEnds
  EveryReceiverGoesOn
\* A server that has shut down stops.
CHECK_DEADLOCK FALSE
