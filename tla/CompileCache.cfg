SPECIFICATION Spec
CONSTANTS
  Procs = {p1, p2}
  Fingerprints = {f1, f2}
  Contents = {c1, c2}
  FaultPlans = {{"crash"}, {"power"}, {"rot", "loader"}}
  Nobody = Nobody
  Missing = Missing
  Garbage = Garbage
  NoBlob = NoBlob
INVARIANTS NoDanglingManifest PublicationsLast
