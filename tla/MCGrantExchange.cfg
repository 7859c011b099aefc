\* One grant, three concurrent downloads, one revocation, one failure, also against the abstract gate.
SPECIFICATION Spec
CONSTANTS
  b1 = b1
  b2 = b2
  s1 = s1
  o1 = o1
  o2 = o2
  f1 = f1
  f2 = f2
  None = None
  Sweeper = Sweeper
  BPPs = {b1, b2}
  Resources = {s1}
  Offers = {o1, o2}
  Fields = {f1, f2}
  Sampled = {}
  Skew = 1
  Grants = {g1}
  Requests <- CapRequests
  DownloadRequests <- PlainDownloads
  MaxTime = 1
  MaxDrift = 0
  MaxFaults = 1
  Revokers = {r1}
  PoolSize = 1
  Downloads = {d1, d2, d3}
SYMMETRY MCSymmetry
INVARIANTS
  ExchangeInv
  CapRespected
  NoSlotWasted
  RevocationHonoured
PROPERTIES
  ImplementsGate
