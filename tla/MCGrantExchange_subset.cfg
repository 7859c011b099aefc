\* A grant for one field of two.
SPECIFICATION Spec
CONSTANTS
  b1 = b1
  b2 = b2
  s1 = s1
  o1 = o1
  o2 = o2
  f1 = f1
  f2 = f2
  None = None
  Sweeper = Sweeper
  BPPs = {b1, b2}
  Resources = {s1}
  Offers = {o1, o2}
  Fields = {f1, f2}
  Sampled = {}
  Skew = 0
  Grants = {g1}
  Requests <- SubsetRequests
  DownloadRequests <- SubsetDownloads
  MaxTime = 0
  MaxDrift = 0
  MaxFaults = 0
  Revokers = {r1}
  PoolSize = 1
  Downloads = {d1, d2}
INVARIANTS
  SubsetConfined
