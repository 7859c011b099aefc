\* Postgres: one grant, two concurrent revoke requests, the sweep and the save on
\* two connections, with every failure.  Boot: two BPPs and the Access Manager,
\* two crashes.  Memory: two grants, two downloads, one restart.
SPECIFICATION StoresSpec
CONSTANTS
  b1 = b1
  s1 = s1
  o1 = o1
  None = None
  Sweeper = Sweeper
  BPPs = {b1}
  Resources = {s1}
  Offers = {o1}
  Fields = {}
  Skew = 0
  Grants = {g1}
  Requests <- MCRequests
  MaxTime = 2
  MaxDrift = 0
  MaxFaults = 1
  Revokers = {r1, r2}
  PoolSize = 2
  Managers = {am}
  Bpps = {tabular, image}
  MaxCrashes = 2
  TTL = 0
  MemorySkew = 1
  Cap = 1
  MaxClock = 2
  MaxRestarts = 1
  MemoryGrants = {m1, m2}
  MemoryDownloads = {n1, n2}
INVARIANTS
  LedgerMatchesTable
  AnsweredMeansRevoked
  RevokedOnce
  HeldIsRecorded
  BootsDoNotCollide
  MemoryKeepsItsWord
PROPERTIES
  LedgerMovesForward
  RevokeAnswered
  ExpiredIsSwept
  EveryoneBoots
