\* Arrivals: one message, three copies of it, one restart; clocks a second apart.
\* JSON: every value of MCValues, two keys, two headers.
SPECIFICATION MessagesSpec
CONSTANTS
  None = None
  Messages = {m1}
  Arrivals = {a1, a2, a3}
  Ttl = 1
  Skew = 1
  MaxDrift = 1
  TicksPerSecond = 2
  MaxTime = 9
  MaxRestarts = 1
  Names = {1, 2}
  Scalars <- MCScalars
  MaxNesting = 2
  Values <- MCValues
  Keys = {k1, k2}
  Headers = {h1, h2}
  Malformed = Malformed
SYMMETRY MCSymmetry
INVARIANTS
  FreshIsTimely
  OnlyAcceptanceBurnsNonce
  SignedLosesNothing
  IntactVerifies
  MessagesAreSigned
  AcceptedIsWhatWasSigned
PROPERTIES
  OnceWhileRemembered
CHECK_DEADLOCK FALSE
