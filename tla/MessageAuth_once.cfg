\* One message, two arrivals, no restart.
SPECIFICATION AuthSpec
CONSTANTS
  None = None
  Messages = {m1}
  Arrivals = {a1, a2}
  Ttl = 1
  Skew = 1
  MaxDrift = 0
  TicksPerSecond = 2
  MaxTime = 8
  MaxRestarts = 0
INVARIANTS
  AcceptedOnce
CHECK_DEADLOCK FALSE
