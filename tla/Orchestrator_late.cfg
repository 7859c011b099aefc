\* Two calls on one transaction.
SPECIFICATION OrchestratorFairSpec
CONSTANTS
  None = None
  BPPs = {b1, b2}
  Transactions = {t1}
  Calls = {c1, c2}
  MaxFaults = 0
PROPERTIES
  LateCallbackIgnored
CHECK_DEADLOCK FALSE
