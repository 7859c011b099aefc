\* Two calls on two transactions, two BPPs, one failure.
SPECIFICATION OrchestratorFairSpec
CONSTANTS
  None = None
  BPPs = {b1, b2}
  Transactions = {t1, t2}
  Calls = {c1, c2}
  MaxFaults = 1
INVARIANTS
  RegistryIsLive
  SearchIsComplete
  ContractFromChosenBpp
  GrantNeedsContract
PROPERTIES
  CallAnswered
CHECK_DEADLOCK FALSE
