CONSTANTS
  Calls = {c1, c2}
  Offers = {o1, o2}
  Licensed = {o1, o2}
  Transactions = {t1, t2}
  Grants = {g1, g2}
  MaxFaults = 1
  None = None
SPECIFICATION McpSpec
INVARIANT RevokeToolIsTruthful
CHECK_DEADLOCK FALSE
