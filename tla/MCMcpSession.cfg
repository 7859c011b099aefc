CONSTANTS
  Calls = {c1, c2, c3, c4}
  Offers = {o1, o2}
  Licensed = {o1, o2}
  Transactions = {t1, t2}
  Grants = {g1, g2}
  MaxFaults = 1
  None = None
SPECIFICATION McpSpec
SYMMETRY MCSymmetry
INVARIANT OfferPrecedesTransaction HeldIsAnswered GrantFitsOffer ToldRevokedIsRefused
CHECK_DEADLOCK FALSE
