\* Four handlers on a page, one grant whose artifact is gone, two openings of the catalog, nine requests of the demo.
SPECIFICATION PagesSpec
CONSTANTS
  Handlers = {h1, h2, h3, h4}
  Offers = {o1, o2}
  Transactions = {t1, t2}
  Grants = {g1, g2}
  None = None
  o1 = o1
  o2 = o2
  LicenseOf <- MCLicenseOf
  Held = {g1}
  MaxHeld = 2
  MaxMounts = 2
  MaxRuns = 9
  MaxFaults = 1
  MaxLosses = 3
SYMMETRY MCSymmetry
INVARIANTS
  GrantOfItsSearch
  HeldAreTheLatest
  FlippedMeansRefused
  ShownIsRecorded
  NoPageIsStuck
CHECK_DEADLOCK FALSE
