SPECIFICATION Spec
CONSTANTS
  Threads = {t1}
  Budgets = {b1, b2}
  Reservations = {r1}
  MaxUnits = 1
  None = None
INVARIANT FinalHandleReleases
