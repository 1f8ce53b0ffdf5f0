SPECIFICATION FairSpec
CONSTANTS
  Threads = {t1, t2}
  Budgets = {b1, b2, b3}
  Reservations = {r1}
  MaxUnits = 1
  None = None
PROPERTY Drains
