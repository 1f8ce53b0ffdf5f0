SPECIFICATION Spec
CONSTANTS
  Threads = {t1, t2}
  Budgets = {b1, b2, b3}
  Reservations = {r1, r2}
  MaxUnits = 2
  None = None
SYMMETRY Symmetry
INVARIANTS
  TypeOK
  UsedWithinCapacity
  Conservation
  NoTerminate
  NoDangling
  SubtreeWithinCapacity
