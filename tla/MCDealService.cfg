SPECIFICATION Spec

CONSTANTS
  Hashes = {h1, h2, h3}
  Users = {u}
  Limit = 1
  Day = 1
  Ticks = {t1, t2}
  Requests = {r1, r2}
  MaxTime = 2
  MaxLosses = 2

SYMMETRY Symmetric

INVARIANTS
  LimitNearlyKept
  VolumeCounts
  OpenOnlyIfLate

CHECK_DEADLOCK FALSE
