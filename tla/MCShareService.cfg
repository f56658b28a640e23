SPECIFICATION Spec

CONSTANTS
  Users = {a, b}
  Supply = 2
  Ticks = {t1}
  Requests = {r1}
  MaxLog = 3
  MaxAsked = 1
  MaxTransfers = 1
  MaxLosses = 1

SYMMETRY UserSymmetry

INVARIANTS
  TypeOK
  MirrorsChain

CHECK_DEADLOCK FALSE
