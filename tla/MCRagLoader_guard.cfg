SPECIFICATION Spec
CONSTANTS
  t1 = t1
  t2 = t2
  Threads = {t1, t2}
  Roots = {"r1", "r2"}
  Kbs = {"k1"}
  Files <- CheckoutFiles
  HostNames = {"config"}
  MaxCalls = 3
CHECK_DEADLOCK FALSE
SYMMETRY ThreadSymmetry
INVARIANTS
  TypeOK
  NamesRestored
  NothingLeaks
  RagIsItsOwn
  LockIsOfTheLoad
PROPERTIES
  SingleImport
