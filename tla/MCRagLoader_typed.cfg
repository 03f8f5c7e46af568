SPECIFICATION Spec
CONSTANTS
  t1 = t1
  t2 = t2
  Threads = {t1}
  Roots = {"r1"}
  Kbs = {"k1"}
  Files <- CheckoutFiles
  HostNames = {"config"}
  MaxCalls = 1
CHECK_DEADLOCK FALSE
INVARIANTS
  FailuresAreTyped
