SPECIFICATION FairSpec
CONSTANTS
  t1 = t1
  t2 = t2
  h1 = h1
  Translations = {t1, t2}
  Checks = {h1}
  Workers = 2
  MaxAttempts = 2
CHECK_DEADLOCK FALSE
INVARIANTS TypeOK NobodyWaitsForNothing
PROPERTIES NoCallForNobody EveryInvokeEnds
