SPECIFICATION FairSpec
CONSTANTS
  t1 = t1
  t2 = t2
  h1 = h1
  Translations = {t1, t2}
  Checks = {}
  Workers = 1
  MaxAttempts = 2
CHECK_DEADLOCK FALSE
PROPERTY EveryTranslationEnds
