CONSTANTS
  w1 = w1
  w2 = w2
  c1 = c1
  Duties = {1}
  Deps <- MCDeps
  Workers = {w1, w2}
  Tag <- MCTagShared
  Collectors = {c1}
  Prompt = FALSE
  MaxCrashes = 2
SPECIFICATION FairSpec
INVARIANTS
  TypeOK
  AtMostOneSubmit
  SuccessHonest
PROPERTIES
  SettledStays
  EnvelopesSettle
CHECK_DEADLOCK FALSE
