CONSTANTS
  w1 = w1
  w2 = w2
  c1 = c1
  Duties = {1}
  Deps <- MCDeps
  Workers = {w1}
  Tag <- MCTagShared
  Collectors = {}
  Prompt = TRUE
  MaxCrashes = 0
SPECIFICATION FairSpec
PROPERTY AwaitAnswered
CHECK_DEADLOCK FALSE
