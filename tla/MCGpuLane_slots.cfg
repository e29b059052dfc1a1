CONSTANTS
  w1 = w1
  w2 = w2
  c1 = c1
  Duties = {1, 2}
  Deps <- MCDeps
  Workers = {w1, w2}
  Tag <- MCTagApart
  Collectors = {c1}
  Prompt = TRUE
  MaxCrashes = 0
SPECIFICATION Spec
INVARIANT DependenciesFirst
PROPERTY ActsAsLife
CHECK_DEADLOCK FALSE
