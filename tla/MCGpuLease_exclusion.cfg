CONSTANTS
  p1 = p1
  p2 = p2
  p3 = p3
  h1 = h1
  h2 = h2
  h3 = h3
  Procs = {p1, p2, p3}
  Handles = {h1, h2, h3}
  OwnerOf <- MCOwnerOf
  Prompt = TRUE
  Swift = TRUE
  MaxCrashes = 2
  Absent = Absent
  Empty = Empty
SPECIFICATION Spec
INVARIANTS
  TypeOK
  MutualExclusion
PROPERTY ActsAsLock
