CONSTANTS
  s1 = s1
  s2 = s2
  s3 = s3
  e1 = e1
  e2 = e2
  v1 = v1
  Jobs = {s1, s2, s3, e1, e2}
  Sharers = {s1, s2, s3}
  Vram <- MCVram
  Visits = {v1}
  Total = 4
SPECIFICATION FairSpec
INVARIANTS
  TypeOK
  Alone
  BooksBalance
  SharersFit
  RunningHolds
  NobodySleepsAlone
PROPERTIES
  ActsAsSharing
  JobsEnd
CHECK_DEADLOCK FALSE
