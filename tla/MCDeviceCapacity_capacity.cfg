CONSTANTS
  big = big
  small = small
  picture = picture
  chat = chat
  a = a
  b = b
  c = c
  p = p
  Jobs = {a, b, c}
  Preps = {p}
  Models = {big, small, picture, chat}
  RuntimeOf <- MCRuntimeOf
  Size <- MCSize
  Model <- MCModel
  Need <- MCNeed
  Gentle = {c}
  Public = {"strata"}
  Total = 4
  Nothing = Nothing
  Nobody = Nobody
INVARIANTS
  TypeOK
  Undisturbed
  MeasuredFits
PROPERTIES
  ActsAsSharing
  JobsEnd
SPECIFICATION FairSpec
CHECK_DEADLOCK FALSE
