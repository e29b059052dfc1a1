CONSTANTS
  big = big
  small = small
  picture = picture
  chat = chat
  a = a
  b = b
  c = c
  p = p
  Jobs = {a, b, c}
  Preps = {}
  Models = {big, small, picture, chat}
  RuntimeOf <- MCRuntimeOf
  Size <- MCSize
  Model <- MCModel
  Need <- MCNeed
  Gentle = {c}
  Public = {}
  Total = 4
  Nothing = Nothing
  Nobody = Nobody
INVARIANT AdmittedFits
SPECIFICATION Spec
CHECK_DEADLOCK FALSE
