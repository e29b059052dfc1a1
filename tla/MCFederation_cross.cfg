CONSTANTS
  a = a
  b = b
  r1 = r1
  r2 = r2
  p1 = p1
  p2 = p2
  NoHost = NoHost
  Hosts = {a, b}
  Requests = {r1, r2}
  Entry <- MCEntry
  Peers <- MCPeers
  Pollers = {p1, p2}
  Asked <- MCAsked
  Limit = 2
  MaxRestarts = 2
SPECIFICATION FairSpec
INVARIANTS
  TypeOK
  AtMostOneHost
  SuccessHonest
PROPERTIES
  ActsAsCall
  SubmissionsAnswered
  RecordsSettle
CHECK_DEADLOCK FALSE
