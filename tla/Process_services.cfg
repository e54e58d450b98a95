SPECIFICATION ProcessSpec
CONSTANTS
  r1 = r1 r2 = r2 v1 = v1 v2 = v2 c1 = c1 c2 = c2 c3 = c3 c4 = c4 A = A B = B
  p1 = p1 p2 = p2 None = None s1 = s1 s2 = s2 d1 = d1 d2 = d2 o1 = o1
  Runtime = {r1, r2}
  Provider = {v1, v2}
  Call = {c1, c2, c3, c4}
  Pool = {p1, p2}
  RuntimeOf <- CallRuntime
  ProviderOf <- CallProvider
  RootOf <- CallRoot
  AttemptOf <- CallAttempt
  limit = 1
  Store = {s1, s2}
  Dir = {d1, d2}
  MaxRequests = 2
  MaxWorkers = 2
  MaxFailures = 1
  Observer = {o1}
  MaxUsage = 2
  MaxTranscript = 2
  MaxLimit = 3
  MaxIncidents = 1
INVARIANTS
  PermitsAddUp
  RequestsAreTold
  UsageIsHonest
PROPERTIES
  WaiterServed
  DatabaseSettles
  UsageSettles
CHECK_DEADLOCK FALSE
