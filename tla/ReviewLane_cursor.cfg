SPECIFICATION Spec
CONSTANTS
  q1 = q1 q2 = q2 l1 = l1 l2 = l2 a = a b = b f1 = f1 f2 = f2 None = None
  Process = {q1}
  Lane = {l1}
  PassID = {a}
  ProcessOf <- SameProcess
  FingerprintOf <- SameConfiguration
  MaxMessages = 1
  MaxAttempts = 1
  MaxFaults = 0
CHECK_DEADLOCK FALSE
INVARIANTS
  CursorIsPersisted
