SPECIFICATION FairSpec
CONSTANTS
  q1 = q1
  q2 = q2
  l1 = l1
  l2 = l2
  a = a
  b = b
  f1 = f1
  f2 = f2
  None = None
  Process = {q1}
  Lane = {l1}
  PassID = {a, b}
  ProcessOf <- SameProcess
  FingerprintOf <- SameConfiguration
  MaxMessages = 2
  MaxAttempts = 2
  MaxFaults = 1
PROPERTIES
  CursorNeverMovesBack
  LaneFrees
CHECK_DEADLOCK FALSE
