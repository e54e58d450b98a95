SPECIFICATION Spec
CONSTANTS
  q1 = q1
  q2 = q2
  l1 = l1
  l2 = l2
  a = a
  b = b
  f1 = f1
  f2 = f2
  None = None
  Process = {q1, q2}
  Lane = {l1, l2}
  PassID = {a, b}
  ProcessOf <- OtherProcess
  FingerprintOf <- OtherConfiguration
  MaxMessages = 1
  MaxAttempts = 1
  MaxFaults = 0
SYMMETRY Symmetry
INVARIANTS
  RequestsAreAccountedFor
  ProgressAndReportsAgree
CHECK_DEADLOCK FALSE
