SPECIFICATION Spec
CONSTANTS
  p1 = p1
  p2 = p2
  l1 = l1
  l2 = l2
  f1 = f1
  f2 = f2
  None = None
  Process = {p1, p2}
  Lane = {l1, l2}
  PassID = {a}
  ProcessOf <- TwoLanes
  FingerprintOf <- TwoConfigurations
  MaxFaults = 1
  MaxRequests = 1
INVARIANT NothingHeldAfterClose
CHECK_DEADLOCK FALSE
