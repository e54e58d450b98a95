SPECIFICATION Spec
CONSTANTS
  None = None
  f1 = f1
  f2 = f2
  page = 1
  Finding = {f1, f2}
  Call = {c1, c2}
  SeverityOf <- Severity
  IssueOf <- Issues
  Limit = 1
  NoteTtlTurns = 1
  Bounds <- MCBounds
INVARIANTS
  ContextsAgree
  GatesHold
  InjectedForItsTurns
PROPERTIES
  ContextGoesForward
  InjectedIsAssessed
SYMMETRY Symmetry
CHECK_DEADLOCK FALSE
