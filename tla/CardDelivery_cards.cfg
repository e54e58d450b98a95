SPECIFICATION FairSpec
CONSTANTS
  n1 = n1
  f1 = f1
  None = None
  Note = {n1, n2}
  Finding = {f1, f2}
  Attempts = 3
  Bounds <- TurnsThenFailures
INVARIANTS
  CardsAgree
PROPERTIES
  SentByTheRules
  LeavesForAReason
  QueueDrains
CHECK_DEADLOCK FALSE
