SPECIFICATION Spec
CONSTANTS
  None = None
  Saver = Saver
  Checker = Checker
  Recoverer = Recoverer
  Note = {1, 2}
  Finding = {f1, f2}
  Casts <- SavesOnly
  Writer = {Saver, Checker, Recoverer}
  Verifies = {Checker, Recoverer}
  Repairs = {Saver, Recoverer}
  NoteOf <- NoteOf1
  Reader = {r1, r2}
  TTL = 1
  Page = 1
  MaxTime = 2
  Appends = 1
INVARIANT
  RecordedHasReport
CHECK_DEADLOCK FALSE
