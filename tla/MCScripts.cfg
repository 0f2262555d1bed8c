CONSTANTS
  edited = edited
  hiding = hiding
  Kinds = {edited, hiding}
  HidingKinds = {hiding}
  None = None
  MaxCommits = 2
  MaxJobs = 3
  a1 = a1
  a2 = a2
  pw = pw
  id = id
  key = key
  Apps = {a1, a2}
  Passwords = {pw}
  SsoPair = {id, key}
  NotSet = NotSet
  Blank = Blank
  Plain = Plain
  Odd = Odd
  ByHand = ByHand
  MaxChanges = 3
  MaxVolumes = 2
  Timeout = 8
  Grace = 3
  Interval = 1
  RequestTimeout = 2
  Never = Never
SPECIFICATION AnySpec
INVARIANTS OnePrOpen GivesUpForCause
PROPERTIES ReportsStand SetupOnlyAdds
CHECK_DEADLOCK FALSE
