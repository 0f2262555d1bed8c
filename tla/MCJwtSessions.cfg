CONSTANTS
  p1 = p1
  p2 = p2
  r1 = r1
  r2 = r2
  Processes = {p1, p2}
  Slots = {r1, r2}
  None = None
  Keep = Keep
  Age = 2
  Leeway = 1
  MaxTime = 3
  MaxSessions = 2
  MaxKeys = 2
SPECIFICATION Spec
SYMMETRY Symmetry
INVARIANTS OneKey TokenGoesWithSession
PROPERTY NoRedirectLoop
CHECK_DEADLOCK FALSE
