SPECIFICATION Spec
CONSTANTS
  u1 = u1
  r1 = r1
  r2 = r2
  None = None
  User = {u1}
  Tables <- RotateTables
  Record = {r1, r2}
  Lease = 12
  Timeout = 2
  PollGap = 1
  Watch = 1
  Horizon = 16
INVARIANTS
  RevokedEnds
  RulesAge
  OneMissTolerated
  ChangesArrive
