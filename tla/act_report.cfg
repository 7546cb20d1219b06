SPECIFICATION FairSpec
CONSTANTS
  k1 = k1
  k2 = k2
  k3 = k3
  None = None
  Key = {k1, k2, k3}
  IpOnly = {k2}
  Poison = {k3}
  Unassigned = {k2}
  MaxCount = 2
  MaxPending = 2
  BatchLimit = 2
  MaxObserved = 3
  MaxFailures = 1
INVARIANTS
  OneRowPerKey
  NothingVanishes
  NoDoubleCount
  DisabledHoldsNothing
PROPERTY
  Reported
