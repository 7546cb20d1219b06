SPECIFICATION FairSpec
CONSTANTS
  k1 = k1
  k2 = k2
  k3 = k3
  None = None
  Key = {k1, k2}
  IpOnly = {}
  Poison = {k2}
  Unassigned = {}
  MaxCount = 2
  MaxPending = 2
  BatchLimit = 2
  MaxObserved = 2
  MaxFailures = 0
PROPERTY
  DomainsShown
