SPECIFICATION Spec
CONSTANTS
  c1 = c1  c2 = c2  a1 = a1  p1 = p1  p2 = p2  p3 = p3  p4 = p4
  Clients = {c1, c2, p1, p2, p3, p4}
  Accounts = {a1}
  Active = {c1, c2, a1}
  Requests = {r1, r2, r3}
  MaxTime = 46
  Lookback = 32
  Kept = 34
  Patience = 2
  Bucket <- MCBucket
  Day <- MCDay
  Slot <- MCSlot
  Beginnings <- Starts
SYMMETRY Interchangeable
INVARIANTS CrowdInv CountedOnce NotOneReporter
PROPERTIES RetentionIsInvisible SpikeLasts
