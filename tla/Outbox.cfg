SPECIFICATION FairSpec
CONSTANTS
  Servers = {s1, s2}
  MaxRows = 3
  Limit = 2
  MaxFaults = 1
INVARIANTS DeliveredWasPosted DuplicatesAreFaults
PROPERTY EventuallyDelivered
