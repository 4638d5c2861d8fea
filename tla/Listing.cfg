SPECIFICATION FairSpec
CONSTANTS
  Ids = {1, 2}
  Requests = {q1}
  Worker = worker
  NoOne = noone
  MaxRev = 2
  Conditions = {"good", "bad", "repeated"}
  MaxFaults = 1
  owner = owner
  old = old
  new = new
  MembersOf <- MCMembersOf
INVARIANTS OneRevision
PROPERTIES Converges ImplementsCopy
