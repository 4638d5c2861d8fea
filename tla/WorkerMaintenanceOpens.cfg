SPECIFICATION Spec
CONSTANTS
  Servers = {s1}
  NoServer = NoServer
  Observed <- AnyResult
  Reporting = {}
  Maintained = {s1}
  Switched = {}
  MaxFaults = 0
PROPERTY MaintenanceNeverOpens
ACTION_CONSTRAINT WindowsBetweenPasses
