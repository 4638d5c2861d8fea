SPECIFICATION Spec
CONSTANTS
  Servers = {s1}
  NoServer = NoServer
  Observed <- AnyResult
  Reporting = {s1}
  Maintained = {}
  Switched = {}
  MaxFaults = 0
PROPERTY ImplementsContract
