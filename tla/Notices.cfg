SPECIFICATION ActiveSpec
CONSTANTS
  Servers = {s1}
  NoServer = NoServer
  Observed <- AnyResult
  Reporting = {s1}
  Maintained = {s1}
  Switched = {s1}
  MaxFaults = 1
  MaxMisses = 1
INVARIANTS NoticesTypeOK NoticesAreReal LastWord SaidOnce IInv OutageHasItsIncident NoSilentChange
PROPERTIES ImplementsButOverride DownIsConfirmed UpIsRestored CrowdIsShown
