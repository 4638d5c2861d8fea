--------------------------- MODULE IncidentMachine ---------------------------
(***************************************************************************)
(* internal/incident: the in-memory Machine that states the v1 contract    *)
(* for one server.  Three consecutive failures open an outage, two         *)
(* consecutive successes close it, a fault of the probe gives UNKNOWN.     *)
(***************************************************************************)
EXTENDS Domain, Naturals

CONSTANT Observed   \* the outcomes the probe may report

ASSUME ObservedAssumption == Observed \subseteq Outcome

VARIABLES
  failures,    \* Machine.failures
  successes,   \* Machine.successes
  state        \* Machine.state

machineVars == <<failures, successes, state>>

\* New(state): the counters start at zero, the caller chooses the state.
New(initial) ==
  /\ state = initial
  /\ failures = 0
  /\ successes = 0

MachineInit == \E initial \in StoredStatus : New(initial)

ApplyProbeError ==
  /\ state' = Unknown
  /\ failures' = 0
  /\ successes' = 0

\* One success in an outage is only counted, the second one recovers.
ApplySuccess ==
  /\ failures' = 0
  /\ \/ /\ state = Outage
        /\ successes + 1 < 2
        /\ successes' = successes + 1
        /\ UNCHANGED state
     \/ /\ state = Outage => successes + 1 >= 2
        /\ successes' = 0
        /\ state' = Operational

ApplyFailure ==
  /\ successes' = 0
  /\ failures' = failures + 1
  /\ state' = IF failures' >= 3 THEN Outage ELSE state

Apply(o) ==
  \/ o = ProbeError /\ ApplyProbeError
  \/ o = Success /\ ApplySuccess
  \/ o \in FailureOutcomes /\ ApplyFailure

MachineNext == \E o \in Observed : Apply(o)

MachineSpec == MachineInit /\ [][MachineNext]_machineVars

=============================================================================
