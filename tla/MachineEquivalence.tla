------------------------- MODULE MachineEquivalence -------------------------
(***************************************************************************)
(* The repository states the state policy twice: as the in-memory Machine  *)
(* of internal/incident, which counts, and as the queries of stateAfter,   *)
(* which look at the newest rows.  Here both see the same observations,    *)
(* one at a time, with the stored status handed to stateAfter as it is,    *)
(* without reports or maintenance.                                         *)
(***************************************************************************)
EXTENDS IncidentMachine, CheckPolicy

CONSTANT MaxRun    \* bound: the longest run of failures

ASSUME MaxRunAssumption == MaxRun \in Nat

VARIABLES
  status,   \* monitored_servers.status
  recent    \* the newest rows of checks

equivalenceVars == <<failures, successes, state, status, recent>>

PoliciesInit ==
  /\ MachineInit
  /\ status = state
  /\ recent = EmptyWindow

\* Mutant of Persist: the queries run before the row is inserted.
PersistBeforeInsert(o) ==
  LET d == StateAfter(recent, status, o)
  IN  /\ recent' = InsertCheck(recent, [outcome |-> o, maint |-> FALSE])
      /\ status' = IF d.changed THEN d.state ELSE status

\* RecordCheck: the row is inserted, then the policy looks at the rows.
Persist(o) ==
  LET d == StateAfter(recent', status, o)
  IN  /\ recent' = InsertCheck(recent, [outcome |-> o, maint |-> FALSE])
      /\ status' = IF d.changed THEN d.state ELSE status

Step(o) ==
  /\ o \in FailureOutcomes => failures < MaxRun
  /\ Apply(o)
  /\ Persist(o)

PoliciesNext == \E o \in Observed : Step(o)

PoliciesSpec == PoliciesInit /\ [][PoliciesNext]_equivalenceVars

-----------------------------------------------------------------------------
(* Properties *)

\* The stored status is always the Machine's state: counting consecutive
\* outcomes and querying the newest rows are the same policy.
SameState == status = state

\* How the counters and the rows correspond.
FailuresAreRows ==
  \A k \in 1..3 :
    failures >= k <=> \A i \in 1..k : recent[i].outcome \in FailureOutcomes

SuccessesAreRows ==
  /\ state = Outage => (successes = 1 <=> recent[1].outcome = Success)
  /\ state # Outage => successes = 0

PoliciesTypeOK ==
  /\ failures \in 0..MaxRun
  /\ successes \in 0..1
  /\ state \in StoredStatus
  /\ recent \in Window

EquivalenceInv == PoliciesTypeOK /\ FailuresAreRows /\ SuccessesAreRows /\ SameState

=============================================================================
