------------------------------ MODULE Migrate ------------------------------
(***************************************************************************)
(* internal/migrate: Apply, run by the one-shot migrate service.  Every    *)
(* query is a round trip of its own on the pool; only a migration and its  *)
(* row in schema_migrations share a transaction.  A run can stop between   *)
(* any two of them, two runs can overlap, and the operator starts the      *)
(* service again until it succeeds.                                        *)
(***************************************************************************)
EXTENDS Naturals

CONSTANTS
  Runners,     \* migrate processes
  Layouts,     \* the schemas a first run may find, as sets of versions
  MaxFaults    \* bound: interrupted runs

Versions == 1..3   \* migrations/0001, 0002, 0003

ASSUME LayoutsAssumption == Layouts \subseteq {{}, {1}, {1, 2}}
ASSUME FaultsAssumption  == MaxFaults \in Nat

VARIABLES
  tables,    \* versions whose tables exist
  recorded,  \* schema_migrations
  pc,        \* where each run is
  version,   \* the migration file it is at
  faults

vars == <<tables, recorded, pc, version, faults>>

Init ==
  /\ tables \in Layouts
  /\ recorded = {}
  /\ pc = [r \in Runners |-> "down"]
  /\ version = [r \in Runners |-> 1]
  /\ faults = 0

Goto(r, label) == pc' = [pc EXCEPT ![r] = label]

Start(r) ==
  /\ pc[r] = "down"
  /\ Goto(r, "count")
  /\ version' = [version EXCEPT ![r] = 1]
  /\ UNCHANGED <<tables, recorded, faults>>

\* Mutant of Count: the baseline is tried on every run.
CountIgnored(r) ==
  /\ pc[r] = "count"
  /\ Goto(r, "existing")
  /\ UNCHANGED <<tables, recorded, version, faults>>

\* SELECT count(*): only an empty table leads to the baseline.
Count(r) ==
  /\ pc[r] = "count"
  /\ Goto(r, IF recorded = {} THEN "existing" ELSE "file")
  /\ UNCHANGED <<tables, recorded, version, faults>>

\* to_regclass('public.monitored_servers')
Existing(r) ==
  /\ pc[r] = "existing"
  /\ Goto(r, IF 1 \in tables THEN "baseline" ELSE "file")
  /\ UNCHANGED <<tables, recorded, version, faults>>

\* A version that is there already violates the primary key: the run fails.
Record(r, v, next) ==
  \/ /\ v \in recorded
     /\ Goto(r, "down")
     /\ UNCHANGED recorded
  \/ /\ v \notin recorded
     /\ Goto(r, next)
     /\ recorded' = recorded \cup {v}

Baseline(r) ==
  /\ pc[r] = "baseline"
  /\ Record(r, 1, "rollups")
  /\ UNCHANGED <<tables, version, faults>>

\* Mutant of HasRollups: the retention schema is taken for granted.
RollupsAssumed(r) ==
  /\ pc[r] = "rollups"
  /\ Goto(r, "baseline2")
  /\ UNCHANGED <<tables, recorded, version, faults>>

\* to_regclass('public.check_aggregates_15m')
HasRollups(r) ==
  /\ pc[r] = "rollups"
  /\ Goto(r, IF 2 \in tables THEN "baseline2" ELSE "file")
  /\ UNCHANGED <<tables, recorded, version, faults>>

BaselineRollups(r) ==
  /\ pc[r] = "baseline2"
  /\ Record(r, 2, "file")
  /\ UNCHANGED <<tables, version, faults>>

\* The loop over the sorted files: skip an applied one, or go and apply it.
File(r) ==
  /\ pc[r] = "file"
  /\ \/ /\ version[r] \notin Versions
        /\ Goto(r, "done")
        /\ UNCHANGED version
     \/ /\ version[r] \in Versions \cap recorded
        /\ version' = [version EXCEPT ![r] = @ + 1]
        /\ UNCHANGED pc
     \/ /\ version[r] \in Versions \ recorded
        /\ Goto(r, "apply")
        /\ UNCHANGED version
  /\ UNCHANGED <<tables, recorded, faults>>

\* Mutant of ApplyFile: a failed file is skipped.
ApplyOrSkip(r) ==
  /\ pc[r] = "apply"
  /\ Goto(r, "file")
  /\ version' = [version EXCEPT ![r] = @ + 1]
  /\ IF version[r] \in tables \cup recorded
     THEN UNCHANGED <<tables, recorded>>
     ELSE /\ tables' = tables \cup {version[r]}
          /\ recorded' = recorded \cup {version[r]}
  /\ UNCHANGED faults

\* One transaction: the CREATEs fail when the tables are there, the INSERT
\* when the version is; both roll back and end the run.
ApplyFile(r) ==
  /\ pc[r] = "apply"
  /\ \/ /\ version[r] \notin tables \cup recorded
        /\ tables' = tables \cup {version[r]}
        /\ recorded' = recorded \cup {version[r]}
        /\ version' = [version EXCEPT ![r] = @ + 1]
        /\ Goto(r, "file")
     \/ /\ version[r] \in tables \cup recorded
        /\ Goto(r, "down")
        /\ UNCHANGED <<tables, recorded, version>>
  /\ UNCHANGED faults

RunnerStep(r) ==
  \/ Start(r) \/ Count(r) \/ Existing(r) \/ Baseline(r) \/ HasRollups(r)
  \/ BaselineRollups(r) \/ File(r) \/ ApplyFile(r)

\* A query fails or the container is stopped; an open transaction rolls back.
Interrupt(r) ==
  /\ pc[r] \notin {"down", "done"}
  /\ faults < MaxFaults
  /\ faults' = faults + 1
  /\ Goto(r, "down")
  /\ UNCHANGED <<tables, recorded, version>>

\* The services that depend on a successful run are up: nothing is left to do.
Served ==
  /\ \A r \in Runners : pc[r] = "done"
  /\ UNCHANGED vars

Next == (\E r \in Runners : RunnerStep(r) \/ Interrupt(r)) \/ Served

Spec == Init /\ [][Next]_vars

\* A run that is started takes its steps, and the operator starts another one
\* after a run that failed.
FairSpec == Spec /\ \A r \in Runners : WF_vars(RunnerStep(r))

-----------------------------------------------------------------------------
(* Properties *)

TypeOK ==
  /\ tables \subseteq Versions
  /\ recorded \subseteq Versions
  /\ pc \in [Runners -> {"down", "count", "existing", "baseline", "rollups",
                         "baseline2", "file", "apply", "done"}]
  /\ version \in [Runners -> 1..4]
  /\ faults \in 0..MaxFaults

\* A version in schema_migrations has its tables, in the layouts that are
\* baselined (migrate.go:30, 38) and for runs that overlap or were cut off.
RecordedIsReal == recorded \subseteq tables

\* The services start (depends_on: service_completed_successfully) only on a
\* complete schema.
DoneIsComplete == \A r \in Runners : pc[r] = "done" => recorded = Versions

\* What a run has found so far, and what it has behind it.
Found(r) ==
  /\ pc[r] \in {"count", "existing", "baseline", "rollups", "baseline2"}
       => version[r] = 1
  /\ pc[r] = "baseline" => 1 \in tables
  /\ pc[r] = "baseline2" => 2 \in tables
  /\ pc[r] = "apply" => version[r] \in Versions
  /\ pc[r] \in {"file", "apply"} =>
       \A v \in Versions : v < version[r] => v \in recorded
  /\ pc[r] = "done" => recorded = Versions

\* The inductive invariant.
RecordedInv == TypeOK /\ RecordedIsReal /\ \A r \in Runners : Found(r)

\* The first baseline row is there and the second one is not.
Cut == recorded = {1} /\ 2 \in tables

\* README.md:26: re-running Compose is safe.  Repeated runs succeed in the end,
\* whatever overlaps or is interrupted, with the one exception of a run that
\* stops for good between the two baseline rows (migrate.go:30, 38).
MigratedUnlessCut == (\A r \in Runners : <>(pc[r] = "done")) \/ <>[]Cut

=============================================================================
