------------------------------- MODULE Worker -------------------------------
(***************************************************************************)
(* The monitoring pass of internal/monitor (RunOnce, check) against the    *)
(* rows that store.RecordCheck, RecordUserReport and the owner console     *)
(* share with it.                                                          *)
(*                                                                         *)
(* The Worker is one goroutine.  It takes a snapshot of the enabled        *)
(* servers, then checks them one after the other; a check makes up to      *)
(* three attempts, each of them a probe and one transaction, and works on  *)
(* its own copy of the server: `local' is server.Status, which starts as   *)
(* the snapshot's value and is overwritten with what RecordCheck returned, *)
(* whether or not that was stored.  The API process changes the same rows  *)
(* between any two of its steps.                                           *)
(***************************************************************************)
EXTENDS CheckPolicy

CONSTANTS
  Servers,      \* monitored_servers
  NoServer,     \* no check is under way
  Observed,     \* the outcomes a probe may yield
  Reporting,    \* servers whose players send reports
  Maintained,   \* servers whose owners schedule maintenance
  Switched,     \* servers whose owners use the enabled switch
  MaxFaults     \* bound: crashes and failed calls of the Worker

ASSUME ServersAssumption    == NoServer \notin Servers
ASSUME ObservedAssumption   == Observed \subseteq Outcome
ASSUME InputsAssumption     == /\ Reporting \subseteq Servers
                               /\ Maintained \subseteq Servers
                               /\ Switched \subseteq Servers
ASSUME FaultsAssumption     == MaxFaults \in Nat

VARIABLES
  status,      \* monitored_servers.status
  recent,      \* the newest rows of checks, per server
  incidents,   \* the OPEN rows of incidents, per server
  enabled,     \* monitored_servers.enabled
  maint,       \* a maintenance window covers now()
  anomalous,   \* what crowdSignal yields now
  report,      \* the API has a RecordUserReport open that read a spike
  pc,          \* where the Worker is
  todo,        \* the snapshot: servers still to be checked in this pass
  cur,         \* the server being checked
  local,       \* server.Status of the copy that check works on
  attempt,     \* the loop variable of check
  tx,          \* what RecordCheck is about to commit
  notices,     \* history: 1 once the present status is announced or queued
  faults       \* faults so far

database == <<status, recent, incidents, enabled, maint, anomalous, report>>
thread   == <<pc, todo, cur, local, attempt, tx>>
vars     == <<database, thread, notices, faults>>

Skip      == "SKIP"    \* not in the snapshot, or checked already
Tx        == [row : Row, state : PublicStatus, changed : BOOLEAN]
NoTx      == [row |-> NoRow, state |-> Unknown, changed |-> FALSE]

\* Column defaults of a freshly imported server.
Init ==
  /\ status    = [s \in Servers |-> Unknown]
  /\ recent    = [s \in Servers |-> EmptyWindow]
  /\ incidents = [s \in Servers |-> {}]
  /\ enabled   = [s \in Servers |-> TRUE]
  /\ maint     = [s \in Servers |-> FALSE]
  /\ anomalous = [s \in Servers |-> FALSE]
  /\ report    = [s \in Servers |-> FALSE]
  /\ pc = "idle"
  /\ todo = [s \in Servers |-> Skip]
  /\ cur = NoServer
  /\ local = Unknown
  /\ attempt = 0
  /\ tx = NoTx
  /\ notices = [s \in Servers |-> 1]
  /\ faults = 0

-----------------------------------------------------------------------------
(* The Worker *)

\* EnabledServers: MAINTENANCE is computed, every other state is the stored one.
Listed(s) ==
  IF ~enabled[s] THEN Skip
  ELSE IF maint[s] THEN Maintenance
  ELSE status[s]

RunOnce ==
  /\ pc = "idle"
  /\ pc' = "pick"
  /\ todo' = [s \in Servers |-> Listed(s)]
  /\ UNCHANGED <<database, cur, local, attempt, tx, notices, faults>>

\* The loop of RunOnce.  created_at orders the servers in an order the model
\* leaves open.
StartCheck(s) ==
  /\ pc = "pick"
  /\ todo[s] # Skip
  /\ pc' = "probe"
  /\ todo' = [todo EXCEPT ![s] = Skip]
  /\ cur' = s
  /\ local' = todo[s]
  /\ attempt' = 0
  /\ UNCHANGED <<database, tx, notices, faults>>

EndPass ==
  /\ pc = "pick"
  /\ \A s \in Servers : todo[s] = Skip
  /\ pc' = "idle"
  /\ UNCHANGED <<database, todo, cur, local, attempt, tx, notices, faults>>

\* Mutant of Decision: no early commit for a server in maintenance.
DecisionInMaintenance(s, o) ==
  LET row == [outcome |-> o, maint |-> maint[s]]
      d   == Decide(InsertCheck(recent[s], row), local, o, anomalous[s])
  IN  [row |-> row, state |-> d.state, changed |-> d.changed]

\* RecordCheck up to its writes, for a probe that yielded o: a server that is
\* in maintenance FOR THE SNAPSHOT only has its row stored.
Decision(s, o) ==
  LET row == [outcome |-> o, maint |-> maint[s]]
      d   == IF local = Maintenance
             THEN [state |-> Maintenance, changed |-> FALSE]
             ELSE Decide(InsertCheck(recent[s], row), local, o, anomalous[s])
  IN  [row |-> row, state |-> d.state, changed |-> d.changed]

\* probe, then the transaction begins, inserts and reads.
Observe ==
  /\ pc = "probe"
  /\ \E o \in Observed : tx' = Decision(cur, o)
  /\ pc' = "commit"
  /\ UNCHANGED <<database, todo, cur, local, attempt, notices, faults>>

\* Mutant of Write: the incident is closed without regard to `changed'.
WriteResolvesEarly ==
  /\ recent' = [recent EXCEPT ![cur] = InsertCheck(recent[cur], tx.row)]
  /\ status' = [status EXCEPT ![cur] = IF tx.changed THEN tx.state ELSE @]
  /\ notices' = [notices EXCEPT ![cur] =
                   IF tx.changed /\ status[cur] # tx.state THEN 0 ELSE @]
  /\ \/ /\ tx.changed /\ tx.state = Outage
        /\ incidents' = [incidents EXCEPT ![cur] = OpenIncident(@)]
     \/ /\ local = Outage /\ tx.state = Operational
        /\ \E open \in ResolveIncident(incidents[cur]) :
             incidents' = [incidents EXCEPT ![cur] = open]
     \/ /\ ~(tx.changed /\ tx.state = Outage)
        /\ ~(local = Outage /\ tx.state = Operational)
        /\ UNCHANGED incidents

\* What the committed transaction leaves in the database.
Write ==
  /\ recent' = [recent EXCEPT ![cur] = InsertCheck(recent[cur], tx.row)]
  /\ \/ /\ ~tx.changed
        /\ UNCHANGED <<status, incidents, notices>>
     \/ /\ tx.changed
        /\ status' = [status EXCEPT ![cur] = tx.state]
        /\ notices' = IF status[cur] = tx.state THEN notices
                      ELSE [notices EXCEPT ![cur] = 0]
        /\ \/ /\ tx.state = Outage
              /\ incidents' = [incidents EXCEPT ![cur] = OpenIncident(@)]
           \/ /\ local = Outage /\ tx.state = Operational
              /\ \E open \in ResolveIncident(incidents[cur]) :
                   incidents' = [incidents EXCEPT ![cur] = open]
           \/ /\ tx.state # Outage
              /\ ~(local = Outage /\ tx.state = Operational)
              /\ UNCHANGED incidents

\* check returns: its locals are gone.
Return ==
  /\ pc' = "pick"
  /\ cur' = NoServer
  /\ local' = Unknown
  /\ attempt' = 0
  /\ tx' = NoTx
  /\ UNCHANGED todo

\* The early returns at the end of check's loop body.
Returns ==
  \/ tx.state = Maintenance
  \/ tx.row.outcome = ProbeError
  \/ tx.row.outcome = Success /\ local # Outage
  \/ tx.row.outcome = Success /\ local = Outage /\ attempt = 1
  \/ attempt = 2

\* server.Status = state, then return or sleep and try again.
Continue ==
  \/ Returns /\ Return
  \/ /\ ~Returns
     /\ pc' = "probe"
     /\ local' = tx.state
     /\ attempt' = attempt + 1
     /\ tx' = NoTx
     /\ UNCHANGED <<todo, cur>>

Commit ==
  /\ pc = "commit"
  /\ Write
  /\ \/ ~tx.changed /\ Continue
     \/ /\ tx.changed
        /\ pc' = "notify"
        /\ UNCHANGED <<todo, cur, local, attempt, tx>>
  /\ UNCHANGED <<enabled, maint, anomalous, report, faults>>

\* A notice of a status that is no longer stored announces nothing.
Announced(s, state) ==
  IF state = status[s] THEN [notices EXCEPT ![s] = 1] ELSE notices

Notify ==
  /\ pc = "notify"
  /\ notices' = Announced(cur, tx.state)
  /\ Continue
  /\ UNCHANGED <<database, faults>>

WorkerStep ==
  \/ RunOnce
  \/ \E s \in Servers : StartCheck(s)
  \/ EndPass
  \/ Observe
  \/ Commit
  \/ Notify

-----------------------------------------------------------------------------
(* Faults of the Worker's calls, MaxFaults of them at most *)

Fault == faults < MaxFaults /\ faults' = faults + 1

\* RecordCheck fails and rolls back: check logs it and returns.
RecordFails ==
  /\ pc = "commit"
  /\ Fault
  /\ Return
  /\ UNCHANGED <<database, notices>>

\* The commit is durable but its acknowledgement is lost: same return.
CommitUnacked ==
  /\ pc = "commit"
  /\ Fault
  /\ Write
  /\ Return
  /\ UNCHANGED <<enabled, maint, anomalous, report>>

\* StateChanged fails: the error is logged and the loop goes on.
NotifyFails ==
  /\ pc = "notify"
  /\ Fault
  /\ Continue
  /\ UNCHANGED <<database, notices>>

\* The process ends, or its context is cancelled; it starts over with a new
\* snapshot.  A transaction under way is rolled back.
Crash ==
  /\ pc # "idle"
  /\ Fault
  /\ pc' = "idle"
  /\ todo' = [s \in Servers |-> Skip]
  /\ cur' = NoServer
  /\ local' = Unknown
  /\ attempt' = 0
  /\ tx' = NoTx
  /\ UNCHANGED <<database, notices>>

Faulty == RecordFails \/ CommitUnacked \/ NotifyFails \/ Crash

-----------------------------------------------------------------------------
(* The API process and time *)

\* RecordUserReport inserts and reads an anomalous signal, at the instant the
\* report was stamped with, which may lie in an earlier bucket.  A report that
\* reads no spike leaves these rows alone, and one open transaction a server
\* is as good as many.
BeginReport(s) ==
  /\ ~report[s]
  /\ report' = [report EXCEPT ![s] = TRUE]
  /\ UNCHANGED <<status, recent, incidents, enabled, maint, anomalous,
                 thread, notices, faults>>

\* Mutants of CommitReport: the outbox row is forgotten, or the UPDATE does
\* not look at the status.
CommitReportNoQueue(s) ==
  /\ report[s]
  /\ report' = [report EXCEPT ![s] = FALSE]
  /\ IF status[s] = Operational
     THEN /\ status' = [status EXCEPT ![s] = Degraded]
          /\ notices' = [notices EXCEPT ![s] = 0]
     ELSE UNCHANGED <<status, notices>>
  /\ UNCHANGED <<recent, incidents, enabled, maint, anomalous, thread,
                 faults>>

CommitReportAnyStatus(s) ==
  /\ report[s]
  /\ report' = [report EXCEPT ![s] = FALSE]
  /\ IF status[s] # Degraded
     THEN /\ status' = [status EXCEPT ![s] = Degraded]
          /\ notices' = [notices EXCEPT ![s] = 1]
     ELSE UNCHANGED <<status, notices>>
  /\ UNCHANGED <<recent, incidents, enabled, maint, anomalous, thread,
                 faults>>

\* UPDATE ... WHERE status = 'OPERATIONAL', the outbox row, the commit.  That
\* the row now counts for others is a SignalChanges.
CommitReport(s) ==
  /\ report[s]
  /\ report' = [report EXCEPT ![s] = FALSE]
  /\ IF status[s] = Operational
     THEN /\ status' = [status EXCEPT ![s] = Degraded]
          /\ notices' = [notices EXCEPT ![s] = 1]
     ELSE UNCHANGED <<status, notices>>
  /\ UNCHANGED <<recent, incidents, enabled, maint, anomalous, thread,
                 faults>>

AbortReport(s) ==
  /\ report[s]
  /\ report' = [report EXCEPT ![s] = FALSE]
  /\ UNCHANGED <<status, recent, incidents, enabled, maint, anomalous,
                 thread, notices, faults>>

\* Reports of any number of players, the next 15-minute bucket and the moving
\* edge of the baseline raise and lower the signal (module CrowdReports).
SignalChanges(s) ==
  /\ anomalous' = [anomalous EXCEPT ![s] = ~@]
  /\ UNCHANGED <<status, recent, incidents, enabled, maint, report,
                 thread, notices, faults>>

MaintenanceChanges(s) ==
  /\ maint' = [maint EXCEPT ![s] = ~@]
  /\ UNCHANGED <<status, recent, incidents, enabled, anomalous, report,
                 thread, notices, faults>>

SetEnabled(s) ==
  /\ enabled' = [enabled EXCEPT ![s] = ~@]
  /\ UNCHANGED <<status, recent, incidents, maint, anomalous, report,
                 thread, notices, faults>>

Environment ==
  \/ \E s \in Reporting : BeginReport(s) \/ CommitReport(s) \/ AbortReport(s)
                          \/ SignalChanges(s)
  \/ \E s \in Maintained : MaintenanceChanges(s)
  \/ \E s \in Switched : SetEnabled(s)

-----------------------------------------------------------------------------
Next == WorkerStep \/ Faulty \/ Environment

\* The Worker is one goroutine driven by a ticker; its probes and its HTTP
\* calls time out, and the database is assumed to answer.  Nothing is assumed
\* of players, owners or time.
Fairness == WF_vars(WorkerStep)

Spec     == Init /\ [][Next]_vars
FairSpec == Spec /\ Fairness

-----------------------------------------------------------------------------
(* Properties *)

TypeOK ==
  /\ status \in [Servers -> StoredStatus]
  /\ recent \in [Servers -> Window]
  /\ incidents \in [Servers -> OpenIncidents]
  /\ enabled \in [Servers -> BOOLEAN]
  /\ maint \in [Servers -> BOOLEAN]
  /\ anomalous \in [Servers -> BOOLEAN]
  /\ report \in [Servers -> BOOLEAN]
  /\ pc \in {"idle", "pick", "probe", "commit", "notify"}
  /\ todo \in [Servers -> PublicStatus \cup {Skip}]
  /\ cur \in Servers \cup {NoServer}
  /\ pc \in {"probe", "commit", "notify"} <=> cur \in Servers
  /\ local \in PublicStatus
  /\ attempt \in 0..2
  /\ tx \in Tx
  /\ tx.changed => tx.state \in StoredStatus
  /\ notices \in [Servers -> 0..1]
  /\ faults \in 0..MaxFaults

\* A server the public sees in OUTAGE has the incident of that very outage
\* open: RecordCheck opens it with the status (postgres.go:417) and closes it
\* only with the status (427), although it decides both from a copy of the
\* status that goes stale between attempts.
OutageHasItsIncident ==
  \A s \in Servers : status[s] = Outage => "latest" \in incidents[s]

\* Unless a call of the Worker failed, every status the server ever got was
\* announced: by the Worker after its commit, or through the outbox row that
\* RecordUserReport writes with the status.
NoSilentChange ==
  faults = 0 =>
    \A s \in Servers : notices[s] = 0 => pc = "notify" /\ cur = s

\* A check that is about to commit what it made of an anomalous signal.
Reading(s) == pc = "commit" /\ cur = s /\ tx.state = Degraded

Readings   == [s \in Servers |-> Reading(s)]

Contract == INSTANCE StatusContract WITH reading <- Readings

\* The status, the checks and the incidents change only as StatusContract
\* allows, whatever the snapshot, the attempts and the API do in between, with
\* the one exception of a success under an anomalous signal in an outage: it is
\* read as DEGRADED whatever the status was (postgres.go:403-411).
ImplementsButOverride == Contract!OverridingSpec

Watched(s) == enabled[s] /\ ~maint[s]
Quiet(s)   == ~anomalous[s] /\ ~report[s]
Latest(s)  == recent[s][1].outcome

\* A server that only ever fails from some time on is eventually shown in
\* OUTAGE for good, although the retries of a pass confirm nothing by
\* themselves.
DownIsConfirmed ==
  \A s \in Servers :
    <>[](Watched(s) /\ Latest(s) \in FailureOutcomes)
      => <>[](status[s] = Outage)

\* A server that always answers from some time on, with no reports about it, is
\* eventually shown OPERATIONAL for good, whatever state faults and reports
\* left it in.
UpIsRestored ==
  \A s \in Servers :
    <>[](Watched(s) /\ Latest(s) = Success /\ Quiet(s))
      => <>[](status[s] = Operational)

\* A lasting crowd signal over a server that answers is eventually shown, even
\* when the reports that made it each missed the other.
CrowdIsShown ==
  \A s \in Servers :
    <>[](Watched(s) /\ Latest(s) = Success /\ anomalous[s])
      => <>[](status[s] = Degraded)

-----------------------------------------------------------------------------
(* Why OutageHasItsIncident and ImplementsButOverride hold *)

\* Nobody but the Worker moves a server into or out of OUTAGE, so on this one
\* point the snapshot stays right until the server is checked.
SnapshotSound ==
  /\ cur \in Servers => todo[cur] = Skip
  /\ \A s \in Servers :
       todo[s] \notin {Skip, Maintenance} =>
         (todo[s] = Outage <=> status[s] = Outage)

\* The copy that check works on does go wrong about OUTAGE, and then the
\* newest row keeps RecordCheck from acting on it.
CopySound ==
  pc \in {"probe", "commit"} /\ local # Maintenance =>
    /\ local = Outage /\ status[cur] # Outage
         => recent[cur][1].outcome \in FailureOutcomes
    /\ local # Outage /\ status[cur] = Outage
         => local = Operational /\ recent[cur][1].outcome = Success

\* At its commit a transaction still writes what its inputs call for; only the
\* crowd signal may have moved on.
TxSound ==
  /\ pc = "commit" =>
       /\ tx.row.outcome \in Outcome
       /\ IF local = Maintenance
          THEN tx.state = Maintenance /\ ~tx.changed
          ELSE \E a \in BOOLEAN :
                 LET d == Decide(InsertCheck(recent[cur], tx.row), local,
                                 tx.row.outcome, a)
                 IN  tx.state = d.state /\ tx.changed = d.changed
  /\ pc = "notify" =>
       /\ tx.changed
       /\ tx.state = Outage <=> status[cur] = Outage
       /\ notices[cur] = 0 => tx.state = status[cur]

\* The inductive invariant: the Worker's stale copies never matter.
IInv ==
  /\ TypeOK
  /\ SnapshotSound
  /\ CopySound
  /\ TxSound
  /\ OutageHasItsIncident
  /\ NoSilentChange

-----------------------------------------------------------------------------
(* What the repository says and the code does not do *)

\* types.go:87: a crowd signal never overrides a confirmed OUTAGE.  Without the
\* exception the Worker does not implement the contract.
ImplementsContract == Contract!Spec

\* README.md:44: observations made in a maintenance window do not open incidents.
\* The failure that opens one here is the first one behind the window, and the
\* two it needs before it are the window's.
MaintenanceNeverOpens ==
  [][\A s \in Servers :
       status[s] # Outage /\ status'[s] = Outage
         => ~(recent'[s][2].maint /\ recent'[s][3].maint)]_vars

=============================================================================
