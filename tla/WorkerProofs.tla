---------------------------- MODULE WorkerProofs ----------------------------
(***************************************************************************)
(* Proofs about Worker, and about Notices, which composes it with the      *)
(* delivery of its notices, for any number of servers, any conditions and  *)
(* any number of faults.                                                   *)
(***************************************************************************)
EXTENDS Notices, TLAPS

USE DEF Unknown, Outage, Operational, Degraded, Maintenance, Success,
        ProbeError, NoOutcome, Skip

-----------------------------------------------------------------------------
(* The operators of CheckPolicy *)

\* A freshly inserted row is the newest one, and the two newest move back.
LEMMA InsertCheckWindow ==
  ASSUME NEW w \in Window, NEW row \in Row
  PROVE  /\ InsertCheck(w, row) \in Window
         /\ InsertCheck(w, row)[1] = row
         /\ InsertCheck(w, row)[2] = w[1]
         /\ InsertCheck(w, row)[3] = w[2]
  BY DEF InsertCheck, Window

\* RecordCheck only ever decides for a stored status: MAINTENANCE is no result.
LEMMA DecideType ==
  ASSUME NEW w \in Window, NEW current \in PublicStatus, NEW o \in Outcome,
         NEW a \in BOOLEAN
  PROVE  /\ Decide(w, current, o, a).state \in StoredStatus
         /\ Decide(w, current, o, a).changed \in BOOLEAN
  BY DEF Decide, StateAfter, StateOf, StoredStatus, PublicStatus, Outcome,
         FailureOutcomes, ThreeRecentFailures, TwoRecentSuccesses

\* A decision for OUTAGE needs three failures, and the caller's copy not to
\* say OUTAGE already.
LEMMA DecideOutage ==
  ASSUME NEW w \in Window, NEW current \in PublicStatus, NEW o \in Outcome,
         NEW a \in BOOLEAN, Decide(w, current, o, a).changed,
         Decide(w, current, o, a).state = Outage
  PROVE  current # Outage /\ ThreeRecentFailures(w)
  BY DEF Decide, StateAfter, StateOf, Outcome, FailureOutcomes

\* A decision for OPERATIONAL comes from a success; out of an outage it takes
\* two.
LEMMA DecideOperational ==
  ASSUME NEW w \in Window, NEW current \in PublicStatus, NEW o \in Outcome,
         NEW a \in BOOLEAN, Decide(w, current, o, a).changed,
         Decide(w, current, o, a).state = Operational
  PROVE  /\ o = Success
         /\ current # Operational
         /\ current = Outage => TwoRecentSuccesses(w)
  BY DEF Decide, StateAfter, StateOf, Outcome, FailureOutcomes

\* The other two states follow from the newest row alone.
LEMMA DecideOther ==
  ASSUME NEW w \in Window, NEW current \in PublicStatus, NEW o \in Outcome,
         NEW a \in BOOLEAN
  PROVE  /\ Decide(w, current, o, a).state = Unknown => o = ProbeError
         /\ Decide(w, current, o, a).state = Degraded => o = Success /\ a
  BY DEF Decide, StateAfter, StateOf, Outcome, FailureOutcomes

\* What check goes on with when nothing changed: OUTAGE after a failure,
\* OPERATIONAL after a success in an outage.
LEMMA DecideUnchanged ==
  ASSUME NEW w \in Window, NEW current \in PublicStatus, NEW o \in Outcome,
         NEW a \in BOOLEAN, ~Decide(w, current, o, a).changed
  PROVE  /\ o \in FailureOutcomes => Decide(w, current, o, a).state = Outage
         /\ o = Success /\ current = Outage
              => Decide(w, current, o, a).state = Operational
  BY DEF Decide, StateAfter, StateOf, Outcome, FailureOutcomes

-----------------------------------------------------------------------------
(* Types *)

LEMMA InitType == Init => TypeOK
  BY ServersAssumption, FaultsAssumption
  DEF Init, TypeOK, StoredStatus, PublicStatus, Window, EmptyWindow, Row, NoRow,
      OpenIncidents, Tx, NoTx

\* The rows of check's transaction, whichever way check goes on.
LEMMA WriteType ==
  ASSUME TypeOK, cur \in Servers, Write
  PROVE  /\ status' \in [Servers -> StoredStatus]
         /\ recent' \in [Servers -> Window]
         /\ incidents' \in [Servers -> OpenIncidents]
         /\ notices' \in [Servers -> 0..1]
  <1>1. recent' \in [Servers -> Window]
    <2>1. InsertCheck(recent[cur], tx.row) \in Window
      BY InsertCheckWindow DEF TypeOK, Tx
    <2> QED BY <2>1 DEF TypeOK, Write
  <1>2. status' \in [Servers -> StoredStatus]
    BY DEF TypeOK, Write, Tx
  <1>3. notices' \in [Servers -> 0..1]
    BY DEF TypeOK, Write
  <1>4. incidents' \in [Servers -> OpenIncidents]
    <2>1. OpenIncident(incidents[cur]) \in OpenIncidents
      BY DEF TypeOK, OpenIncident, OpenIncidents
    <2>2. ResolveIncident(incidents[cur]) \subseteq OpenIncidents
      BY DEF TypeOK, ResolveIncident, OpenIncidents
    <2> QED BY <2>1, <2>2 DEF TypeOK, Write
  <1> QED BY <1>1, <1>2, <1>3, <1>4

ThreadOK ==
  /\ pc \in {"idle", "pick", "probe", "commit", "notify"}
  /\ todo \in [Servers -> PublicStatus \cup {Skip}]
  /\ cur \in Servers \cup {NoServer}
  /\ pc \in {"probe", "commit", "notify"} <=> cur \in Servers
  /\ local \in PublicStatus
  /\ attempt \in 0..2
  /\ tx \in Tx
  /\ tx.changed => tx.state \in StoredStatus

LEMMA NoTxType == NoTx \in Tx /\ ~NoTx.changed
  BY DEF NoTx, Tx, NoRow, Row, PublicStatus

LEMMA ReturnType ==
  ASSUME TypeOK, Return
  PROVE  ThreadOK'
  BY NoTxType, ServersAssumption DEF TypeOK, ThreadOK, Return, PublicStatus

LEMMA ContinueType ==
  ASSUME TypeOK, cur \in Servers, Continue
  PROVE  ThreadOK'
  <1>1. CASE Return BY <1>1, ReturnType
  <1>2. CASE ~Return
    <2>1. ~Returns BY <1>2 DEF Continue
    <2>2. attempt # 2 BY <2>1 DEF Returns
    <2>3. attempt + 1 \in 0..2 BY <2>2 DEF TypeOK
    <2> QED BY <1>2, <2>3, NoTxType DEF Continue, TypeOK, ThreadOK, Tx
  <1> QED BY <1>1, <1>2

LEMMA DecisionType ==
  ASSUME TypeOK, cur \in Servers, NEW o \in Observed
  PROVE  /\ o \in Outcome
         /\ Decision(cur, o) \in Tx
         /\ Decision(cur, o).changed => Decision(cur, o).state \in StoredStatus
  <1> DEFINE row == [outcome |-> o, maint |-> maint[cur]]
             w == InsertCheck(recent[cur], row)
  <1>1. o \in Outcome BY ObservedAssumption
  <1>2. row \in Row BY <1>1 DEF TypeOK, Row
  <1>3. w \in Window BY <1>2, InsertCheckWindow DEF TypeOK
  <1>4. CASE local = Maintenance
    BY <1>1, <1>2, <1>4 DEF Decision, Tx, PublicStatus
  <1>5. CASE local # Maintenance
    <2>1. anomalous[cur] \in BOOLEAN /\ local \in PublicStatus BY DEF TypeOK
    <2> DEFINE d == Decide(w, local, o, anomalous[cur])
    <2>2. d.state \in StoredStatus /\ d.changed \in BOOLEAN
      BY <1>1, <1>3, <2>1, DecideType
    <2>3. Decision(cur, o) = [row |-> row, state |-> d.state, changed |-> d.changed]
      BY <1>5 DEF Decision
    <2> HIDE DEF d, row
    <2> QED BY <1>1, <1>2, <2>2, <2>3 DEF Tx, StoredStatus
  <1> QED BY <1>4, <1>5

LEMMA TypeStep == TypeOK /\ [Next]_vars => TypeOK'
  <1> SUFFICES ASSUME TypeOK, [Next]_vars PROVE TypeOK'
    OBVIOUS
  <1>1. CASE RunOnce
    BY <1>1 DEF RunOnce, TypeOK, Listed, StoredStatus, PublicStatus, database
  <1>2. ASSUME NEW s \in Servers, StartCheck(s) PROVE TypeOK'
    BY <1>2 DEF StartCheck, TypeOK, database
  <1>3. CASE EndPass
    BY <1>3 DEF EndPass, TypeOK, database
  <1>4. CASE Observe
    <2>1. PICK o \in Observed : tx' = Decision(cur, o)
      BY <1>4 DEF Observe
    <2>2. cur \in Servers BY <1>4 DEF Observe, TypeOK
    <2> QED BY <1>4, <2>1, <2>2, DecisionType DEF Observe, TypeOK, database
  <1>5. CASE Commit
    <2>1. cur \in Servers BY <1>5 DEF Commit, TypeOK
    <2>2. Write BY <1>5 DEF Commit
    <2>3. ThreadOK'
      <3>1. CASE Continue BY <2>1, <3>1, ContinueType
      <3>2. CASE ~Continue
        BY <1>5, <2>1, <3>2 DEF Commit, TypeOK, ThreadOK
      <3> QED BY <3>1, <3>2
    <2> QED BY <1>5, <2>1, <2>2, <2>3, WriteType DEF Commit, TypeOK, ThreadOK
  <1>6. CASE Notify
    <2>1. cur \in Servers BY <1>6 DEF Notify, TypeOK
    <2>2. ThreadOK' BY <1>6, <2>1, ContinueType DEF Notify
    <2>3. notices' \in [Servers -> 0..1]
      BY <1>6, <2>1 DEF Notify, Announced, TypeOK
    <2> QED BY <1>6, <2>2, <2>3 DEF Notify, TypeOK, ThreadOK, database
  <1>7. CASE RecordFails
    BY <1>7, ReturnType, FaultsAssumption
    DEF RecordFails, Fault, TypeOK, ThreadOK, database
  <1>8. CASE CommitUnacked
    <2>1. cur \in Servers BY <1>8 DEF CommitUnacked, TypeOK
    <2> QED BY <1>8, <2>1, ReturnType, WriteType, FaultsAssumption
        DEF CommitUnacked, Fault, TypeOK, ThreadOK
  <1>9. CASE NotifyFails
    <2>1. cur \in Servers BY <1>9 DEF NotifyFails, TypeOK
    <2> QED BY <1>9, <2>1, ContinueType, FaultsAssumption
        DEF NotifyFails, Fault, TypeOK, ThreadOK, database
  <1>10. CASE Crash
    BY <1>10, NoTxType, ServersAssumption, FaultsAssumption
    DEF Crash, Fault, TypeOK, PublicStatus, database
  <1>11. ASSUME NEW s \in Servers,
                BeginReport(s) \/ AbortReport(s) \/ SignalChanges(s)
         PROVE TypeOK'
    BY <1>11 DEF BeginReport, AbortReport, SignalChanges, TypeOK, thread
  <1>12. ASSUME NEW s \in Servers, CommitReport(s) PROVE TypeOK'
    <2>1. /\ status' \in [Servers -> StoredStatus]
          /\ notices' \in [Servers -> 0..1]
      BY <1>12 DEF CommitReport, TypeOK, StoredStatus, PublicStatus
    <2> QED BY <1>12, <2>1 DEF CommitReport, TypeOK, thread
  <1>13. ASSUME NEW s \in Servers, MaintenanceChanges(s) \/ SetEnabled(s)
         PROVE TypeOK'
    BY <1>13 DEF MaintenanceChanges, SetEnabled, TypeOK, thread
  <1>14. CASE UNCHANGED vars
    BY <1>14 DEF TypeOK, vars, database, thread
  <1> QED
    BY <1>1, <1>2, <1>3, <1>4, <1>5, <1>6, <1>7, <1>8, <1>9, <1>10, <1>11,
       <1>12, <1>13, <1>14, InputsAssumption
    DEF Next, WorkerStep, Faulty, Environment

\* Every reachable state is well-formed; in particular the Worker never stores
\* MAINTENANCE as a status and never makes a fourth attempt.
THEOREM TypeCorrect == Spec => []TypeOK
  BY InitType, TypeStep, PTL DEF Spec

-----------------------------------------------------------------------------
(* The inductive invariant *)

\* A transaction that changes the status was decided on the right side of
\* OUTAGE, however stale check's copy of the status is.
LEMMA ChangeIsRight ==
  ASSUME TypeOK, CopySound, TxSound, pc = "commit", tx.changed
  PROVE  LET w == InsertCheck(recent[cur], tx.row) IN
         /\ tx.state = Outage =>
              status[cur] # Outage /\ local # Outage /\ ThreeRecentFailures(w)
         /\ tx.state = Operational /\ local = Outage =>
              status[cur] = Outage /\ TwoRecentSuccesses(w)
         /\ tx.state = Operational /\ local # Outage =>
              status[cur] # Outage /\ w[1].outcome = Success
         /\ tx.state = Unknown => w[1].outcome = ProbeError
         /\ tx.state = Degraded => w[1].outcome = Success
  <1> DEFINE w == InsertCheck(recent[cur], tx.row)
             o == tx.row.outcome
  <1>1. cur \in Servers /\ recent[cur] \in Window /\ tx.row \in Row
    BY DEF TypeOK, Tx
  <1>2. w \in Window /\ w[1] = tx.row /\ w[2] = recent[cur][1]
    BY <1>1, InsertCheckWindow
  <1>3. local # Maintenance /\ local \in PublicStatus /\ o \in Outcome
    BY DEF TxSound, TypeOK
  <1>4. PICK a \in BOOLEAN : /\ tx.state = Decide(w, local, o, a).state
                             /\ tx.changed = Decide(w, local, o, a).changed
    BY <1>3 DEF TxSound
  <1>5. /\ local = Outage /\ status[cur] # Outage
             => recent[cur][1].outcome \in FailureOutcomes
        /\ local # Outage /\ status[cur] = Outage
             => local = Operational /\ recent[cur][1].outcome = Success
    BY <1>3 DEF CopySound
  <1> HIDE DEF w, o
  <1>6. Success \notin FailureOutcomes BY DEF FailureOutcomes
  <1>7. ASSUME tx.state = Outage
        PROVE  status[cur] # Outage /\ local # Outage /\ ThreeRecentFailures(w)
    <2>1. local # Outage /\ ThreeRecentFailures(w)
      BY <1>2, <1>3, <1>4, <1>7, DecideOutage
    <2>2. recent[cur][1].outcome \in FailureOutcomes
      BY <1>2, <2>1 DEF ThreeRecentFailures
    <2> QED BY <1>5, <1>6, <2>1, <2>2
  <1>8. ASSUME tx.state = Operational, local = Outage
        PROVE  status[cur] = Outage /\ TwoRecentSuccesses(w)
    <2>1. TwoRecentSuccesses(w)
      BY <1>2, <1>3, <1>4, <1>8, DecideOperational
    <2>2. recent[cur][1].outcome = Success
      BY <1>2, <2>1 DEF TwoRecentSuccesses
    <2> QED BY <1>5, <1>6, <1>8, <2>1, <2>2
  <1>9. ASSUME tx.state = Operational, local # Outage
        PROVE  status[cur] # Outage /\ w[1].outcome = Success
    <2>1. o = Success /\ local # Operational
      BY <1>2, <1>3, <1>4, <1>9, DecideOperational
    <2> QED BY <1>2, <1>5, <1>9, <2>1 DEF o
  <1>10. /\ tx.state = Unknown => w[1].outcome = ProbeError
         /\ tx.state = Degraded => w[1].outcome = Success
    <2>1. /\ tx.state = Unknown => o = ProbeError
          /\ tx.state = Degraded => o = Success
      BY <1>2, <1>3, <1>4, DecideOther
    <2> QED BY <1>2, <2>1 DEF o
  <1> QED BY <1>7, <1>8, <1>9, <1>10 DEF w

\* The incident of an outage is there after a transaction.
LEMMA WriteKeepsIncident ==
  ASSUME TypeOK, OutageHasItsIncident, cur \in Servers, Write
  PROVE  OutageHasItsIncident'
  <1>1. CASE ~tx.changed
    BY <1>1 DEF Write, OutageHasItsIncident
  <1>2. CASE tx.changed /\ tx.state = Outage
    <2>1. "latest" \in OpenIncident(incidents[cur]) BY DEF OpenIncident
    <2>2. incidents' = [incidents EXCEPT ![cur] = OpenIncident(incidents[cur])]
      BY <1>2 DEF Write
    <2> QED BY <1>2, <2>1, <2>2 DEF Write, OutageHasItsIncident, TypeOK
  <1>3. CASE tx.changed /\ tx.state # Outage
    <2>1. \A s \in Servers : s # cur => incidents'[s] = incidents[s]
      BY <1>3 DEF Write, TypeOK
    <2>2. \A s \in Servers : s # cur => status'[s] = status[s]
      BY <1>3 DEF Write, TypeOK
    <2>3. status'[cur] # Outage
      BY <1>3 DEF Write, TypeOK
    <2> QED BY <2>1, <2>2, <2>3 DEF OutageHasItsIncident
  <1> QED BY <1>1, <1>2, <1>3

LEMMA WriteKeepsSnapshot ==
  ASSUME TypeOK, SnapshotSound, cur \in Servers, Write, UNCHANGED todo,
         cur' \in {cur, NoServer}
  PROVE  SnapshotSound'
  <1>1. \A s \in Servers : s # cur => status'[s] = status[s]
    BY DEF Write, TypeOK
  <1> QED BY <1>1, ServersAssumption DEF SnapshotSound

\* A check that tries again goes on with a copy that CopySound allows.
LEMMA RetryIsSound ==
  ASSUME TypeOK, CopySound, TxSound, pc = "commit", ~tx.changed, ~Returns
  PROVE  LET w == InsertCheck(recent[cur], tx.row) IN
         /\ tx.state = Outage => w[1].outcome \in FailureOutcomes
         /\ tx.state # Outage => tx.state = Operational /\ w[1].outcome = Success
  <1> DEFINE w == InsertCheck(recent[cur], tx.row)
             o == tx.row.outcome
  <1>1. cur \in Servers /\ recent[cur] \in Window /\ tx.row \in Row
    BY DEF TypeOK, Tx
  <1>2. w \in Window /\ w[1] = tx.row
    BY <1>1, InsertCheckWindow
  <1>3. local # Maintenance /\ local \in PublicStatus /\ o \in Outcome
    BY DEF TxSound, TypeOK, Returns
  <1>4. PICK a \in BOOLEAN : /\ tx.state = Decide(w, local, o, a).state
                             /\ tx.changed = Decide(w, local, o, a).changed
    BY <1>3 DEF TxSound
  <1>5. o # ProbeError /\ (o = Success => local = Outage)
    BY DEF Returns
  <1> HIDE DEF w
  <1>6. /\ o \in FailureOutcomes => tx.state = Outage
        /\ o = Success /\ local = Outage => tx.state = Operational
    BY <1>2, <1>3, <1>4, DecideUnchanged
  <1>7. o \in FailureOutcomes \/ o = Success BY <1>3, <1>5 DEF Outcome
  <1> QED BY <1>2, <1>5, <1>6, <1>7 DEF w

LEMMA InitInv == Init => IInv
  BY InitType, ServersAssumption
  DEF Init, IInv, SnapshotSound, CopySound, TxSound, OutageHasItsIncident,
      NoSilentChange

LEMMA InvStep == IInv /\ [Next]_vars => IInv'
  <1> SUFFICES ASSUME IInv, [Next]_vars PROVE IInv'
    OBVIOUS
  <1>0. TypeOK /\ TypeOK' BY TypeStep DEF IInv
  <1> USE <1>0
  <1>1. CASE RunOnce
    <2>1. SnapshotSound'
      BY <1>1 DEF RunOnce, SnapshotSound, Listed, TypeOK, database
    <2> QED BY <1>1, <2>1 DEF RunOnce, IInv, CopySound, TxSound,
              OutageHasItsIncident, NoSilentChange, database
  <1>2. ASSUME NEW s \in Servers, StartCheck(s) PROVE IInv'
    <2>1. SnapshotSound'
      BY <1>2 DEF StartCheck, IInv, SnapshotSound, TypeOK, database
    <2>2. CopySound'
      BY <1>2 DEF StartCheck, IInv, SnapshotSound, CopySound, database
    <2> QED BY <1>2, <2>1, <2>2 DEF StartCheck, IInv, TxSound,
              OutageHasItsIncident, NoSilentChange, database
  <1>3. CASE EndPass
    BY <1>3 DEF EndPass, IInv, SnapshotSound, CopySound, TxSound,
                OutageHasItsIncident, NoSilentChange, database
  <1>4. CASE Observe
    <2>1. cur \in Servers BY <1>4 DEF Observe, TypeOK
    <2>2. PICK o \in Observed : tx' = Decision(cur, o)
      BY <1>4 DEF Observe
    <2>3. o \in Outcome BY <2>1, <2>2, DecisionType
    <2>4. TxSound'
      <3> DEFINE row == [outcome |-> o, maint |-> maint[cur]]
      <3>1. CASE local = Maintenance
        BY <1>4, <2>2, <2>3, <3>1 DEF Observe, Decision, TxSound
      <3>2. CASE local # Maintenance
        <4> DEFINE d == Decide(InsertCheck(recent[cur], row), local, o,
                               anomalous[cur])
        <4>1. tx' = [row |-> row, state |-> d.state, changed |-> d.changed]
          BY <2>2, <3>2 DEF Decision
        <4>2. anomalous[cur] \in BOOLEAN BY <2>1 DEF TypeOK
        <4>3. /\ tx'.row = row /\ tx'.row.outcome = o
              /\ tx'.state = d.state /\ tx'.changed = d.changed
          BY <4>1
        <4>4. /\ pc' = "commit"
              /\ UNCHANGED <<recent, cur, local>>
          BY <1>4 DEF Observe, database
        <4> HIDE DEF row
        <4> QED BY <2>3, <3>2, <4>2, <4>3, <4>4 DEF TxSound
      <3> QED BY <3>1, <3>2
    <2> QED BY <1>4, <2>4 DEF Observe, IInv, SnapshotSound, CopySound,
              OutageHasItsIncident, NoSilentChange, database
  <1>5. CASE Commit
    <2>1. cur \in Servers /\ pc = "commit" /\ Write
      BY <1>5 DEF Commit, TypeOK
    <2>2. UNCHANGED todo /\ cur' \in {cur, NoServer}
      BY <1>5 DEF Commit, Continue, Return
    <2>3. OutageHasItsIncident' /\ SnapshotSound'
      BY <2>1, <2>2, WriteKeepsIncident, WriteKeepsSnapshot DEF IInv
    <2>4. CASE tx.changed
      <3>1. pc' = "notify" /\ UNCHANGED <<cur, tx, faults>>
        BY <1>5, <2>4 DEF Commit
      <3>2. status'[cur] = tx.state
        BY <2>1, <2>4 DEF Write, TypeOK
      <3>3. TxSound'
        BY <2>4, <3>1, <3>2 DEF TxSound
      <3>4. NoSilentChange'
        BY <2>1, <2>4, <3>1 DEF Write, IInv, NoSilentChange, TypeOK
      <3> QED BY <2>3, <3>1, <3>3, <3>4 DEF IInv, CopySound
    <2>5. CASE ~tx.changed
      <3>1. UNCHANGED <<status, notices, faults>> BY <1>5, <2>1, <2>5 DEF Write, Commit
      <3>2. Continue BY <1>5, <2>5 DEF Commit
      <3>3. TxSound'
        BY <3>2 DEF Continue, Return, TxSound
      <3>4. NoSilentChange'
        BY <2>1, <3>1 DEF IInv, NoSilentChange
      <3>5. CopySound'
        <4>1. CASE Return BY <4>1 DEF Return, CopySound
        <4>2. CASE ~Return
          <5>1. ~Returns /\ local' = tx.state /\ cur' = cur
            BY <3>2, <4>2 DEF Continue
          <5>2. recent'[cur] = InsertCheck(recent[cur], tx.row)
            BY <2>1 DEF Write, TypeOK
          <5> QED BY <2>1, <2>5, <3>1, <5>1, <5>2, RetryIsSound
              DEF IInv, CopySound
        <4> QED BY <4>1, <4>2
      <3> QED BY <2>3, <3>3, <3>4, <3>5 DEF IInv
    <2> QED BY <2>4, <2>5 DEF TypeOK, Tx
  <1>6. CASE Notify
    <2>1. cur \in Servers /\ pc = "notify" BY <1>6 DEF Notify, TypeOK
    <2>2. /\ tx.state = Outage <=> status[cur] = Outage
          /\ notices[cur] = 0 => tx.state = status[cur]
      BY <2>1 DEF IInv, TxSound
    <2>3. SnapshotSound'
      BY <1>6, ServersAssumption
      DEF Notify, Continue, Return, IInv, SnapshotSound, database
    <2>4. CopySound'
      BY <1>6, <2>2 DEF Notify, Continue, Return, CopySound, database
    <2>5. TxSound'
      BY <1>6 DEF Notify, Continue, Return, TxSound
    <2>6. NoSilentChange'
      <3>1. notices'[cur] # 0
        BY <1>6, <2>1, <2>2 DEF Notify, Announced, TypeOK
      <3>2. \A s \in Servers : s # cur => notices'[s] = notices[s]
        BY <1>6, <2>1 DEF Notify, Announced, TypeOK
      <3> QED BY <1>6, <3>1, <3>2 DEF Notify, IInv, NoSilentChange
    <2> QED BY <1>6, <2>3, <2>4, <2>5, <2>6
        DEF Notify, IInv, OutageHasItsIncident, database
  <1>7. CASE RecordFails
    BY <1>7, ServersAssumption
    DEF RecordFails, Fault, Return, IInv, SnapshotSound, CopySound, TxSound,
        OutageHasItsIncident, NoSilentChange, TypeOK, database
  <1>8. CASE CommitUnacked
    <2>1. cur \in Servers /\ Write BY <1>8 DEF CommitUnacked, TypeOK
    <2>2. OutageHasItsIncident' /\ SnapshotSound'
      BY <1>8, <2>1, WriteKeepsIncident, WriteKeepsSnapshot
      DEF CommitUnacked, Return, IInv
    <2>3. faults' # 0 BY <1>8, FaultsAssumption DEF CommitUnacked, Fault, TypeOK
    <2> QED BY <1>8, <2>2, <2>3
        DEF CommitUnacked, Return, IInv, CopySound, TxSound, NoSilentChange
  <1>9. CASE NotifyFails
    <2>1. cur \in Servers /\ pc = "notify" BY <1>9 DEF NotifyFails, TypeOK
    <2>2. tx.state = Outage <=> status[cur] = Outage
      BY <2>1 DEF IInv, TxSound
    <2>3. SnapshotSound'
      BY <1>9, ServersAssumption
      DEF NotifyFails, Continue, Return, IInv, SnapshotSound, database
    <2>4. CopySound'
      BY <1>9, <2>2 DEF NotifyFails, Continue, Return, CopySound, database
    <2>5. TxSound'
      BY <1>9 DEF NotifyFails, Continue, Return, TxSound
    <2>6. faults' # 0 BY <1>9, FaultsAssumption DEF NotifyFails, Fault, TypeOK
    <2> QED BY <1>9, <2>3, <2>4, <2>5, <2>6
        DEF NotifyFails, IInv, OutageHasItsIncident, NoSilentChange, database
  <1>10. CASE Crash
    <2>1. faults' # 0 BY <1>10, FaultsAssumption DEF Crash, Fault, TypeOK
    <2> QED BY <1>10, <2>1, ServersAssumption
    DEF Crash, IInv, SnapshotSound, CopySound, TxSound, OutageHasItsIncident,
        NoSilentChange, database
  <1>11. ASSUME NEW s \in Servers, CommitReport(s) PROVE IInv'
    <2>1. \A r \in Servers : status'[r] = Outage <=> status[r] = Outage
      BY <1>11 DEF CommitReport, TypeOK
    <2>2. UNCHANGED <<recent, incidents, pc, todo, cur, local, attempt, tx, faults>>
      BY <1>11 DEF CommitReport, thread
    <2>3. \A r \in Servers :
            \/ notices'[r] = notices[r] /\ status'[r] = status[r]
            \/ notices'[r] = 1
      BY <1>11 DEF CommitReport, TypeOK
    <2>4. SnapshotSound' BY <2>1, <2>2 DEF IInv, SnapshotSound
    <2>5. CopySound'
      <3>1. pc \in {"probe", "commit"} => cur \in Servers BY DEF TypeOK
      <3> QED BY <2>1, <2>2, <3>1 DEF IInv, CopySound
    <2>6. TxSound'
      <3>1. pc = "notify" => cur \in Servers BY DEF TypeOK
      <3> QED BY <2>1, <2>2, <2>3, <3>1 DEF IInv, TxSound
    <2>7. OutageHasItsIncident' BY <2>1, <2>2 DEF IInv, OutageHasItsIncident
    <2>8. NoSilentChange' BY <2>2, <2>3 DEF IInv, NoSilentChange
    <2> QED BY <2>4, <2>5, <2>6, <2>7, <2>8 DEF IInv
  <1>12. ASSUME UNCHANGED <<status, recent, incidents, thread, notices, faults>>
         PROVE  IInv'
    BY <1>12 DEF IInv, SnapshotSound, CopySound, TxSound, OutageHasItsIncident,
                 NoSilentChange, thread
  <1>13. ASSUME NEW s \in Servers,
                \/ BeginReport(s) \/ AbortReport(s) \/ SignalChanges(s)
                \/ MaintenanceChanges(s) \/ SetEnabled(s)
         PROVE  IInv'
    BY <1>12, <1>13 DEF BeginReport, AbortReport, SignalChanges,
       MaintenanceChanges, SetEnabled, database
  <1>14. CASE UNCHANGED vars
    BY <1>12, <1>14 DEF vars, database
  <1> QED
    BY <1>1, <1>2, <1>3, <1>4, <1>5, <1>6, <1>7, <1>8, <1>9, <1>10, <1>11,
       <1>13, <1>14, InputsAssumption
    DEF Next, WorkerStep, Faulty, Environment

\* The inductive invariant holds in every reachable state.
THEOREM Invariance == Spec => []IInv
  BY InitInv, InvStep, PTL DEF Spec

\* A server shown in OUTAGE always has the incident of that outage OPEN.
THEOREM OutageIncident == Spec => []OutageHasItsIncident
  <1>1. IInv => OutageHasItsIncident BY DEF IInv
  <1> QED BY Invariance, <1>1, PTL

\* Without faults of the Worker's calls no status change goes unannounced.
THEOREM Announcement == Spec => []NoSilentChange
  <1>1. IInv => NoSilentChange BY DEF IInv
  <1> QED BY Invariance, <1>1, PTL

-----------------------------------------------------------------------------
(* Worker implements StatusContract *)

\* The contract speaks of the same outcomes, rows and queries.
LEMMA SameVocabulary ==
  /\ Contract!Unknown = Unknown /\ Contract!Outage = Outage
  /\ Contract!Operational = Operational /\ Contract!Degraded = Degraded
  /\ Contract!Success = Success /\ Contract!ProbeError = ProbeError
  /\ Contract!Row = Row /\ Contract!EmptyWindow = EmptyWindow
  BY DEF Contract!Unknown, Contract!Outage, Contract!Operational,
         Contract!Degraded, Contract!Success, Contract!ProbeError,
         Contract!Row, Contract!Outcome, Contract!FailureOutcomes,
         Contract!NoOutcome, Contract!EmptyWindow, Contract!NoRow,
         Row, Outcome, FailureOutcomes, EmptyWindow, NoRow

LEMMA SameQueries ==
  ASSUME NEW w, NEW row, NEW open
  PROVE  /\ Contract!InsertCheck(w, row) = InsertCheck(w, row)
         /\ Contract!ThreeRecentFailures(w) <=> ThreeRecentFailures(w)
         /\ Contract!TwoRecentSuccesses(w) <=> TwoRecentSuccesses(w)
         /\ Contract!OpenIncident(open) = OpenIncident(open)
  BY DEF Contract!InsertCheck, Contract!ThreeRecentFailures,
         Contract!TwoRecentSuccesses, Contract!OpenIncident,
         Contract!FailureOutcomes, Contract!Success, InsertCheck,
         ThreeRecentFailures, TwoRecentSuccesses, OpenIncident, FailureOutcomes

\* Readings are all FALSE unless a check is about to commit one.
LEMMA NoReadings ==
  ASSUME pc # "commit"
  PROVE  Readings = [s \in Servers |-> FALSE]
  BY DEF Readings, Reading

LEMMA ContractInit == Init => Contract!Init
  <1>1. Init => Readings = [s \in Servers |-> FALSE]
    BY NoReadings DEF Init
  <1> QED BY <1>1, SameVocabulary DEF Init, Contract!Init

\* With its transaction a reading is over, whatever has become of it.
LEMMA ReadingEnds ==
  ASSUME TypeOK, pc = "commit", pc' # "commit"
  PROVE  /\ Readings' = [Readings EXCEPT ![cur] = FALSE]
         /\ Readings[cur] <=> tx.state = Degraded
         /\ Readings' # Readings =>
              Readings[cur] /\ Readings' = [Readings EXCEPT ![cur] = ~@]
  <1>1. cur \in Servers BY DEF TypeOK
  <1>2. Readings' = [s \in Servers |-> FALSE]
    BY DEF Readings, Reading
  <1>3. \A s \in Servers : Readings[s] = (s = cur /\ tx.state = Degraded)
    BY DEF Readings, Reading
  <1>4. Readings = [s \in Servers |-> s = cur /\ tx.state = Degraded]
    BY DEF Readings, Reading
  <1> QED BY <1>1, <1>2, <1>3, <1>4

\* A signal that is not read as anomalous is not read at all.
LEMMA ReadingBegins ==
  ASSUME TypeOK, Observe
  PROVE  \/ Readings' = Readings
         \/ anomalous[cur] /\ Readings' = [Readings EXCEPT ![cur] = ~@]
  <1>1. cur \in Servers /\ pc = "probe" /\ pc' = "commit" /\ cur' = cur
    BY DEF Observe, TypeOK
  <1>2. Readings = [s \in Servers |-> FALSE] BY <1>1, NoReadings
  <1>3. Readings' = [s \in Servers |-> s = cur /\ tx'.state = Degraded]
    BY <1>1 DEF Readings, Reading
  <1>4. tx'.state = Degraded => anomalous[cur]
    <2>1. PICK o \in Observed : tx' = Decision(cur, o) BY DEF Observe
    <2> DEFINE w == InsertCheck(recent[cur], [outcome |-> o, maint |-> maint[cur]])
    <2>2. o \in Outcome BY ObservedAssumption
    <2>3. [outcome |-> o, maint |-> maint[cur]] \in Row
      BY <1>1, <2>2 DEF TypeOK, Row
    <2>4. w \in Window BY <1>1, <2>3, InsertCheckWindow DEF TypeOK
    <2>5. local \in PublicStatus /\ anomalous[cur] \in BOOLEAN
      BY <1>1 DEF TypeOK
    <2>6. CASE local = Maintenance BY <2>1, <2>6 DEF Decision
    <2>7. CASE local # Maintenance
      <3>1. tx'.state = Decide(w, local, o, anomalous[cur]).state
        BY <2>1, <2>7 DEF Decision
      <3> HIDE DEF w
      <3> QED BY <2>2, <2>4, <2>5, <3>1, DecideOther
    <2> QED BY <2>6, <2>7
  <1>5. CASE tx'.state = Degraded
    <2>1. Readings' = [Readings EXCEPT ![cur] = ~@]
      BY <1>1, <1>2, <1>3, <1>5
    <2> QED BY <1>4, <1>5, <2>1
  <1>6. CASE tx'.state # Degraded BY <1>2, <1>3, <1>6
  <1> QED BY <1>5, <1>6

\* What a transaction writes is one step of the contract, or its exception.
LEMMA WriteIsRecord ==
  ASSUME IInv, pc = "commit", pc' # "commit", Write, UNCHANGED <<anomalous, report>>
  PROVE  Contract!Record(cur) \/ Contract!Override(cur)
  <1> DEFINE w == InsertCheck(recent[cur], tx.row)
  <1>1. /\ TypeOK /\ cur \in Servers /\ tx.row \in Row
        /\ tx.state \in PublicStatus
    BY DEF IInv, TypeOK, Tx
  <1>2. recent' = [recent EXCEPT ![cur] = w] /\ recent'[cur] = w
    BY <1>1 DEF Write, TypeOK
  <1>3. /\ Readings' = [Readings EXCEPT ![cur] = FALSE]
        /\ Readings[cur] <=> tx.state = Degraded
    BY <1>1, ReadingEnds
  <1>4. Contract!Insert(cur)
    <2>1. \E row \in Contract!Row :
            recent' = [recent EXCEPT ![cur] = Contract!InsertCheck(@, row)]
      BY <1>1, <1>2, SameVocabulary, SameQueries
    <2> QED BY <1>3, <2>1 DEF Contract!Insert
  <1>5. CASE ~tx.changed
    BY <1>4, <1>5 DEF Write, Contract!Record, Contract!Keep
  <1>6. CASE tx.changed
    <2>1. /\ tx.state = Outage =>
               status[cur] # Outage /\ local # Outage /\ ThreeRecentFailures(w)
          /\ tx.state = Operational /\ local = Outage =>
               status[cur] = Outage /\ TwoRecentSuccesses(w)
          /\ tx.state = Operational /\ local # Outage =>
               status[cur] # Outage /\ w[1].outcome = Success
          /\ tx.state = Unknown => w[1].outcome = ProbeError
          /\ tx.state = Degraded => w[1].outcome = Success
      BY <1>1, <1>6, ChangeIsRight DEF IInv
    <2>2. status' = [status EXCEPT ![cur] = tx.state] BY <1>6 DEF Write
    <2> HIDE DEF w
    <2>3. CASE tx.state = Outage
      <3>1. incidents' = [incidents EXCEPT ![cur] = Contract!OpenIncident(@)]
        BY <1>6, <2>3, SameQueries DEF Write
      <3> QED BY SameVocabulary, SameQueries, <1>2, <1>4, <2>1, <2>2, <2>3, <3>1
          DEF Contract!Record, Contract!Confirm
    <2>4. CASE tx.state = Operational /\ local = Outage
      <3>1. "latest" \in incidents[cur]
        BY <1>1, <2>1, <2>4 DEF IInv, OutageHasItsIncident
      <3>2. incidents' = [incidents EXCEPT ![cur] = @ \ {"latest"}]
        BY <1>6, <2>4, <3>1 DEF Write, ResolveIncident
      <3> QED BY SameVocabulary, SameQueries, <1>2, <1>4, <2>1, <2>2, <2>4,
                 <3>1, <3>2
          DEF Contract!Record, Contract!Recover
    <2>5. CASE tx.state # Outage /\ ~(tx.state = Operational /\ local = Outage)
      <3>1. UNCHANGED incidents BY <1>6, <2>5 DEF Write
      <3>2. tx.state \in {Operational, Unknown, Degraded}
        BY <1>1, <1>6, <2>5 DEF TypeOK, StoredStatus, PublicStatus
      <3>3. CASE tx.state = Operational
        <4>1. Contract!Healthy(cur)
          BY SameVocabulary, <1>2, <1>3, <2>1, <2>2, <2>5, <3>1, <3>3
          DEF Contract!Healthy, Contract!Newest
        <4> QED BY <1>4, <4>1 DEF Contract!Record
      <3>4. CASE tx.state = Unknown
        <4>1. Contract!LoseSight(cur)
          BY SameVocabulary, <1>2, <2>1, <2>2, <3>1, <3>4
          DEF Contract!LoseSight, Contract!Newest
        <4> QED BY <1>4, <4>1 DEF Contract!Record
      <3>5. CASE tx.state = Degraded /\ status[cur] # Outage
        <4>1. Contract!Degrade(cur)
          BY SameVocabulary, <1>2, <1>3, <2>1, <2>2, <3>1, <3>5
          DEF Contract!Degrade, Contract!Newest
        <4> QED BY <1>4, <4>1 DEF Contract!Record
      <3>6. CASE tx.state = Degraded /\ status[cur] = Outage
        BY SameVocabulary, <1>2, <1>3, <1>4, <2>1, <2>2, <3>1, <3>6
        DEF Contract!Override, Contract!Newest
      <3> QED BY <3>2, <3>3, <3>4, <3>5, <3>6
    <2> QED BY <2>3, <2>4, <2>5
  <1> QED BY <1>5, <1>6

ContractNext == Contract!Next \/ \E s \in Servers : Contract!Override(s)

LEMMA ContractStep ==
  ASSUME IInv, [Next]_vars
  PROVE  [ContractNext]_(Contract!contractVars)
  <1> USE DEF Contract!rows, Contract!signals
  <1>0. TypeOK BY DEF IInv
  <1>1. CASE Commit \/ CommitUnacked
    <2>1. /\ pc = "commit" /\ pc' # "commit" /\ Write
          /\ UNCHANGED <<anomalous, report>>
      BY <1>1 DEF Commit, CommitUnacked, Continue, Return
    <2>2. cur \in Servers BY <1>0, <2>1 DEF TypeOK
    <2> QED BY <2>1, <2>2, WriteIsRecord DEF ContractNext, Contract!Next
  <1>2. ASSUME UNCHANGED <<status, recent, incidents, anomalous, report>>,
               Readings' = Readings
        PROVE  [ContractNext]_(Contract!contractVars)
    BY <1>2 DEF Contract!contractVars
  <1>3. ASSUME UNCHANGED <<status, recent, incidents, anomalous, report>>,
               NEW s \in Servers, Readings[s] \/ anomalous[s],
               Readings' = [Readings EXCEPT ![s] = ~@]
        PROVE  [ContractNext]_(Contract!contractVars)
    BY <1>3 DEF ContractNext, Contract!Next, Contract!Look
  <1>4. CASE Observe
    <2>1. cur \in Servers BY <1>0, <1>4 DEF TypeOK, Observe
    <2> QED BY <1>0, <1>2, <1>3, <1>4, <2>1, ReadingBegins DEF Observe, database
  <1>5. CASE RecordFails \/ Crash
    <2>1. CASE pc = "commit"
      <3>1. cur \in Servers BY <1>0, <2>1 DEF TypeOK
      <3>2. pc' # "commit" BY <1>5 DEF RecordFails, Crash, Return
      <3> QED BY <1>0, <1>2, <1>3, <1>5, <2>1, <3>1, <3>2, ReadingEnds
          DEF RecordFails, Crash, database
    <2>2. CASE pc # "commit"
      <3>1. pc' # "commit" BY <1>5 DEF RecordFails, Crash, Return
      <3>2. Readings' = Readings BY <2>2, <3>1 DEF Readings, Reading
      <3> QED BY <1>2, <1>5, <3>2 DEF RecordFails, Crash, database
    <2> QED BY <2>1, <2>2
  <1>6. ASSUME pc # "commit", pc' # "commit", UNCHANGED database
        PROVE  [ContractNext]_(Contract!contractVars)
    <2>1. Readings' = Readings BY <1>6 DEF Readings, Reading
    <2> QED BY <1>2, <1>6, <2>1 DEF database
  <1>7. CASE RunOnce \/ EndPass \/ Notify \/ NotifyFails
    BY <1>6, <1>7 DEF RunOnce, EndPass, Notify, NotifyFails, Continue, Return
  <1>8. ASSUME NEW s \in Servers, StartCheck(s)
        PROVE  [ContractNext]_(Contract!contractVars)
    BY <1>6, <1>8 DEF StartCheck
  <1>9. ASSUME UNCHANGED thread PROVE Readings' = Readings
    BY <1>9 DEF Readings, Reading, thread
  <1>10. ASSUME NEW s \in Servers, CommitReport(s)
         PROVE  [ContractNext]_(Contract!contractVars)
    <2>1. Readings' = Readings BY <1>9, <1>10 DEF CommitReport
    <2>2. CASE status[s] = Operational
      <3>1. Contract!CrowdDegrades(s)
        BY <1>10, <2>1, <2>2, SameVocabulary DEF CommitReport, Contract!CrowdDegrades
      <3> QED BY <3>1 DEF ContractNext, Contract!Next
    <2>3. CASE status[s] # Operational
      <3>1. report' = [report EXCEPT ![s] = ~@]
        BY <1>0, <1>10 DEF CommitReport, TypeOK
      <3>2. Contract!Report(s)
        BY <1>10, <2>1, <2>3, <3>1 DEF CommitReport, Contract!Report
      <3> QED BY <3>2 DEF ContractNext, Contract!Next
    <2> QED BY <2>2, <2>3
  <1>11. ASSUME NEW s \in Servers, BeginReport(s) \/ AbortReport(s)
         PROVE  [ContractNext]_(Contract!contractVars)
    <2>1. Readings' = Readings BY <1>9, <1>11 DEF BeginReport, AbortReport
    <2>2. report' = [report EXCEPT ![s] = ~@]
      BY <1>0, <1>11 DEF BeginReport, AbortReport, TypeOK
    <2>3. Contract!Report(s)
      BY <1>11, <2>1, <2>2 DEF BeginReport, AbortReport, Contract!Report
    <2> QED BY <2>3 DEF ContractNext, Contract!Next
  <1>12. ASSUME NEW s \in Servers, SignalChanges(s)
         PROVE  [ContractNext]_(Contract!contractVars)
    <2>1. Readings' = Readings BY <1>9, <1>12 DEF SignalChanges
    <2>2. Contract!SignalMoves(s)
      BY <1>12, <2>1 DEF SignalChanges, Contract!SignalMoves
    <2> QED BY <2>2 DEF ContractNext, Contract!Next
  <1>13. ASSUME NEW s \in Servers, MaintenanceChanges(s) \/ SetEnabled(s)
         PROVE  [ContractNext]_(Contract!contractVars)
    BY <1>2, <1>9, <1>13 DEF MaintenanceChanges, SetEnabled
  <1>14. CASE UNCHANGED vars
    BY <1>2, <1>9, <1>14 DEF vars, database
  <1> QED
    BY <1>1, <1>4, <1>5, <1>7, <1>8, <1>10, <1>11, <1>12, <1>13, <1>14,
       InputsAssumption
    DEF Next, WorkerStep, Faulty, Environment

\* The status, the checks and the incidents change only as the contract says,
\* or by an override that it rules out, for any number of servers, interleaving
\* of the API and faults.
THEOREM Refinement == Spec => ImplementsButOverride
  BY Invariance, ContractInit, ContractStep, PTL
  DEF Spec, ImplementsButOverride, Contract!OverridingSpec, ContractNext

-----------------------------------------------------------------------------
(* Notices is Worker and more *)

\* Run, its faults and the API take steps of Worker; the dispatch takes none.
LEMMA NoticesIsWorker == [NoticesNext]_noticesVars => [Next]_vars
  BY DEF NoticesNext, noticesVars, RunStep, PassStep, PassFault, ReportQueues,
         Elsewhere, Next, WorkerStep, Faulty, Environment

\* The delivery of notices takes nothing from what Worker does: what is proved
\* of Worker holds of the two together.
THEOREM NoticesImplementsWorker == NoticesSpec => Spec
  <1>1. NoticesInit => Init BY DEF NoticesInit
  <1> QED BY <1>1, NoticesIsWorker, PTL DEF NoticesSpec, Spec

LEMMA NoticesWorkerInv == NoticesSpec => []IInv
  BY NoticesImplementsWorker, Invariance, PTL

-----------------------------------------------------------------------------
(* Types of Notices *)

LEMMA NoticesInitType == NoticesInit => NoticesTypeOK
  BY MissesAssumption, ServersAssumption
  DEF NoticesInit, Init, NoticesTypeOK, Often, PublicStatus

\* A message leaves the channel well-formed.
LEMMA PostType ==
  ASSUME NoticesTypeOK, NEW s \in Servers, NEW state \in PublicStatus,
         Post(s, state)
  PROVE  /\ posted' \in [Servers -> PublicStatus]
         /\ said' \in [Servers -> 0..Often]
         /\ \A r \in Servers : said'[r] >= said[r]
         /\ \A r \in Servers : r # s => /\ posted'[r] = posted[r]
                                        /\ said'[r] = said[r]
         /\ posted'[s] = state
         /\ status[s] = state => said'[s] > 0 /\ said'[s] <= said[s] + 1
         /\ status[s] # state => said'[s] = said[s]
  BY DEF NoticesTypeOK, Post, Often

LEMMA UnsaidType ==
  ASSUME NoticesTypeOK, Unsaid
  PROVE  /\ posted' = posted
         /\ said' \in [Servers -> 0..Often]
         /\ \A s \in Servers :
              said'[s] = IF status'[s] = status[s] THEN said[s] ELSE 0
  BY DEF NoticesTypeOK, Unsaid, Often

LEMMA NoticesTypeStep ==
  ASSUME TypeOK, TypeOK', NoticesTypeOK, [NoticesNext]_noticesVars
  PROVE  NoticesTypeOK'
  <1> USE DEF outbox, channel
  <1>1. ASSUME UNCHANGED <<queued, batch, item, posted, said, misses>>,
               \/ turn' = turn /\ pc # "idle"
               \/ turn = "wait" /\ turn' = "pass"
               \/ turn = "pass" /\ pc' = "idle" /\ turn' \in {"list", "wait"}
               \/ turn' = turn /\ pc' = pc
        PROVE  NoticesTypeOK'
    BY <1>1 DEF NoticesTypeOK
  <1>2. ASSUME UNCHANGED <<queued, batch, item, misses, turn>>, pc # "idle",
               posted' \in [Servers -> PublicStatus],
               said' \in [Servers -> 0..Often]
        PROVE  NoticesTypeOK'
    BY <1>2 DEF NoticesTypeOK
  <1>3. CASE PassStep /\ UNCHANGED <<outbox, misses>>
    <2>1. CASE turn = "wait" /\ RunOnce /\ turn' = "pass" /\ UNCHANGED channel
      BY <1>1, <1>3, <2>1
    <2>2. CASE EndPass /\ turn' = "list" /\ UNCHANGED channel
      BY <1>1, <1>3, <2>2 DEF EndPass, NoticesTypeOK
    <2>3. CASE Observe /\ UNCHANGED <<turn, channel>>
      BY <1>1, <1>3, <2>3 DEF Observe
    <2>4. CASE (\E s \in Servers : StartCheck(s)) /\ UNCHANGED <<turn, channel>>
      BY <1>1, <1>3, <2>4 DEF StartCheck
    <2>5. CASE Commit /\ Unsaid /\ UNCHANGED turn
      BY <1>2, <1>3, <2>5, UnsaidType DEF Commit, NoticesTypeOK
    <2>6. CASE Notify /\ PostChange /\ UNCHANGED turn
      <3>1. cur \in Servers /\ tx.state \in PublicStatus
        BY <2>6 DEF Notify, TypeOK, Tx
      <3> QED BY <1>2, <1>3, <2>6, <3>1, PostType DEF Notify, PostChange
    <2> QED BY <1>3, <2>1, <2>2, <2>3, <2>4, <2>5, <2>6 DEF PassStep
  <1>4. CASE PassFault /\ UNCHANGED <<outbox, misses>>
    <2>1. CASE RecordFails /\ UNCHANGED <<turn, channel>>
      BY <1>1, <1>4, <2>1 DEF RecordFails
    <2>2. CASE CommitUnacked /\ Unsaid /\ UNCHANGED turn
      BY <1>2, <1>4, <2>2, UnsaidType DEF CommitUnacked, NoticesTypeOK
    <2>3. CASE NotifyFails /\ PostChange /\ UNCHANGED turn
      <3>1. cur \in Servers /\ tx.state \in PublicStatus
        BY <2>3 DEF NotifyFails, TypeOK, Tx
      <3> QED BY <1>2, <1>4, <2>3, <3>1, PostType DEF NotifyFails, PostChange
    <2>4. CASE NotifyFails /\ UNCHANGED <<turn, channel>>
      BY <1>1, <1>4, <2>4 DEF NotifyFails
    <2>5. CASE Crash /\ turn' = "wait" /\ UNCHANGED channel
      BY <1>1, <1>4, <2>5 DEF Crash, NoticesTypeOK
    <2> QED BY <1>4, <2>1, <2>2, <2>3, <2>4, <2>5 DEF PassFault
  <1>5. CASE DispatchStep /\ UNCHANGED <<vars, misses>>
    <2>0. pc' = pc BY <1>5 DEF vars, thread
    <2>1. CASE List BY <1>5, <2>0, <2>1 DEF List, NoticesTypeOK
    <2>2. ASSUME NEW s \in Servers, Send(s) PROVE NoticesTypeOK'
      <3>1. /\ posted' \in [Servers -> PublicStatus]
            /\ said' \in [Servers -> 0..Often]
        BY <2>2, PostType DEF Send, PublicStatus
      <3> QED BY <1>5, <2>0, <2>2, <3>1 DEF Send, NoticesTypeOK
    <2>3. CASE Mark
      BY <1>5, <2>0, <2>3, ServersAssumption DEF Mark, Handled, NoticesTypeOK
    <2>4. CASE Finish BY <1>5, <2>0, <2>4 DEF Finish, NoticesTypeOK
    <2> QED BY <1>5, <2>1, <2>2, <2>3, <2>4 DEF DispatchStep
  <1>6. CASE misses < MaxMisses /\ misses' = misses + 1 /\ DispatchFault
             /\ UNCHANGED vars
    <2>0. pc' = pc /\ misses' \in 0..MaxMisses
      BY <1>6, MissesAssumption DEF vars, thread, NoticesTypeOK
    <2>1. CASE turn = "wait" /\ turn' = "list" /\ UNCHANGED <<outbox, channel>>
      BY <2>0, <2>1 DEF NoticesTypeOK
    <2>2. CASE turn = "list" /\ turn' = "wait" /\ UNCHANGED <<outbox, channel>>
      BY <2>0, <2>2 DEF NoticesTypeOK
    <2>3. ASSUME turn = "send", NEW s \in Servers, batch[s] > 0, Handled(s),
                 Post(s, Degraded) \/ UNCHANGED channel,
                 UNCHANGED <<turn, queued, item>>
          PROVE  NoticesTypeOK'
      <3>1. /\ posted' \in [Servers -> PublicStatus]
            /\ said' \in [Servers -> 0..Often]
        BY <2>3, PostType DEF PublicStatus, NoticesTypeOK
      <3>2. /\ batch' \in [Servers -> Nat]
            /\ \A r \in Servers : batch'[r] <= queued[r]
        BY <2>3 DEF Handled, NoticesTypeOK
      <3> QED BY <2>0, <2>3, <3>1, <3>2 DEF NoticesTypeOK
    <2>4. CASE /\ turn = "mark" /\ Handled(item) /\ item' = NoServer
               /\ turn' = "send" /\ UNCHANGED <<queued, channel>>
      BY <2>0, <2>4, ServersAssumption DEF Handled, NoticesTypeOK
    <2>5. CASE /\ turn \in {"send", "mark"} /\ batch' = [s \in Servers |-> 0]
               /\ item' = NoServer /\ turn' = "wait"
               /\ UNCHANGED <<queued, channel>>
      BY <2>0, <2>5, ServersAssumption DEF NoticesTypeOK
    <2> QED BY <1>6, <2>1, <2>2, <2>3, <2>4, <2>5 DEF DispatchFault
  <1>7. CASE ReportQueues /\ UNCHANGED misses
    <2>1. PICK s \in Servers :
            /\ CommitReport(s)
            /\ queued' = IF status'[s] = status[s] THEN queued
                         ELSE [queued EXCEPT ![s] = @ + 1]
      BY <1>7, InputsAssumption DEF ReportQueues
    <2>2. pc' = pc BY <2>1 DEF CommitReport, thread
    <2>3. posted' = posted /\ said' \in [Servers -> 0..Often]
      BY <1>7, UnsaidType DEF ReportQueues
    <2>4. /\ queued' \in [Servers -> Nat]
          /\ \A r \in Servers : queued'[r] >= queued[r]
      BY <2>1 DEF NoticesTypeOK
    <2>5. \A r \in Servers : batch[r] <= queued'[r]
      BY <2>4 DEF NoticesTypeOK
    <2> QED BY <1>7, <2>2, <2>3, <2>4, <2>5 DEF ReportQueues, NoticesTypeOK
  <1>8. CASE Elsewhere /\ UNCHANGED misses
    <2>1. pc' = pc
      BY <1>8 DEF Elsewhere, BeginReport, AbortReport, SignalChanges,
         MaintenanceChanges, SetEnabled, thread
    <2> QED BY <1>1, <1>8, <2>1 DEF Elsewhere
  <1>9. CASE UNCHANGED noticesVars
    BY <1>1, <1>9 DEF noticesVars, vars, thread
  <1> QED BY <1>3, <1>4, <1>5, <1>6, <1>7, <1>8, <1>9 DEF NoticesNext, RunStep

-----------------------------------------------------------------------------
(* The inductive invariant of the channel *)

\* A channel whose status was posted ends with that status or with DEGRADED.
Settled ==
  \A s \in Servers : said[s] > 0 => posted[s] \in {status[s], Degraded}

LEMMA NoticesInitInv == NoticesInit => NoticesInv
  BY NoticesInitType, ServersAssumption
  DEF NoticesInit, Init, NoticesInv, RowIsKept, CopyIsRight, NewsIsFresh,
      SaidOnce

\* What a transaction of check does to a server: nothing, or a new status that
\* is not announced yet.
LEMMA WriteIsNews ==
  ASSUME TypeOK, cur \in Servers, Write
  PROVE  \A r \in Servers :
           \/ status'[r] = status[r] /\ notices'[r] = notices[r]
           \/ /\ r = cur /\ tx.changed /\ notices'[r] = 0
              /\ status'[r] = tx.state /\ status[r] # tx.state
  BY DEF Write, TypeOK

\* A transaction that stores OUTAGE or OPERATIONAL finds another status.
LEMMA ChangeIsNews ==
  ASSUME IInv, CopyIsRight, pc = "commit", tx.changed,
         tx.state \in {Outage, Operational}
  PROVE  status[cur] # tx.state
  <1> DEFINE w == InsertCheck(recent[cur], tx.row)
             o == tx.row.outcome
  <1>1. /\ tx.state = Outage => status[cur] # Outage
        /\ tx.state = Operational /\ local = Outage => status[cur] = Outage
    BY ChangeIsRight DEF IInv
  <1>2. local # Maintenance /\ local \in PublicStatus /\ o \in Outcome
    BY DEF IInv, TxSound, TypeOK
  <1>3. w \in Window
    BY InsertCheckWindow DEF IInv, TypeOK, Tx
  <1>4. PICK a \in BOOLEAN : /\ tx.state = Decide(w, local, o, a).state
                             /\ tx.changed = Decide(w, local, o, a).changed
    BY <1>2 DEF IInv, TxSound
  <1> HIDE DEF w, o
  <1>5. tx.state = Operational => local # Operational
    BY <1>2, <1>3, <1>4, DecideOperational
  <1>6. tx.state = Operational /\ local # Outage => status[cur] = local
    BY <1>2, <1>5 DEF CopyIsRight, PublicStatus
  <1> QED BY <1>1, <1>5, <1>6

\* check does not go on with UNKNOWN or DEGRADED unless it has stored it.
LEMMA RetryCopy ==
  ASSUME IInv, pc = "commit", ~tx.changed, ~Returns
  PROVE  tx.state \notin {Unknown, Degraded}
  <1> DEFINE w == InsertCheck(recent[cur], tx.row)
             o == tx.row.outcome
  <1>1. local \in PublicStatus /\ o \in Outcome /\ w \in Window
    BY InsertCheckWindow DEF IInv, TxSound, TypeOK, Tx
  <1>2. CASE local = Maintenance
    BY <1>2 DEF IInv, TxSound
  <1>3. CASE local # Maintenance
    <2>1. PICK a \in BOOLEAN : /\ tx.state = Decide(w, local, o, a).state
                               /\ tx.changed = Decide(w, local, o, a).changed
      BY <1>3 DEF IInv, TxSound
    <2>2. /\ o # ProbeError
          /\ o = Success => local = Outage
      BY DEF Returns
    <2> HIDE DEF w, o
    <2>3. o = Success => tx.state = Operational
      BY <1>1, <2>1, <2>2, DecideUnchanged
    <2> QED BY <1>1, <2>1, <2>2, <2>3, DecideOther
  <1> QED BY <1>2, <1>3

\* A committed transaction, announced or not.
LEMMA CommitNotices ==
  ASSUME IInv, IInv', NoticesInv, NoticesTypeOK', Unsaid, UNCHANGED outbox,
         Commit \/ CommitUnacked
  PROVE  NoticesInv'
  <1>1. TypeOK /\ cur \in Servers /\ pc = "commit" /\ Write
    BY DEF Commit, CommitUnacked, IInv, TypeOK
  <1>2. \A r \in Servers :
          \/ status'[r] = status[r] /\ notices'[r] = notices[r]
          \/ /\ r = cur /\ tx.changed /\ notices'[r] = 0
             /\ status'[r] = tx.state /\ status[r] # tx.state
    BY <1>1, WriteIsNews
  <1>3. /\ posted' = posted
        /\ \A s \in Servers :
             said'[s] = IF status'[s] = status[s] THEN said[s] ELSE 0
    BY UnsaidType DEF NoticesInv
  <1>4. RowIsKept'
    BY <1>2, <1>3 DEF NoticesInv, RowIsKept, outbox
  <1>5. CopyIsRight'
    <2>1. todo' = todo /\ todo[cur] = Skip
      BY <1>1 DEF Commit, CommitUnacked, Continue, Return, IInv, SnapshotSound
    <2>2. pc' \in {"probe", "commit"} =>
            cur' = cur /\ ~tx.changed /\ ~Returns /\ local' = tx.state
      BY DEF Commit, CommitUnacked, Continue, Return
    <2>3. pc' \in {"probe", "commit"} => local' \notin {Unknown, Degraded}
      BY <1>1, <2>2, RetryCopy
    <2> QED BY <1>2, <2>1, <2>3 DEF NoticesInv, CopyIsRight
  <1>6. NewsIsFresh'
    <2>1. pc' = "notify" => tx.changed /\ UNCHANGED <<cur, tx>>
      BY DEF Commit, CommitUnacked, Continue, Return
    <2>2. tx.changed => status'[cur] = tx.state
      BY <1>1 DEF Write, TypeOK
    <2>3. tx.changed /\ tx.state \in {Outage, Operational} => said'[cur] = 0
      BY <1>1, <1>3, <2>2, ChangeIsNews DEF NoticesInv
    <2> QED BY <2>1, <2>2, <2>3 DEF NewsIsFresh
  <1>7. SaidOnce' /\ Settled'
    BY <1>3 DEF NoticesInv, SaidOnce, Settled
  <1> QED BY <1>4, <1>5, <1>6, <1>7 DEF NoticesInv, Settled

\* StateChanged, and check going on behind it.
LEMMA NotifyNotices ==
  ASSUME IInv, IInv', NoticesInv, NoticesTypeOK', UNCHANGED outbox,
         \/ Notify /\ PostChange
         \/ NotifyFails /\ (PostChange \/ UNCHANGED channel)
  PROVE  NoticesInv'
  <1>1. /\ TypeOK /\ cur \in Servers /\ pc = "notify" /\ Continue
        /\ tx.state \in PublicStatus /\ UNCHANGED status
    BY DEF Notify, NotifyFails, IInv, TypeOK, Tx, database
  <1>2. \/ /\ tx.state = status[cur]
           /\ status[cur] \in {Outage, Operational} => said[cur] = 0
        \/ /\ tx.state = Operational /\ status[cur] = Degraded
           /\ said[cur] = 0
    BY <1>1 DEF NoticesInv, NewsIsFresh
  <1>3. \A r \in Servers :
          /\ said'[r] >= said[r]
          /\ r # cur => posted'[r] = posted[r] /\ said'[r] = said[r]
    <2>1. CASE PostChange
      BY <1>1, <2>1, PostType DEF NoticesInv, PostChange
    <2>2. CASE UNCHANGED channel
      BY <2>2 DEF channel, NoticesInv, NoticesTypeOK, Often
    <2> QED BY <2>1, <2>2
  <1>4. \/ posted'[cur] = posted[cur] /\ said'[cur] = said[cur]
        \/ /\ posted'[cur] = tx.state
           /\ status[cur] = tx.state =>
                said'[cur] > 0 /\ said'[cur] <= said[cur] + 1
           /\ status[cur] # tx.state => said'[cur] = said[cur]
    <2>1. CASE PostChange
      BY <1>1, <2>1, PostType DEF NoticesInv, PostChange
    <2> QED BY <2>1 DEF channel
  <1>5. \A r \in Servers : said[r] \in Nat /\ said'[r] \in Nat
    BY DEF NoticesInv, NoticesTypeOK, Often
  <1>6. \A r \in Servers : notices'[r] = 1 =>
          notices[r] = 1 \/ (r = cur /\ said'[r] > 0)
    <2>1. CASE Notify /\ PostChange
      <3>1. \A r \in Servers : notices'[r] = 1 =>
              notices[r] = 1 \/ (r = cur /\ tx.state = status[cur])
        BY <1>1, <2>1 DEF Notify, Announced, TypeOK
      <3>2. tx.state = status[cur] => said'[cur] > 0
        BY <1>1, <2>1, PostType DEF NoticesInv, PostChange
      <3> QED BY <3>1, <3>2
    <2>2. CASE NotifyFails BY <2>2 DEF NotifyFails
    <2> QED BY <2>1, <2>2
  <1>7. RowIsKept'
    BY <1>1, <1>3, <1>5, <1>6 DEF NoticesInv, RowIsKept, outbox
  <1>8. CopyIsRight'
    <2>1. todo' = todo BY <1>1 DEF Continue, Return
    <2>2. pc' \in {"probe", "commit"} => cur' = cur /\ local' = tx.state
      BY <1>1 DEF Continue, Return
    <2> QED BY <1>1, <1>2, <2>1, <2>2 DEF NoticesInv, CopyIsRight
  <1>9. NewsIsFresh'
    BY <1>1 DEF Continue, Return, NewsIsFresh
  <1>10. SaidOnce'
    BY <1>1, <1>2, <1>3, <1>4, <1>5 DEF NoticesInv, SaidOnce
  <1>11. Settled'
    BY <1>1, <1>2, <1>3, <1>4, <1>5 DEF NoticesInv, Settled
  <1> QED BY <1>7, <1>8, <1>9, <1>10, <1>11 DEF NoticesInv, Settled

\* A row in the outbox is posted and marked, or neither.
LEMMA DispatchNotices ==
  ASSUME IInv, NoticesInv, NoticesTypeOK', DispatchStep \/ DispatchFault,
         UNCHANGED vars
  PROVE  NoticesInv'
  <1> USE DEF outbox, channel
  <1>1. UNCHANGED <<status, notices, todo, pc, local, cur, tx>>
    BY DEF vars, database, thread
  <1>2. NoticesTypeOK BY DEF NoticesInv
  <1>3. pc # "notify" /\ pc' # "notify"
    BY <1>1, <1>2 DEF DispatchStep, DispatchFault, List, Send, Mark, Finish,
       NoticesTypeOK
  <1>4. CopyIsRight' /\ NewsIsFresh'
    BY <1>1, <1>3 DEF NoticesInv, CopyIsRight, NewsIsFresh
  <1>5. ASSUME UNCHANGED <<posted, said>>, RowIsKept' PROVE NoticesInv'
    BY <1>1, <1>4, <1>5 DEF NoticesInv, SaidOnce
  <1>6. ASSUME NEW s \in Servers, Post(s, Degraded), RowIsKept' PROVE NoticesInv'
    <2>1. /\ posted'[s] = Degraded
          /\ \A r \in Servers : r # s => /\ posted'[r] = posted[r]
                                         /\ said'[r] = said[r]
          /\ status[s] # Degraded => said'[s] = said[s]
      BY <1>2, <1>6, PostType DEF PublicStatus
    <2>2. SaidOnce' BY <1>1, <2>1 DEF NoticesInv, SaidOnce
    <2>3. Settled' BY <1>1, <2>1 DEF NoticesInv, Settled
    <2> QED BY <1>4, <1>6, <2>2, <2>3 DEF NoticesInv, Settled
  <1>7. ASSUME NEW s \in Servers, Post(s, Degraded), UNCHANGED queued,
               item' \in {s, item}, \A r \in Servers : batch'[r] <= batch[r]
        PROVE  RowIsKept'
    <2>1. /\ \A r \in Servers : r # s => said'[r] = said[r]
          /\ status[s] = Degraded => said'[s] > 0
          /\ status[s] # Degraded => said'[s] = said[s]
      BY <1>2, <1>7, PostType DEF PublicStatus
    <2>2. \A r \in Servers : batch[r] \in Nat /\ batch'[r] \in Nat /\ queued[r] \in Nat
      BY <1>2 DEF NoticesTypeOK
    <2> QED BY <1>1, <1>7, <2>1, <2>2 DEF NoticesInv, RowIsKept
  <1>8. ASSUME UNCHANGED <<queued, said>>,
               \/ item' = NoServer
               \/ item' = item /\ \A r \in Servers : batch'[r] <= batch[r]
        PROVE  RowIsKept'
    <2>1. \A r \in Servers : batch[r] \in Nat /\ batch'[r] \in Nat /\ queued[r] \in Nat
      BY <1>2 DEF NoticesTypeOK
    <2> QED BY <1>1, <1>8, <2>1, ServersAssumption DEF NoticesInv, RowIsKept
  <1>9. \A r \in Servers : batch[r] \in Nat BY <1>2 DEF NoticesTypeOK
  <1>10. \A s \in Servers : Handled(s) => \A r \in Servers : batch'[r] <= batch[r]
    BY <1>2 DEF Handled, NoticesTypeOK
  <1>11. CASE List
    <2>1. item' = NoServer
      BY <1>2, <1>11 DEF List, NoticesTypeOK
    <2> QED BY <1>5, <1>8, <1>11, <2>1 DEF List
  <1>12. ASSUME NEW s \in Servers, Send(s) PROVE NoticesInv'
    BY <1>6, <1>7, <1>9, <1>12 DEF Send
  <1>13. CASE Mark
    <2>1. item \in Servers BY <1>2, <1>13 DEF Mark, NoticesTypeOK
    <2>2. /\ \A r \in Servers : r # item => queued'[r] = queued[r]
          /\ queued'[item] = queued[item] - 1
      BY <1>2, <1>13, <2>1 DEF Mark, NoticesTypeOK
    <2>3. batch[item] > 0 /\ batch[item] \in Nat /\ queued[item] \in Nat
      BY <1>2, <2>1 DEF NoticesTypeOK
    <2>4. RowIsKept'
      BY <1>1, <1>13, <2>1, <2>2, <2>3, ServersAssumption
      DEF Mark, NoticesInv, RowIsKept
    <2> QED BY <1>5, <1>13, <2>4 DEF Mark
  <1>14. CASE Finish BY <1>5, <1>8, <1>9, <1>14 DEF Finish
  <1>15. CASE DispatchFault
    <2>1. ASSUME NEW s \in Servers, Handled(s),
                 Post(s, Degraded) \/ UNCHANGED channel,
                 UNCHANGED <<turn, queued, item>>
          PROVE  NoticesInv'
      BY <1>5, <1>6, <1>7, <1>8, <1>10, <2>1
    <2>2. CASE UNCHANGED <<outbox, channel>>
      BY <1>5, <1>8, <1>9, <2>2
    <2>3. CASE item' = NoServer /\ UNCHANGED <<queued, channel>>
      BY <1>5, <1>8, <2>3
    <2> QED BY <1>15, <2>1, <2>2, <2>3 DEF DispatchFault
  <1> QED BY <1>11, <1>12, <1>13, <1>14, <1>15 DEF DispatchStep

LEMMA NoticesInvStep ==
  ASSUME IInv, IInv', NoticesInv, [NoticesNext]_noticesVars
  PROVE  NoticesInv'
  <1> USE DEF outbox, channel
  <1>1. NoticesTypeOK' BY NoticesTypeStep DEF IInv, NoticesInv
  <1>2. ASSUME UNCHANGED <<status, notices, outbox, channel>>,
               CopyIsRight', pc' # "notify"
        PROVE  NoticesInv'
    BY <1>1, <1>2 DEF NoticesInv, RowIsKept, NewsIsFresh, SaidOnce
  <1>3. CASE RunOnce /\ UNCHANGED <<outbox, channel>>
    <2>1. CopyIsRight'
      BY <1>3 DEF RunOnce, Listed, CopyIsRight, database, IInv, TypeOK
    <2> QED BY <1>2, <1>3, <2>1 DEF RunOnce, database
  <1>4. CASE (EndPass \/ Observe) /\ UNCHANGED <<outbox, channel>>
    <2>1. CopyIsRight'
      BY <1>4 DEF EndPass, Observe, NoticesInv, CopyIsRight, database
    <2> QED BY <1>2, <1>4, <2>1 DEF EndPass, Observe, database
  <1>5. ASSUME NEW s \in Servers, StartCheck(s), UNCHANGED <<outbox, channel>>
        PROVE  NoticesInv'
    <2>1. CopyIsRight'
      BY <1>5 DEF StartCheck, NoticesInv, CopyIsRight, database, IInv, TypeOK
    <2> QED BY <1>2, <1>5, <2>1 DEF StartCheck, database
  <1>6. CASE (RecordFails \/ Crash) /\ UNCHANGED <<outbox, channel>>
    <2>1. CopyIsRight'
      BY <1>6 DEF RecordFails, Crash, Return, NoticesInv, CopyIsRight, database
    <2> QED BY <1>2, <1>6, <2>1 DEF RecordFails, Crash, Return, database
  <1>7. CASE PassStep /\ UNCHANGED outbox
    BY <1>1, <1>3, <1>4, <1>5, <1>7, CommitNotices, NotifyNotices DEF PassStep
  <1>8. CASE PassFault /\ UNCHANGED outbox
    BY <1>1, <1>6, <1>8, CommitNotices, NotifyNotices DEF PassFault
  <1>9. CASE (DispatchStep \/ DispatchFault) /\ UNCHANGED vars
    BY <1>1, <1>9, DispatchNotices
  <1>10. CASE ReportQueues
    <2>1. PICK s \in Servers :
            /\ CommitReport(s)
            /\ queued' = IF status'[s] = status[s] THEN queued
                         ELSE [queued EXCEPT ![s] = @ + 1]
      BY <1>10, InputsAssumption DEF ReportQueues
    <2>2. /\ UNCHANGED <<pc, todo, cur, local, tx, batch, item>>
          /\ posted' = posted
          /\ \A r \in Servers :
               said'[r] = IF status'[r] = status[r] THEN said[r] ELSE 0
      BY <1>10, <2>1, UnsaidType DEF ReportQueues, CommitReport, thread, NoticesInv
    <2>3. \A r \in Servers :
            \/ /\ status'[r] = status[r] /\ notices'[r] = notices[r]
               /\ queued'[r] = queued[r]
            \/ /\ status[r] = Operational /\ status'[r] = Degraded
               /\ queued'[r] = queued[r] + 1
      BY <2>1 DEF CommitReport, IInv, TypeOK, NoticesInv, NoticesTypeOK
    <2>4. \A r \in Servers :
            queued[r] \in Nat /\ batch[r] \in Nat /\ batch[r] <= queued[r]
      BY DEF NoticesInv, NoticesTypeOK
    <2>5. RowIsKept' BY <2>2, <2>3, <2>4 DEF NoticesInv, RowIsKept
    <2>6. pc \in {"probe", "commit", "notify"} => cur \in Servers
      BY DEF IInv, TypeOK
    <2>7. CopyIsRight' BY <2>2, <2>3, <2>6 DEF NoticesInv, CopyIsRight
    <2>8. NewsIsFresh' BY <2>2, <2>3, <2>6 DEF NoticesInv, NewsIsFresh
    <2>9. SaidOnce' /\ Settled'
      BY <2>2, <2>3 DEF NoticesInv, SaidOnce, Settled
    <2> QED BY <1>1, <2>5, <2>7, <2>8, <2>9 DEF NoticesInv, Settled
  <1>11. ASSUME UNCHANGED <<status, notices, thread, outbox, channel>>
         PROVE  NoticesInv'
    BY <1>1, <1>11
    DEF NoticesInv, RowIsKept, CopyIsRight, NewsIsFresh, SaidOnce, thread
  <1>12. CASE Elsewhere
    BY <1>11, <1>12 DEF Elsewhere, BeginReport, AbortReport, SignalChanges,
       MaintenanceChanges, SetEnabled
  <1>13. CASE UNCHANGED noticesVars
    BY <1>11, <1>13 DEF noticesVars, vars, database
  <1> QED BY <1>7, <1>8, <1>9, <1>10, <1>12, <1>13 DEF NoticesNext, RunStep

\* The inductive invariant of the channel holds in every reachable state.
THEOREM NoticesInvariance == NoticesSpec => []NoticesInv
  <1>1. NoticesInit => NoticesInv BY NoticesInitInv
  <1>2. IInv /\ IInv' /\ NoticesInv /\ [NoticesNext]_noticesVars => NoticesInv'
    BY NoticesInvStep
  <1> QED BY <1>1, <1>2, NoticesWorkerInv, PTL DEF NoticesSpec

\* Run is in one place at a time, and the dispatch never has more rows in hand
\* than the outbox holds.
THEOREM NoticesTypeCorrect == NoticesSpec => []NoticesTypeOK
  <1>1. NoticesInv => NoticesTypeOK BY DEF NoticesInv
  <1> QED BY <1>1, NoticesInvariance, PTL

\* The outbox never loses the row that an announcement by RecordUserReport
\* rests on, whatever fails and whichever rows are dispatched meanwhile.
THEOREM NoticesReal == NoticesSpec => []NoticesAreReal
  <1>1. NoticesInv => NoticesAreReal
    BY DEF NoticesInv, NoticesTypeOK, RowIsKept, NoticesAreReal, Often
  <1> QED BY <1>1, NoticesInvariance, PTL

\* OUTAGE and OPERATIONAL are never posted twice for one change.
THEOREM PostedOnce == NoticesSpec => []SaidOnce
  <1>1. NoticesInv => SaidOnce BY DEF NoticesInv
  <1> QED BY <1>1, NoticesInvariance, PTL

\* Between two passes the status of a server has been posted, and nothing but a
\* late DEGRADED follows it.
THEOREM ChannelLastWord == NoticesSpec => []LastWord
  <1>1. IInv /\ NoticesInv => LastWord
    <2> SUFFICES ASSUME IInv, NoticesInv, NEW s \in Servers, AtRest(s)
                 PROVE  said[s] > 0
      BY DEF LastWord, NoticesInv
    <2>1. pc = "idle" BY DEF NoticesInv, NoticesTypeOK, AtRest
    <2>2. notices[s] = 1
      BY <2>1 DEF IInv, NoSilentChange, AtRest, TypeOK
    <2> QED BY <2>2 DEF NoticesInv, NoticesTypeOK, RowIsKept, AtRest, Often
  <1> QED BY <1>1, NoticesWorkerInv, NoticesInvariance, PTL

=============================================================================
