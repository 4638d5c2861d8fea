--------------------------- MODULE StatusContract ---------------------------
(***************************************************************************)
(* What the stored status of a server promises to the readers of the       *)
(* database (status pages, Discord commands, incident history), said in    *)
(* terms of the stored rows and the crowd signal: no snapshot, no attempt, *)
(* no process.  Every change of the status is backed by the newest rows of *)
(* checks or by a signal that was read as anomalous, an incident is opened *)
(* and resolved together with the status change it belongs to, and a       *)
(* signal never overrides a confirmed OUTAGE (types.go:87, README.md:38).  *)
(***************************************************************************)
EXTENDS CheckPolicy

CONSTANT Servers

VARIABLES
  status, recent, incidents,
  anomalous,   \* what the committed reports say of a server now
  reading,     \* a check has read the signal as anomalous and will commit
  report       \* so has a report, of which it is a part itself

rows         == <<status, recent, incidents>>
signals      == <<anomalous, reading, report>>
contractVars == <<rows, signals>>

Init ==
  /\ status    = [s \in Servers |-> Unknown]
  /\ recent    = [s \in Servers |-> EmptyWindow]
  /\ incidents = [s \in Servers |-> {}]
  /\ anomalous = [s \in Servers |-> FALSE]
  /\ reading   = [s \in Servers |-> FALSE]
  /\ report    = [s \in Servers |-> FALSE]

-----------------------------------------------------------------------------
(* A check is recorded *)

Newest(s) == recent'[s][1].outcome

\* The row decides nothing.
Keep(s) == UNCHANGED <<status, incidents>>

\* The third failure in a row at least: outage and incident in one step.
Confirm(s) ==
  /\ status[s] # Outage
  /\ ThreeRecentFailures(recent'[s])
  /\ status' = [status EXCEPT ![s] = Outage]
  /\ incidents' = [incidents EXCEPT ![s] = OpenIncident(@)]

\* The second success in a row at least: the outage's own incident is closed.
Recover(s) ==
  /\ status[s] = Outage
  /\ "latest" \in incidents[s]
  /\ TwoRecentSuccesses(recent'[s])
  /\ status' = [status EXCEPT ![s] = Operational]
  /\ incidents' = [incidents EXCEPT ![s] = @ \ {"latest"}]

\* The probe itself failed: nothing is known, and an incident stays open.
LoseSight(s) ==
  /\ Newest(s) = ProbeError
  /\ status' = [status EXCEPT ![s] = Unknown]
  /\ UNCHANGED incidents

\* Outside an outage one success is enough.
Healthy(s) ==
  /\ status[s] # Outage
  /\ ~reading[s]
  /\ Newest(s) = Success
  /\ status' = [status EXCEPT ![s] = Operational]
  /\ UNCHANGED incidents

\* A success under a crowd signal, unless an outage is confirmed.
Degrade(s) ==
  /\ status[s] # Outage
  /\ reading[s]
  /\ Newest(s) = Success
  /\ status' = [status EXCEPT ![s] = Degraded]
  /\ UNCHANGED incidents

Insert(s) ==
  /\ \E row \in Row : recent' = [recent EXCEPT ![s] = InsertCheck(@, row)]
  /\ reading' = [reading EXCEPT ![s] = FALSE]
  /\ UNCHANGED <<anomalous, report>>

Record(s) ==
  /\ Insert(s)
  /\ Keep(s) \/ Confirm(s) \/ Recover(s) \/ LoseSight(s) \/ Healthy(s)
       \/ Degrade(s)

-----------------------------------------------------------------------------
(* The crowd signal *)

\* Reports and time raise and lower it.
SignalMoves(s) ==
  /\ anomalous' = [anomalous EXCEPT ![s] = ~@]
  /\ UNCHANGED <<rows, reading, report>>

\* A check reads it; the reading may come to nothing.
Look(s) ==
  /\ reading[s] \/ anomalous[s]
  /\ reading' = [reading EXCEPT ![s] = ~@]
  /\ UNCHANGED <<rows, anomalous, report>>

\* A report reads it, with its own row in it; that may come to nothing too.
Report(s) ==
  /\ report' = [report EXCEPT ![s] = ~@]
  /\ UNCHANGED <<rows, anomalous, reading>>

\* By itself it only ever degrades an operational server.
CrowdDegrades(s) ==
  /\ report[s]
  /\ status[s] = Operational
  /\ status' = [status EXCEPT ![s] = Degraded]
  /\ report' = [report EXCEPT ![s] = FALSE]
  /\ UNCHANGED <<recent, incidents, anomalous, reading>>

-----------------------------------------------------------------------------
Next ==
  \E s \in Servers :
    Record(s) \/ CrowdDegrades(s) \/ SignalMoves(s) \/ Look(s) \/ Report(s)

Spec == Init /\ [][Next]_contractVars

\* What the code does beside it: one success under a signal ends a confirmed
\* outage, and leaves its incident open (postgres.go:403-411).
Override(s) ==
  /\ Insert(s)
  /\ status[s] = Outage
  /\ reading[s]
  /\ Newest(s) = Success
  /\ status' = [status EXCEPT ![s] = Degraded]
  /\ UNCHANGED incidents

OverridingSpec ==
  Init /\ [][Next \/ \E s \in Servers : Override(s)]_contractVars

=============================================================================
