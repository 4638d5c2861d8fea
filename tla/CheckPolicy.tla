----------------------------- MODULE CheckPolicy -----------------------------
(***************************************************************************)
(* The state policy that store.RecordCheck applies inside its transaction: *)
(* stateAfter, the queries over the newest rows of the checks table, and   *)
(* the crowd-signal override.  The operators are pure: they take what the  *)
(* transaction read and return what it will write.                         *)
(*                                                                         *)
(* No query of the policy looks further back than LIMIT 3, so the checks   *)
(* of one server are kept as the window of its three newest rows, newest   *)
(* first (ORDER BY checked_at DESC, id DESC).                              *)
(***************************************************************************)
EXTENDS Domain, Naturals

NoOutcome == "NO_ROW"

\* A row of the checks table.  maint: checked_at lies in a maintenance window.
Row    == [outcome : Outcome \cup {NoOutcome}, maint : BOOLEAN]
NoRow  == [outcome |-> NoOutcome, maint |-> FALSE]
Window == [1..3 -> Row]

EmptyWindow == [i \in 1..3 |-> NoRow]

\* INSERT INTO checks: the new row is the newest, the oldest leaves the window.
InsertCheck(w, row) == [i \in 1..3 |-> IF i = 1 THEN row ELSE w[i - 1]]

\* recentFailures(3) = 3
ThreeRecentFailures(w) == \A i \in 1..3 : w[i].outcome \in FailureOutcomes

\* recentMatchingCount(2, SUCCESS) = 2
TwoRecentSuccesses(w) == \A i \in 1..2 : w[i].outcome = Success

\* The state an outcome speaks for.
StateOf(o) ==
  IF o = ProbeError THEN Unknown
  ELSE IF o = Success THEN Operational
  ELSE Outage

\* Mutants of StateAfter: only an operational server can go down; a degraded
\* one is left to the crowd signal; a success always counts as a change.
StateAfterFromOperational(w, current, o) ==
  [state   |-> StateOf(o),
   changed |-> \/ o = ProbeError /\ current # Unknown
               \/ o = Success /\ current = Outage /\ TwoRecentSuccesses(w)
               \/ o = Success /\ current \notin {Outage, Operational}
               \/ /\ o \in FailureOutcomes /\ current = Operational
                  /\ ThreeRecentFailures(w)]

StateAfterKeepsDegraded(w, current, o) ==
  [state   |-> StateOf(o),
   changed |-> \/ o = ProbeError /\ current # Unknown
               \/ o = Success /\ current = Outage /\ TwoRecentSuccesses(w)
               \/ /\ o = Success
                  /\ current \notin {Outage, Operational, Degraded}
               \/ /\ o \in FailureOutcomes /\ current # Outage
                  /\ ThreeRecentFailures(w)]

StateAfterAnySuccess(w, current, o) ==
  [state   |-> StateOf(o),
   changed |-> \/ o = ProbeError /\ current # Unknown
               \/ o = Success /\ (current = Outage => TwoRecentSuccesses(w))
               \/ /\ o \in FailureOutcomes /\ current # Outage
                  /\ ThreeRecentFailures(w)]

(***************************************************************************)
(* stateAfter: w already holds the new row, current is server.Status as    *)
(* the CALLER passed it, which need not be the stored status.  The result  *)
(* carries the state even when nothing changed.                            *)
(***************************************************************************)
StateAfter(w, current, o) ==
  [state   |-> StateOf(o),
   changed |-> \/ o = ProbeError /\ current # Unknown
               \/ o = Success /\ current = Outage /\ TwoRecentSuccesses(w)
               \/ o = Success /\ current \notin {Outage, Operational}
               \/ /\ o \in FailureOutcomes /\ current # Outage
                  /\ ThreeRecentFailures(w)]

\* Mutant of Decide: the signal is read only when the state changes.
DecideOnChange(w, current, o, anomalous) ==
  LET d == StateAfter(w, current, o)
  IN  IF d.changed /\ o = Success /\ anomalous
      THEN [state |-> Degraded, changed |-> current # Degraded]
      ELSE d

\* RecordCheck up to the writes: a success under an anomalous crowd signal
\* yields DEGRADED in place of what stateAfter said.
Decide(w, current, o, anomalous) ==
  IF o = Success /\ anomalous
  THEN [state |-> Degraded, changed |-> current # Degraded]
  ELSE StateAfter(w, current, o)

(***************************************************************************)
(* The OPEN incidents of one server.  RecordCheck only ever resolves the   *)
(* OPEN one with the latest started_at, so a set tells enough: "latest" is *)
(* the incident opened last, "earlier" stands for one or more older ones   *)
(* that are still OPEN.                                                    *)
(***************************************************************************)
OpenIncidents == SUBSET {"latest", "earlier"}

OpenIncident(open) ==
  {"latest"} \cup (IF open = {} THEN {} ELSE {"earlier"})

\* The possible sets after UPDATE incidents ... ORDER BY started_at DESC
\* LIMIT 1: with the latest one closed already, an older one is taken.
ResolveIncident(open) ==
  IF "latest" \in open THEN {open \ {"latest"}} ELSE {open, {}}

=============================================================================
