------------------------------- MODULE Domain -------------------------------
(***************************************************************************)
(* The vocabulary of internal/domain: public states and check outcomes.    *)
(* The literal strings are the ones the program and the PostgreSQL enums   *)
(* use.                                                                    *)
(***************************************************************************)

Operational == "OPERATIONAL"
Degraded    == "DEGRADED"
Outage      == "OUTAGE"
Maintenance == "MAINTENANCE"
Unknown     == "UNKNOWN"

PublicStatus == {Operational, Degraded, Outage, Maintenance, Unknown}

\* What RecordCheck and RecordUserReport ever write to
\* monitored_servers.status: MAINTENANCE is only ever computed by a query.
StoredStatus == PublicStatus \ {Maintenance}

Success    == "SUCCESS"
ProbeError == "PROBE_ERROR"

\* The outcomes recentFailures counts: everything that is neither a success
\* nor a fault of the probe itself.
FailureOutcomes == {"DNS_FAILURE", "CONNECTION_REFUSED", "CONNECT_TIMEOUT",
                    "STATUS_TIMEOUT", "CONNECTION_RESET",
                    "INVALID_STATUS_RESPONSE"}

Outcome == FailureOutcomes \cup {Success, ProbeError}

=============================================================================
