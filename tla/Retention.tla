----------------------------- MODULE Retention -----------------------------
(***************************************************************************)
(* RunRetention (internal/store): roll the checks of one server up to      *)
(* 15-minute, hourly and daily rows, then delete what is past its age, in  *)
(* one transaction.  The Worker runs it between its passes, so no check is *)
(* recorded meanwhile.  Time is a number of ticks, one check at most per   *)
(* tick; the age limits need not fall on the edge of a bucket.  The        *)
(* reports of players are rolled up once, to 15 minutes.  The latencies    *)
(* and the types of reports are left out.                                  *)
(***************************************************************************)
EXTENDS Naturals, FiniteSets

CONSTANTS
  MaxTime,      \* bound: the last tick
  Quarter,      \* date_bin('15 minutes', t)
  Hour,         \* date_trunc('hour', t)
  Day,          \* date_trunc('day', t)
  RawKept,      \* 30 days
  FifteenKept,  \* 90 days
  HourlyKept,   \* 1 year
  Period,       \* the longest time without a run, six hours for a live Worker
  Results,      \* what each tick can bring: "up", "down", or "none" for no check
  Windows,      \* the maintenance windows that may be scheduled, sets of ticks
  Reportable    \* the ticks at which players may report

Time == 0..MaxTime

\* The three grids nest, a bucket is what follows its first tick, and what is
\* past its age is past the open bucket.
ASSUME GridAssumption ==
  /\ MaxTime \in Nat
  /\ Quarter \in [Time -> Time] /\ Hour \in [Time -> Time] /\ Day \in [Time -> Time]
  /\ \A t \in Time : /\ Quarter[t] <= t /\ Hour[t] <= t /\ Day[t] <= t
                     /\ Hour[Quarter[t]] = Hour[t] /\ Day[Hour[t]] = Day[t]
  /\ \A t, u \in Time : Hour[u] <= t /\ t <= u => Hour[t] = Hour[u]
  /\ \A t, u \in Time : Day[u] <= t /\ t <= u => Day[t] = Day[u]
ASSUME AgeAssumption ==
  /\ RawKept \in Nat /\ FifteenKept \in Nat /\ HourlyKept \in Nat
  /\ Period \in Nat \ {0}
  /\ \A t \in Time : /\ t <= Hour[t] + RawKept /\ t <= Hour[t] + FifteenKept
                     /\ t <= Day[t] + HourlyKept
ASSUME InputAssumption ==
  /\ Results \in [Time -> SUBSET {"up", "down", "none"}]
  /\ Windows \subseteq SUBSET Time
  /\ Reportable \subseteq Time

VARIABLES
  now,
  lastRun,     \* when RunRetention was last called
  raw,         \* checks: the ticks with a row
  up,          \* history: the ticks of the successful checks
  taken,       \* history: the ticks of all checks
  maintained,  \* maintenance_windows: the ticks they cover
  fifteen,     \* check_aggregates_15m
  hourly,      \* check_aggregates_hourly
  daily,       \* daily_uptime
  reports,     \* user_reports: the ticks with a row
  reported,    \* history: the ticks of all reports
  reportRows   \* user_report_aggregates_15m: the reports a row counts

checks == <<raw, up, taken, fifteen, hourly, daily>>
crowd  == <<reports, reported, reportRows>>
vars   == <<now, lastRun, maintained, checks, crowd>>

Empty == [b \in {} |-> 0]

Init ==
  /\ now = 0 /\ lastRun = 0
  /\ raw = {} /\ up = {} /\ taken = {}
  /\ maintained = {}
  /\ fifteen = Empty /\ hourly = Empty /\ daily = Empty
  /\ reports = {} /\ reported = {} /\ reportRows = Empty

-----------------------------------------------------------------------------
(* The rest of the program, as far as retention reads it *)

\* Time passes, until the retention ticker fires; the Worker may record a
\* check.
Tick ==
  /\ now < MaxTime
  /\ now < lastRun + Period
  /\ now' = now + 1
  /\ \E result \in Results[now] :
       /\ raw'   = IF result = "none" THEN raw ELSE raw \cup {now}
       /\ taken' = IF result = "none" THEN taken ELSE taken \cup {now}
       /\ up'    = IF result = "up" THEN up \cup {now} ELSE up
  /\ UNCHANGED <<lastRun, maintained, fifteen, hourly, daily, crowd>>

\* RecordUserReport stores a row (module CrowdReports).
Report ==
  /\ now \in Reportable
  /\ reports' = reports \cup {now}
  /\ reported' = reported \cup {now}
  /\ UNCHANGED <<now, lastRun, maintained, checks, reportRows>>

\* ScheduleMaintenanceForDiscordMember, for the past too.
ScheduleMaintenance ==
  /\ \E w \in Windows : maintained' = maintained \cup w
  /\ UNCHANGED <<now, lastRun, checks, crowd>>

-----------------------------------------------------------------------------
(* RunRetention *)

\* ON CONFLICT DO UPDATE SET ... = EXCLUDED: a group replaces its row.
Upsert(rows, groups) ==
  [b \in DOMAIN rows \cup DOMAIN groups |->
     IF b \in DOMAIN groups THEN groups[b] ELSE rows[b]]

\* Mutant of Counts: the windows are not matched with the checks.
CountsAnyWindow(ticks) ==
  [b \in {Quarter[t] : t \in ticks} |->
     [all |-> {t \in ticks : Quarter[t] = b}, excluded |-> maintained]]

\* GROUP BY the 15-minute bucket of raw checks.  A row stands for the checks
\* it counts, and the ones excluded by a window known now.
Counts(ticks) ==
  [b \in {Quarter[t] : t \in ticks} |->
     LET group == {t \in ticks : Quarter[t] = b}
     IN  [all |-> group, excluded |-> group \cap maintained]]

\* GROUP BY a coarser bucket: rows of disjoint buckets are summed.
Sums(rows, open, Coarse) ==
  LET closed == {k \in DOMAIN rows : k < open}
  IN  [b \in {Coarse[k] : k \in closed} |->
         LET group == {rows[k] : k \in {k \in closed : Coarse[k] = b}}
         IN  [all      |-> UNION {r.all : r \in group},
              excluded |-> UNION {r.excluded : r \in group}]]

\* Mutant of Rolled15: the old checks are deleted first.
Rolled15AfterDelete ==
  Upsert(fifteen, Counts({t \in raw : t < Hour[now] /\ t + RawKept >= now}))

\* Only closed hours are rolled up.
Rolled15     == Upsert(fifteen, Counts({t \in raw : t < Hour[now]}))
RolledHourly == Upsert(hourly, Sums(Rolled15, Hour[now], Hour))

\* Mutant of Days: the present day is rolled up as well.
DaysWithToday == Sums(RolledHourly, Hour[now], Day)

\* The daily_uptime rows of this run, for closed days only.
Days == Sums(RolledHourly, Day[now], Day)

\* uptime_percent divides all successful checks by those not excluded, and is
\* NULL when there are none.
Successes(row) == Cardinality(row.all \cap up)
Observed(row)  == Cardinality(row.all) - Cardinality(row.excluded)

\* round(100.0 * successes / observed, 2) does not fit numeric(5,2).
Overflows(row) ==
  Observed(row) > 0 /\ 20000 * Successes(row) >= 199999 * Observed(row)

\* Mutant of RolledReports: the old reports are deleted first.
RolledReportsAfterDelete ==
  LET closed == {t \in reports : t < Hour[now] /\ t + RawKept >= now}
  IN  Upsert(reportRows, [b \in {Quarter[t] : t \in closed} |->
                            {t \in closed : Quarter[t] = b}])

\* The reports of closed hours, by 15 minutes.
RolledReports ==
  LET closed == {t \in reports : t < Hour[now]}
  IN  Upsert(reportRows, [b \in {Quarter[t] : t \in closed} |->
                            {t \in closed : Quarter[t] = b}])

Kept(rows, age) == [b \in {k \in DOMAIN rows : k + age >= now} |-> rows[b]]

\* An overflow fails the statement, and the transaction with it.
RunRetention ==
  LET days == Days
      overflow == \E d \in DOMAIN days : Overflows(days[d])
  IN  /\ \/ /\ overflow
            /\ UNCHANGED <<raw, fifteen, hourly, daily, reports, reportRows>>
         \/ /\ ~overflow
            /\ raw'     = {t \in raw : t + RawKept >= now}
            /\ fifteen' = Kept(Rolled15, FifteenKept)
            /\ hourly'  = Kept(RolledHourly, HourlyKept)
            /\ daily'   = Upsert(daily, days)
            /\ reports' = {t \in reports : t + RawKept >= now}
            /\ reportRows' = Kept(RolledReports, FifteenKept)
      /\ lastRun' = now
      /\ UNCHANGED <<now, up, taken, maintained, reported>>

Next == Tick \/ Report \/ ScheduleMaintenance \/ RunRetention

Spec == Init /\ [][Next]_vars

-----------------------------------------------------------------------------
(* Properties *)

TypeOK ==
  /\ now \in Time /\ lastRun \in 0..now
  /\ raw \subseteq taken /\ up \subseteq taken /\ taken \subseteq 0..(now - 1)
  /\ maintained \subseteq Time
  /\ \A rows \in {fifteen, hourly, daily} :
       /\ DOMAIN rows \subseteq Time
       /\ \A b \in DOMAIN rows :
            rows[b].excluded \subseteq rows[b].all /\ rows[b].all \subseteq taken
  /\ reports \subseteq reported /\ reported \subseteq 0..now
  /\ DOMAIN reportRows \subseteq Time

\* README.md:55: a record is not discarded before its replacement aggregate
\* exists.  Whenever retention runs, and however late, every check is still
\* there or in a row of some resolution.
NothingDiscarded ==
  \A t \in taken : \/ t \in raw
                   \/ Quarter[t] \in DOMAIN fifteen
                   \/ Hour[t] \in DOMAIN hourly
                   \/ Day[t] \in DOMAIN daily

\* Inductive, with the ticks and buckets in range.
RetentionInv ==
  /\ now \in Time
  /\ raw \subseteq Time /\ taken \subseteq Time
  /\ DOMAIN fifteen \subseteq Time /\ DOMAIN hourly \subseteq Time
  /\ NothingDiscarded

\* README.md:50: raw checks are kept for 30 days.  A run deletes what is older,
\* so nothing gets older than that by more than the time between two runs.
RawIsBounded == \A t \in raw : now <= t + RawKept + Period

\* postgres.go:31: it is safe to run retention repeatedly.  However often it
\* has run, the row of a day counts every check of that day, until the first
\* of them is past its age: a bucket that is half deleted is rolled up again
\* from what is left of it.
DailyIsComplete ==
  \A d \in DOMAIN daily :
    d + RawKept >= now => daily[d].all = {t \in taken : Day[t] = d}

\* postgres.go:72, 75: reports are kept, then their 15-minute counts, each for its
\* age.  No report vanishes before the age of its row's bucket, and a row
\* counts all of its bucket until the first of them is past its own age.
ReportsCounted ==
  /\ \A t \in reported : \/ t \in reports
                         \/ Quarter[t] \in DOMAIN reportRows
                         \/ Quarter[t] + FifteenKept < now
  /\ \A b \in DOMAIN reportRows :
       b + RawKept >= now => reportRows[b] = {t \in reported : Quarter[t] = b}

-----------------------------------------------------------------------------
(* Why DailyIsComplete and ReportsCounted hold *)

\* Only closed buckets have rows.
Closed(rows, open) == \A b \in DOMAIN rows : b < open

\* A row counts every check of its bucket, until the first is past its age.
Complete(rows, Grid) ==
  \A b \in DOMAIN rows :
    b + RawKept >= now => rows[b].all = {t \in taken : Grid[t] = b}

\* The inductive invariant of the rows.
RollupInv ==
  /\ TypeOK
  /\ \A t \in taken : t + RawKept >= now => t \in raw
  /\ Closed(fifteen, Hour[now]) /\ Complete(fifteen, Quarter)
  /\ Closed(hourly, Hour[now]) /\ Complete(hourly, Hour)
  /\ Closed(daily, Day[now]) /\ Complete(daily, Day)
  /\ \A t \in reported : t + RawKept >= now => t \in reports
  /\ Closed(reportRows, Hour[now]) /\ ReportsCounted

=============================================================================
