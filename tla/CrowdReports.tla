---------------------------- MODULE CrowdReports ----------------------------
(***************************************************************************)
(* The reports of players about one server: the web form (app.report) and  *)
(* the /report command insert rows of user_reports through                 *)
(* RecordUserReport, crowdSignal compares the present 15 minutes with the  *)
(* same quarter of the preceding weeks, and RunRetention removes old rows. *)
(*                                                                         *)
(* A web client is known by a hash that holds the day, an account by one   *)
(* that does not; the row's own day is taken from a second reading of the  *)
(* clock.  Time is a number of ticks.                                      *)
(***************************************************************************)
EXTENDS Naturals, FiniteSets

CONSTANTS
  Clients,     \* browsers that use the web form
  Accounts,    \* Discord accounts that use /report
  Active,      \* bound: those of them who report while the model runs
  Requests,    \* reports under way or made
  MaxTime,     \* bound: the last tick
  Bucket,      \* date_bin('15 minutes', t)
  Day,         \* date_trunc('day', t)
  Slot,        \* weekday, hour and quarter of t
  Lookback,    \* 28 days
  Kept,        \* 30 days
  Patience,    \* bound: how long a request lasts
  Beginnings   \* the instants and rows a run of the model starts from

Time      == 0..MaxTime
Reporters == Clients \cup Accounts
Always    == MaxTime + 1   \* in place of a day

ASSUME TimeAssumption ==
  /\ MaxTime \in Nat /\ Lookback \in Nat /\ Kept \in Nat /\ Patience \in Nat
  /\ Bucket \in [Time -> Time] /\ Day \in [Time -> Time]
  /\ \A t \in Time : Bucket[t] <= t /\ Day[t] <= t
\* A bucket is shorter than the look-back and lies within a day.
ASSUME BucketAssumption ==
  /\ \A t \in Time : t <= Bucket[t] + Lookback
  /\ \A t, u \in Time : Bucket[t] = Bucket[u] => Day[t] = Day[u]
\* A day is what follows its first tick, and is longer than a request lasts.
ASSUME DayAssumption ==
  /\ \A t, u \in Time : Day[u] <= t /\ t <= u => Day[t] = Day[u]
  /\ \A t, u, v \in Time :
       (\A x \in {t, u} : x < Day[v] /\ Day[v] <= x + Patience) => Day[t] = Day[u]
\* So is the time until the same quarter comes again.
ASSUME SlotAssumption ==
  \A t, u \in Time :
    u < Bucket[t] /\ Slot[u] = Slot[Bucket[t]] => u + Patience < t
ASSUME ActiveAssumption == Active # {} /\ Active \subseteq Reporters
\* A request never sees rows that retention may remove.
ASSUME KeptAssumption == Lookback + Patience <= Kept

VARIABLES
  now,
  rows,   \* user_reports: who, the day in the hash, reported_at
  req     \* the requests: progress, row, whether INSERT stored it

vars == <<now, rows, req>>

Row     == [who : Reporters, hash : Time \cup {Always}, at : Time]
Request == [pc : {"new", "hashed", "stamped", "inserted", "done"},
            row : Row, stored : BOOLEAN]

\* reporterHash holds the day, discordReporterHash does not.
Hash(who, t) == IF who \in Clients THEN Day[t] ELSE Always

\* UNIQUE (server_id, reporter_hash, reported_day)
SameKey(x, y) == x.who = y.who /\ x.hash = y.hash /\ Day[x.at] = Day[y.at]

\* The hash was made at most Patience before the time stamp.
MadeInTime(x) ==
  \E t \in Time : t <= x.at /\ x.at <= t + Patience /\ x.hash = Hash(x.who, t)

\* The table as the program may have left it.
ASSUME BeginningsAssumption ==
  \A b \in Beginnings :
    /\ b.now \in Time /\ b.rows \subseteq Row /\ IsFiniteSet(b.rows)
    /\ \A x \in b.rows : MadeInTime(x)
    /\ \A x, y \in b.rows : SameKey(x, y) => x = y

New == [pc |-> "new", row |-> [who |-> CHOOSE w \in Active : TRUE,
                               hash |-> 0, at |-> 0], stored |-> FALSE]

Init ==
  /\ \E b \in Beginnings : now = b.now /\ rows = b.rows
  /\ req = [r \in Requests |-> New]

-----------------------------------------------------------------------------
(* crowdSignal and Evaluate *)

Current(table, at) == {x \in table : Bucket[x.at] = Bucket[at]}

\* Mutant of Historical: the upper edge moves as well.
HistoricalUpToNow(table, at) ==
  {x \in table : /\ at <= x.at + Lookback
                 /\ x.at < at
                 /\ Slot[x.at] = Slot[Bucket[at]]}

\* The lower edge moves with `at', the upper one is the bucket's.
Historical(table, at) ==
  {x \in table : /\ at <= x.at + Lookback
                 /\ x.at < Bucket[at]
                 /\ Slot[x.at] = Slot[Bucket[at]]}

\* Mutant of Threshold: without the lower bound.
ThresholdLow(sum, weeks) ==
  IF weeks = 0 THEN 2 ELSE (3 * sum + weeks - 1) \div weeks + 2

\* max(3, ceil(3 * sum / weeks) + 2); no weeks count as a baseline of zero.
Threshold(sum, weeks) ==
  IF weeks = 0 THEN 3 ELSE (3 * sum + weeks - 1) \div weeks + 2

\* avg over the days that have reports, not over the weeks looked at.
Anomalous(table, at) ==
  LET past == Historical(table, at)
  IN  Cardinality(Current(table, at)) >=
        Threshold(Cardinality(past), Cardinality({Day[x.at] : x \in past}))

-----------------------------------------------------------------------------
(* One request: reporterHash or discordReporterHash, the time stamp, then  *)
(* the statements of RecordUserReport                                      *)

\* The request is answered: its locals are gone.
Return(r) == req' = [req EXCEPT ![r] = [New EXCEPT !.pc = "done"]]

MakeHash(r) ==
  /\ req[r].pc = "new"
  /\ \E who \in Active :
       req' = [req EXCEPT ![r] = [pc |-> "hashed", stored |-> FALSE,
                 row |-> [who |-> who, hash |-> Hash(who, now), at |-> now]]]
  /\ UNCHANGED <<now, rows>>

Stamp(r) ==
  /\ req[r].pc = "hashed"
  /\ req' = [req EXCEPT ![r].pc = "stamped", ![r].row.at = now]
  /\ UNCHANGED <<now, rows>>

\* Mutant of Insert: the transactions do not wait for each other.
InsertNoWait(r) ==
  /\ req[r].pc = "stamped"
  /\ req' = [req EXCEPT ![r].pc = "inserted",
               ![r].stored = \A x \in rows : ~SameKey(x, req[r].row)]
  /\ UNCHANGED <<now, rows>>

\* ON CONFLICT DO NOTHING, and behind an open transaction with the same key.
Insert(r) ==
  /\ req[r].pc = "stamped"
  /\ \A q \in Requests : req[q].pc = "inserted" /\ req[q].stored
                           => ~SameKey(req[q].row, req[r].row)
  /\ req' = [req EXCEPT ![r].pc = "inserted",
               ![r].stored = \A x \in rows : ~SameKey(x, req[r].row)]
  /\ UNCHANGED <<now, rows>>

\* What the rest of the transaction does to the status is in module Worker.
Commit(r) ==
  /\ req[r].pc = "inserted"
  /\ rows' = IF req[r].stored THEN rows \cup {req[r].row} ELSE rows
  /\ Return(r)
  /\ UNCHANGED now

Abort(r) ==
  /\ req[r].pc \in {"hashed", "stamped", "inserted"}
  /\ Return(r)
  /\ UNCHANGED <<now, rows>>

-----------------------------------------------------------------------------
Open(r) == req[r].pc \in {"hashed", "stamped", "inserted"}

Tick ==
  /\ now < MaxTime
  /\ \A r \in Requests : Open(r) => now < req[r].row.at + Patience
  /\ now' = now + 1
  /\ UNCHANGED <<rows, req>>

\* Mutant of Purge: the rows of a whole look-back are dropped.
PurgeEarly ==
  /\ rows' = {x \in rows : now < x.at + Lookback}
  /\ UNCHANGED <<now, req>>

\* DELETE FROM user_reports in RunRetention
Purge ==
  /\ rows' = {x \in rows : now <= x.at + Kept}
  /\ UNCHANGED <<now, req>>

Next ==
  \/ \E r \in Requests : MakeHash(r) \/ Stamp(r) \/ Insert(r) \/ Commit(r) \/ Abort(r)
  \/ Tick
  \/ Purge

Spec == Init /\ [][Next]_vars

-----------------------------------------------------------------------------
(* Properties *)

TypeOK ==
  /\ now \in Time
  /\ rows \subseteq Row /\ IsFiniteSet(rows)
  /\ req \in [Requests -> Request]

\* The requests whose INSERT stored a row, not yet committed.
Holding(r) == req[r].pc = "inserted" /\ req[r].stored

\* The inductive invariant: no two rows, committed or not, have the same key,
\* and no request outlasts Patience, neither before its time stamp nor after.
CrowdInv ==
  /\ TypeOK
  /\ \A x \in rows : MadeInTime(x)
  /\ \A x, y \in rows : SameKey(x, y) => x = y
  /\ \A r \in Requests :
       /\ Open(r) => /\ MadeInTime(req[r].row)
                     /\ req[r].row.at <= now /\ now <= req[r].row.at + Patience
       /\ req[r].pc = "hashed" => req[r].row.hash = Hash(req[r].row.who, req[r].row.at)
       /\ Holding(r) => /\ \A x \in rows : ~SameKey(x, req[r].row)
                        /\ \A q \in Requests \ {r} :
                             Holding(q) => ~SameKey(req[q].row, req[r].row)

\* The hash was made before midnight and the time stamp taken after it.
Straddles(x) == x.who \in Clients /\ x.hash # Day[x.at]

\* postgres.go:84: one report per server per day.  However their requests
\* overlap, no reporter has two rows in a day, save a web client of whom one
\* request straddled midnight.
CountedOnce ==
  \A x, y \in rows :
    x # y /\ x.who = y.who /\ Day[x.at] = Day[y.at] => Straddles(x) \/ Straddles(y)

\* What crowdSignal is asked for: by the pages and by check, and by the requests
\* under way, which see their own row.
Own(r)   == IF req[r].stored THEN {req[r].row} ELSE {}
Readings == {[table |-> rows, at |-> now]} \cup
            {[table |-> rows \cup Own(r), at |-> req[r].row.at] :
               r \in {r \in Requests : req[r].pc = "inserted"}}

\* crowd.go:6 and 13: never because of one player.  A spike has three
\* reporters; with a request that straddled midnight it still has two.
NotOneReporter ==
  \A q \in Readings :
    LET present == Current(q.table, q.at)
    IN  Anomalous(q.table, q.at) =>
          Cardinality({x.who : x \in present}) >=
            IF \E x \in present : Straddles(x) THEN 2 ELSE 3

\* Retention never changes a signal: not the one that is shown now, nor that of
\* a request under way (postgres.go:72, 151).
RetentionIsInvisible ==
  [][Purge => \A t \in {now} \cup {req[r].row.at : r \in {r \in Requests : Open(r)}} :
                Anomalous(rows', t) <=> Anomalous(rows, t)]_vars

\* A spike stays one until its 15 minutes are over, unless a row of four weeks
\* ago has just left the baseline, whose lower edge moves (postgres.go:151).
SpikeLasts ==
  [][Anomalous(rows, now) /\ Bucket[now'] = Bucket[now] =>
       \/ Anomalous(rows', now')
       \/ \E x \in Historical(rows, now) : now' > x.at + Lookback]_vars

=============================================================================
