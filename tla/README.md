# VoxelLink Monitor: TLA+ models and proofs

VoxelLink Monitor watches Minecraft servers listed on VoxelLink: a Worker probes
them, a PostgreSQL database keeps their checks, status and incidents, a web
process shows them and takes reports from players, and a Discord bot announces
changes. This directory models the parts of it in which processes, failures and
time meet, checks them with TLC on small instances and proves the central
invariants with TLAPS for every size.

Line numbers refer to the repository; `postgres.go` is
`internal/store/postgres.go`, `worker.go` is `internal/monitor/worker.go`.

## 1. The system

| Component | State it keeps | Operations | Talks to |
|---|---|---|---|
| Worker (`worker.go`) | a snapshot of the enabled servers, the copy `check` works on, three tickers | `RunOnce`, `check`, `dispatchPendingNotifications`, `syncVoxelLink`, `runRetention` | database, probe, Discord, VoxelLink |
| Store (`postgres.go`) | `monitored_servers`, `checks`, `incidents`, `maintenance_windows`, `user_reports`, `pending_state_notifications`, aggregates | `RecordCheck`, `RecordUserReport`, `EnabledServers`, console updates, `RunRetention`, `UpsertVoxelLinkServer` | everybody calls it |
| Incident machine (`internal/incident`) | counters of consecutive outcomes | `New`, `Apply` | nobody; the in-memory form of the policy |
| Crowd signal (`internal/crowd`) | none | `Evaluate` | called by both processes |
| Listing import (`internal/integration`) | none, the rows are the store's | `Import`, `Sync`, `FetchServer` | VoxelLink, database |
| Migrations (`internal/migrate`) | `schema_migrations` | `Apply` | database |
| Web (`internal/web`) | OAuth states and sessions in memory | status pages, reports, console, import endpoint | database, Discord OAuth |
| Discord (`internal/discord`) | none | `StateChanged`, slash commands | Discord, database |
| Probe, tunnel (`internal/minecraft`, `internal/transport`) | a cloudflared child process | status ping | the servers |

The Worker and the API are two processes. They share nothing but the database,
under READ COMMITTED. The Worker is one goroutine: a monitoring pass, the
delivery of queued notices, the refresh of listings and retention never
overlap with one another, but all of them overlap with the API.

What is hard about it:

* `check` decides from a **copy** of the status (`worker.go:130-164`). The copy
  starts as the snapshot's, is overwritten after every attempt with a state
  that was perhaps not stored (`worker.go:150`), and the API may change the row
  meanwhile. The `UPDATE` has no condition on the stored status.
* A status change and its notice are **two steps** in the Worker; in the API
  they are one transaction, with an outbox, and posting and marking are two steps.
* An import **fetches first** and locks later.
* The baseline of a migrated deployment is two statements **without a
  transaction**, and `Apply` takes no lock.
* Retention rolls up and deletes with age limits that are **not aligned** with
  its buckets.
* Everything the Worker says goes to one channel per server, in two ways: at
  once from `check`, and **behind the pass** from the outbox.
* The hash of a report and its time stamp are **two readings of the clock**, and
  the baseline's lower edge moves while its bucket is open.
* The tunnel gives its port up before cloudflared takes it, and its child dies
  with a context that the ping does not look at.
* A session is a signed cookie that outlives the role of its owner, and the
  statement that looks at the role may **wait for the import** that takes it away.

## 2. Modules

| Module | Models | Kind |
|---|---|---|
| `Domain` | `domain/types.go`: statuses and outcomes | constants |
| `CheckPolicy` | `stateAfter`, its queries, the crowd override, opening and resolving incidents | pure operators |
| `IncidentMachine` | `incident/machine.go` | state machine |
| `MachineEquivalence` | the machine and the queries side by side | composition |
| `StatusContract` | what status, checks, incidents and the crowd signal promise the readers | abstract specification |
| `Worker` | the pass, `RecordCheck`, `RecordUserReport`, the console | state machine, implements `StatusContract` but for `Override` |
| `Notices` | the pass with the dispatch behind it, and what a channel reads | composition, every step is one of `Worker` or a stutter |
| `Outbox` | the outbox table and its dispatcher | state machine |
| `ListingCopy` | what the local copy of a listing promises its readers | abstract specification |
| `Listing` | concurrent imports and refreshes | state machine, implements `ListingCopy` |
| `Migrate` | `migrate.Apply`, overlapping and interrupted | state machine |
| `Retention` | `RunRetention` | state machine |
| `CrowdReports` | reports, their de-duplication, `crowdSignal`, `Evaluate` | state machine and pure operators |
| `Probe` | `PingJavaEndpoint`, `AccessTunnel.Ping`, `probe` | state machine and pure operators |
| `Console` | OAuth states, sessions, the settings of owners | state machine |

`MC*` modules hold the values of constants that a `.cfg` cannot write down;
`MCStartup` composes `Migrate` with `MachineEquivalence`: the Worker waits for a
migration that has succeeded (docker-compose.linode.yml:52-54), and its outcomes go
through the two policies then.
`*Proofs` modules extend components with their theorems: `WorkerProofs` is about
`Worker` and `Notices`, `OutcomeProofs` about `Probe` and `MachineEquivalence`.

### Worker

`pc` follows the goroutine: `idle`, `pick` (the loop of `RunOnce`), `probe`,
`commit` (inside `RecordCheck`) and `notify` (`StateChanged`). `todo` is the
snapshot, `cur`, `local` and `attempt` are the locals of `check`, `tx` what the
transaction is going to write. `Observe` is the probe with the inserting and
reading half of `RecordCheck`, `Commit` its writes; reports, console changes and
the next 15-minute bucket fall between any two of these steps. `RecordUserReport` is
two steps as well, so two reports can miss each other's rows. Rows of `checks`
are a window of three, because no query looks further back; a row remembers
whether a maintenance window covers it. Of the OPEN incidents only the latest
and "some earlier one" are told apart, because `RecordCheck` resolves the one
with the latest `started_at`. `notices` records whether the present status has
been announced or queued. The crowd signal is a Boolean that reports may raise
and a new bucket lowers. Faults: `RecordCheck` fails, its commit is done but
unacknowledged, `StateChanged` fails, the process ends.

### StatusContract

What the database may show, without snapshots, attempts or processes. A failure
decides nothing or confirms the outage and opens the incident; a success makes a
server OPERATIONAL, outside an outage at once, in one with the second success,
which closes the incident; under a crowd signal a success outside an outage makes
it DEGRADED; PROBE_ERROR loses sight. The signal is there with the two moments at which
it matters: a check or a report has read it as anomalous and will commit. `Worker`
maps its open transaction to them. `Spec` is what the repository's documentation
says; `OverridingSpec` adds the one step that `RecordCheck` takes against it
(`Override`).

### Outbox, Listing, Migrate, Retention

`Outbox`: the id of a row is drawn before its transaction commits, so rows
become visible out of order. A channel is missing, working, or refuses messages.

`Listing`: a listing at VoxelLink is its revision and a condition: it can be
read, it cannot (withdrawn, invalid, refused: `FetchServer` fails), or it names a
member twice (`FetchServer` accepts it and the primary key does not). `MembersOf` are
the members of a revision whose role Monitor knows; `FetchServer` drops the others
(`client.go:78`). The answer is taken to name the server that was asked for: the
code stores it under the ID in the answer (`client.go:76`) and does not compare the two. `FetchServer`,
the upsert that takes the row lock, `DELETE`, `INSERT` and `COMMIT` are separate
steps; `DELETE` sees what is committed at that moment.

`Migrate`: every query of `Apply` is a step, a file with its row is one
transaction. `Layouts` are the schemas a first run may find: none, the initial
one, or the initial one with the roll-ups.

`Retention`: time is a number of ticks. A row of an aggregate table stands for
the *set* of checks it counts, so that sums of rows are unions and a property can
say which check is missing. The overflow condition is that of
`round(100.0 * a / b, 2)` in `numeric(5,2)`. Reports are a set of ticks, their
15-minute rows sets as well.

### Notices

Run's loop is `turn`: the ticker, the pass, then listing, sending and marking
the rows of the outbox. The pass is `Worker`'s, action by action, with what it
does to the channel: `posted` is the latest message, `said` counts how often the
present status was posted. The rows of the outbox are counts, since all of them
say DEGRADED; a post that fails may have reached the channel. `LIMIT` and broken
channels are left to `Outbox`.

### CrowdReports

One server. `MakeHash` and `Stamp` are the two readings of the clock, `Insert`
waits for an open transaction with the same key as PostgreSQL's unique index
does, `Commit` makes the row visible, `Purge` is retention. A web client's hash
holds the day, that of a Discord account does not, so the unique key and the hash
together decide. `Bucket`, `Day` and `Slot` are any grid that meets
the assumptions of section 4. The threshold is
computed in integers; in the code it is `int(math.Ceil(baseline*3)) + 2` over a
`float8` average. Four weeks at most are averaged, and s/1, s/2, s/3 and s/4
times 3 are exact in binary floating point, or exact after rounding, so the two
are equal.

### Probe

`pc` is the next call: `dial`, two writes, the length, the packet ID, the size,
the body. Each call succeeds (`Advance`), reads something that is refused
(`Refuse`) or fails (`Break`), and time stops at a timer until the call that it
limits has failed. The child is starting, listening, displaced (somebody else has
its port), or gone. `cause` remembers on whose side a failure happened, which the
program cannot see; `killed` whether the shutdown took the child away; `cameUp`
whether somebody has listened on the port of this probe's tunnel.
Var-ints are lists of bytes, everything else in an answer is well formed or not.

### Console

`states` is `App.states`; a request is between `consumeState` and the answer of
Discord, before its statement, or inside it. `Statement` is the snapshot in which
`EXISTS` finds the role. `Save` is the write, with the `UNIQUE` channel, when the
row of the server is free: an import holds it from its upsert to its commit
(`postgres.go:168-182`), and PostgreSQL then looks at the new version of that row
but at `server_members` through the old snapshot. `Import` stands for such a
commit of `Listing` and falls between any two steps. `managed` remembers the
requests whose account has managed the server since they came in. A restart forgets states and requests;
sessions are cookies and stay.

## 3. Runs

Passing:

| Run | Checks | Shows |
|---|---|---|
| `notices` | `NoticesTypeOK` `NoticesAreReal` `LastWord` `SaidOnce` `IInv` `OutageHasItsIncident` `NoSilentChange` `ImplementsButOverride` `DownIsConfirmed` `UpIsRestored` `CrowdIsShown` | The pass, the dispatch and the API together, while players report and calls fail, or while windows and the switch change under the snapshot: the stale copy breaks the contract by `Override` only; an outage always has its incident; what counts as announced is posted or queued; what is posted ends with the status, or with a DEGRADED queued before it, also after faults; OUTAGE and OPERATIONAL are posted once each time they are stored; a condition that lasts is shown for good. |
| `outbox` | `DeliveredWasPosted` `DuplicatesAreFaults` `EventuallyDelivered` | No row is marked without a post or a missing channel, each extra post has a fault of its own, a queued notice is delivered while fewer rows than the limit are stuck. |
| `listing` | `OneRevision` `Converges` `ImplementsCopy` | `Listing` implements `ListingCopy`: what readers see is replaced as a whole, by published revisions only. Endpoint and members are always of one revision; a server is up to date in the end when its listing and the ones before it can be read. |
| `startup` | `RecordedIsReal` `DoneIsComplete` `MigratedUnlessCut` `SameState` | A recorded version has its tables, a successful run means a complete schema, and repeated runs succeed unless one was cut between the baseline rows. Behind it `incident.Machine` and the SQL queries are the same policy, for every sequence of outcomes. |
| `retention` | `TypeOK` `NothingDiscarded` `DailyIsComplete` `ReportsCounted` | Every check and report is there or represented; a day's row, and a quarter's count of reports, is complete while its rows are young. |
| `crowd_reports` | `CrowdInv` `CountedOnce` `NotOneReporter` `RetentionIsInvisible` `SpikeLasts` | However reports overlap, nobody counts twice in a day unless a request straddled midnight; a spike has three reporters (two with such a request); retention changes no signal; a spike ends before its quarter only when a row leaves the look-back. |
| `probe` | `Contained` `JudgedByContent` `UnknownIsOurs` `ShutdownStoresNothing` `EveryProbeEnds` | A probe ends within its timeouts and without its child; an answer that arrives is judged by its content; PROBE_ERROR never comes from the server, and Monitor's own trouble is stored against it only after somebody had listened on the tunnel's port; a shutdown is not stored as a failure. |
| `console` | `TypeOK` `SpentOnce` `LeftBehind` `ChangedByManager` | A login state leads to one session; what stays in the map is what nobody brought back; settings change only by an account that came through the login and has managed the server since its request came in. |

Where the repository's documentation says more than the code does (each run ends
in a counterexample):

| Run | Statement | What happens |
|---|---|---|
| `worker_overrides` | types.go:87 and README.md:38, a crowd signal never overrides a confirmed OUTAGE | One success under a signal stores DEGRADED (`postgres.go:408`), and the incident stays open. |
| `worker_maintenance_opens` | README.md:44, observations in maintenance do not open incidents | `recentFailures` counts them: two failures of a window and the first one behind it open an incident. The window begins and ends between two passes here (`WindowsBetweenPasses`), so this is not the work of a stale snapshot. |
| `probe_blames_server` | docs/architecture.md:14, failures of the tunnel client are UNKNOWN | cloudflared ends by itself once its port was listened on; nobody looks at it again, the dial is refused, and the check is a CONNECT_TIMEOUT. |
| `retention_overflow` | README.md:50, raw checks are kept for 30 days | After a day spent mostly in maintenance `uptime_percent` overflows, and every later retention run rolls back. |

Other differences that were met while modelling. The contract and the passing
properties describe what the code does, with the exact condition:

* The third consecutive failure opens an incident (README.md:65), but the first
  one leaves OUTAGE in the copy (`worker.go:150`), so the two retries meet the
  "already OUTAGE" return of `stateAfter`, and only the next pass confirms. `IInv`
  is why this costs a pass and never an incident; `DownIsConfirmed` says that it
  is confirmed in the end.
* The second success resolves the incident (README.md:65), unless UNKNOWN or
  DEGRADED came in between: then the server is OPERATIONAL and the incident stays
  OPEN (`postgres.go:427`). `Recover` of `StatusContract` is the only step that
  closes one.
* UNKNOWN and DEGRADED may be announced again while nothing changed
  (docs/v1-requirements.md:20 says once): `changed` compares with the
  copy. `SaidOnce` excludes it for OUTAGE and OPERATIONAL.
* DEGRADED may be the last message of a channel although the server has recovered
  in the pass before the dispatch: the second alternative in `LastWord`.
* A window that begins during a pass is not in its snapshot (`worker.go:121`): a
  failure inside it may open an incident even so (`postgres.go:395`). The run above
  leaves this out.
* A setting may still change after the role of its account is gone, by a
  request that came in before: `ChangedByManager` says *since its request came in*.
* A stranger on the tunnel's port is taken for the server (`tunnel.go:35`), and so is
  a tunnel that loses the connection while its process stays: the second part of
  `UnknownIsOurs` says that beside these and the run above nothing is, and that a
  tunnel which never came up is always PROBE_ERROR.
* A web client whose request straddles midnight may count twice on the new day
  (`app.go:126, 136`): the exceptions in `CountedOnce` and `NotOneReporter`.
* States of abandoned logins are never removed (`app.go:164`): `LeftBehind` says
  which they are, and nothing bounds their number.
* The 15-minute count of reports is replaced by the count of what is left when a
  run meets a half-deleted bucket: the age in `ReportsCounted`.

* 100 rows of broken channels fill every listing of the outbox and starve the
  rows behind them (`postgres.go:119`): the condition in `EventuallyDelivered`.
* `Sync` returns at the first ID that fails and starts over in the same order,
  so one withdrawn listing blocks all later ones (`sync.go:28`): the condition in
  `Converges`.
* A migration cut between the two baseline rows can never be completed by a
  later run (`migrate.go:30, 38`): `Cut` in `MigratedUnlessCut`.
* A bucket that is half past its age is rolled up again from what is left of it,
  and the partial count replaces the complete one, up to `daily_uptime`
  (`postgres.go:40-71`): the condition in `DailyIsComplete`.
* The daily uptime divides *all* successes by the checks outside maintenance
  (`postgres.go:52`): above 100% for a healthy day with a window. `Uptime24h`
  filters both.

### Bounds, and why they are enough

* `Worker`, `Notices`: one server, since servers share no state but the Worker's `pc` and the proofs
  cover any number. One fault, in `Notices` one of the pass and one of the dispatch: each fault returns the thread to a state that a pass
  reaches anyway. `Notices` runs in two kinds of behaviour
  (`ActiveSpec`): players report and calls fail, or owners schedule windows and use
  the switch. Windows of three rows are the code's own `LIMIT`. One failure
  outcome stands for the six, which the code never tells apart.
* `Outbox`: three rows and a limit of two, so that a listing can be full with a
  row behind it.
* `Listing`: two IDs, so one can block the other; one request and the Worker, which
  is the conflict; two revisions whose members differ and overlap.
* `Migrate`: two runs, two interruptions, every layout. `MachineEquivalence`: every
  outcome, runs of up to five failures, where three decide.
* `Retention`: two ticks a quarter, two quarters an hour, three hours a day and a
  little over two days; two ticks bring any result. A day of 12 ticks is the shortest with
  ten times more successes than observations. Ages of 13 to 15 ticks let a row
  become old while its day is closed, and are not multiples of a bucket.
  `Period` is the longest time without a run, so runs may be late by days.
* `CrowdReports`: three requests, which make a spike with no past; two clients and
  an account report, the other rows are there at the start. Runs begin a tick
  before midnight, or in a quarter with four reports and one of four pasts: none,
  a row at the edge of the look-back, one that retention may remove, a busy week.
* `Probe`: one probe after another, every transport, timers of two and three ticks,
  answers of one to five size bytes on both sides of each limit, and broken ones.
  One more tick of polls after the startup timer stand for any unlucky number.
* `Console`: two handlers, two login states, two accounts with each of the roles,
  lives of a tick in a time of three. One server: requests about two of them meet in
  the `UNIQUE` channel only, where the later one fails as it may fail anyway.

### Fairness

* `Worker`, `Outbox`, `Notices`: weak fairness of the Worker's steps. It is one goroutine,
  driven by a ticker; probes and HTTP calls time out, and the database is assumed to
  answer or fail. Nothing is assumed of players,
  owners, probes or time.
* `Listing`: weak fairness of the refresh and of an import under way (the HTTP
  client has a timeout), strong fairness of taking the row lock, which PostgreSQL
  grants in turn.
* `Probe`: weak fairness of the calls of a probe and of time together: each call
  has a timer. Nothing is assumed of cloudflared, the server or the context.
* `Migrate`: a run takes its steps, and the operator starts another after a
  failure.

## 4. Proofs

All theorems hold for every value of the constants under the named `ASSUME`s.
Type correctness is part of each inductive invariant. `IInv` and `CrowdInv` are
invariants of a run; the others were model-checked on the instances of the runs
before they were proved.

| Theorem | States | Argument |
|---|---|---|
| `WorkerProofs!TypeCorrect`, `Invariance` | `TypeOK`, `IInv` | see below |
| `WorkerProofs!OutageIncident` | `OutageHasItsIncident` | part of `IInv` |
| `WorkerProofs!Announcement` | `NoSilentChange` | part of `IInv` |
| `WorkerProofs!Refinement` | `ImplementsButOverride` | every `Commit` is a `Record` of the contract or its `Override`, every `CommitReport` a `CrowdDegrades` or a stutter, and a transaction that has read the signal maps to `reading` |
| `WorkerProofs!NoticesImplementsWorker` | `NoticesSpec => Spec` | every step of the composition is a step of `Worker` or leaves its variables alone, so all of the above holds of it |
| `WorkerProofs!NoticesInvariance`, `NoticesTypeCorrect`, `NoticesReal`, `PostedOnce`, `ChannelLastWord` | `NoticesInv`, `NoticesTypeOK`, `NoticesAreReal`, `SaidOnce`, `LastWord` | see below |
| `OutcomeProofs!Equivalence`, `EquivalenceInvariance` | `SameState`, `EquivalenceInv` | the counters are the lengths of the runs at the head of the window |
| `OutcomeProofs!ProbeInvariance`, `ProbeContained`, `ProbeJudges`, `ProbeErrorIsOurs`, `ShutdownIsSilent` | `ProbeInv`, `Contained`, `JudgedByContent`, `UnknownIsOurs`, `ShutdownStoresNothing` | see below |
| `OutboxProofs!OncePerFault`, `DeliveryIsReal`, `DuplicatesInvariance` | `DuplicatesAreFaults`, `DeliveredWasPosted`, `DuplicatesInv` | a pending row that is not being marked was posted at most once per fault |
| `ListingProofs!OneRevisionAlways`, `ListingInvariance` | `OneRevision`, `ListingInv` | who is past the upsert holds the row, so what its `DELETE` saw is still all there is |
| `ListingProofs!CopyRefinement` | `ImplementsCopy` | with `ListingInv`, and that no import holds a revision VoxelLink has not published, every `Commit` is a `Replace`, every edit a `Publish`, and the rest stutters |
| `MigrateProofs!RecordedSound`, `SuccessIsComplete`, `RecordedInvariance` | `RecordedIsReal`, `DoneIsComplete`, `RecordedInv` | what a run has found stays so: tables and rows are never removed |
| `RetentionProofs!NoCheckVanishes`, `RetentionInvariance` | `NothingDiscarded`, `RetentionInv` | what is past its age is in a closed bucket, and closed buckets are rolled up in the same transaction |
| `RetentionProofs!RollupInvariance`, `RetentionTypeCorrect`, `DaysAreComplete`, `ReportsAreCounted` | `RollupInv`, `TypeOK`, `DailyIsComplete`, `ReportsCounted` | see below |
| `CrowdReportsProofs!CrowdInvariance`, `ReportedOnce`, `ThreeReporters`, `RetentionUnseen`, `SpikeStays` | `CrowdInv`, `CountedOnce`, `NotOneReporter`, `RetentionIsInvisible`, `SpikeLasts` | see below |
| `ConsoleProofs!ConsoleInvariance`, `ConsoleTypeCorrect`, `StateSpentOnce`, `StatesLeftBehind`, `ManagersChange` | `ConsoleInv`, `TypeOK`, `SpentOnce`, `LeftBehind`, `ChangedByManager` | see below |

**Worker.** `OutageHasItsIncident` is not inductive: `RecordCheck` closes an
incident because of its copy, so one has to know how wrong the copy can be. `IInv`
adds

* `SnapshotSound`: nobody but the Worker moves a server into or out of OUTAGE, so
  on that one point the snapshot is right until the server is checked;
* `CopySound`: a copy that says OUTAGE for a server that is not has a failure as
  newest row, so one success cannot be the second; a copy that says otherwise for
  a server in OUTAGE says OPERATIONAL and has a success as newest row, so a failure
  cannot be the third;
* `TxSound`: at its commit a transaction writes what its inputs call for.

**Notices.** `SaidOnce` and `LastWord` hold whatever fails. `NoticesInv` adds to
`IInv` that a DEGRADED which is announced and not posted has a row that the
dispatcher is not about to mark (`RowIsKept`); that a copy which says UNKNOWN or
DEGRADED is right, because only the Worker leaves these states (`CopyIsRight`); and
that what `StateChanged` is about to post is stored and, for OUTAGE and OPERATIONAL,
not yet posted, or that a report has degraded the server since (`NewsIsFresh`).

**Retention.** A row may be wrong once a check of its bucket is deleted, so
`DailyIsComplete` needs to know when that is. `RollupInv` says that a check younger
than its age is there, that only closed buckets have rows (`Closed`), and that in
all three tables a row counts its whole bucket while its first tick is younger than
the age of raw checks (`Complete`). A new check or report then belongs to no row;
a run counts every check of a bucket that is still whole; and a sum of complete rows of
nested buckets is complete (`SumsComplete`).

**CrowdReports.** `CrowdInv` says that the unique key holds for committed rows and
open transactions together, and that a request is over within `Patience` of each
reading of its clock. Two rows of one reporter in one day then have the same key,
or a hash of the day before. Reports of one present bucket with distinct keys have
distinct reporters but for a request that straddled midnight, and the threshold is
at least three. Retention deletes only what no query of an open request reaches
(`KeptAssumption`).

**Console.** A state is not drawn, in the map, with exactly one handler, or spent
(`StateSound`), so two callbacks with it cannot both go on. A request that changes
settings has a valid form and a session, and a session has a login behind it
(`SaveSound`). A role that the statement finds was there when the request came in
or has come with an import since (`RoleSound`), and this stays true of the write,
whatever is imported before it.

**Probe.** `ProbeInv` ties the child, the two timers, what was read and the result to
the step the probe is at; in particular a ping through a tunnel begins when somebody
listens on its port (`ChildSound`), which is all that `UnknownIsOurs` can rest on. The arithmetic is the lemma `ReadBack`: for every number
of at most 35 bits, `readVarInt(varInt(v)) = {v}`. `varInt` and `readVarInt` are
written out for the five bytes that the loop of `readVarInt` looks at and not as
recursive functions, whose values the provers could not compute.

What is assumed of the constants, beside their types:

| Assumption | Why the code justifies it |
|---|---|
| `Retention!GridAssumption` | `date_bin` and `date_trunc` give the first instant of an interval, and quarters, hours and days nest |
| `Retention!AgeAssumption` | 30 days, 90 days and a year are longer than an hour and a day |
| `CrowdReports!BucketAssumption`, `DayAssumption`, `SlotAssumption` | 15 minutes are shorter than the look-back and lie in one day of UTC; a day is an interval, and it and the time until the same quarter of the week comes again are longer than a request takes |
| `CrowdReports!KeptAssumption` | reports are kept for 30 days, the baseline looks back four weeks |
| `CrowdReports!BeginningsAssumption` | the table a run begins with was made by the program: finitely many rows, each stamped within `Patience` of its hash, no two with one key |
| `Console!LifeAssumption` | a state and a session live for a while |
| `Probe!TimeoutAssumption`, `ReplyAssumption` | timeouts are positive; a server writes the size as the protocol's shortest encoding, or in more than five bytes. A longer encoding of a small size is accepted by `readVarInt` and left out |

Only model-checked: the liveness properties (`DownIsConfirmed`, `UpIsRestored`,
`CrowdIsShown`, `EventuallyDelivered`, `Converges`, `MigratedUnlessCut`,
`EveryProbeEnds`), because fairness is beyond the prover. Every safety property of a
passing run is proved.

## 5. What is left, and what is not modelled

The safety properties of the passing runs are all proved. What could still be
proved are facts about the modules that no run asks for: that the outcomes of
`Probe` are the ones `Worker` observes, and that the outbox of `Notices` is the
one of `Outbox` without its limit.

Not modelled:

* `SnapshotByID`, `SnapshotByDiscordChannel`, `RecentIncidents`, `Uptime24h`, the
  pages and the answers of the bot: they read one snapshot and format it.
* `cmd/monitor` and `Config`: wiring, before anything runs.
* HTML, routing, message texts, the JSON of VoxelLink and of the status answer.
* Latencies, player counts, the times of an incident, the type and text of a
  report: stored and shown, never decided upon.
* Discord's OAuth service and the signature of a session: external; a cookie cannot be
  made without the secret.
