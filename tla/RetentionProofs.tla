-------------------------- MODULE RetentionProofs --------------------------
(***************************************************************************)
(* No check is lost to all resolutions, and no row of checks or reports    *)
(* counts less than its bucket before its time, whatever the grid, the     *)
(* ages and the times at which retention runs.                             *)
(***************************************************************************)
EXTENDS Retention, TLAPS

LEMMA RetentionInit == Init => RetentionInv
  BY GridAssumption DEF Init, Empty, RetentionInv, NothingDiscarded, Time

\* An upsert keeps every row and has one for each group.
LEMMA UpsertDomain ==
  ASSUME NEW rows, NEW groups
  PROVE  DOMAIN Upsert(rows, groups) = DOMAIN rows \cup DOMAIN groups
  BY DEF Upsert

LEMMA KeptDomain ==
  ASSUME NEW rows, NEW age
  PROVE  DOMAIN Kept(rows, age) = {k \in DOMAIN rows : k + age >= now}
  BY DEF Kept

LEMMA CountsDomain ==
  ASSUME NEW ticks
  PROVE  DOMAIN Counts(ticks) = {Quarter[t] : t \in ticks}
  BY DEF Counts

\* The rows a run has before it deletes any.
LEMMA RolledDomains ==
  ASSUME RetentionInv
  PROVE  /\ DOMAIN Rolled15 \subseteq Time /\ DOMAIN fifteen \subseteq DOMAIN Rolled15
         /\ \A t \in raw : t < Hour[now] => Quarter[t] \in DOMAIN Rolled15
         /\ DOMAIN RolledHourly \subseteq Time
         /\ DOMAIN hourly \subseteq DOMAIN RolledHourly
         /\ \A b \in DOMAIN Rolled15 : b < Hour[now] => Hour[b] \in DOMAIN RolledHourly
         /\ \A b \in DOMAIN RolledHourly : b < Day[now] => Day[b] \in DOMAIN Days
  <1>1. DOMAIN Rolled15 = DOMAIN fifteen
                            \cup {Quarter[t] : t \in {t \in raw : t < Hour[now]}}
    BY UpsertDomain, CountsDomain DEF Rolled15
  <1>2. DOMAIN RolledHourly = DOMAIN hourly
          \cup {Hour[k] : k \in {k \in DOMAIN Rolled15 : k < Hour[now]}}
    <2>1. DOMAIN RolledHourly = DOMAIN hourly \cup DOMAIN Sums(Rolled15, Hour[now], Hour)
      BY UpsertDomain, Zenon DEF RolledHourly
    <2>2. DOMAIN Sums(Rolled15, Hour[now], Hour)
            = {Hour[k] : k \in {k \in DOMAIN Rolled15 : k < Hour[now]}}
      BY DEF Sums
    <2> QED BY <2>1, <2>2
  <1>3. DOMAIN Days = {Day[k] : k \in {k \in DOMAIN RolledHourly : k < Day[now]}}
    BY DEF Days, Sums
  <1>4. DOMAIN Rolled15 \subseteq Time BY <1>1, GridAssumption DEF RetentionInv
  <1>5. DOMAIN RolledHourly \subseteq Time
    BY <1>2, <1>4, GridAssumption DEF RetentionInv
  <1> QED BY <1>1, <1>2, <1>3, <1>4, <1>5

LEMMA RetentionStep == RetentionInv /\ [Next]_vars => RetentionInv'
  <1> SUFFICES ASSUME RetentionInv, [Next]_vars PROVE RetentionInv'
    OBVIOUS
  <1>1. CASE Tick
    <2>1. now \in Time /\ now' \in Time
      BY <1>1, GridAssumption DEF Tick, RetentionInv, Time
    <2>2. UNCHANGED <<fifteen, hourly, daily>> BY <1>1 DEF Tick
    <2>3. \/ raw' = raw /\ taken' = taken
          \/ raw' = raw \cup {now} /\ taken' = taken \cup {now}
      BY <1>1 DEF Tick
    <2> QED BY <2>1, <2>2, <2>3 DEF RetentionInv, NothingDiscarded
  <1>2. CASE ScheduleMaintenance
    BY <1>2 DEF ScheduleMaintenance, checks, RetentionInv, NothingDiscarded
  <1>r. CASE Report
    BY <1>r DEF Report, checks, RetentionInv, NothingDiscarded
  <1>3. CASE RunRetention
    <2>1. UNCHANGED <<now, taken>> BY <1>3 DEF RunRetention
    <2>2. CASE UNCHANGED <<raw, fifteen, hourly, daily>>
      BY <2>1, <2>2 DEF RetentionInv, NothingDiscarded
    <2>3. CASE /\ raw'     = {t \in raw : t + RawKept >= now}
               /\ fifteen' = Kept(Rolled15, FifteenKept)
               /\ hourly'  = Kept(RolledHourly, HourlyKept)
               /\ daily'   = Upsert(daily, Days)
      <3>1. /\ DOMAIN fifteen' = {b \in DOMAIN Rolled15 : b + FifteenKept >= now}
            /\ DOMAIN hourly' = {b \in DOMAIN RolledHourly : b + HourlyKept >= now}
            /\ DOMAIN daily' = DOMAIN daily \cup DOMAIN Days
        <4>1. DOMAIN Kept(Rolled15, FifteenKept)
                = {k \in DOMAIN Rolled15 : k + FifteenKept >= now}
          BY KeptDomain, Zenon
        <4>2. DOMAIN Kept(RolledHourly, HourlyKept)
                = {k \in DOMAIN RolledHourly : k + HourlyKept >= now}
          BY KeptDomain, Zenon
        <4>3. DOMAIN Upsert(daily, Days) = DOMAIN daily \cup DOMAIN Days
          BY UpsertDomain, Zenon
        <4> QED BY <2>3, <4>1, <4>2, <4>3
      <3>2. now \in Nat /\ Hour[now] \in Nat /\ Day[now] \in Nat
        <4>1. now \in Time BY DEF RetentionInv
        <4>2. Hour[now] \in Time /\ Day[now] \in Time BY <4>1, GridAssumption
        <4> QED BY <4>1, <4>2 DEF Time
      \* An hourly row is kept, or its day was closed and is a daily row.
      <3>3. ASSUME NEW h \in DOMAIN RolledHourly
            PROVE  h \in DOMAIN hourly' \/ Day[h] \in DOMAIN daily'
        <4>1. h \in Nat BY RolledDomains DEF Time
        <4>2. CASE h + HourlyKept >= now BY <3>1, <4>2
        <4>3. CASE h + HourlyKept < now
          <5>1. h < Day[now]
            BY <3>2, <4>1, <4>3, AgeAssumption DEF RetentionInv
          <5> QED BY <3>1, <5>1, RolledDomains
        <4> QED BY <3>2, <4>1, <4>2, <4>3, AgeAssumption
      \* A 15-minute row is kept, or its hour was closed.
      <3>4. ASSUME NEW b \in DOMAIN Rolled15
            PROVE  b \in DOMAIN fifteen' \/ Hour[b] \in DOMAIN RolledHourly
        <4>1. b \in Nat BY RolledDomains DEF Time
        <4>2. CASE b + FifteenKept >= now BY <3>1, <4>2
        <4>3. CASE b + FifteenKept < now
          <5>1. b < Hour[now]
            BY <3>2, <4>1, <4>3, AgeAssumption DEF RetentionInv
          <5> QED BY <5>1, RolledDomains
        <4> QED BY <3>2, <4>1, <4>2, <4>3, AgeAssumption
      \* A check is kept, or its hour was closed.
      <3>5. ASSUME NEW t \in raw
            PROVE  t \in raw' \/ Quarter[t] \in DOMAIN Rolled15
        <4>1. t \in Nat BY DEF RetentionInv, Time
        <4>2. CASE t + RawKept >= now BY <2>3, <4>2
        <4>3. CASE t + RawKept < now
          <5>1. t < Hour[now]
            BY <3>2, <4>1, <4>3, AgeAssumption DEF RetentionInv
          <5> QED BY <5>1, RolledDomains
        <4> QED BY <3>2, <4>1, <4>2, <4>3, AgeAssumption
      <3>6. NothingDiscarded'
        <4> SUFFICES ASSUME NEW t \in taken
                     PROVE  \/ t \in raw' \/ Quarter[t] \in DOMAIN fifteen'
                            \/ Hour[t] \in DOMAIN hourly' \/ Day[t] \in DOMAIN daily'
          BY <2>1 DEF NothingDiscarded
        <4>1. Hour[Quarter[t]] = Hour[t] /\ Day[Hour[t]] = Day[t]
          BY GridAssumption DEF RetentionInv
        <4>2. \/ t \in raw \/ Quarter[t] \in DOMAIN Rolled15
              \/ Hour[t] \in DOMAIN RolledHourly \/ Day[t] \in DOMAIN daily'
          BY <3>1, RolledDomains DEF RetentionInv, NothingDiscarded
        <4> QED BY <4>1, <4>2, <3>3, <3>4, <3>5
      <3> QED BY <2>1, <2>3, <3>1, <3>6, RolledDomains DEF RetentionInv
    <2> QED BY <1>3, <2>2, <2>3 DEF RunRetention
  <1>4. CASE UNCHANGED vars
    BY <1>4 DEF vars, checks, RetentionInv, NothingDiscarded
  <1> QED BY <1>1, <1>2, <1>r, <1>3, <1>4 DEF Next

\* Every check ever recorded is still there or represented at a coarser
\* resolution.
THEOREM NoCheckVanishes == Spec => []NothingDiscarded
  <1>1. RetentionInv => NothingDiscarded BY DEF RetentionInv
  <1> QED BY RetentionInit, RetentionStep, <1>1, PTL DEF Spec

\* The inductive invariant behind it, for every grid and schedule.
THEOREM RetentionInvariance == Spec => []RetentionInv
  BY RetentionInit, RetentionStep, PTL DEF Spec

-----------------------------------------------------------------------------
(* What the rows of a run hold *)

LEMMA UpsertAt ==
  ASSUME NEW rows, NEW groups, NEW b \in DOMAIN Upsert(rows, groups)
  PROVE  /\ b \in DOMAIN groups => Upsert(rows, groups)[b] = groups[b]
         /\ b \notin DOMAIN groups =>
              b \in DOMAIN rows /\ Upsert(rows, groups)[b] = rows[b]
  BY DEF Upsert

LEMMA KeptAt ==
  ASSUME NEW rows, NEW age, NEW b \in DOMAIN Kept(rows, age)
  PROVE  b \in DOMAIN rows /\ Kept(rows, age)[b] = rows[b]
  BY DEF Kept

LEMMA CountsAt ==
  ASSUME NEW ticks, NEW b \in DOMAIN Counts(ticks)
  PROVE  /\ \E t \in ticks : b = Quarter[t]
         /\ Counts(ticks)[b].all = {t \in ticks : Quarter[t] = b}
         /\ Counts(ticks)[b].excluded \subseteq Counts(ticks)[b].all
  BY DEF Counts

LEMMA SumsDomain ==
  ASSUME NEW rows, NEW open, NEW Coarse
  PROVE  DOMAIN Sums(rows, open, Coarse)
           = {Coarse[k] : k \in {k \in DOMAIN rows : k < open}}
  BY DEF Sums

\* A sum counts what the rows of its closed buckets count.
LEMMA SumsAt ==
  ASSUME NEW rows, NEW open, NEW Coarse, NEW b \in DOMAIN Sums(rows, open, Coarse)
  PROVE  /\ \A t : t \in Sums(rows, open, Coarse)[b].all <=>
               \E k \in DOMAIN rows : k < open /\ Coarse[k] = b /\ t \in rows[k].all
         /\ \A t : t \in Sums(rows, open, Coarse)[b].excluded <=>
               \E k \in DOMAIN rows : k < open /\ Coarse[k] = b /\ t \in rows[k].excluded
  <1> DEFINE closed == {k \in DOMAIN rows : k < open}
             group == {rows[k] : k \in {k \in closed : Coarse[k] = b}}
  <1>1. b \in {Coarse[k] : k \in closed} BY SumsDomain
  <1>2. Sums(rows, open, Coarse)[b] = [all      |-> UNION {r.all : r \in group},
                                       excluded |-> UNION {r.excluded : r \in group}]
    BY <1>1 DEF Sums
  <1>3. /\ Sums(rows, open, Coarse)[b].all = UNION {r.all : r \in group}
        /\ Sums(rows, open, Coarse)[b].excluded = UNION {r.excluded : r \in group}
    BY <1>2
  <1> QED BY <1>3

\* Rows that count checks, and exclude no others.
Rows(rows) ==
  /\ DOMAIN rows \subseteq Time
  /\ \A b \in DOMAIN rows :
       rows[b].excluded \subseteq rows[b].all /\ rows[b].all \subseteq taken

LEMMA UpsertRows ==
  ASSUME NEW rows, NEW groups, Rows(rows), Rows(groups)
  PROVE  Rows(Upsert(rows, groups))
  <1>1. DOMAIN Upsert(rows, groups) \subseteq Time
    BY UpsertDomain DEF Rows
  <1>2. ASSUME NEW b \in DOMAIN Upsert(rows, groups)
        PROVE  /\ Upsert(rows, groups)[b].excluded \subseteq Upsert(rows, groups)[b].all
               /\ Upsert(rows, groups)[b].all \subseteq taken
    <2>1. CASE b \in DOMAIN groups BY <1>2, <2>1, UpsertAt DEF Rows
    <2>2. CASE b \notin DOMAIN groups BY <1>2, <2>2, UpsertAt DEF Rows
    <2> QED BY <2>1, <2>2
  <1> QED BY <1>1, <1>2 DEF Rows

LEMMA UpsertComplete ==
  ASSUME NEW rows, NEW groups, NEW Grid, Complete(rows, Grid), Complete(groups, Grid)
  PROVE  Complete(Upsert(rows, groups), Grid)
  <1> SUFFICES ASSUME NEW b \in DOMAIN Upsert(rows, groups), b + RawKept >= now
               PROVE  Upsert(rows, groups)[b].all = {t \in taken : Grid[t] = b}
    BY DEF Complete
  <1>1. CASE b \in DOMAIN groups BY <1>1, UpsertAt DEF Complete
  <1>2. CASE b \notin DOMAIN groups BY <1>2, UpsertAt DEF Complete
  <1> QED BY <1>1, <1>2

LEMMA UpsertClosed ==
  ASSUME NEW rows, NEW groups, NEW open, Closed(rows, open), Closed(groups, open)
  PROVE  Closed(Upsert(rows, groups), open)
  BY UpsertDomain DEF Closed

LEMMA KeptRows ==
  ASSUME NEW rows, NEW age
  PROVE  /\ Rows(rows) => Rows(Kept(rows, age))
         /\ \A open : Closed(rows, open) => Closed(Kept(rows, age), open)
         /\ \A Grid : Complete(rows, Grid) => Complete(Kept(rows, age), Grid)
  <1>1. \A b \in DOMAIN Kept(rows, age) :
          b \in DOMAIN rows /\ Kept(rows, age)[b] = rows[b]
    BY KeptAt
  <1> QED BY <1>1 DEF Rows, Closed, Complete

LEMMA SumsRows ==
  ASSUME NEW rows, NEW open, NEW Coarse \in [Time -> Time], Rows(rows)
  PROVE  Rows(Sums(rows, open, Coarse))
  <1>1. DOMAIN Sums(rows, open, Coarse) \subseteq Time
    <2>1. DOMAIN Sums(rows, open, Coarse)
            = {Coarse[k] : k \in {k \in DOMAIN rows : k < open}}
      BY DEF Sums
    <2> QED BY <2>1 DEF Rows
  <1>2. ASSUME NEW b \in DOMAIN Sums(rows, open, Coarse)
        PROVE  /\ Sums(rows, open, Coarse)[b].excluded
                    \subseteq Sums(rows, open, Coarse)[b].all
               /\ Sums(rows, open, Coarse)[b].all \subseteq taken
    BY <1>2, SumsAt DEF Rows
  <1> QED BY <1>1, <1>2 DEF Rows

-----------------------------------------------------------------------------
(* Ticks and buckets *)

LEMMA TimeNat == \A t \in Time : t \in Nat
  BY DEF Time

\* What lies in a closed hour or day lies before the open one.
LEMMA BeforeOpen ==
  ASSUME NEW n \in Time, NEW t \in Time, t <= n
  PROVE  /\ Hour[t] < Hour[n] => t < Hour[n]
         /\ Day[t] < Day[n] => t < Day[n]
         /\ Hour[t] <= Hour[n] /\ Day[t] <= Day[n]
         /\ Hour[n] <= Quarter[n] /\ Day[n] <= Hour[n]
  <1>1. /\ Hour[t] \in Nat /\ Hour[n] \in Nat /\ Day[t] \in Nat /\ Day[n] \in Nat
        /\ t \in Nat /\ n \in Nat /\ Quarter[n] \in Time /\ Hour[n] \in Time
    BY GridAssumption, TimeNat
  <1>2. Hour[t] <= t /\ Day[t] <= t BY GridAssumption
  <1>3. Hour[n] <= t => Hour[t] = Hour[n] BY GridAssumption
  <1>4. Day[n] <= t => Day[t] = Day[n] BY GridAssumption
  <1>5. Hour[Quarter[n]] <= Quarter[n] /\ Day[Hour[n]] <= Hour[n]
    BY <1>1, GridAssumption
  <1>6. Hour[Quarter[n]] = Hour[n] /\ Day[Hour[n]] = Day[n] BY GridAssumption
  <1> QED BY <1>1, <1>2, <1>3, <1>4, <1>5, <1>6

-----------------------------------------------------------------------------
(* A run completes its rows *)

\* The checks that are not past their age are all there to be counted.
LEMMA TakenTimes ==
  ASSUME RollupInv
  PROVE  /\ now \in Time /\ now \in Nat /\ RawKept \in Nat
         /\ \A t \in taken : t \in Time /\ t \in Nat /\ t <= now
         /\ raw \subseteq taken
         /\ Rows(fifteen) /\ Rows(hourly) /\ Rows(daily)
  <1>1. now \in Time /\ now \in Nat BY DEF RollupInv, TypeOK, Time
  <1>2. \A t \in taken : t \in Time /\ t \in Nat /\ t <= now
    BY <1>1, GridAssumption DEF RollupInv, TypeOK, Time
  <1>3. Rows(fifteen) /\ Rows(hourly) /\ Rows(daily)
    BY DEF RollupInv, TypeOK, Rows
  <1> QED BY <1>1, <1>2, <1>3, AgeAssumption DEF RollupInv, TypeOK

LEMMA FifteenRolled ==
  ASSUME RollupInv
  PROVE  /\ Rows(Rolled15) /\ Closed(Rolled15, Hour[now])
         /\ Complete(Rolled15, Quarter)
         /\ \A t \in raw : t < Hour[now] => Quarter[t] \in DOMAIN Rolled15
  <1> DEFINE ticks == {t \in raw : t < Hour[now]}
             groups == Counts(ticks)
  <1>1. DOMAIN groups = {Quarter[t] : t \in ticks} BY CountsDomain
  <1>2. \A t \in ticks : /\ t \in taken /\ t \in Time /\ t \in Nat /\ t <= now
                         /\ t < Hour[now] /\ Quarter[t] \in Time
                         /\ Quarter[t] <= t /\ Hour[Quarter[t]] = Hour[t]
    BY TakenTimes, GridAssumption
  <1>3. Hour[now] \in Nat BY TakenTimes, GridAssumption, TimeNat
  <1>4. Rows(groups)
    <2>1. DOMAIN groups \subseteq Time BY <1>1, <1>2
    <2>2. ASSUME NEW b \in DOMAIN groups
          PROVE  /\ groups[b].excluded \subseteq groups[b].all
                 /\ groups[b].all \subseteq taken
      <3>1. /\ groups[b].all = {t \in ticks : Quarter[t] = b}
            /\ groups[b].excluded \subseteq groups[b].all
        BY <2>2, CountsAt
      <3> HIDE DEF groups, ticks
      <3> QED BY <1>2, <3>1
    <2> HIDE DEF groups
    <2> QED BY <2>1, <2>2 DEF Rows
  <1>5. Closed(groups, Hour[now])
    BY <1>1, <1>2, <1>3, TimeNat DEF Closed
  <1>6. Complete(groups, Quarter)
    <2> SUFFICES ASSUME NEW b \in DOMAIN groups, b + RawKept >= now
                 PROVE  groups[b].all = {t \in taken : Quarter[t] = b}
      BY DEF Complete
    <2>1. PICK u \in ticks : b = Quarter[u] BY <1>1
    <2>2. ASSUME NEW t \in taken, Quarter[t] = b PROVE t \in ticks
      <3>1. t \in Time /\ t \in Nat /\ t <= now BY TakenTimes
      <3>2. b \in Nat /\ b <= t
        BY <2>2, <3>1, GridAssumption, TimeNat
      <3>3. t \in raw BY <2>2, <3>1, <3>2, TakenTimes DEF RollupInv
      <3>4. Hour[t] = Hour[u] BY <1>2, <2>1, <2>2, <3>1, GridAssumption
      <3>5. Hour[u] <= u /\ Hour[u] \in Nat BY <1>2, GridAssumption, TimeNat
      <3>6. Hour[t] < Hour[now] BY <1>2, <1>3, <3>4, <3>5
      <3>7. t < Hour[now] BY <3>1, <3>6, TakenTimes, BeforeOpen
      <3> QED BY <3>3, <3>7
    <2>3. groups[b].all = {t \in ticks : Quarter[t] = b} BY CountsAt
    <2> HIDE DEF groups, ticks
    <2> QED BY <1>2, <2>2, <2>3
  <1>7. Rolled15 = Upsert(fifteen, groups) BY DEF Rolled15
  <1>8. \A t \in ticks : Quarter[t] \in DOMAIN Upsert(fifteen, groups)
    <2>1. DOMAIN Upsert(fifteen, groups) = DOMAIN fifteen \cup DOMAIN groups
      BY DEF Upsert
    <2> QED BY <1>1, <2>1
  <1> HIDE DEF groups
  <1> QED BY <1>4, <1>5, <1>6, <1>7, <1>8, TakenTimes, UpsertRows, UpsertClosed,
             UpsertComplete DEF RollupInv

\* Sums of complete rows of closed buckets are complete.
LEMMA SumsComplete ==
  ASSUME RollupInv, NEW rows, NEW open, NEW Fine \in [Time -> Time],
         NEW Coarse \in [Time -> Time], Rows(rows), Complete(rows, Fine),
         \A t \in Time : Coarse[t] <= t /\ Coarse[Fine[t]] = Coarse[t],
         \A t \in raw, k \in DOMAIN rows :
           k < open /\ Coarse[t] = Coarse[k]
             => Fine[t] \in DOMAIN rows /\ Fine[t] < open
  PROVE  Complete(Sums(rows, open, Coarse), Coarse)
  <1> DEFINE sums == Sums(rows, open, Coarse)
  <1> SUFFICES ASSUME NEW b \in DOMAIN sums, b + RawKept >= now
               PROVE  sums[b].all = {t \in taken : Coarse[t] = b}
    BY DEF Complete
  <1>1. DOMAIN sums = {Coarse[k] : k \in {k \in DOMAIN rows : k < open}}
    BY DEF Sums
  <1>2. PICK k0 \in DOMAIN rows : k0 < open /\ b = Coarse[k0] BY <1>1
  <1>3. \A t : t \in sums[b].all <=>
          \E k \in DOMAIN rows : k < open /\ Coarse[k] = b /\ t \in rows[k].all
    BY SumsAt
  <1>4. b \in Time /\ b \in Nat BY <1>2, TimeNat DEF Rows
  <1>5. ASSUME NEW k \in DOMAIN rows, Coarse[k] = b
        PROVE  rows[k].all = {t \in taken : Fine[t] = k}
    <2>1. k \in Time /\ k \in Nat /\ b <= k BY <1>5, TimeNat DEF Rows
    <2>2. k + RawKept >= now BY <1>4, <2>1, TakenTimes
    <2> QED BY <2>2 DEF Complete
  <1> HIDE DEF sums
  <1>6. ASSUME NEW t \in sums[b].all PROVE t \in taken /\ Coarse[t] = b
    <2>1. PICK k \in DOMAIN rows : k < open /\ Coarse[k] = b /\ t \in rows[k].all
      BY <1>3
    <2>2. t \in taken /\ Fine[t] = k BY <1>5, <2>1
    <2> QED BY <2>1, <2>2, TakenTimes
  <1>7. ASSUME NEW t \in taken, Coarse[t] = b PROVE t \in sums[b].all
    <2>1. t \in Time /\ t \in Nat /\ b <= t BY <1>7, TakenTimes
    <2>2. t \in raw BY <1>4, <2>1, TakenTimes DEF RollupInv
    <2>3. Fine[t] \in DOMAIN rows /\ Fine[t] < open BY <1>2, <1>7, <2>2
    <2>4. Coarse[Fine[t]] = b BY <1>7, <2>1
    <2>5. t \in rows[Fine[t]].all BY <1>5, <2>3, <2>4
    <2> QED BY <1>3, <2>3, <2>4, <2>5
  <1> QED BY <1>6, <1>7

LEMMA HourlyRolled ==
  ASSUME RollupInv
  PROVE  /\ Rows(RolledHourly) /\ Closed(RolledHourly, Hour[now])
         /\ Complete(RolledHourly, Hour)
         /\ \A t \in raw : t < Hour[now] => Hour[t] \in DOMAIN RolledHourly
  <1> DEFINE sums == Sums(Rolled15, Hour[now], Hour)
  <1>0. Hour \in [Time -> Time] /\ Quarter \in [Time -> Time] BY GridAssumption
  <1>1. Rows(sums) BY <1>0, FifteenRolled, SumsRows
  <1>2. DOMAIN sums = {Hour[k] : k \in {k \in DOMAIN Rolled15 : k < Hour[now]}}
    BY DEF Sums
  <1>3. Hour[now] \in Nat BY TakenTimes, <1>0, TimeNat
  <1>4. \A k \in DOMAIN Rolled15 : /\ k \in Time /\ k \in Nat
                                   /\ Hour[k] \in Nat /\ Hour[k] <= k
    BY FifteenRolled, TimeNat, GridAssumption DEF Rows
  <1>5. Closed(sums, Hour[now])
    BY <1>2, <1>3, <1>4 DEF Closed
  <1>6. \A t \in raw : /\ t \in Time /\ t \in Nat /\ t <= now
                       /\ Quarter[t] \in Nat /\ Quarter[t] <= t
                       /\ Hour[Quarter[t]] = Hour[t]
    BY TakenTimes, TimeNat, GridAssumption
  <1>7. ASSUME NEW t \in raw, NEW k \in DOMAIN Rolled15, k < Hour[now],
               Hour[t] = Hour[k]
        PROVE  Quarter[t] \in DOMAIN Rolled15 /\ Quarter[t] < Hour[now]
    <2>1. Hour[t] < Hour[now] BY <1>3, <1>4, <1>7
    <2>2. t < Hour[now] BY <1>6, <2>1, TakenTimes, BeforeOpen
    <2> QED BY <1>3, <1>6, <2>2, FifteenRolled
  <1>8. Complete(sums, Hour)
    <2>1. \A t \in Time : Hour[t] <= t /\ Hour[Quarter[t]] = Hour[t]
      BY GridAssumption
    <2> QED BY <1>0, <1>7, <2>1, FifteenRolled, SumsComplete
  <1>9. RolledHourly = Upsert(hourly, sums) BY DEF RolledHourly
  <1>10. ASSUME NEW t \in raw, t < Hour[now] PROVE Hour[t] \in DOMAIN RolledHourly
    <2>1. Quarter[t] \in DOMAIN Rolled15 /\ Quarter[t] < Hour[now]
      BY <1>3, <1>6, <1>10, FifteenRolled
    <2>2. Hour[t] \in DOMAIN sums BY <1>2, <1>6, <2>1
    <2>3. DOMAIN RolledHourly = DOMAIN hourly \cup DOMAIN sums
      BY <1>9, UpsertDomain, Zenon
    <2> QED BY <2>2, <2>3
  <1> HIDE DEF sums
  <1> QED BY <1>1, <1>5, <1>8, <1>9, <1>10, TakenTimes, UpsertRows, UpsertClosed,
             UpsertComplete DEF RollupInv

LEMMA DaysRolled ==
  ASSUME RollupInv
  PROVE  Rows(Days) /\ Closed(Days, Day[now]) /\ Complete(Days, Day)
  <1>0. Hour \in [Time -> Time] /\ Day \in [Time -> Time] BY GridAssumption
  <1>1. Rows(Days) BY <1>0, HourlyRolled, SumsRows DEF Days
  <1>2. DOMAIN Days = {Day[k] : k \in {k \in DOMAIN RolledHourly : k < Day[now]}}
    BY DEF Days, Sums
  <1>3. Day[now] \in Nat /\ Hour[now] \in Nat /\ Day[now] <= Hour[now]
    BY TakenTimes, <1>0, TimeNat, BeforeOpen
  <1>4. \A k \in DOMAIN RolledHourly : /\ k \in Time /\ k \in Nat
                                       /\ Day[k] \in Nat /\ Day[k] <= k
    BY HourlyRolled, TimeNat, GridAssumption DEF Rows
  <1>5. Closed(Days, Day[now]) BY <1>2, <1>3, <1>4 DEF Closed
  <1>6. \A t \in raw : /\ t \in Time /\ t \in Nat /\ t <= now
                       /\ Hour[t] \in Nat /\ Hour[t] <= t
    BY TakenTimes, TimeNat, GridAssumption
  <1>7. ASSUME NEW t \in raw, NEW k \in DOMAIN RolledHourly, k < Day[now],
               Day[t] = Day[k]
        PROVE  Hour[t] \in DOMAIN RolledHourly /\ Hour[t] < Day[now]
    <2>1. Day[t] < Day[now] BY <1>3, <1>4, <1>7
    <2>2. t < Day[now] BY <1>6, <2>1, TakenTimes, BeforeOpen
    <2>3. t < Hour[now] BY <1>3, <1>6, <2>2
    <2> QED BY <1>3, <1>6, <2>2, <2>3, HourlyRolled
  <1>8. Complete(Days, Day)
    <2>1. \A t \in Time : Day[t] <= t /\ Day[Hour[t]] = Day[t]
      BY GridAssumption
    <2> QED BY <1>0, <1>7, <2>1, HourlyRolled, SumsComplete DEF Days
  <1> QED BY <1>1, <1>5, <1>8

-----------------------------------------------------------------------------
(* The reports of players *)

\* A run counts all reports of a closed quarter, while none is past its age.
LEMMA ReportsRolled ==
  ASSUME RollupInv
  PROVE  /\ DOMAIN RolledReports \subseteq Time
         /\ Closed(RolledReports, Hour[now])
         /\ \A t \in reports : t < Hour[now] => Quarter[t] \in DOMAIN RolledReports
         /\ \A b \in DOMAIN reportRows : b \in DOMAIN RolledReports
         /\ \A b \in DOMAIN RolledReports :
              b + RawKept >= now => RolledReports[b] = {t \in reported : Quarter[t] = b}
  <1> DEFINE closed == {t \in reports : t < Hour[now]}
             groups == [b \in {Quarter[t] : t \in closed} |->
                          {t \in closed : Quarter[t] = b}]
  <1>0. \A t \in reported : t \in Time /\ t \in Nat /\ t <= now
    BY GridAssumption DEF RollupInv, TypeOK, Time
  <1>1. \A t \in closed : /\ t \in reported /\ t < Hour[now] /\ Quarter[t] \in Time
                          /\ Quarter[t] <= t /\ Quarter[t] \in Nat
    BY <1>0, GridAssumption, TimeNat DEF RollupInv, TypeOK
  <1>2. Hour[now] \in Nat /\ now \in Time /\ RawKept \in Nat /\ now \in Nat
    BY TakenTimes, GridAssumption, TimeNat
  <1>3. RolledReports = Upsert(reportRows, groups) BY DEF RolledReports
  <1>4. DOMAIN RolledReports = DOMAIN reportRows \cup DOMAIN groups
    BY <1>3, UpsertDomain, Zenon
  <1>5. \A b \in DOMAIN groups : b \in Time /\ b < Hour[now]
    BY <1>0, <1>1, <1>2
  <1>6. \A b \in DOMAIN reportRows : b \in Time /\ b < Hour[now]
    BY DEF RollupInv, TypeOK, Closed
  <1>7. \A t \in closed : Quarter[t] \in DOMAIN groups BY DEF groups
  <1>8. ASSUME NEW b \in DOMAIN RolledReports, b + RawKept >= now
        PROVE  RolledReports[b] = {t \in reported : Quarter[t] = b}
    <2>1. CASE b \notin DOMAIN groups
      <3>1. b \in DOMAIN reportRows /\ RolledReports[b] = reportRows[b]
        BY <1>3, <1>8, <2>1, UpsertAt
      <3> QED BY <1>8, <3>1 DEF RollupInv, ReportsCounted
    <2>2. CASE b \in DOMAIN groups
      <3>1. RolledReports[b] = groups[b]
        <4> HIDE DEF groups
        <4> QED BY <1>3, <1>8, <2>2, UpsertAt
      <3>2. groups[b] = {t \in closed : Quarter[t] = b} BY <2>2
      <3>3. PICK u \in closed : b = Quarter[u] BY <2>2
      <3>4. ASSUME NEW t \in reported, Quarter[t] = b PROVE t \in closed
        <4>1. t \in Time /\ t \in Nat /\ t <= now BY <1>0
        <4>2. b \in Nat /\ b <= t BY <3>4, <4>1, GridAssumption, TimeNat
        <4>3. t \in reports BY <1>2, <1>8, <4>1, <4>2 DEF RollupInv
        <4>4. u \in Time /\ u \in Nat /\ u < Hour[now] BY <1>0, <1>1
        <4>5. Hour[t] = Hour[u] BY <3>3, <3>4, <4>1, <4>4, GridAssumption
        <4>6. Hour[u] <= u /\ Hour[u] \in Nat BY <4>4, GridAssumption, TimeNat
        <4>7. Hour[t] < Hour[now] BY <1>2, <4>4, <4>5, <4>6
        <4>8. t < Hour[now] BY <1>2, <4>1, <4>7, BeforeOpen
        <4> QED BY <4>3, <4>8
      <3> HIDE DEF groups, closed
      <3> QED BY <1>1, <3>1, <3>2, <3>4
    <2> QED BY <2>1, <2>2
  <1>9. \A t \in reports : t < Hour[now] => Quarter[t] \in DOMAIN groups BY <1>7
  <1> HIDE DEF groups
  <1> QED BY <1>4, <1>5, <1>6, <1>8, <1>9 DEF Closed

-----------------------------------------------------------------------------
(* Each step keeps RollupInv *)

LEMMA RollupInit == Init => RollupInv
  <1> SUFFICES ASSUME Init PROVE RollupInv OBVIOUS
  <1>1. /\ DOMAIN fifteen = {} /\ DOMAIN hourly = {} /\ DOMAIN daily = {}
        /\ DOMAIN reportRows = {}
    BY DEF Init, Empty
  <1>2. TypeOK BY <1>1, GridAssumption DEF Init, TypeOK, Time
  <1>3. /\ Closed(fifteen, Hour[now]) /\ Closed(hourly, Hour[now])
        /\ Closed(daily, Day[now]) /\ Closed(reportRows, Hour[now])
    BY <1>1 DEF Closed
  <1>4. /\ Complete(fifteen, Quarter) /\ Complete(hourly, Hour) /\ Complete(daily, Day)
    BY <1>1 DEF Complete
  <1>5. ReportsCounted BY <1>1 DEF Init, ReportsCounted
  <1> QED BY <1>2, <1>3, <1>4, <1>5 DEF Init, RollupInv

\* A check recorded now belongs to no row.
LEMMA TickComplete ==
  ASSUME RollupInv, Tick, NEW rows, NEW Grid, Complete(rows, Grid),
         \A b \in DOMAIN rows : b \in Nat /\ b # Grid[now]
  PROVE  \A b \in DOMAIN rows :
           b + RawKept >= now' => rows[b].all = {t \in taken' : Grid[t] = b}
  <1> SUFFICES ASSUME NEW b \in DOMAIN rows, b + RawKept >= now'
               PROVE  rows[b].all = {t \in taken' : Grid[t] = b}
    OBVIOUS
  <1>1. b + RawKept >= now BY TakenTimes DEF Tick
  <1>2. taken' \subseteq taken \cup {now} /\ taken \subseteq taken' BY DEF Tick
  <1>3. rows[b].all = {t \in taken : Grid[t] = b} BY <1>1 DEF Complete
  <1> QED BY <1>2, <1>3

LEMMA TickRollup == ASSUME RollupInv, Tick PROVE RollupInv'
  <1>1. /\ now' = now + 1 /\ now' \in Time /\ now \in Time /\ now \in Nat
        /\ RawKept \in Nat /\ FifteenKept \in Nat
    <2>1. now \in Time /\ now \in Nat BY TakenTimes
    <2>2. now < MaxTime /\ now' = now + 1 BY DEF Tick
    <2>3. now' \in Time BY <2>1, <2>2, GridAssumption DEF Time
    <2> QED BY <2>1, <2>2, <2>3, AgeAssumption
  <1>2. UNCHANGED <<lastRun, maintained, fifteen, hourly, daily,
                    reports, reported, reportRows>>
    BY DEF Tick, crowd
  <1>3. /\ taken \subseteq taken' /\ taken' \subseteq taken \cup {now}
        /\ raw' \subseteq taken' /\ up' \subseteq taken'
        /\ \A t \in taken' : t \in raw' \/ (t \in taken /\ t \notin raw)
    BY DEF Tick, RollupInv, TypeOK
  <1>4. /\ Hour[now] <= Hour[now'] /\ Day[now] <= Day[now']
        /\ Hour[now] <= Quarter[now]
    BY <1>1, BeforeOpen
  <1>5. /\ Hour[now] \in Nat /\ Hour[now'] \in Nat /\ Day[now] \in Nat
        /\ Day[now'] \in Nat /\ Quarter[now] \in Nat
    BY <1>1, GridAssumption, TimeNat
  <1>6. TypeOK'
    <2>1. lastRun' \in 0..now' BY <1>1, <1>2 DEF RollupInv, TypeOK
    <2>2. taken' \subseteq 0..(now' - 1) BY <1>1, <1>3 DEF RollupInv, TypeOK
    <2>3. reported' \subseteq 0..now' BY <1>1, <1>2 DEF RollupInv, TypeOK
    <2>4. \A rows \in {fifteen, hourly, daily} :
            /\ DOMAIN rows \subseteq Time
            /\ \A b \in DOMAIN rows :
                 rows[b].excluded \subseteq rows[b].all /\ rows[b].all \subseteq taken'
      BY <1>3 DEF RollupInv, TypeOK
    <2> QED BY <1>1, <1>2, <1>3, <2>1, <2>2, <2>3, <2>4 DEF RollupInv, TypeOK
  <1>7. \A t \in taken' : t + RawKept >= now' => t \in raw'
    BY <1>1, <1>3, TakenTimes DEF RollupInv
  <1>8. \A t \in reported' : t + RawKept >= now' => t \in reports'
    BY <1>1, <1>2 DEF RollupInv, TypeOK
  <1>9. /\ \A b \in DOMAIN fifteen : b \in Nat /\ b < Hour[now]
        /\ \A b \in DOMAIN hourly : b \in Nat /\ b < Hour[now]
        /\ \A b \in DOMAIN daily : b \in Nat /\ b < Day[now]
        /\ \A b \in DOMAIN reportRows : b \in Nat /\ b < Hour[now]
    BY TakenTimes, TimeNat DEF RollupInv, TypeOK, Rows, Closed
  <1>10. Complete(fifteen, Quarter)'
    <2>1. \A b \in DOMAIN fifteen : b \in Nat /\ b # Quarter[now]
      BY <1>4, <1>5, <1>9
    <2>2. Complete(fifteen, Quarter) BY DEF RollupInv
    <2> QED BY <1>2, <2>1, <2>2, TickComplete DEF Complete
  <1>11. Complete(hourly, Hour)'
    <2>1. \A b \in DOMAIN hourly : b \in Nat /\ b # Hour[now] BY <1>5, <1>9
    <2>2. Complete(hourly, Hour) BY DEF RollupInv
    <2> QED BY <1>2, <2>1, <2>2, TickComplete DEF Complete
  <1>12. Complete(daily, Day)'
    <2>1. \A b \in DOMAIN daily : b \in Nat /\ b # Day[now] BY <1>5, <1>9
    <2>2. Complete(daily, Day) BY DEF RollupInv
    <2> QED BY <1>2, <2>1, <2>2, TickComplete DEF Complete
  <1>13. /\ Closed(fifteen, Hour[now])' /\ Closed(hourly, Hour[now])'
         /\ Closed(daily, Day[now])' /\ Closed(reportRows, Hour[now])'
    BY <1>2, <1>4, <1>5, <1>9 DEF Closed
  <1>14. ReportsCounted'
    <2>1. ASSUME NEW t \in reported
          PROVE  \/ t \in reports \/ Quarter[t] \in DOMAIN reportRows
                 \/ Quarter[t] + FifteenKept < now'
      <3>1. t \in Time BY <1>1, GridAssumption DEF RollupInv, TypeOK, Time
      <3>2. Quarter[t] \in Nat BY <3>1, GridAssumption, TimeNat
      <3> QED BY <1>1, <3>2 DEF RollupInv, ReportsCounted
    <2>2. ASSUME NEW b \in DOMAIN reportRows, b + RawKept >= now'
          PROVE  reportRows[b] = {t \in reported : Quarter[t] = b}
      <3>1. b + RawKept >= now BY <1>1, <1>9, <2>2
      <3> QED BY <3>1 DEF RollupInv, ReportsCounted
    <2> QED BY <1>2, <2>1, <2>2 DEF ReportsCounted
  <1> QED BY <1>6, <1>7, <1>8, <1>10, <1>11, <1>12, <1>13, <1>14 DEF RollupInv

\* A report made now belongs to no row.
LEMMA ReportRollup == ASSUME RollupInv, Report PROVE RollupInv'
  <1>1. UNCHANGED <<now, lastRun, maintained, raw, up, taken, fifteen, hourly, daily,
                    reportRows>>
    BY DEF Report, checks
  <1>2. now \in Time /\ now \in Nat BY TakenTimes
  <1>3. reports' = reports \cup {now} /\ reported' = reported \cup {now}
    BY DEF Report
  <1>4. TypeOK' BY <1>1, <1>2, <1>3 DEF RollupInv, TypeOK
  <1>5. \A b \in DOMAIN reportRows : b # Quarter[now]
    <2>1. Hour[now] <= Quarter[now] BY <1>2, BeforeOpen
    <2>2. Hour[now] \in Nat /\ Quarter[now] \in Nat
      BY <1>2, GridAssumption, TimeNat
    <2>3. \A b \in DOMAIN reportRows : b \in Nat /\ b < Hour[now]
      BY TimeNat DEF RollupInv, TypeOK, Closed
    <2> QED BY <2>1, <2>2, <2>3
  <1>6. ReportsCounted'
    BY <1>1, <1>3, <1>5 DEF RollupInv, ReportsCounted
  <1>7. /\ Complete(fifteen, Quarter)' /\ Complete(hourly, Hour)'
        /\ Complete(daily, Day)'
    BY <1>1 DEF RollupInv, Complete
  <1>8. /\ Closed(fifteen, Hour[now])' /\ Closed(hourly, Hour[now])'
        /\ Closed(daily, Day[now])' /\ Closed(reportRows, Hour[now])'
    BY <1>1 DEF RollupInv, Closed
  <1> QED BY <1>1, <1>3, <1>4, <1>6, <1>7, <1>8 DEF RollupInv

\* Nothing but the windows changes.
LEMMA WindowRollup ==
  ASSUME RollupInv, maintained' \subseteq Time,
         UNCHANGED <<now, raw, up, taken, fifteen, hourly, daily,
                     reports, reported, reportRows>>,
         lastRun' \in 0..now
  PROVE  RollupInv'
  <1>1. TypeOK' BY DEF RollupInv, TypeOK
  <1>2. /\ Complete(fifteen, Quarter)' /\ Complete(hourly, Hour)'
        /\ Complete(daily, Day)'
    BY DEF RollupInv, Complete
  <1>3. /\ Closed(fifteen, Hour[now])' /\ Closed(hourly, Hour[now])'
        /\ Closed(daily, Day[now])' /\ Closed(reportRows, Hour[now])'
    BY DEF RollupInv, Closed
  <1>4. ReportsCounted' BY DEF RollupInv, ReportsCounted
  <1> QED BY <1>1, <1>2, <1>3, <1>4 DEF RollupInv

\* A run that commits replaces rows by complete ones, and deletes only what
\* is past its age.
LEMMA CommitRollup ==
  ASSUME RollupInv, RunRetention,
         raw'     = {t \in raw : t + RawKept >= now},
         fifteen' = Kept(Rolled15, FifteenKept),
         hourly'  = Kept(RolledHourly, HourlyKept),
         daily'   = Upsert(daily, Days),
         reports' = {t \in reports : t + RawKept >= now},
         reportRows' = Kept(RolledReports, FifteenKept)
  PROVE  RollupInv'
  <1>1. UNCHANGED <<now, up, taken, maintained, reported>> /\ lastRun' = now
    BY DEF RunRetention
  <1>2. /\ now \in Time /\ now \in Nat /\ RawKept \in Nat /\ FifteenKept \in Nat
        /\ Hour[now] \in Nat /\ now <= Hour[now] + RawKept
    BY TakenTimes, AgeAssumption, GridAssumption, TimeNat
  <1>3. /\ Rows(fifteen') /\ Rows(hourly') /\ Rows(daily')
    <2>1. Rows(fifteen') BY FifteenRolled, KeptRows
    <2>2. Rows(hourly') BY HourlyRolled, KeptRows
    <2>3. Rows(daily') BY DaysRolled, UpsertRows, TakenTimes
    <2> QED BY <2>1, <2>2, <2>3
  <1>4. /\ Complete(fifteen', Quarter) /\ Complete(hourly', Hour)
        /\ Complete(daily', Day)
    <2>1. Complete(fifteen', Quarter) BY FifteenRolled, KeptRows
    <2>2. Complete(hourly', Hour) BY HourlyRolled, KeptRows
    <2>3. Complete(daily', Day) BY DaysRolled, UpsertComplete DEF RollupInv
    <2> QED BY <2>1, <2>2, <2>3
  <1>5. /\ Closed(fifteen', Hour[now]) /\ Closed(hourly', Hour[now])
        /\ Closed(daily', Day[now]) /\ Closed(reportRows', Hour[now])
    <2>1. Closed(fifteen', Hour[now]) BY FifteenRolled, KeptRows
    <2>2. Closed(hourly', Hour[now]) BY HourlyRolled, KeptRows
    <2>3. Closed(daily', Day[now]) BY DaysRolled, UpsertClosed DEF RollupInv
    <2>4. Closed(reportRows', Hour[now]) BY ReportsRolled, KeptRows
    <2> QED BY <2>1, <2>2, <2>3, <2>4
  <1>6. \A t \in reported : t \in Time /\ t \in Nat /\ Quarter[t] \in Nat
    <2>1. \A t \in reported : t \in Time
      BY GridAssumption DEF RollupInv, TypeOK, Time
    <2> QED BY <2>1, GridAssumption, TimeNat
  <1>7. /\ DOMAIN reportRows' = {b \in DOMAIN RolledReports : b + FifteenKept >= now}
        /\ \A b \in DOMAIN reportRows' : reportRows'[b] = RolledReports[b]
    BY DEF Kept
  <1>8. ReportsCounted'
    <2>1. ASSUME NEW t \in reported
          PROVE  \/ t \in reports' \/ Quarter[t] \in DOMAIN reportRows'
                 \/ Quarter[t] + FifteenKept < now
      <3>1. \/ t \in reports' \/ Quarter[t] \in DOMAIN RolledReports
            \/ Quarter[t] + FifteenKept < now
        <4>1. CASE t \in reports
          <5>1. t + RawKept >= now \/ t < Hour[now] BY <1>2, <1>6
          <5> QED BY <4>1, <5>1, ReportsRolled
        <4>2. CASE t \notin reports
          BY <4>2, ReportsRolled DEF RollupInv, ReportsCounted
        <4> QED BY <4>1, <4>2
      <3> QED BY <1>2, <1>6, <1>7, <3>1
    <2>2. \A b \in DOMAIN reportRows' :
            b + RawKept >= now => reportRows'[b] = {t \in reported : Quarter[t] = b}
      BY <1>7, ReportsRolled
    <2> QED BY <1>1, <2>1, <2>2 DEF ReportsCounted
  <1>9. TypeOK'
    <2>1. \A rows \in {fifteen', hourly', daily'} :
            /\ DOMAIN rows \subseteq Time
            /\ \A b \in DOMAIN rows :
                 rows[b].excluded \subseteq rows[b].all /\ rows[b].all \subseteq taken
      BY <1>3 DEF Rows
    <2>2. DOMAIN reportRows' \subseteq Time BY <1>7, ReportsRolled
    <2>3. raw' \subseteq taken /\ reports' \subseteq reported
      BY DEF RollupInv, TypeOK
    <2>4. lastRun' \in 0..now BY <1>1, <1>2
    <2> QED BY <1>1, <2>1, <2>2, <2>3, <2>4 DEF RollupInv, TypeOK
  <1>10. /\ \A t \in taken : t + RawKept >= now => t \in raw'
         /\ \A t \in reported : t + RawKept >= now => t \in reports'
    BY DEF RollupInv
  <1>11. /\ Complete(fifteen, Quarter)' /\ Complete(hourly, Hour)'
         /\ Complete(daily, Day)'
    BY <1>1, <1>4 DEF Complete
  <1>12. /\ Closed(fifteen, Hour[now])' /\ Closed(hourly, Hour[now])'
         /\ Closed(daily, Day[now])' /\ Closed(reportRows, Hour[now])'
    BY <1>1, <1>5 DEF Closed
  <1> QED BY <1>1, <1>8, <1>9, <1>10, <1>11, <1>12 DEF RollupInv

LEMMA RollupStep == RollupInv /\ [Next]_vars => RollupInv'
  <1> SUFFICES ASSUME RollupInv, [Next]_vars PROVE RollupInv' OBVIOUS
  <1>0. /\ maintained \subseteq Time /\ lastRun \in 0..now /\ now \in 0..now
    BY TakenTimes DEF RollupInv, TypeOK
  <1>1. CASE Tick BY <1>1, TickRollup
  <1>2. CASE Report BY <1>2, ReportRollup
  <1>3. CASE ScheduleMaintenance
    <2>1. maintained' \subseteq Time
      BY <1>0, <1>3, InputAssumption DEF ScheduleMaintenance
    <2> QED BY <1>0, <1>3, <2>1, WindowRollup DEF ScheduleMaintenance, checks, crowd
  <1>4. CASE RunRetention
    <2>1. CASE UNCHANGED <<raw, fifteen, hourly, daily, reports, reportRows>>
      <3>1. UNCHANGED <<now, up, taken, maintained, reported>> /\ lastRun' = now
        BY <1>4 DEF RunRetention
      <3> QED BY <1>0, <2>1, <3>1, WindowRollup
    <2>2. CASE ~ UNCHANGED <<raw, fifteen, hourly, daily, reports, reportRows>>
      <3>1. /\ raw'     = {t \in raw : t + RawKept >= now}
            /\ fifteen' = Kept(Rolled15, FifteenKept)
            /\ hourly'  = Kept(RolledHourly, HourlyKept)
            /\ daily'   = Upsert(daily, Days)
            /\ reports' = {t \in reports : t + RawKept >= now}
            /\ reportRows' = Kept(RolledReports, FifteenKept)
        BY <1>4, <2>2 DEF RunRetention
      <3> QED BY <1>4, <3>1, CommitRollup
    <2> QED BY <2>1, <2>2
  <1>5. CASE UNCHANGED vars
    BY <1>0, <1>5, WindowRollup DEF vars, checks, crowd
  <1> QED BY <1>1, <1>2, <1>3, <1>4, <1>5 DEF Next

-----------------------------------------------------------------------------
(* The rows are right *)

\* The inductive invariant of the rows, for every grid, age and schedule of
\* RunRetention.
THEOREM RollupInvariance == Spec => []RollupInv
  BY RollupInit, RollupStep, PTL DEF Spec

\* The rows, checks and reports of RunRetention keep their types.
THEOREM RetentionTypeCorrect == Spec => []TypeOK
  <1>1. RollupInv => TypeOK BY DEF RollupInv
  <1> QED BY RollupInvariance, <1>1, PTL

\* However often RunRetention has rolled a day up, the row of daily_uptime
\* counts every check of the day until the first is past its age.
THEOREM DaysAreComplete == Spec => []DailyIsComplete
  <1>1. RollupInv => DailyIsComplete BY DEF RollupInv, Complete, DailyIsComplete
  <1> QED BY RollupInvariance, <1>1, PTL

\* No report vanishes from user_reports before user_report_aggregates_15m
\* counts it, and no row of that table loses a report while its first is kept.
THEOREM ReportsAreCounted == Spec => []ReportsCounted
  <1>1. RollupInv => ReportsCounted BY DEF RollupInv
  <1> QED BY RollupInvariance, <1>1, PTL

=============================================================================
