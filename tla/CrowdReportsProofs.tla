------------------------- MODULE CrowdReportsProofs -------------------------
(***************************************************************************)
(* Proofs about CrowdReports, for any number of players and requests, any  *)
(* time and any table the program may have left.                           *)
(***************************************************************************)
EXTENDS CrowdReports, FiniteSetTheorems, TLAPS

-----------------------------------------------------------------------------
(* The inductive invariant *)

LEMMA NewType == New \in Request /\ New.pc = "new"
  BY TimeAssumption, ActiveAssumption
  DEF New, Request, Row, Time, Reporters

LEMMA HashType ==
  ASSUME NEW who \in Reporters, NEW t \in Time
  PROVE  /\ Hash(who, t) \in Time \cup {Always}
         /\ who \notin Clients => Hash(who, t) = Always
  BY TimeAssumption DEF Hash, Always

LEMMA SameKeySymmetric ==
  ASSUME NEW x, NEW y, SameKey(x, y)
  PROVE  SameKey(y, x)
  BY DEF SameKey

LEMMA InitCrowd == Init => CrowdInv
  <1> SUFFICES ASSUME Init PROVE CrowdInv OBVIOUS
  <1>1. TypeOK
    BY NewType, BeginningsAssumption DEF Init, TypeOK
  <1>2. \A r \in Requests : ~Open(r) /\ ~Holding(r) /\ req[r].pc = "new"
    BY DEF Init, Open, Holding, New
  <1> QED BY <1>1, <1>2, BeginningsAssumption DEF Init, CrowdInv

\* A request that ends leaves the others alone and holds nothing.
LEMMA ReturnReq ==
  ASSUME TypeOK, NEW r \in Requests, Return(r)
  PROVE  /\ req' \in [Requests -> Request]
         /\ req'[r].pc = "done"
         /\ \A q \in Requests \ {r} : req'[q] = req[q]
  <1>1. [New EXCEPT !.pc = "done"] \in Request
    BY NewType DEF Request
  <1> QED BY <1>1, NewType DEF Return, TypeOK, New

LEMMA CrowdStep == CrowdInv /\ [Next]_vars => CrowdInv'
  <1> SUFFICES ASSUME CrowdInv, [Next]_vars PROVE CrowdInv'
    OBVIOUS
  <1>0. TypeOK BY DEF CrowdInv
  <1>1. ASSUME NEW r \in Requests, MakeHash(r) PROVE CrowdInv'
    <2>1. PICK who \in Active :
            req' = [req EXCEPT ![r] = [pc |-> "hashed", stored |-> FALSE,
                      row |-> [who |-> who, hash |-> Hash(who, now), at |-> now]]]
      BY <1>1 DEF MakeHash
    <2>2. who \in Reporters /\ now \in Time
      BY <1>0, ActiveAssumption DEF TypeOK
    <2> DEFINE row == [who |-> who, hash |-> Hash(who, now), at |-> now]
    <2>3. row \in Row BY <2>2, HashType DEF Row
    <2>4. MadeInTime(row)
      <3>1. /\ now <= row.at /\ row.at <= now + Patience
            /\ row.hash = Hash(row.who, now)
        BY <2>2, TimeAssumption DEF Time
      <3> HIDE DEF row
      <3> QED BY <2>2, <3>1 DEF MadeInTime
    <2>5. /\ req' \in [Requests -> Request]
          /\ req'[r] = [pc |-> "hashed", stored |-> FALSE, row |-> row]
          /\ \A q \in Requests \ {r} : req'[q] = req[q]
      <3> HIDE DEF row
      <3>1. [pc |-> "hashed", stored |-> FALSE, row |-> row] \in Request
        BY <2>3 DEF Request
      <3>2. req' = [req EXCEPT ![r] =
                      [pc |-> "hashed", stored |-> FALSE, row |-> row]]
        BY <2>1 DEF row
      <3> QED BY <1>0, <3>1, <3>2 DEF TypeOK
    <2>6. /\ row.hash = Hash(row.who, row.at)
          /\ row.at <= now /\ now <= row.at + Patience
      BY <2>2, TimeAssumption DEF Time
    <2> HIDE DEF row
    <2>7. now' = now /\ rows' = rows BY <1>1 DEF MakeHash
    <2> QED BY <1>0, <2>4, <2>5, <2>6, <2>7
        DEF CrowdInv, TypeOK, Open, Holding
  <1>2. ASSUME NEW r \in Requests, Stamp(r) PROVE CrowdInv'
    <2> DEFINE old == req[r].row
               row == [req[r].row EXCEPT !.at = now]
    <2>1. /\ old \in Row /\ now \in Time /\ req[r] \in Request
          /\ old.at <= now /\ now <= old.at + Patience
          /\ old.hash = Hash(old.who, old.at)
      BY <1>0, <1>2 DEF Stamp, CrowdInv, Open, TypeOK, Request
    <2>2. /\ row \in Row /\ row.at = now /\ row.hash = old.hash
          /\ row.who = old.who
      BY <2>1 DEF Row
    <2>3. MadeInTime(row)
      BY <2>1, <2>2 DEF MadeInTime, Row
    <2>4. /\ req' \in [Requests -> Request]
          /\ req'[r].pc = "stamped" /\ req'[r].row = row
          /\ \A q \in Requests \ {r} : req'[q] = req[q]
      <3>1. req' = [req EXCEPT ![r] = [req[r] EXCEPT !.pc = "stamped", !.row = row]]
        BY <1>0, <1>2, <2>1 DEF Stamp, TypeOK, Request
      <3> HIDE DEF row
      <3>2. /\ [req[r] EXCEPT !.pc = "stamped", !.row = row] \in Request
            /\ [req[r] EXCEPT !.pc = "stamped", !.row = row].pc = "stamped"
            /\ [req[r] EXCEPT !.pc = "stamped", !.row = row].row = row
        BY <2>1, <2>2 DEF Request
      <3> QED BY <1>0, <3>1, <3>2 DEF TypeOK
    <2> HIDE DEF old, row
    <2>5. row.at <= now /\ now <= row.at + Patience
      BY <2>1, <2>2, TimeAssumption DEF Time
    <2>6. now' = now /\ rows' = rows BY <1>2 DEF Stamp
    <2> QED BY <1>0, <2>3, <2>4, <2>5, <2>6
        DEF CrowdInv, TypeOK, Open, Holding
  <1>3. ASSUME NEW r \in Requests, Insert(r) PROVE CrowdInv'
    <2>1. /\ req' \in [Requests -> Request]
          /\ req'[r].pc = "inserted" /\ req'[r].row = req[r].row
          /\ req'[r].stored = \A x \in rows : ~SameKey(x, req[r].row)
          /\ \A q \in Requests \ {r} : req'[q] = req[q]
      BY <1>0, <1>3 DEF Insert, TypeOK, Request
    <2>2. now' = now /\ rows' = rows BY <1>3 DEF Insert
    <2>3. \A q \in Requests : Holding(q) => /\ ~SameKey(req[q].row, req[r].row)
                                            /\ ~SameKey(req[r].row, req[q].row)
      BY <1>3, SameKeySymmetric DEF Insert, Holding
    <2>4. Open(r) /\ req[r].pc # "inserted" BY <1>3 DEF Insert, Open
    <2>5. \A q \in Requests \ {r} : (Open(q)' <=> Open(q))
                                    /\ (Holding(q)' <=> Holding(q))
      BY <2>1 DEF Open, Holding
    <2>6. Holding(r)' => \A x \in rows : ~SameKey(x, req[r].row)
      BY <2>1 DEF Holding
    <2> QED BY <1>0, <2>1, <2>2, <2>3, <2>4, <2>5, <2>6 DEF CrowdInv, TypeOK
  <1>4. ASSUME NEW r \in Requests, Commit(r) PROVE CrowdInv'
    <2>1. /\ req' \in [Requests -> Request]
          /\ req'[r].pc = "done"
          /\ \A q \in Requests \ {r} : req'[q] = req[q]
      BY <1>0, <1>4, ReturnReq DEF Commit
    <2>2. now' = now BY <1>4 DEF Commit
    <2>3. ~Open(r)' /\ ~Holding(r)' BY <2>1 DEF Open, Holding
    <2>4. \A q \in Requests \ {r} : (Open(q)' <=> Open(q))
                                    /\ (Holding(q)' <=> Holding(q))
      BY <2>1 DEF Open, Holding
    <2>5. CASE ~req[r].stored
      <3>1. rows' = rows BY <1>4, <2>5 DEF Commit
      <3> QED BY <1>0, <2>1, <2>2, <2>3, <2>4, <3>1 DEF CrowdInv, TypeOK
    <2>6. CASE req[r].stored
      <3>1. rows' = rows \cup {req[r].row} BY <1>4, <2>6 DEF Commit
      <3>2. Holding(r) /\ Open(r) BY <1>4, <2>6 DEF Commit, Holding, Open
      <3>3. req[r].row \in Row BY <1>0 DEF TypeOK, Request
      <3>4. IsFiniteSet(rows') /\ rows' \subseteq Row
        BY <1>0, <3>1, <3>3, FS_AddElement DEF TypeOK
      <3>5. \A x \in rows' : MadeInTime(x) BY <3>1, <3>2 DEF CrowdInv
      <3>6. \A x, y \in rows' : SameKey(x, y) => x = y
        BY <3>1, <3>2, SameKeySymmetric DEF CrowdInv
      <3>7. \A q \in Requests \ {r} : Holding(q) =>
              \A x \in rows' : ~SameKey(x, req[q].row)
        BY <3>1, <3>2 DEF CrowdInv
      <3> QED BY <1>0, <2>1, <2>2, <2>3, <2>4, <3>4, <3>5, <3>6, <3>7
          DEF CrowdInv, TypeOK
    <2> QED BY <2>5, <2>6
  <1>5. ASSUME NEW r \in Requests, Abort(r) PROVE CrowdInv'
    <2>1. /\ req' \in [Requests -> Request]
          /\ req'[r].pc = "done"
          /\ \A q \in Requests \ {r} : req'[q] = req[q]
      BY <1>0, <1>5, ReturnReq DEF Abort
    <2>2. now' = now /\ rows' = rows BY <1>5 DEF Abort
    <2> QED BY <1>0, <2>1, <2>2 DEF CrowdInv, TypeOK, Open, Holding
  <1>6. CASE Tick
    <2>1. now' \in Time /\ now' = now + 1 /\ rows' = rows /\ req' = req
      BY <1>0, <1>6, TimeAssumption DEF Tick, TypeOK, Time
    <2>2. \A r \in Requests : Open(r) =>
            req[r].row.at <= now' /\ now' <= req[r].row.at + Patience
      <3> SUFFICES ASSUME NEW r \in Requests, Open(r)
                   PROVE  req[r].row.at <= now' /\ now' <= req[r].row.at + Patience
        OBVIOUS
      <3>1. req[r].row.at \in Nat BY <1>0 DEF TypeOK, Request, Row, Time
      <3>2. req[r].row.at <= now /\ now < req[r].row.at + Patience /\ now \in Nat
        BY <1>0, <1>6 DEF CrowdInv, Tick, TypeOK, Time
      <3> QED BY <2>1, <3>1, <3>2, TimeAssumption
    <2> QED BY <1>0, <2>1, <2>2 DEF CrowdInv, TypeOK, Open, Holding
  <1>7. CASE Purge
    <2>1. rows' \subseteq rows /\ UNCHANGED <<now, req>> BY <1>7 DEF Purge
    <2>2. IsFiniteSet(rows') BY <1>0, <2>1, FS_Subset DEF TypeOK
    <2> QED BY <1>0, <2>1, <2>2 DEF CrowdInv, TypeOK, Open, Holding
  <1>8. CASE UNCHANGED vars
    BY <1>8 DEF CrowdInv, TypeOK, Open, Holding, vars
  <1> QED BY <1>1, <1>2, <1>3, <1>4, <1>5, <1>6, <1>7, <1>8 DEF Next

\* The table and the requests under way never hold one key twice.
THEOREM CrowdInvariance == Spec => []CrowdInv
  BY InitCrowd, CrowdStep, PTL DEF Spec

\* Two rows of a reporter in one day: one of them straddled midnight.
THEOREM ReportedOnce == Spec => []CountedOnce
  <1>1. CrowdInv => CountedOnce
    <2> SUFFICES ASSUME CrowdInv, NEW x \in rows, NEW y \in rows,
                        x # y, x.who = y.who, Day[x.at] = Day[y.at],
                        ~Straddles(x), ~Straddles(y)
                 PROVE  FALSE
      BY DEF CountedOnce
    <2>1. x.hash # y.hash BY DEF CrowdInv, SameKey
    <2>2. x.who \in Clients BY <2>1 DEF CrowdInv, MadeInTime, Hash
    <2> QED BY <2>1, <2>2 DEF Straddles
  <1> QED BY <1>1, CrowdInvariance, PTL

-----------------------------------------------------------------------------
(* Retention *)

\* What retention removes lies outside every window crowdSignal looks at, for
\* an instant that is at most Patience old.
LEMMA PurgeSpares ==
  ASSUME TypeOK, Purge, NEW t \in Time, now <= t + Patience
  PROVE  /\ Current(rows', t) = Current(rows, t)
         /\ Historical(rows', t) = Historical(rows, t)
  <1>1. now \in Nat /\ t \in Nat /\ \A x \in rows : x.at \in Time /\ x.at \in Nat
    BY DEF TypeOK, Row, Time
  <1>2. \A x \in Current(rows, t) : now <= x.at + Kept
    <2> SUFFICES ASSUME NEW x \in rows, Bucket[x.at] = Bucket[t]
                 PROVE  now <= x.at + Kept
      BY DEF Current
    <2>1. Bucket[x.at] <= x.at /\ Bucket[t] \in Time
      BY <1>1, TimeAssumption
    <2>2. t <= Bucket[t] + Lookback BY BucketAssumption
    <2>3. Bucket[t] \in Nat BY <2>1 DEF Time
    <2> QED BY <1>1, <2>1, <2>2, <2>3, TimeAssumption, KeptAssumption
  <1>3. \A x \in Historical(rows, t) : now <= x.at + Kept
    BY <1>1, TimeAssumption, KeptAssumption DEF Historical
  <1> QED BY <1>2, <1>3 DEF Purge, Current, Historical

\* Retention never changes a signal, shown or being read by a request.
THEOREM RetentionUnseen == Spec => RetentionIsInvisible
  <1>1. ASSUME CrowdInv, Purge,
               NEW t \in {now} \cup {req[r].row.at : r \in {r \in Requests : Open(r)}}
        PROVE  Anomalous(rows', t) <=> Anomalous(rows, t)
    <2>1. TypeOK BY <1>1 DEF CrowdInv
    <2>2. t \in Time /\ now <= t + Patience
      <3>1. CASE t = now BY <2>1, <3>1, TimeAssumption DEF TypeOK, Time
      <3>2. CASE t # now
        <4>1. PICK r \in Requests : Open(r) /\ t = req[r].row.at
          BY <1>1, <3>2
        <4> QED BY <1>1, <2>1, <4>1 DEF CrowdInv, TypeOK, Request, Row
      <3> QED BY <3>1, <3>2
    <2> QED BY <1>1, <2>1, <2>2, PurgeSpares DEF Anomalous
  <1>2. CrowdInv /\ [Next]_vars =>
          [Purge => \A t \in {now} \cup {req[r].row.at : r \in {r \in Requests : Open(r)}} :
                      Anomalous(rows', t) <=> Anomalous(rows, t)]_vars
    BY <1>1
  <1> QED BY <1>2, CrowdInvariance, PTL DEF Spec, RetentionIsInvisible

-----------------------------------------------------------------------------
(* The threshold *)

LEMMA Quotient ==
  ASSUME NEW a \in Nat, NEW b \in Nat, b > 0
  PROVE  /\ a \div b \in Nat
         /\ a >= b => a \div b >= 1
  OBVIOUS

\* However little was reported in the past, a spike takes three reports.
LEMMA ThresholdBound ==
  ASSUME NEW sum \in Nat, NEW weeks \in Nat, weeks > 0 => sum > 0
  PROVE  Threshold(sum, weeks) \in Nat /\ Threshold(sum, weeks) >= 3
  <1>1. CASE weeks = 0 BY <1>1 DEF Threshold
  <1>2. CASE weeks > 0
    <2> DEFINE a == 3 * sum + weeks - 1
    <2>1. a \in Nat /\ a >= weeks BY <1>2
    <2>2. Threshold(sum, weeks) = a \div weeks + 2 BY <1>2 DEF Threshold
    <2> HIDE DEF a
    <2>3. a \div weeks \in Nat /\ a \div weeks >= 1 BY <1>2, <2>1, Quotient
    <2> QED BY <2>2, <2>3
  <1> QED BY <1>1, <1>2

\* The windows of a finite table are finite, and so are their threshold's parts.
LEMMA WindowsFinite ==
  ASSUME NEW table, IsFiniteSet(table), NEW t
  PROVE  LET past == Historical(table, t)
             days == {Day[x.at] : x \in past}
         IN  /\ IsFiniteSet(Current(table, t))
             /\ Cardinality(Current(table, t)) \in Nat
             /\ Threshold(Cardinality(past), Cardinality(days)) \in Nat
             /\ Threshold(Cardinality(past), Cardinality(days)) >= 3
  <1> DEFINE past == Historical(table, t)
             days == {Day[x.at] : x \in past}
             f == [x \in past |-> Day[x.at]]
  <1>1. IsFiniteSet(Current(table, t)) /\ IsFiniteSet(past)
    <2>1. Current(table, t) \subseteq table /\ past \subseteq table
      BY DEF Current, Historical
    <2> QED BY <2>1, FS_Subset
  <1>2. IsFiniteSet(days)
    <2>1. f \in Surjection(past, days) BY DEF Surjection
    <2> QED BY <1>1, <2>1, FS_Surjection
  <1>3. /\ Cardinality(Current(table, t)) \in Nat
        /\ Cardinality(past) \in Nat /\ Cardinality(days) \in Nat
    BY <1>1, <1>2, FS_CardinalityType
  <1>4. Cardinality(days) > 0 => Cardinality(past) > 0
    <2>1. past = {} => days = {} OBVIOUS
    <2>2. Cardinality(days) > 0 => days # {} BY <1>2, FS_EmptySet
    <2>3. past # {} => Cardinality(past) # 0 BY <1>1, FS_EmptySet
    <2> QED BY <1>3, <2>1, <2>2, <2>3
  <1> HIDE DEF past, days
  <1>5. /\ Threshold(Cardinality(past), Cardinality(days)) \in Nat
        /\ Threshold(Cardinality(past), Cardinality(days)) >= 3
    BY <1>3, <1>4, ThresholdBound
  <1> QED BY <1>1, <1>3, <1>5 DEF past, days

\* More reports in the present do not end a spike.
LEMMA MoreIsAnomalous ==
  ASSUME NEW small, NEW big, NEW t, NEW u, IsFiniteSet(small), IsFiniteSet(big),
         Current(small, t) \subseteq Current(big, u),
         Historical(small, t) = Historical(big, u),
         Anomalous(small, t)
  PROVE  Anomalous(big, u)
  <1> DEFINE past == Historical(small, t)
             limit == Threshold(Cardinality(past), Cardinality({Day[x.at] : x \in past}))
  <1>1. /\ IsFiniteSet(Current(big, u)) /\ limit \in Nat
        /\ Cardinality(Current(small, t)) \in Nat
        /\ Cardinality(Current(big, u)) \in Nat
    BY WindowsFinite
  <1>2. Cardinality(Current(small, t)) <= Cardinality(Current(big, u))
    BY <1>1, FS_Subset
  <1>3. Cardinality(Current(small, t)) >= limit BY DEF Anomalous
  <1> HIDE DEF limit
  <1>4. Cardinality(Current(big, u)) >= limit BY <1>1, <1>2, <1>3
  <1> QED BY <1>4 DEF Anomalous, limit

\* A spike is shown until its quarter is over, or a row leaves the baseline.
THEOREM SpikeStays == Spec => SpikeLasts
  <1>1. ASSUME CrowdInv, Next, Anomalous(rows, now), Bucket[now'] = Bucket[now],
               \A x \in Historical(rows, now) : ~(now' > x.at + Lookback)
        PROVE  Anomalous(rows', now')
    <2>1. TypeOK /\ TypeOK' BY <1>1, CrowdStep DEF CrowdInv
    <2>2. ASSUME UNCHANGED <<now, rows>> PROVE Anomalous(rows', now')
      BY <1>1, <2>2
    <2>3. CASE Tick
      <3>1. \A x \in rows : x.at \in Nat BY <2>1 DEF TypeOK, Row, Time
      <3>2. now \in Nat /\ now' = now + 1 /\ rows' = rows
        BY <2>1, <2>3 DEF Tick, TypeOK, Time
      <3>3. \A x \in rows : x \in Historical(rows, now') => x \in Historical(rows, now)
        BY <1>1, <3>1, <3>2, TimeAssumption DEF Historical
      <3>4. \A x \in rows : x \in Historical(rows, now) => x \in Historical(rows, now')
        BY <1>1, <3>1, <3>2, TimeAssumption DEF Historical
      <3>5. Historical(rows, now) = Historical(rows, now')
        BY <3>3, <3>4 DEF Historical
      <3>6. Current(rows, now) = Current(rows, now') BY <1>1 DEF Current
      <3> QED BY <1>1, <2>1, <3>2, <3>5, <3>6, MoreIsAnomalous DEF TypeOK
    <2>4. CASE Purge
      <3>1. now \in Time /\ now <= now + Patience /\ now' = now
        BY <2>1, <2>4, TimeAssumption DEF Purge, TypeOK, Time
      <3>2. /\ Current(rows', now) = Current(rows, now)
            /\ Historical(rows', now) = Historical(rows, now)
        BY <2>1, <2>4, <3>1, PurgeSpares
      <3> QED BY <1>1, <2>1, <3>1, <3>2, MoreIsAnomalous DEF TypeOK
    <2>5. ASSUME NEW r \in Requests, Commit(r) PROVE Anomalous(rows', now')
      <3>1. CASE ~req[r].stored BY <2>2, <2>5, <3>1 DEF Commit
      <3>2. CASE req[r].stored
        <4> DEFINE row == req[r].row
        <4>1. rows' = rows \cup {row} /\ now' = now
          BY <2>5, <3>2 DEF Commit
        <4>2. row \in Row /\ row.at \in Time /\ row.at \in Nat /\ now \in Time
          BY <2>1 DEF TypeOK, Request, Row, Time
        <4>3. now <= row.at + Patience
          BY <1>1, <2>5 DEF CrowdInv, Open, Commit
        <4> HIDE DEF row
        <4>4. ~(row.at < Bucket[now] /\ Slot[row.at] = Slot[Bucket[now]])
          <5>1. now \in Nat BY <4>2 DEF Time
          <5> QED BY <4>2, <4>3, <5>1, SlotAssumption, TimeAssumption
        <4>5. Historical(rows, now) = Historical(rows', now)
          BY <4>1, <4>4 DEF Historical
        <4>6. Current(rows, now) \subseteq Current(rows', now)
          BY <4>1 DEF Current
        <4> QED BY <1>1, <2>1, <4>1, <4>5, <4>6, MoreIsAnomalous DEF TypeOK
      <3> QED BY <3>1, <3>2
    <2>6. ASSUME NEW r \in Requests,
                 MakeHash(r) \/ Stamp(r) \/ Insert(r) \/ Abort(r)
          PROVE  Anomalous(rows', now')
      BY <2>2, <2>6 DEF MakeHash, Stamp, Insert, Abort
    <2> QED BY <1>1, <2>3, <2>4, <2>5, <2>6 DEF Next
  <1>2. CrowdInv /\ [Next]_vars =>
          [Anomalous(rows, now) /\ Bucket[now'] = Bucket[now] =>
             \/ Anomalous(rows', now')
             \/ \E x \in Historical(rows, now) : now' > x.at + Lookback]_vars
    BY <1>1
  <1> QED BY <1>2, CrowdInvariance, PTL DEF Spec, SpikeLasts

-----------------------------------------------------------------------------
(* Reporters *)

LEMMA ThreeElements ==
  ASSUME NEW S, IsFiniteSet(S), Cardinality(S) >= 3
  PROVE  \E a, b, c \in S : a # b /\ a # c /\ b # c
  <1>0. Cardinality(S) \in Nat BY FS_CardinalityType
  <1>1. PICK a : a \in S BY <1>0, FS_EmptySet
  <1> DEFINE T == S \ {a}
  <1>2. IsFiniteSet(T) /\ Cardinality(T) = Cardinality(S) - 1
    BY <1>1, FS_RemoveElement
  <1>3. PICK b : b \in T
    <2>1. Cardinality(T) # 0 BY <1>0, <1>2
    <2> QED BY <1>2, <2>1, FS_EmptySet
  <1> DEFINE U == T \ {b}
  <1>4. IsFiniteSet(U) /\ Cardinality(U) = Cardinality(T) - 1
    BY <1>2, <1>3, FS_RemoveElement
  <1>5. PICK c : c \in U
    <2>1. Cardinality(U) # 0 BY <1>0, <1>2, <1>4
    <2> QED BY <1>4, <2>1, FS_EmptySet
  <1> QED BY <1>1, <1>3, <1>5

LEMMA AtLeast ==
  ASSUME NEW S, IsFiniteSet(S), NEW a \in S, NEW b \in S, NEW c \in S, a # b
  PROVE  /\ Cardinality(S) \in Nat
         /\ Cardinality(S) >= 2
         /\ a # c /\ b # c => Cardinality(S) >= 3
  <1>1. IsFiniteSet({a}) /\ Cardinality({a}) = 1 BY FS_Singleton
  <1> DEFINE P == {a} \cup {b}
             Q == P \cup {c}
  <1>2. IsFiniteSet(P) /\ Cardinality(P) = 2
    <2>1. Cardinality({a} \cup {b}) = IF b \in {a} THEN Cardinality({a})
                                     ELSE Cardinality({a}) + 1
      BY <1>1, FS_AddElement
    <2>2. b \notin {a} OBVIOUS
    <2>3. IsFiniteSet(P) BY <1>1, FS_AddElement
    <2> QED BY <1>1, <2>1, <2>2, <2>3
  <1>3. a # c /\ b # c => Cardinality(Q) = 3 BY <1>2, FS_AddElement
  <1>4. P \subseteq S /\ Q \subseteq S OBVIOUS
  <1> HIDE DEF P, Q
  <1>5. Cardinality(P) <= Cardinality(S) /\ Cardinality(Q) <= Cardinality(S)
    BY <1>4, FS_Subset
  <1>6. Cardinality(S) \in Nat BY FS_CardinalityType
  <1> QED BY <1>2, <1>3, <1>5, <1>6

\* A table as the program may leave it: one row a key.
Sound(table) ==
  /\ table \subseteq Row
  /\ IsFiniteSet(table)
  /\ \A x \in table : MadeInTime(x)
  /\ \A x, y \in table : SameKey(x, y) => x = y

\* Whatever crowdSignal is asked for, the table it reads is sound.
LEMMA ReadingsSound ==
  ASSUME CrowdInv, NEW q \in Readings
  PROVE  Sound(q.table)
  <1>1. Sound(rows) BY DEF CrowdInv, TypeOK, Sound
  <1>2. ASSUME NEW r \in Requests, req[r].pc = "inserted"
        PROVE  Sound(rows \cup Own(r))
    <2>1. CASE ~req[r].stored BY <1>1, <2>1 DEF Own
    <2>2. CASE req[r].stored
      <3>1. Holding(r) /\ Open(r) BY <1>2, <2>2 DEF Holding, Open
      <3>2. Own(r) = {req[r].row} /\ req[r].row \in Row
        BY <2>2 DEF Own, CrowdInv, TypeOK, Request
      <3>3. IsFiniteSet(rows \cup {req[r].row})
        BY <1>1, FS_AddElement DEF Sound
      <3>4. /\ MadeInTime(req[r].row)
            /\ \A x \in rows : /\ ~SameKey(x, req[r].row)
                               /\ ~SameKey(req[r].row, x)
        BY <3>1, SameKeySymmetric DEF CrowdInv
      <3> QED BY <1>1, <3>2, <3>3, <3>4 DEF Sound
    <2> QED BY <2>1, <2>2
  <1> QED BY <1>1, <1>2 DEF Readings

\* The hashes of one client in one day: that day's and one other's at most.
LEMMA OneOtherDay ==
  ASSUME NEW x \in Row, NEW y \in Row, MadeInTime(x), MadeInTime(y),
         Day[x.at] = Day[y.at], Straddles(x), Straddles(y)
  PROVE  x.hash = y.hash
  <1> DEFINE D == Day[x.at]
  <1>0. x.at \in Time /\ y.at \in Time /\ D \in Time
    BY TimeAssumption DEF Row
  <1>1. ASSUME NEW z \in Row, MadeInTime(z), Straddles(z), Day[z.at] = D
        PROVE  \E t \in Time : t < D /\ D <= t + Patience /\ z.hash = Day[t]
    <2>1. PICK t \in Time : t <= z.at /\ z.at <= t + Patience /\ z.hash = Day[t]
      BY <1>1 DEF MadeInTime, Straddles, Hash
    <2>2. z.at \in Time /\ D <= z.at BY <1>1, TimeAssumption DEF Row
    <2>3. ~(D <= t) BY <1>1, <2>1, <2>2, DayAssumption DEF Straddles
    <2>4. t \in Nat /\ z.at \in Nat /\ D \in Nat BY <1>0, <2>2 DEF Time
    <2> QED BY <2>1, <2>2, <2>3, <2>4, TimeAssumption
  <1>2. PICK t \in Time : t < D /\ D <= t + Patience /\ x.hash = Day[t] BY <1>1
  <1>3. PICK u \in Time : u < D /\ D <= u + Patience /\ y.hash = Day[u] BY <1>1
  <1>4. Day[t] = Day[u] BY <1>0, <1>2, <1>3, DayAssumption
  <1> QED BY <1>2, <1>3, <1>4

\* A spike is never the work of one player, and unless somebody's report
\* straddled midnight never that of two.
THEOREM ThreeReporters == Spec => []NotOneReporter
  <1>1. ASSUME CrowdInv, NEW q \in Readings, Anomalous(q.table, q.at)
        PROVE  Cardinality({x.who : x \in Current(q.table, q.at)}) >=
                 IF \E x \in Current(q.table, q.at) : Straddles(x) THEN 2 ELSE 3
    <2> DEFINE present == Current(q.table, q.at)
               who == {x.who : x \in present}
               f == [x \in present |-> x.who]
    <2>1. Sound(q.table) BY <1>1, ReadingsSound
    <2>2. IsFiniteSet(present) /\ Cardinality(present) >= 3
      BY <1>1, <2>1, WindowsFinite DEF Anomalous, Sound
    <2>3. IsFiniteSet(who)
      <3>1. f \in Surjection(present, who) BY DEF Surjection
      <3> QED BY <2>2, <3>1, FS_Surjection
    <2>4. /\ present \subseteq Row
          /\ \A x \in present : MadeInTime(x)
          /\ \A x, y \in present : SameKey(x, y) => x = y
      BY <2>1 DEF Sound, Current
    <2>5. \A x, y \in present : Day[x.at] = Day[y.at]
      BY <2>4, BucketAssumption DEF Current, Row
    <2>6. \A x \in present : x.who \in who OBVIOUS
    <2>7. PICK a \in present, b \in present, c \in present :
            a # b /\ a # c /\ b # c
      BY <2>2, ThreeElements
    <2> HIDE DEF present, who
    <2>8. ASSUME NEW x \in present, NEW y \in present, x # y, x.who = y.who
          PROVE  /\ x.hash # y.hash
                 /\ Straddles(x) \/ Straddles(y)
                 /\ ~(Straddles(x) /\ Straddles(y))
      <3>1. x.hash # y.hash BY <2>4, <2>5, <2>8 DEF SameKey
      <3>2. x.who \in Clients BY <2>4, <2>8, <3>1 DEF MadeInTime, Hash
      <3>3. Straddles(x) \/ Straddles(y)
        BY <2>5, <2>8, <3>1, <3>2 DEF Straddles
      <3>4. ~(Straddles(x) /\ Straddles(y))
        BY <2>4, <2>5, <3>1, OneOtherDay
      <3> QED BY <3>1, <3>3, <3>4
    <2>9. CASE \E x \in present : Straddles(x)
      <3>1. ~(a.who = b.who /\ a.who = c.who) BY <2>7, <2>8
      <3>2. Cardinality(who) >= 2 BY <2>3, <2>6, <3>1, AtLeast
      <3> QED BY <2>9, <3>2 DEF present, who
    <2>10. CASE ~\E x \in present : Straddles(x)
      <3>1. a.who # b.who /\ a.who # c.who /\ b.who # c.who
        BY <2>7, <2>8, <2>10
      <3>2. Cardinality(who) >= 3 BY <2>3, <2>6, <3>1, AtLeast
      <3> QED BY <2>10, <3>2 DEF present, who
    <2> QED BY <2>9, <2>10
  <1>2. CrowdInv => NotOneReporter BY <1>1 DEF NotOneReporter
  <1> QED BY <1>2, CrowdInvariance, PTL

=============================================================================
