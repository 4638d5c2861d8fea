--------------------------- MODULE OutcomeProofs ---------------------------
(***************************************************************************)
(* The outcome of a probe and what becomes of it.  First the two policies: *)
(* the Machine of internal/incident and the queries of stateAfter agree    *)
(* after every sequence of observations.  Then the probe that makes the    *)
(* observations: its outcome says what the server did, it ends within its  *)
(* timers, and a shutdown leaves nothing of it.                            *)
(***************************************************************************)
EXTENDS Probe, MachineEquivalence, TLAPS

-----------------------------------------------------------------------------
(* The two policies *)

USE DEF Unknown, Outage, Operational, Degraded, Maintenance, Success, ProbeError

LEMMA EquivalenceInit == PoliciesInit => EquivalenceInv
  BY MaxRunAssumption
  DEF PoliciesInit, MachineInit, New, EquivalenceInv, PoliciesTypeOK, FailuresAreRows,
      SuccessesAreRows, SameState, StoredStatus, PublicStatus, EmptyWindow,
      NoRow, NoOutcome, Window, Row, FailureOutcomes

LEMMA EquivalenceStep ==
  ASSUME EquivalenceInv, NEW o \in Observed, Step(o)
  PROVE  EquivalenceInv'
  <1> DEFINE row == [outcome |-> o, maint |-> FALSE]
  <1>1. o \in Outcome /\ row \in Row
    BY ObservedAssumption DEF Row
  <1>2. /\ recent' \in Window
        /\ recent'[1] = row /\ recent'[2] = recent[1] /\ recent'[3] = recent[2]
    BY <1>1 DEF Step, Persist, InsertCheck, EquivalenceInv, PoliciesTypeOK, Window
  <1>3. recent'[1].outcome = o BY <1>2
  <1>4. ~(o = ProbeError /\ o = Success) /\ Success \notin FailureOutcomes
        /\ ProbeError \notin FailureOutcomes
    BY DEF FailureOutcomes
  <1>5. FailuresAreRows'
    <2>1. CASE o \in FailureOutcomes
      <3>1. failures' = failures + 1
        BY <1>4, <2>1 DEF Step, Apply, ApplyFailure
      <3>2. failures \in Nat
        BY MaxRunAssumption DEF EquivalenceInv, PoliciesTypeOK
      <3>3. /\ failures >= 1 <=> recent[1].outcome \in FailureOutcomes
            /\ failures >= 2 <=> /\ recent[1].outcome \in FailureOutcomes
                                 /\ recent[2].outcome \in FailureOutcomes
        BY DEF EquivalenceInv, FailuresAreRows
      <3> QED BY <1>2, <1>3, <2>1, <3>1, <3>2, <3>3 DEF FailuresAreRows
    <2>2. CASE o \notin FailureOutcomes
      <3>1. failures' = 0
        BY <1>1, <2>2 DEF Step, Apply, ApplyProbeError, ApplySuccess, Outcome
      <3> QED BY <1>3, <2>2, <3>1 DEF FailuresAreRows
    <2> QED BY <2>1, <2>2
  <1>6. /\ ThreeRecentFailures(recent') <=> failures' >= 3
        /\ TwoRecentSuccesses(recent') <=>
             o = Success /\ recent[1].outcome = Success
    BY <1>2, <1>3, <1>5 DEF FailuresAreRows, ThreeRecentFailures,
                            TwoRecentSuccesses
  <1>7. /\ failures \in 0..MaxRun
        /\ o \in FailureOutcomes => failures < MaxRun
        /\ successes \in 0..1 /\ state \in StoredStatus /\ status = state
    BY DEF Step, EquivalenceInv, PoliciesTypeOK, SameState
  <1>8. /\ state = Outage => (successes = 1 <=> recent[1].outcome = Success)
        /\ state # Outage => successes = 0
    BY DEF EquivalenceInv, SuccessesAreRows
  <1>9. status' = IF StateAfter(recent', status, o).changed
                  THEN StateAfter(recent', status, o).state ELSE status
    BY DEF Step, Persist
  <1>10. CASE o = ProbeError
    <2>1. failures' = 0 /\ successes' = 0 /\ state' = Unknown
      BY <1>4, <1>10 DEF Step, Apply, ApplyProbeError
    <2>2. status' = Unknown
      BY <1>9, <1>10, <1>4 DEF StateAfter, StateOf
    <2> QED BY <1>2, <1>5, <2>1, <2>2, MaxRunAssumption
        DEF EquivalenceInv, PoliciesTypeOK, SuccessesAreRows, SameState, StoredStatus,
            PublicStatus
  <1>11. CASE o = Success
    <2>1. ApplySuccess BY <1>4, <1>11 DEF Step, Apply
    <2>2. CASE state = Outage /\ successes = 0
      <3>1. failures' = 0 /\ successes' = 1 /\ state' = Outage
        BY <2>1, <2>2 DEF ApplySuccess
      <3>2. status' = Outage
        BY <1>4, <1>6, <1>7, <1>8, <1>9, <1>11, <2>2 DEF StateAfter
      <3> QED BY <1>2, <1>3, <1>5, <1>11, <3>1, <3>2, MaxRunAssumption
          DEF EquivalenceInv, PoliciesTypeOK, SuccessesAreRows, SameState, StoredStatus,
              PublicStatus
    <2>3. CASE ~(state = Outage /\ successes = 0)
      <3>1. failures' = 0 /\ successes' = 0 /\ state' = Operational
        BY <1>7, <2>1, <2>3 DEF ApplySuccess
      <3>2. status' = Operational
        BY <1>4, <1>6, <1>7, <1>8, <1>9, <1>11, <2>3
        DEF StateAfter, StateOf, StoredStatus, PublicStatus
      <3> QED BY <1>2, <1>5, <3>1, <3>2, MaxRunAssumption
          DEF EquivalenceInv, PoliciesTypeOK, SuccessesAreRows, SameState, StoredStatus,
              PublicStatus
    <2> QED BY <2>2, <2>3
  <1>12. CASE o \in FailureOutcomes
    <2>1. /\ successes' = 0 /\ failures' = failures + 1
          /\ state' = IF failures' >= 3 THEN Outage ELSE state
      BY <1>4, <1>12 DEF Step, Apply, ApplyFailure
    <2>2. status' = IF failures' >= 3 THEN Outage ELSE state
      BY <1>4, <1>6, <1>7, <1>9, <1>12 DEF StateAfter, StateOf
    <2>3. failures' \in 0..MaxRun BY <1>7, <1>12, <2>1, MaxRunAssumption
    <2> QED BY <1>2, <1>3, <1>4, <1>5, <1>7, <1>12, <2>1, <2>2, <2>3
        DEF EquivalenceInv, PoliciesTypeOK, SuccessesAreRows, SameState, StoredStatus,
            PublicStatus
  <1> QED BY <1>1, <1>10, <1>11, <1>12 DEF Outcome

LEMMA EquivalenceNext == EquivalenceInv /\ [PoliciesNext]_equivalenceVars => EquivalenceInv'
  <1> SUFFICES ASSUME EquivalenceInv, [PoliciesNext]_equivalenceVars PROVE EquivalenceInv'
    OBVIOUS
  <1>1. CASE PoliciesNext BY <1>1, EquivalenceStep DEF PoliciesNext
  <1>2. CASE UNCHANGED equivalenceVars
    BY <1>2 DEF equivalenceVars, EquivalenceInv, PoliciesTypeOK, FailuresAreRows,
                SuccessesAreRows, SameState
  <1> QED BY <1>1, <1>2

\* Whatever the probe reports and for however long, the persisted policy and
\* the in-memory Machine are in the same state.
THEOREM Equivalence == PoliciesSpec => []SameState
  <1>1. EquivalenceInv => SameState BY DEF EquivalenceInv
  <1> QED BY EquivalenceInit, EquivalenceNext, <1>1, PTL DEF PoliciesSpec

\* The counters of the machine are what the newest rows say, always.
THEOREM EquivalenceInvariance == PoliciesSpec => []EquivalenceInv
  BY EquivalenceInit, EquivalenceNext, PTL DEF PoliciesSpec

-----------------------------------------------------------------------------
(* varInt and readVarInt *)

LEMMA Places ==
  ASSUME NEW v \in Nat
  PROVE  /\ Shifted(v, 1) = v \div 1 /\ Shifted(v, 2) = v \div 128
         /\ Shifted(v, 3) = v \div 16384 /\ Shifted(v, 4) = v \div 2097152
         /\ Shifted(v, 5) = v \div 268435456
         /\ Place(1) = 1 /\ Place(2) = 128 /\ Place(3) = 16384
         /\ Place(4) = 2097152 /\ Place(5) = 268435456
  BY SMT DEF Shifted, Place

\* The groups of seven bits make up the number.
LEMMA Groups ==
  ASSUME NEW v \in Nat, v \div 268435456 < 128
  PROVE  /\ v \div 1 = v
         /\ v = (v % 128) + 128 * ((v \div 128) % 128)
                  + 16384 * ((v \div 16384) % 128)
                  + 2097152 * ((v \div 2097152) % 128)
                  + 268435456 * ((v \div 268435456) % 128)
         /\ v \div 128 = 0 => v < 128
         /\ v \div 128 = 0 => v \div 16384 = 0
         /\ v \div 16384 = 0 => v \div 2097152 = 0
         /\ v \div 2097152 = 0 => v \div 268435456 = 0
  BY SMT

\* The byte of a group that is written, and its flag.
LEMMA Written ==
  ASSUME NEW v \in Nat, NEW i \in 1..5, i = 1 \/ Shifted(v, i) # 0
  PROVE  /\ i \in DOMAIN varInt(v)
         /\ varInt(v)[i] % 128 = Shifted(v, i) % 128
         /\ Flagged(varInt(v), i) <=> i < 5 /\ Shifted(v, i + 1) # 0
  <1>1. i \in {j \in 1..5 : j = 1 \/ Shifted(v, j) # 0} BY SMT
  <1>2. /\ i \in DOMAIN varInt(v)
        /\ varInt(v)[i] = (Shifted(v, i) % 128)
                            + IF i < 5 /\ Shifted(v, i + 1) # 0 THEN 128 ELSE 0
    BY <1>1, SMT DEF varInt
  <1>3. Shifted(v, i) \in Nat
    <2>1. i = 1 \/ i = 2 \/ i = 3 \/ i = 4 \/ i = 5 BY SMT
    <2>2. /\ Shifted(v, 1) \in Nat /\ Shifted(v, 2) \in Nat /\ Shifted(v, 3) \in Nat
          /\ Shifted(v, 4) \in Nat /\ Shifted(v, 5) \in Nat
      BY SMT DEF Shifted, Place
    <2> QED BY <2>1, <2>2
  <1> DEFINE d == Shifted(v, i)
             more == i < 5 /\ Shifted(v, i + 1) # 0
  <1>4. d \in Nat BY <1>3, SMT
  <1>5. varInt(v)[i] = (d % 128) + IF more THEN 128 ELSE 0 BY <1>2, SMT
  <1> HIDE DEF d, more
  <1>6. varInt(v)[i] % 128 = d % 128 /\ (varInt(v)[i] >= 128 <=> more)
    <2>1. CASE more BY <1>4, <1>5, <2>1, SMT
    <2>2. CASE ~more BY <1>4, <1>5, <2>2, SMT
    <2> QED BY <2>1, <2>2, SMT
  <1> QED BY <1>2, <1>6, SMT DEF d, more, Flagged

\* readVarInt reads back what varInt wrote.
LEMMA ReadBack ==
  ASSUME NEW v \in Nat, Shifted(v, 5) < 128
  PROVE  readVarInt(varInt(v)) = {v}
  <1> DEFINE b == varInt(v)
  <1>1. v \div 268435456 < 128 BY Places, SMT
  <1>p. /\ Shifted(v, 2) = v \div 128 /\ Shifted(v, 3) = v \div 16384
        /\ Shifted(v, 4) = v \div 2097152 /\ Shifted(v, 5) = v \div 268435456
    BY Places, SMT
  <1>g. /\ v = (v % 128) + 128 * ((v \div 128) % 128)
                 + 16384 * ((v \div 16384) % 128)
                 + 2097152 * ((v \div 2097152) % 128)
                 + 268435456 * ((v \div 268435456) % 128)
        /\ v \div 128 = 0 => v \div 16384 = 0
        /\ v \div 16384 = 0 => v \div 2097152 = 0
        /\ v \div 2097152 = 0 => v \div 268435456 = 0
    BY <1>1, Groups, SMT
  <1>2. /\ Flagged(b, 1) <=> Shifted(v, 2) # 0
        /\ b[1] % 128 = v % 128
    <2>1. Shifted(v, 1) = v BY <1>1, Places, Groups, SMT
    <2> QED BY <2>1, Written
  <1>3. Shifted(v, 2) # 0 =>
          /\ b[2] % 128 = Shifted(v, 2) % 128
          /\ Flagged(b, 2) <=> Shifted(v, 3) # 0
    BY Written, SMT
  <1>4. Shifted(v, 3) # 0 =>
          /\ b[3] % 128 = Shifted(v, 3) % 128
          /\ Flagged(b, 3) <=> Shifted(v, 4) # 0
    BY Written, SMT
  <1>5. Shifted(v, 4) # 0 =>
          /\ b[4] % 128 = Shifted(v, 4) % 128
          /\ Flagged(b, 4) <=> Shifted(v, 5) # 0
    BY Written, SMT
  <1>6. Shifted(v, 5) # 0 =>
          b[5] % 128 = Shifted(v, 5) % 128 /\ ~Flagged(b, 5)
    BY Written, SMT
  <1>7. /\ Shifted(v, 2) = 0 => Shifted(v, 3) = 0
        /\ Shifted(v, 3) = 0 => Shifted(v, 4) = 0
        /\ Shifted(v, 4) = 0 => Shifted(v, 5) = 0
    BY <1>1, <1>p, <1>g, SMT
  <1>d. 5 \in DOMAIN b => Shifted(v, 5) # 0 BY SMT DEF varInt
  <1> HIDE DEF b
  <1>8. Part(b, 1) = v % 128
    <2>1. \A j \in 1..(1 - 1) : Flagged(b, j) BY SMT
    <2>2. Part(b, 1) = (b[1] % 128) * Place(1) BY <2>1, SMT DEF Part
    <2> QED BY <1>2, <2>2, Places, SMT
  <1>9. Part(b, 2) = (Shifted(v, 2) % 128) * 128
    <2>1. (\A j \in 1..(2 - 1) : Flagged(b, j)) <=> Shifted(v, 2) # 0 BY <1>2, SMT
    <2>2. CASE Shifted(v, 2) # 0
      BY <2>1, <2>2, <1>3, Places, SMT DEF Part
    <2>3. CASE Shifted(v, 2) = 0
      <3>1. Part(b, 2) = 0 BY <2>1, <2>3, SMT DEF Part
      <3> QED BY <3>1, <2>3, SMT
    <2> QED BY <2>2, <2>3, SMT
  <1>10. Part(b, 3) = (Shifted(v, 3) % 128) * 16384
    <2>1. (\A j \in 1..(3 - 1) : Flagged(b, j)) <=> Shifted(v, 3) # 0
      BY <1>2, <1>3, <1>7, SMT
    <2>2. CASE Shifted(v, 3) # 0
      BY <2>1, <2>2, <1>4, Places, SMT DEF Part
    <2>3. CASE Shifted(v, 3) = 0
      <3>1. Part(b, 3) = 0 BY <2>1, <2>3, SMT DEF Part
      <3> QED BY <3>1, <2>3, SMT
    <2> QED BY <2>2, <2>3, SMT
  <1>11. Part(b, 4) = (Shifted(v, 4) % 128) * 2097152
    <2>1. (\A j \in 1..(4 - 1) : Flagged(b, j)) <=> Shifted(v, 4) # 0
      BY <1>2, <1>3, <1>4, <1>7, SMT
    <2>2. CASE Shifted(v, 4) # 0
      BY <2>1, <2>2, <1>5, Places, SMT DEF Part
    <2>3. CASE Shifted(v, 4) = 0
      <3>1. Part(b, 4) = 0 BY <2>1, <2>3, SMT DEF Part
      <3> QED BY <3>1, <2>3, SMT
    <2> QED BY <2>2, <2>3, SMT
  <1>12. Part(b, 5) = (Shifted(v, 5) % 128) * 268435456
    <2>1. (\A j \in 1..(5 - 1) : Flagged(b, j)) <=> Shifted(v, 5) # 0
      BY <1>2, <1>3, <1>4, <1>5, <1>7, SMT
    <2>2. CASE Shifted(v, 5) # 0
      BY <2>1, <2>2, <1>6, Places, SMT DEF Part
    <2>3. CASE Shifted(v, 5) = 0
      <3>1. Part(b, 5) = 0 BY <2>1, <2>3, SMT DEF Part
      <3> QED BY <3>1, <2>3, SMT
    <2> QED BY <2>2, <2>3, SMT
  <1>13. Part(b, 1) + Part(b, 2) + Part(b, 3) + Part(b, 4) + Part(b, 5) = v
    <2>1. /\ Part(b, 1) = v % 128
          /\ Part(b, 2) = 128 * ((v \div 128) % 128)
          /\ Part(b, 3) = 16384 * ((v \div 16384) % 128)
          /\ Part(b, 4) = 2097152 * ((v \div 2097152) % 128)
          /\ Part(b, 5) = 268435456 * ((v \div 268435456) % 128)
      BY <1>p, <1>8, <1>9, <1>10, <1>11, <1>12, SMT
    <2> QED BY <1>g, <2>1, SMT
  <1>14. ~(\A i \in 1..5 : i \in DOMAIN b /\ Flagged(b, i)) BY <1>6, <1>d, SMT
  <1>15. readVarInt(b) = {v} BY <1>13, <1>14, SMT DEF readVarInt
  <1> QED BY <1>15, SMT DEF b

\* A number of more than five bytes is refused, a shorter one is read.
LEMMA ReadEnds ==
  ASSUME NEW bytes, Encoded(bytes), Len(bytes) > 0
  PROVE  readVarInt(bytes) = {} <=> Len(bytes) > 5
  <1>1. /\ Len(bytes) \in Nat /\ DOMAIN bytes = 1..Len(bytes)
        /\ \A i \in 1..Len(bytes) : Flagged(bytes, i) <=> i < Len(bytes)
    BY DEF Encoded
  <1>2. (\A i \in 1..5 : i \in DOMAIN bytes /\ Flagged(bytes, i)) <=> Len(bytes) > 5
    <2>1. CASE Len(bytes) > 5 BY <1>1, <2>1
    <2>2. CASE Len(bytes) <= 5
      <3>1. Len(bytes) \in 1..5 BY <1>1, <2>2
      <3>2. ~Flagged(bytes, Len(bytes)) BY <1>1, <3>1
      <3> QED BY <2>2, <3>1, <3>2, <1>1
    <2> QED BY <1>1, <2>1, <2>2
  <1> QED BY <1>2 DEF readVarInt

\* What the server wrote is accepted exactly when it is well formed.
LEMMA AcceptedIsWellFormed ==
  ASSUME NEW r \in Replies
  PROVE  WellFormed(r) <=> /\ readVarInt(r.length) # {}
                           /\ \E n \in readVarInt(r.size) : n >= 1 /\ n <= 2^20
                           /\ r.body = "json"
  <1>1. /\ r.n \in Nat /\ Shifted(r.n, 5) < 128
        /\ Len(r.length) > 0 /\ Encoded(r.length)
        /\ Encoded(r.size) /\ (r.size = varInt(r.n) \/ Len(r.size) > 5)
    BY ReplyAssumption
  <1>2. readVarInt(r.length) = {} <=> Len(r.length) > 5 BY <1>1, ReadEnds
  <1>3. Len(r.length) \in Nat BY <1>1 DEF Encoded
  <1>4. CASE r.size = varInt(r.n)
    <2>1. readVarInt(r.size) = {r.n} BY <1>1, <1>4, ReadBack
    <2> QED BY <1>2, <1>3, <1>4, <2>1 DEF WellFormed
  <1>5. CASE r.size # varInt(r.n)
    <2>1. Len(r.size) > 5 /\ Len(r.size) > 0 BY <1>1, <1>5 DEF Encoded
    <2>2. readVarInt(r.size) = {} BY <1>1, <2>1, ReadEnds
    <2> QED BY <1>5, <2>2 DEF WellFormed
  <1> QED BY <1>4, <1>5

-----------------------------------------------------------------------------
(* Each step of a probe keeps ProbeInv *)

USE DEF None

LEMMA PingSteps ==
  /\ DOMAIN Outcomes = {"dial", "hello", "ask", "length", "id", "size", "body"}
  /\ \A step \in DOMAIN Outcomes : Outcomes[step] \in FailureOutcomes
  BY DEF Outcomes, FailureOutcomes

LEMMA ProbeInit == Init => ProbeInv
  <1> SUFFICES ASSUME Init PROVE ProbeInv OBVIOUS
  <1>1. ProbeTypeOK BY DEF Init, ProbeTypeOK
  <1>2. ChildSound
    BY PingSteps DEF Init, ChildSound, Pinging
  <1>3. TimersSound
    BY TimeoutAssumption, PingSteps DEF Init, TimersSound, Pinging
  <1>4. ReadSound /\ ResultSound BY DEF Init, ReadSound, ResultSound
  <1>5. JudgedByContent BY DEF Init, JudgedByContent
  <1>6. UnknownIsOurs /\ ShutdownStoresNothing
    BY DEF Init, UnknownIsOurs, ShutdownStoresNothing
  <1> QED BY <1>1, <1>2, <1>3, <1>4, <1>5, <1>6 DEF ProbeInv

\* A result that says what happened keeps the invariant.
LEMMA ResultStep ==
  ASSUME ProbeInv, NEW o \in Outcome, NEW why \in {None, "connection", "answer", "monitor"},
         Result(o, why), pc # "idle",
         o = Success \/ why = "answer" => (o = Success <=> WellFormed(reply)),
         o = ProbeError => why = "monitor",
         why = "monitor" /\ o # ProbeError => transport = "tunnel" /\ cameUp
  PROVE  ProbeInv'
  <1>1. /\ outcome' = o /\ cause' = why /\ pc' = "record" /\ child' = None
        /\ UNCHANGED <<transport, reply, elapsed, began, cancelled, killed, cameUp,
                       stored>>
    BY DEF Result
  <1>2. ProbeTypeOK' BY <1>1 DEF ProbeInv, ProbeTypeOK
  <1>3. ChildSound' BY <1>1, PingSteps DEF ChildSound, Pinging
  <1>4. TimersSound'
    BY <1>1, PingSteps DEF ProbeInv, TimersSound, Pinging
  <1>5. ReadSound' BY <1>1 DEF ReadSound
  <1>6. ResultSound'
    BY <1>1 DEF ProbeInv, ResultSound, Outcome, FailureOutcomes
  <1>7. JudgedByContent'
    <2>1. WellFormed(reply)' <=> WellFormed(reply) BY <1>1 DEF WellFormed
    <2> QED BY <1>1, <2>1 DEF JudgedByContent
  <1>8. UnknownIsOurs' BY <1>1 DEF UnknownIsOurs
  <1>9. ShutdownStoresNothing' BY <1>1 DEF ProbeInv, ShutdownStoresNothing
  <1> QED BY <1>2, <1>3, <1>4, <1>5, <1>6, <1>7, <1>8, <1>9 DEF ProbeInv

\* A step that leaves the result alone leaves its properties alone.
LEMMA NoResult ==
  ASSUME ProbeInv, UNCHANGED <<transport, reply, outcome, cause, stored>>,
         cameUp => cameUp'
  PROVE  JudgedByContent' /\ UnknownIsOurs' /\ ShutdownStoresNothing'
  <1>1. WellFormed(reply)' <=> WellFormed(reply) BY DEF WellFormed
  <1>2. JudgedByContent' BY <1>1 DEF ProbeInv, JudgedByContent
  <1>3. UnknownIsOurs' BY DEF ProbeInv, UnknownIsOurs
  <1>4. ShutdownStoresNothing' BY DEF ProbeInv, ShutdownStoresNothing
  <1> QED BY <1>2, <1>3, <1>4

LEMMA AdvanceInv == ASSUME ProbeInv, Advance PROVE ProbeInv'
  <1>1. Pinging /\ Connected /\ Accepted BY DEF Advance
  <1>2. pc # "idle" BY <1>1, PingSteps DEF Pinging
  <1>3. CASE pc = "body" /\ Result(Success, None)
    <2>1. WellFormed(reply)
      <3>1. reply \in Replies /\ reply.body = "json"
        BY <1>1, <1>3 DEF ProbeInv, ProbeTypeOK, Accepted
      <3>2. /\ readVarInt(reply.length) # {}
            /\ \E n \in readVarInt(reply.size) : n >= 1 /\ n <= 2^20
        BY <1>3 DEF ProbeInv, ReadSound
      <3> QED BY <3>1, <3>2, AcceptedIsWellFormed
    <2> QED BY <1>2, <1>3, <2>1, ResultStep DEF Outcome
  <1>4. ASSUME NEW i \in 1..6, pc = Steps[i], pc' = Steps[i + 1],
               UNCHANGED <<transport, reply, elapsed, began, child, cancelled,
                           outcome, cause, killed, cameUp, stored>>
        PROVE  ProbeInv'
    <2>1. pc \in DOMAIN Outcomes /\ pc' \in DOMAIN Outcomes \ {"dial"}
      BY <1>4, PingSteps DEF Steps
    <2>2. /\ pc' \in {"id", "size", "body"} => pc \in {"length", "id", "size"}
          /\ pc' = "body" => pc = "size"
      BY <1>4 DEF Steps
    <2>3. ProbeTypeOK' BY <1>4, <2>1 DEF ProbeInv, ProbeTypeOK
    <2>4. ChildSound' BY <1>4, <2>1, PingSteps DEF ProbeInv, ChildSound, Pinging
    <2>5. TimersSound'
      BY <1>4, <2>1, PingSteps DEF ProbeInv, TimersSound, Pinging
    <2>6. ReadSound'
      BY <1>1, <1>4, <2>2 DEF ProbeInv, ReadSound, Accepted
    <2>7. ResultSound'
      BY <1>4, <2>1, PingSteps DEF ProbeInv, ResultSound
    <2> QED BY <1>4, <2>3, <2>4, <2>5, <2>6, <2>7, NoResult DEF ProbeInv
  <1> QED BY <1>3, <1>4 DEF Advance

LEMMA RefuseInv == ASSUME ProbeInv, Refuse PROVE ProbeInv'
  <1> DEFINE why == IF child = "displaced" THEN "monitor" ELSE "answer"
  <1>1. Pinging /\ ~Accepted /\ Result(Outcomes[pc], why) BY DEF Refuse
  <1>2. pc # "idle" /\ Outcomes[pc] \in FailureOutcomes
    BY <1>1, PingSteps DEF Pinging
  <1>3. ~WellFormed(reply)
    <2>1. reply \in Replies BY DEF ProbeInv, ProbeTypeOK
    <2>2. \/ readVarInt(reply.length) = {}
          \/ ~ \E n \in readVarInt(reply.size) : n >= 1 /\ n <= 2^20
          \/ reply.body # "json"
      BY <1>1 DEF Accepted
    <2> QED BY <2>1, <2>2, AcceptedIsWellFormed
  <1>4. Outcomes[pc] \in Outcome /\ Outcomes[pc] # Success /\ Outcomes[pc] # ProbeError
    BY <1>2 DEF Outcome, FailureOutcomes
  <1>5. why = "monitor" => transport = "tunnel" /\ cameUp
    BY DEF ProbeInv, ChildSound
  <1> QED BY <1>1, <1>2, <1>3, <1>4, <1>5, ResultStep

LEMMA BreakInv == ASSUME ProbeInv, Break PROVE ProbeInv'
  <1>1. PICK why \in {"monitor", "connection"} :
          /\ why = "monitor" => transport = "tunnel"
          /\ Result(Outcomes[pc], why)
    BY DEF Break
  <1>2. pc # "idle" /\ Outcomes[pc] \in FailureOutcomes
    BY PingSteps DEF Break, Pinging
  <1>3. Outcomes[pc] \in Outcome /\ Outcomes[pc] # Success /\ Outcomes[pc] # ProbeError
    BY <1>2 DEF Outcome, FailureOutcomes
  <1>4. why = "monitor" => transport = "tunnel" /\ cameUp
    BY <1>1 DEF Break, ProbeInv, ChildSound
  <1> QED BY <1>1, <1>2, <1>3, <1>4, ResultStep

\* The results that are Monitor's own trouble.
LEMMA OwnTrouble ==
  ASSUME ProbeInv, pc # "idle", Result(ProbeError, "monitor") PROVE ProbeInv'
  BY ResultStep DEF Outcome

LEMMA StartProbeInv == ASSUME ProbeInv, StartProbe PROVE ProbeInv'
  <1>1. /\ transport' \in Transports /\ reply' \in Replies
        /\ elapsed' = 0 /\ began' = 0 /\ outcome' = None /\ cause' = None
        /\ killed' = FALSE /\ cameUp' = FALSE /\ stored' = {}
        /\ UNCHANGED <<child, cancelled>>
        /\ pc = "idle"
    BY DEF StartProbe
  <1>2. /\ pc' \in {"dial", "start", "unsupported"}
        /\ pc' = "start" <=> transport' = "tunnel"
    BY DEF StartProbe
  <1>3. child = None BY <1>1, PingSteps DEF ProbeInv, ProbeTypeOK, ChildSound, Pinging
  <1>4. ProbeTypeOK' BY <1>1, <1>2, PingSteps DEF ProbeInv, ProbeTypeOK
  <1>5. ChildSound'
    <2>1. Pinging' => transport' # "tunnel" BY <1>2, PingSteps DEF Pinging
    <2> QED BY <1>1, <1>2, <1>3, <2>1 DEF ChildSound
  <1>6. TimersSound'
    BY <1>1, <1>2, TimeoutAssumption, PingSteps DEF TimersSound, Pinging
  <1>7. ReadSound' BY <1>2 DEF ReadSound
  <1>8. ResultSound' BY <1>1, <1>2 DEF ResultSound
  <1>9. JudgedByContent' BY <1>1 DEF JudgedByContent
  <1>10. UnknownIsOurs' /\ ShutdownStoresNothing'
    BY <1>1 DEF UnknownIsOurs, ShutdownStoresNothing
  <1> QED BY <1>4, <1>5, <1>6, <1>7, <1>8, <1>9, <1>10 DEF ProbeInv

LEMMA StartTunnelInv == ASSUME ProbeInv, StartTunnel PROVE ProbeInv'
  <1>1. pc = "start" BY DEF StartTunnel
  <1>2. CASE Result(ProbeError, "monitor") BY <1>1, <1>2, OwnTrouble
  <1>3. CASE ~Result(ProbeError, "monitor")
    <2>1. /\ child' = "starting" /\ pc' = "await"
          /\ UNCHANGED <<transport, reply, elapsed, began, cancelled, outcome, cause,
                         killed, cameUp, stored>>
      BY <1>3 DEF StartTunnel
    <2>2. ProbeTypeOK' BY <2>1 DEF ProbeInv, ProbeTypeOK
    <2>3. ChildSound'
      BY <1>1, <2>1, PingSteps DEF ProbeInv, ChildSound, Pinging
    <2>4. TimersSound'
      BY <1>1, <2>1, TimeoutAssumption, PingSteps DEF ProbeInv, TimersSound, Pinging
    <2>5. ReadSound' BY <2>1 DEF ReadSound
    <2>6. ResultSound' BY <1>1, <2>1 DEF ProbeInv, ResultSound
    <2> QED BY <2>1, <2>2, <2>3, <2>4, <2>5, <2>6, NoResult DEF ProbeInv
  <1> QED BY <1>2, <1>3

LEMMA ReadyInv == ASSUME ProbeInv, Ready PROVE ProbeInv'
  <1>1. /\ pc = "await" /\ pc' = "dial" /\ began' = elapsed
        /\ UNCHANGED <<transport, reply, elapsed, child, cancelled, outcome, cause,
                       killed, cameUp, stored>>
        /\ child \in {"listening", "displaced"}
    BY DEF Ready
  <1>2. ProbeTypeOK' BY <1>1, PingSteps DEF ProbeInv, ProbeTypeOK
  <1>3. ChildSound' BY <1>1, PingSteps DEF ProbeInv, ChildSound, Pinging
  <1>4. TimersSound'
    <2>1. elapsed <= elapsed + Timeout /\ elapsed <= Startup + MaxUnlucky
      BY <1>1, TimeoutAssumption DEF ProbeInv, ProbeTypeOK, TimersSound
    <2> QED BY <1>1, <2>1 DEF ProbeInv, ChildSound, TimersSound
  <1>5. ReadSound' BY <1>1 DEF ReadSound
  <1>6. ResultSound' BY <1>1 DEF ProbeInv, ResultSound
  <1> QED BY <1>1, <1>2, <1>3, <1>4, <1>5, <1>6, NoResult DEF ProbeInv

LEMMA RecordInv == ASSUME ProbeInv, Record PROVE ProbeInv'
  <1>1. /\ pc = "record" /\ pc' = "idle"
        /\ stored' = IF cancelled THEN {} ELSE {[outcome |-> outcome, killed |-> killed]}
        /\ UNCHANGED <<transport, reply, elapsed, began, child, cancelled, outcome,
                       cause, killed, cameUp>>
    BY DEF Record
  <1>2. /\ killed => cancelled
        /\ outcome \in Outcome
        /\ child = None
    BY <1>1, PingSteps DEF ProbeInv, ProbeTypeOK, ResultSound, ChildSound, Pinging
  <1>3. \A r \in stored' : r.outcome \in Outcome /\ r.killed = FALSE
    <2>1. CASE cancelled BY <1>1, <2>1
    <2>2. CASE ~cancelled
      <3>1. killed = FALSE BY <1>2, <2>2 DEF ProbeInv, ProbeTypeOK
      <3> QED BY <1>1, <1>2, <2>2, <3>1
    <2> QED BY <2>1, <2>2
  <1>4. ProbeTypeOK' BY <1>1, <1>3 DEF ProbeInv, ProbeTypeOK
  <1>5. ChildSound' BY <1>1, <1>2, PingSteps DEF ChildSound, Pinging
  <1>6. TimersSound' BY <1>1, PingSteps DEF ProbeInv, TimersSound, Pinging
  <1>7. ReadSound' /\ ResultSound' BY <1>1 DEF ReadSound, ResultSound
  <1>8. JudgedByContent'
    <2>1. WellFormed(reply)' <=> WellFormed(reply) BY <1>1 DEF WellFormed
    <2> QED BY <1>1, <2>1 DEF ProbeInv, JudgedByContent
  <1>9. UnknownIsOurs' BY <1>1 DEF ProbeInv, UnknownIsOurs
  <1>10. ShutdownStoresNothing' BY <1>3 DEF ShutdownStoresNothing
  <1> QED BY <1>4, <1>5, <1>6, <1>7, <1>8, <1>9, <1>10 DEF ProbeInv

LEMMA TickInv == ASSUME ProbeInv, Tick PROVE ProbeInv'
  <1>1. /\ elapsed' = elapsed + 1
        /\ UNCHANGED <<pc, transport, reply, began, child, cancelled, outcome, cause,
                       killed, cameUp, stored>>
        /\ \/ Pinging /\ elapsed < began + Timeout
           \/ pc = "await" /\ elapsed < Startup + MaxUnlucky
    BY DEF Tick
  <1>2. ProbeTypeOK' BY <1>1 DEF ProbeInv, ProbeTypeOK
  <1>3. ChildSound' BY <1>1 DEF ProbeInv, ChildSound, Pinging
  <1>4. TimersSound'
    <2>1. /\ elapsed \in Nat /\ began \in Nat
          /\ Timeout \in Nat /\ Startup \in Nat /\ MaxUnlucky \in Nat
      BY TimeoutAssumption DEF ProbeInv, ProbeTypeOK
    <2>2. CASE Pinging /\ elapsed < began + Timeout
      BY <1>1, <2>1, <2>2, PingSteps DEF ProbeInv, TimersSound, Pinging
    <2>3. CASE pc = "await" /\ elapsed < Startup + MaxUnlucky
      BY <1>1, <2>1, <2>3, PingSteps DEF ProbeInv, ChildSound, TimersSound, Pinging
    <2> QED BY <1>1, <2>2, <2>3
  <1>5. ReadSound' /\ ResultSound' BY <1>1 DEF ProbeInv, ReadSound, ResultSound
  <1> QED BY <1>1, <1>2, <1>3, <1>4, <1>5, NoResult DEF ProbeInv

\* The steps of the child and of the context.
LEMMA AroundInv ==
  ASSUME ProbeInv,
         UNCHANGED <<pc, transport, reply, elapsed, began, outcome, cause, stored>>,
         child' \in {None, "starting", "listening", "displaced", "exited"},
         child' # None => child # None,
         cameUp' \in BOOLEAN, cameUp => cameUp',
         child' \in {"listening", "displaced"} => cameUp',
         cancelled' \in BOOLEAN, killed' \in BOOLEAN,
         killed' /\ pc # "idle" => cancelled'
  PROVE  ProbeInv'
  <1>1. ProbeTypeOK' BY DEF ProbeInv, ProbeTypeOK
  <1>2. ChildSound' BY DEF ProbeInv, ChildSound, Pinging
  <1>3. TimersSound' BY DEF ProbeInv, TimersSound, Pinging
  <1>4. ReadSound' /\ ResultSound' BY DEF ProbeInv, ReadSound, ResultSound
  <1> QED BY <1>1, <1>2, <1>3, <1>4, NoResult DEF ProbeInv

LEMMA ProbeNext == ProbeInv /\ [Next]_vars => ProbeInv'
  <1> SUFFICES ASSUME ProbeInv, [Next]_vars PROVE ProbeInv' OBVIOUS
  <1>0. /\ child \in {None, "starting", "listening", "displaced", "exited"}
        /\ cancelled \in BOOLEAN /\ killed \in BOOLEAN
        /\ killed /\ pc # "idle" => cancelled
        /\ cameUp \in BOOLEAN
        /\ child \in {"listening", "displaced"} => cameUp
    BY DEF ProbeInv, ProbeTypeOK, ResultSound, ChildSound
  <1>1. CASE StartProbe BY <1>1, StartProbeInv
  <1>2. CASE Unsupported BY <1>2, OwnTrouble DEF Unsupported
  <1>3. CASE StartTunnel BY <1>3, StartTunnelInv
  <1>4. CASE Ready BY <1>4, ReadyInv
  <1>5. CASE NotReady BY <1>5, OwnTrouble DEF NotReady
  <1>6. CASE Advance BY <1>6, AdvanceInv
  <1>7. CASE Refuse BY <1>7, RefuseInv
  <1>8. CASE Break BY <1>8, BreakInv
  <1>9. CASE Record BY <1>9, RecordInv
  <1>10. CASE Tick BY <1>10, TickInv
  <1>11. CASE ChildStep
    <2>1. /\ UNCHANGED <<pc, transport, reply, elapsed, began, cancelled, outcome,
                         cause, killed, stored>>
          /\ child # None /\ child' \in {"listening", "displaced", "exited"}
          /\ cameUp' = (cameUp \/ child' # "exited")
      BY <1>11 DEF ChildStep
    <2> QED BY <1>0, <2>1, AroundInv
  <1>12. CASE Cancel
    <2>1. /\ UNCHANGED <<pc, transport, reply, elapsed, began, outcome, cause, cameUp,
                         stored>>
          /\ cancelled' = TRUE /\ killed' = (child # None)
          /\ child' = IF child = None THEN None ELSE "exited"
      BY <1>12 DEF Cancel
    <2> QED BY <1>0, <2>1, AroundInv
  <1>13. CASE Restart
    <2>1. /\ UNCHANGED <<pc, transport, reply, elapsed, began, outcome, cause, stored,
                         child, killed, cameUp>>
          /\ cancelled' = FALSE /\ pc = "idle"
      BY <1>13 DEF Restart
    <2> QED BY <1>0, <2>1, AroundInv
  <1>14. CASE UNCHANGED vars BY <1>0, <1>14, AroundInv DEF vars
  <1> QED BY <1>1, <1>2, <1>3, <1>4, <1>5, <1>6, <1>7, <1>8, <1>9, <1>10, <1>11,
             <1>12, <1>13, <1>14 DEF Next, ProbeStep

-----------------------------------------------------------------------------
(* What a probe promises *)

\* The inductive invariant of a probe, for any timeouts and answers.
THEOREM ProbeInvariance == Spec => []ProbeInv
  BY ProbeInit, ProbeNext, PTL DEF Spec

\* When Ping has returned its cloudflared is gone, and it has returned within
\* the two timeouts.
THEOREM ProbeContained == Spec => []Contained
  <1>1. ProbeInv => Contained
    <2> SUFFICES ASSUME ProbeInv PROVE Contained OBVIOUS
    <2>1. pc \in {"record", "idle"} => child = None
      BY PingSteps DEF ProbeInv, ChildSound, Pinging
    <2>2. /\ elapsed \in Nat /\ began \in Nat
          /\ Timeout \in Nat /\ Startup \in Nat /\ MaxUnlucky \in Nat
      BY TimeoutAssumption DEF ProbeInv, ProbeTypeOK
    <2>3. elapsed <= Startup + MaxUnlucky + Timeout
      BY <2>2 DEF ProbeInv, TimersSound
    <2>4. transport = "direct" => elapsed <= Timeout
      BY <2>2 DEF ProbeInv, TimersSound
    <2> QED BY <2>1, <2>3, <2>4 DEF Contained
  <1> QED BY ProbeInvariance, <1>1, PTL

\* PingJavaEndpoint accepts an answer exactly when it is well formed, for every
\* size of up to 35 bits: readVarInt is the inverse of varInt.
THEOREM ProbeJudges == Spec => []JudgedByContent
  <1>1. ProbeInv => JudgedByContent BY DEF ProbeInv
  <1> QED BY ProbeInvariance, <1>1, PTL

\* PROBE_ERROR is Monitor's own trouble, and Monitor's own trouble is PROBE_ERROR
\* unless somebody had listened on the port of the tunnel.
THEOREM ProbeErrorIsOurs == Spec => []UnknownIsOurs
  <1>1. ProbeInv => UnknownIsOurs BY DEF ProbeInv
  <1> QED BY ProbeInvariance, <1>1, PTL

\* RecordCheck stores nothing of a probe that lost its cloudflared to the
\* shutdown.
THEOREM ShutdownIsSilent == Spec => []ShutdownStoresNothing
  <1>1. ProbeInv => ShutdownStoresNothing BY DEF ProbeInv
  <1> QED BY ProbeInvariance, <1>1, PTL

=============================================================================
