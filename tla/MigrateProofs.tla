--------------------------- MODULE MigrateProofs ---------------------------
(***************************************************************************)
(* What schema_migrations says is true, for any number of overlapping and  *)
(* interrupted runs.                                                       *)
(***************************************************************************)
EXTENDS Migrate, TLAPS

LEMMA VersionsAre == Versions = {1, 2, 3}
  BY DEF Versions

\* Writing a row keeps the types and the other runs.
LEMMA RecordTypes ==
  ASSUME TypeOK, NEW r \in Runners, NEW v \in Versions,
         NEW next \in {"rollups", "file"}, Record(r, v, next),
         UNCHANGED <<tables, version, faults>>
  PROVE  /\ TypeOK' /\ recorded \subseteq recorded'
         /\ \A q \in Runners : q # r => pc'[q] = pc[q] /\ version'[q] = version[q]
  <1>1. recorded \subseteq recorded' /\ recorded' \subseteq Versions
    BY DEF Record, TypeOK
  <1>2. PICK label \in {"rollups", "file", "down"} : pc' = [pc EXCEPT ![r] = label]
    BY DEF Record, Goto
  <1> QED BY <1>1, <1>2 DEF TypeOK

LEMMA RecordedInit == Init => RecordedInv
  BY LayoutsAssumption, FaultsAssumption
  DEF Init, RecordedInv, Found, TypeOK, RecordedIsReal, Versions

\* What a run has found stays true while other runs work.
LEMMA FoundKept ==
  ASSUME TypeOK, TypeOK', NEW r \in Runners, Found(r), tables \subseteq tables',
         recorded \subseteq recorded', pc'[r] = pc[r], version'[r] = version[r]
  PROVE  Found(r)'
  BY DEF Found, TypeOK

\* A step of run r keeps the invariant when it keeps the types, loses nothing,
\* records what is real and leaves r with something true.
LEMMA StepOfRun ==
  ASSUME RecordedInv, TypeOK', NEW r \in Runners,
         tables \subseteq tables', recorded \subseteq recorded',
         RecordedIsReal', Found(r)',
         \A q \in Runners : q # r => pc'[q] = pc[q] /\ version'[q] = version[q]
  PROVE  RecordedInv'
  BY FoundKept DEF RecordedInv

LEMMA RecordedStep == RecordedInv /\ [Next]_vars => RecordedInv'
  <1> SUFFICES ASSUME RecordedInv, [Next]_vars PROVE RecordedInv'
    OBVIOUS
  <1>0. TypeOK /\ RecordedIsReal /\ \A r \in Runners : Found(r)
    BY DEF RecordedInv
  <1>1. ASSUME NEW r \in Runners,
               Start(r) \/ Count(r) \/ Existing(r) \/ HasRollups(r)
        PROVE  RecordedInv'
    <2>1. /\ UNCHANGED <<tables, recorded, faults>>
          /\ \A q \in Runners : q # r => pc'[q] = pc[q] /\ version'[q] = version[q]
          /\ TypeOK'
      BY <1>0, <1>1 DEF Start, Count, Existing, HasRollups, Goto, TypeOK
    <2>2. Found(r)'
      BY <1>0, <1>1 DEF Start, Count, Existing, HasRollups, Goto, TypeOK, Found,
                        Versions
    <2> QED BY <1>0, <2>1, <2>2, StepOfRun DEF RecordedIsReal
  <1>2. ASSUME NEW r \in Runners, Baseline(r) PROVE RecordedInv'
    <2>1. /\ TypeOK' /\ UNCHANGED tables /\ recorded \subseteq recorded'
          /\ \A q \in Runners : q # r => pc'[q] = pc[q] /\ version'[q] = version[q]
      BY <1>0, <1>2, VersionsAre, RecordTypes DEF Baseline
    <2>2. RecordedIsReal'
      BY <1>0, <1>2 DEF Baseline, Record, RecordedIsReal, Found
    <2>3. Found(r)' BY <1>0, <1>2 DEF Baseline, Record, Goto, TypeOK, Found
    <2> QED BY <2>1, <2>2, <2>3, StepOfRun
  <1>3. ASSUME NEW r \in Runners, BaselineRollups(r) PROVE RecordedInv'
    <2>1. /\ TypeOK' /\ UNCHANGED tables /\ recorded \subseteq recorded'
          /\ \A q \in Runners : q # r => pc'[q] = pc[q] /\ version'[q] = version[q]
      BY <1>0, <1>3, VersionsAre, RecordTypes DEF BaselineRollups
    <2>2. RecordedIsReal'
      BY <1>0, <1>3 DEF BaselineRollups, Record, RecordedIsReal, Found
    <2>3. Found(r)'
      BY <1>0, <1>3 DEF BaselineRollups, Record, Goto, TypeOK, Found, Versions
    <2> QED BY <2>1, <2>2, <2>3, StepOfRun
  <1>4. ASSUME NEW r \in Runners, File(r) PROVE RecordedInv'
    <2>1. /\ UNCHANGED <<tables, recorded>> /\ TypeOK'
          /\ \A q \in Runners : q # r => pc'[q] = pc[q] /\ version'[q] = version[q]
      BY <1>0, <1>4 DEF File, Goto, TypeOK, Versions
    <2>2. Found(r)'
      <3>1. pc[r] = "file" /\ \A v \in Versions : v < version[r] => v \in recorded
        BY <1>0, <1>4 DEF File, Found
      <3>2. CASE version[r] \notin Versions
        <4>1. version[r] = 4 BY <1>0, <3>2 DEF TypeOK, Versions
        <4>2. \A v \in Versions : v < version[r] BY <4>1 DEF Versions
        <4>3. recorded = Versions BY <1>0, <3>1, <4>2 DEF TypeOK
        <4> QED BY <1>0, <1>4, <3>2, <4>3 DEF File, Goto, TypeOK, Found
      <3>3. CASE version[r] \in Versions \cap recorded
        BY <1>0, <1>4, <3>1, <3>3 DEF File, Goto, TypeOK, Found, Versions
      <3>4. CASE version[r] \in Versions \ recorded
        BY <1>0, <1>4, <3>1, <3>4 DEF File, Goto, TypeOK, Found
      <3> QED BY <3>2, <3>3, <3>4
    <2> QED BY <1>0, <2>1, <2>2, StepOfRun DEF RecordedIsReal
  <1>5. ASSUME NEW r \in Runners, ApplyFile(r) PROVE RecordedInv'
    <2>1. version[r] \in Versions
          /\ \A v \in Versions : v < version[r] => v \in recorded
      BY <1>0, <1>5 DEF ApplyFile, Found
    <2>2. /\ tables \subseteq tables' /\ recorded \subseteq recorded'
          /\ tables' \subseteq Versions /\ recorded' \subseteq Versions
          /\ RecordedIsReal' /\ UNCHANGED faults
      BY <1>0, <1>5, <2>1 DEF ApplyFile, TypeOK, RecordedIsReal
    <2>4. version[r] + 1 \in 1..4 BY <2>1 DEF Versions
    <2>5. \A q \in Runners : q # r => pc'[q] = pc[q] /\ version'[q] = version[q]
      BY <1>0, <1>5 DEF ApplyFile, Goto, TypeOK
    <2>6. TypeOK' BY <1>0, <1>5, <2>2, <2>4 DEF ApplyFile, Goto, TypeOK
    <2>3. Found(r)'
      BY <1>0, <1>5, <2>1 DEF ApplyFile, Goto, TypeOK, Found, Versions
    <2> QED BY <2>2, <2>3, <2>5, <2>6, StepOfRun
  <1>6. ASSUME NEW r \in Runners, Interrupt(r) PROVE RecordedInv'
    <2>1. /\ UNCHANGED <<tables, recorded>> /\ TypeOK'
          /\ \A q \in Runners : q # r => pc'[q] = pc[q] /\ version'[q] = version[q]
      BY <1>0, <1>6, FaultsAssumption DEF Interrupt, Goto, TypeOK
    <2>2. Found(r)' BY <1>0, <1>6 DEF Interrupt, Goto, TypeOK, Found
    <2> QED BY <1>0, <2>1, <2>2, StepOfRun DEF RecordedIsReal
  <1>7. CASE UNCHANGED vars
    BY <1>7 DEF vars, RecordedInv, Found, TypeOK, RecordedIsReal
  <1> QED
    BY <1>1, <1>2, <1>3, <1>4, <1>5, <1>6, <1>7 DEF Next, RunnerStep, Served

\* No version is ever recorded whose tables are missing.
THEOREM RecordedSound == Spec => []RecordedIsReal
  <1>1. RecordedInv => RecordedIsReal BY DEF RecordedInv
  <1> QED BY RecordedInit, RecordedStep, <1>1, PTL DEF Spec

\* A run that reports success leaves every migration recorded.
THEOREM SuccessIsComplete == Spec => []DoneIsComplete
  <1>1. RecordedInv => DoneIsComplete BY DEF RecordedInv, Found, DoneIsComplete
  <1> QED BY RecordedInit, RecordedStep, <1>1, PTL DEF Spec

\* The inductive invariant: what a run has read of the schema is still true.
THEOREM RecordedInvariance == Spec => []RecordedInv
  BY RecordedInit, RecordedStep, PTL DEF Spec

=============================================================================
