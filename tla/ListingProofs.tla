--------------------------- MODULE ListingProofs ---------------------------
(***************************************************************************)
(* Endpoint and members always come from one revision of the listing, for  *)
(* any number of concurrent imports.                                       *)
(***************************************************************************)
EXTENDS Listing, TLAPS

Labels == {"idle", "next", "fetch", "upsert", "delete", "insert", "commit"}

\* Every user of a revision is a user.
LEMMA MembersAreUsers == \A r \in Revs : MembersOf[r] \in SUBSET Users
  BY DEF Users

LEMMA RevsAreNat == \A r \in Revs : r \in Nat
  BY ListingAssumption DEF Revs

LEMMA ListingInit == Init => ListingInv
  <1> SUFFICES ASSUME Init PROVE ListingInv OBVIOUS
  <1>1. TypeOK BY ListingAssumption DEF Init, TypeOK, Revs, First
  <1>2. OneRevision /\ Holding BY DEF Init, OneRevision, Holding
  <1> QED BY <1>1, <1>2 DEF ListingInv

\* A process that ends its import leaves the others their rows.
LEMMA EndKeepsHolding ==
  ASSUME TypeOK, Holding, NEW p \in Processes, Release(p),
         NEW label \in {"idle", "next"}, Goto(p, label),
         \A id \in Ids : lock[id] # p => members'[id] = members[id]
  PROVE  Holding'
  <1> SUFFICES ASSUME NEW q \in Processes, pc'[q] \notin {"idle", "next"}
               PROVE  /\ target'[q] \in Ids
                      /\ pc'[q] \in {"delete", "insert", "commit"}
                           => lock'[target'[q]] = q
                      /\ pc'[q] \in {"insert", "commit"}
                           => deleted'[q] = members'[target'[q]]
    BY DEF Holding
  <1>1. q # p /\ pc'[q] = pc[q] BY DEF Goto, TypeOK
  <1>2. target'[q] = target[q] /\ deleted'[q] = deleted[q]
    BY <1>1 DEF Release, TypeOK
  <1>3. target[q] \in Ids BY <1>1 DEF Holding, TypeOK
  <1>4. CASE pc[q] \in {"delete", "insert", "commit"}
    <2>1. lock[target[q]] = q BY <1>4 DEF Holding
    <2>2. members'[target[q]] = members[target[q]] BY <1>1, <1>3, <2>1
    <2>3. lock'[target[q]] = q BY <1>1, <1>3, <2>1 DEF Release
    <2> QED BY <1>1, <1>2, <1>3, <2>2, <2>3 DEF Holding
  <1> QED BY <1>1, <1>2, <1>3, <1>4

\* The types of what every end of an import changes.
LEMMA EndTypes ==
  ASSUME TypeOK, NEW p \in Processes, Release(p),
         NEW label \in {"idle", "next"}, Goto(p, label)
  PROVE  /\ lock' \in [Ids -> Processes \cup {NoOne}]
         /\ pc' \in [Processes -> Labels]
         /\ target' \in [Processes -> Ids \cup {NoId}]
         /\ fetched' \in [Processes -> [rev : Revs, is : Conditions]]
         /\ deleted' \in [Processes -> SUBSET Users]
  <1>1. First \in [rev : Revs, is : Conditions]
    BY ListingAssumption DEF First, Revs
  <1>2. /\ lock' \in [Ids -> Processes \cup {NoOne}]
        /\ pc' \in [Processes -> Labels]
        /\ target' \in [Processes -> Ids \cup {NoId}]
        /\ deleted' \in [Processes -> SUBSET Users]
    BY DEF TypeOK, Release, Goto, Labels
  <1>3. fetched' \in [Processes -> [rev : Revs, is : Conditions]]
    BY <1>1 DEF TypeOK, Release
  <1> QED BY <1>2, <1>3

LEMMA FailEnds ==
  ASSUME TypeOK, NEW p \in Processes, Fail(p)
  PROVE  Release(p) /\ Goto(p, "idle") /\ queue' \subseteq Ids
  BY DEF Fail, TypeOK

LEMMA SucceedEnds ==
  ASSUME TypeOK, NEW p \in Processes, Succeed(p)
  PROVE  /\ Release(p) /\ queue' \subseteq Ids
         /\ \E label \in {"idle", "next"} : Goto(p, label)
  BY DEF Succeed, TypeOK

\* An import that fails changes nothing that was stored.
LEMMA FailStep ==
  ASSUME ListingInv, NEW p \in Processes, Fail(p), faults' \in 0..MaxFaults,
         UNCHANGED <<listing, endpoint, members>>
  PROVE  ListingInv'
  <1>1. TypeOK' BY FailEnds, EndTypes DEF ListingInv, TypeOK, Labels
  <1>2. OneRevision' BY DEF ListingInv, OneRevision
  <1>3. Holding' BY FailEnds, EndKeepsHolding DEF ListingInv
  <1> QED BY <1>1, <1>2, <1>3 DEF ListingInv

\* At the commit nothing remains of the members that were there before.
LEMMA StoreIsWhole ==
  ASSUME ListingInv, NEW p \in Processes, pc[p] = "commit", Store(p)
  PROVE  /\ OneRevision'
         /\ endpoint' \in [Ids -> 0..MaxRev] /\ members' \in [Ids -> SUBSET Users]
         /\ \A id \in Ids : lock[id] # p => members'[id] = members[id]
  <1>1. /\ target[p] \in Ids /\ fetched[p].rev \in Revs
        /\ lock[target[p]] = p /\ Remaining(p) = {}
    BY DEF ListingInv, TypeOK, Holding, Remaining
  <1>2. fetched[p].rev \in 0..MaxRev /\ fetched[p].rev # 0
    BY <1>1, ListingAssumption DEF Revs
  <1>3. Added(p) \in SUBSET Users BY <1>1, MembersAreUsers DEF Added
  <1>4. members' = [members EXCEPT ![target[p]] = Added(p)]
    BY <1>1 DEF Store
  <1>5. endpoint' = [endpoint EXCEPT ![target[p]] = fetched[p].rev]
    BY DEF Store
  <1>6. OneRevision'
    <2> SUFFICES ASSUME NEW id \in Ids
                 PROVE  members'[id] = IF endpoint'[id] = 0 THEN {}
                                       ELSE MembersOf[endpoint'[id]]
      BY DEF OneRevision
    <2>1. CASE id = target[p]
      BY <2>1, <1>1, <1>2, <1>4, <1>5 DEF ListingInv, TypeOK, Added
    <2>2. CASE id # target[p]
      BY <2>2, <1>4, <1>5 DEF ListingInv, TypeOK, OneRevision
    <2> QED BY <2>1, <2>2
  <1> QED BY <1>1, <1>2, <1>3, <1>4, <1>5, <1>6 DEF ListingInv, TypeOK

LEMMA CommitStep ==
  ASSUME ListingInv, NEW p \in Processes, pc[p] = "commit", Store(p),
         Succeed(p) \/ Fail(p), faults' \in 0..MaxFaults,
         UNCHANGED listing
  PROVE  ListingInv'
  <1>0. TypeOK /\ Holding BY DEF ListingInv
  <1>1. PICK label \in {"idle", "next"} : Goto(p, label)
    BY <1>0, SucceedEnds, FailEnds
  <1>2. Release(p) /\ queue' \subseteq Ids BY <1>0, SucceedEnds, FailEnds
  <1>3. TypeOK'
    BY <1>0, <1>1, <1>2, EndTypes, StoreIsWhole DEF TypeOK, Labels
  <1>4. Holding'
    BY <1>0, <1>1, <1>2, StoreIsWhole, EndKeepsHolding
  <1> QED BY <1>3, <1>4, StoreIsWhole DEF ListingInv

LEMMA ListingStep == ListingInv /\ [Next]_vars => ListingInv'
  <1> SUFFICES ASSUME ListingInv, [Next]_vars PROVE ListingInv'
    OBVIOUS
  <1>0. TypeOK /\ OneRevision /\ Holding BY DEF ListingInv
  <1>1. ASSUME NEW p \in Processes, FetchServer(p) PROVE ListingInv'
    <2>1. CASE Fail(p)
      BY <1>0, <1>1, <2>1, FailStep DEF FetchServer, TypeOK
    <2>2. CASE fetched' = [fetched EXCEPT ![p] = listing[target[p]]]
               /\ Goto(p, "upsert") /\ UNCHANGED <<lock, target, deleted, queue>>
      <3>0. target[p] \in Ids BY <1>0, <1>1 DEF FetchServer, Holding
      <3>1. UNCHANGED <<listing, endpoint, members, faults>>
        BY <1>1 DEF FetchServer
      <3>2. TypeOK' BY <1>0, <2>2, <3>0, <3>1 DEF TypeOK, Goto
      <3>3. Holding' BY <1>0, <2>2, <3>0, <3>1 DEF TypeOK, Goto, Holding
      <3> QED BY <1>0, <3>1, <3>2, <3>3 DEF ListingInv, OneRevision
    <2> QED BY <1>1, <2>1, <2>2 DEF FetchServer
  <1>2. ASSUME NEW p \in Processes, UpsertRow(p) PROVE ListingInv'
    <2>0. target[p] \in Ids BY <1>0, <1>2 DEF UpsertRow, Holding
    <2>1. TypeOK' BY <1>0, <1>2 DEF UpsertRow, TypeOK, Goto
    <2>2. Holding'
      <3> SUFFICES ASSUME NEW q \in Processes
                   PROVE  /\ pc'[q] \in {"fetch", "upsert", "delete", "insert", "commit"}
                               => target[q] \in Ids
                          /\ pc'[q] \in {"delete", "insert", "commit"}
                               => lock'[target[q]] = q
                          /\ pc'[q] \in {"insert", "commit"}
                               => deleted[q] = members[target[q]]
        BY <1>2 DEF UpsertRow, Holding
      <3>1. CASE q = p BY <1>0, <1>2, <2>0, <3>1 DEF UpsertRow, TypeOK, Goto
      <3>2. CASE q # p
        BY <1>0, <1>2, <2>0, <3>2, ListingAssumption DEF UpsertRow, TypeOK, Goto, Holding
      <3> QED BY <3>1, <3>2
    <2> QED BY <1>0, <1>2, <2>1, <2>2 DEF UpsertRow, ListingInv, OneRevision
  <1>3. ASSUME NEW p \in Processes, DeleteMembers(p) PROVE ListingInv'
    <2>0. target[p] \in Ids BY <1>0, <1>3 DEF DeleteMembers, Holding
    <2>1. TypeOK' BY <1>0, <1>3, <2>0 DEF DeleteMembers, TypeOK, Goto
    <2>2. Holding' BY <1>0, <1>3 DEF DeleteMembers, TypeOK, Goto, Holding
    <2> QED BY <1>0, <1>3, <2>1, <2>2 DEF DeleteMembers, ListingInv, OneRevision
  <1>4. ASSUME NEW p \in Processes, InsertMembers(p) PROVE ListingInv'
    <2>1. CASE Fail(p)
      BY <1>0, <1>4, <2>1, FailStep DEF InsertMembers, TypeOK
    <2>2. CASE Goto(p, "commit") /\ UNCHANGED <<lock, target, fetched, deleted, queue>>
      <3>1. TypeOK' BY <1>0, <1>4, <2>2 DEF InsertMembers, TypeOK, Goto
      <3>2. Holding' BY <1>0, <1>4, <2>2 DEF InsertMembers, TypeOK, Goto, Holding
      <3> QED BY <1>0, <1>4, <3>1, <3>2 DEF InsertMembers, ListingInv, OneRevision
    <2> QED BY <1>4, <2>1, <2>2 DEF InsertMembers
  <1>5. ASSUME NEW p \in Processes, Commit(p) PROVE ListingInv'
    BY <1>0, <1>5, CommitStep DEF Commit, TypeOK
  <1>6. ASSUME NEW p \in Processes, Abort(p) \/ CommitUnacked(p) PROVE ListingInv'
    <2>1. faults' \in 0..MaxFaults
      BY <1>0, <1>6, ListingAssumption DEF Abort, CommitUnacked, Fault, TypeOK
    <2> QED BY <1>6, <2>1, FailStep, CommitStep DEF Abort, CommitUnacked
  <1>7. ASSUME NEW q \in Requests, ImportServer(q) PROVE ListingInv'
    <2>1. q \in Processes BY DEF Processes
    <2>2. TypeOK' BY <1>0, <1>7, <2>1 DEF ImportServer, TypeOK, Goto
    <2>3. Holding' BY <1>0, <1>7, <2>1 DEF ImportServer, TypeOK, Goto, Holding
    <2> QED BY <1>0, <1>7, <2>2, <2>3 DEF ImportServer, ListingInv, OneRevision
  <1>8. CASE SyncStart \/ SyncNext
    <2>1. Worker \in Processes BY DEF Processes
    <2>2. TypeOK' BY <1>0, <1>8, <2>1 DEF SyncStart, SyncNext, TypeOK, Goto
    <2>3. Holding' BY <1>0, <1>8, <2>1 DEF SyncStart, SyncNext, TypeOK, Goto, Holding
    <2> QED BY <1>0, <1>8, <2>2, <2>3 DEF SyncStart, SyncNext, ListingInv, OneRevision
  <1>9. ASSUME NEW id \in Ids, Edit(id) \/ ConditionChanges(id) PROVE ListingInv'
    <2>1. listing' \in [Ids -> [rev : Revs, is : Conditions]]
      <3>1. listing[id] \in [rev : Revs, is : Conditions] BY <1>0 DEF TypeOK
      <3>2. CASE Edit(id)
        <4>1. listing[id].rev + 1 \in Revs
          BY <3>1, <3>2, ListingAssumption DEF Edit, Revs
        <4> QED BY <1>0, <3>1, <3>2, <4>1 DEF Edit, TypeOK
      <3>3. CASE ConditionChanges(id)
        BY <1>0, <3>1, <3>3 DEF ConditionChanges, TypeOK
      <3> QED BY <1>9, <3>2, <3>3
    <2>2. TypeOK' BY <1>0, <1>9, <2>1 DEF Edit, ConditionChanges, TypeOK
    <2> QED BY <1>0, <1>9, <2>2 DEF Edit, ConditionChanges, ListingInv, OneRevision,
                                    Holding
  <1>10. CASE UNCHANGED vars
    BY <1>0, <1>10 DEF vars, ListingInv, TypeOK, OneRevision, Holding
  <1> QED
    BY <1>1, <1>2, <1>3, <1>4, <1>5, <1>6, <1>7, <1>8, <1>9, <1>10
    DEF Next, ImportStep

\* Whoever imports at the same time, a server's members are those of the
\* revision its endpoint is from.
THEOREM OneRevisionAlways == Spec => []OneRevision
  <1>1. ListingInv => OneRevision BY DEF ListingInv
  <1> QED BY ListingInit, ListingStep, <1>1, PTL DEF Spec

\* The inductive invariant holds for any number of concurrent imports.
THEOREM ListingInvariance == Spec => []ListingInv
  BY ListingInit, ListingStep, PTL DEF Spec

-----------------------------------------------------------------------------
(* Listing implements ListingCopy *)

Importing == {"upsert", "delete", "insert", "commit"}

\* An import that ends takes the others' listings nowhere.
LEMMA EndNotAhead ==
  ASSUME TypeOK, NotAhead, NEW p \in Processes, Release(p),
         NEW label \in {"idle", "next"}, Goto(p, label), UNCHANGED listing
  PROVE  NotAhead'
  <1> SUFFICES ASSUME NEW q \in Processes, pc'[q] \in Importing
               PROVE  fetched'[q].rev <= listing'[target'[q]].rev
    BY DEF NotAhead, Importing
  <1>1. q # p /\ pc'[q] = pc[q] BY DEF Goto, TypeOK, Importing
  <1>2. target'[q] = target[q] /\ fetched'[q] = fetched[q]
    BY <1>1 DEF Release, TypeOK
  <1> QED BY <1>1, <1>2 DEF NotAhead, Importing

LEMMA NotAheadStep == ListingInv /\ NotAhead /\ [Next]_vars => NotAhead'
  <1> SUFFICES ASSUME ListingInv, NotAhead, [Next]_vars PROVE NotAhead'
    OBVIOUS
  <1>0. TypeOK /\ Holding BY DEF ListingInv
  <1>a. ASSUME NEW p \in Processes, Fail(p), UNCHANGED listing PROVE NotAhead'
    BY <1>0, <1>a, FailEnds, EndNotAhead
  <1>1. ASSUME NEW p \in Processes, FetchServer(p) PROVE NotAhead'
    <2>1. CASE Fail(p) BY <1>1, <1>a, <2>1 DEF FetchServer
    <2>2. CASE fetched' = [fetched EXCEPT ![p] = listing[target[p]]]
               /\ Goto(p, "upsert") /\ UNCHANGED <<lock, target, deleted, queue>>
      <3>1. target[p] \in Ids /\ UNCHANGED listing
        BY <1>0, <1>1 DEF FetchServer, Holding
      <3>2. listing[target[p]].rev \in Revs BY <1>0, <3>1 DEF TypeOK
      <3>a. listing[target[p]].rev <= listing[target[p]].rev BY <3>2, RevsAreNat
      <3> SUFFICES ASSUME NEW q \in Processes, pc'[q] \in Importing
                   PROVE  fetched'[q].rev <= listing[target[q]].rev
        BY <2>2, <3>1 DEF NotAhead, Importing
      <3>3. CASE q = p BY <1>0, <2>2, <3>a, <3>3 DEF TypeOK
      <3>4. CASE q # p BY <1>0, <2>2, <3>4 DEF TypeOK, Goto, NotAhead, Importing
      <3> QED BY <3>3, <3>4
    <2> QED BY <1>1, <2>1, <2>2 DEF FetchServer
  <1>2. ASSUME NEW p \in Processes, UpsertRow(p) \/ DeleteMembers(p) PROVE NotAhead'
    BY <1>0, <1>2 DEF UpsertRow, DeleteMembers, TypeOK, Goto, NotAhead
  <1>3. ASSUME NEW p \in Processes, InsertMembers(p) PROVE NotAhead'
    <2>1. CASE Fail(p) BY <1>3, <1>a, <2>1 DEF InsertMembers
    <2>2. CASE Goto(p, "commit") /\ UNCHANGED <<lock, target, fetched, deleted, queue>>
      BY <1>0, <1>3, <2>2 DEF InsertMembers, TypeOK, Goto, NotAhead
    <2> QED BY <1>3, <2>1, <2>2 DEF InsertMembers
  <1>4. ASSUME NEW p \in Processes, Commit(p) PROVE NotAhead'
    BY <1>0, <1>4, SucceedEnds, EndNotAhead DEF Commit
  <1>5. ASSUME NEW p \in Processes, Abort(p) \/ CommitUnacked(p) PROVE NotAhead'
    BY <1>5, <1>a DEF Abort, CommitUnacked
  <1>6. ASSUME NEW q \in Requests, ImportServer(q) PROVE NotAhead'
    <2>1. q \in Processes BY DEF Processes
    <2> QED BY <1>0, <1>6, <2>1 DEF ImportServer, TypeOK, Goto, NotAhead
  <1>7. CASE SyncStart \/ SyncNext
    <2>1. Worker \in Processes BY DEF Processes
    <2> QED BY <1>0, <1>7, <2>1 DEF SyncStart, SyncNext, TypeOK, Goto, NotAhead
  <1>8. ASSUME NEW id \in Ids, Edit(id) \/ ConditionChanges(id) PROVE NotAhead'
    <2> SUFFICES ASSUME NEW q \in Processes, pc[q] \in Importing
                 PROVE  fetched[q].rev <= listing'[target[q]].rev
      BY <1>8 DEF NotAhead, Edit, ConditionChanges, Importing
    <2>1. target[q] \in Ids BY <1>0 DEF Holding, Importing
    <2>2. /\ listing \in [Ids -> [rev : Revs, is : Conditions]]
          /\ fetched[q].rev \in Revs /\ listing[target[q]].rev \in Revs
      BY <1>0, <2>1 DEF TypeOK
    <2>3. fetched[q].rev <= listing[target[q]].rev BY DEF NotAhead, Importing
    <2>4. CASE id # target[q]
      BY <1>8, <2>1, <2>2, <2>3, <2>4 DEF Edit, ConditionChanges
    <2>5. CASE Edit(id) /\ id = target[q]
      <3>1. listing'[id].rev = listing[id].rev + 1 BY <2>2, <2>5 DEF Edit
      <3> QED BY <2>2, <2>3, <2>5, <3>1, RevsAreNat
    <2>6. CASE ConditionChanges(id) /\ id = target[q]
      <3>1. listing'[id].rev = listing[id].rev BY <2>2, <2>6 DEF ConditionChanges
      <3> QED BY <2>3, <2>6, <3>1
    <2> QED BY <1>8, <2>4, <2>5, <2>6
  <1>9. CASE UNCHANGED vars BY <1>9 DEF vars, NotAhead
  <1> QED BY <1>1, <1>2, <1>3, <1>4, <1>5, <1>6, <1>7, <1>8, <1>9 DEF Next, ImportStep

\* A commit replaces one copy by one that was published.
LEMMA StoreReplaces ==
  ASSUME ListingInv, NotAhead, NEW p \in Processes, pc[p] = "commit", Store(p),
         UNCHANGED listing
  PROVE  \E id \in Ids : Copy!Replace(id)
  <1> DEFINE id == target[p]
             r  == fetched[p].rev
  <1>1. /\ id \in Ids /\ r \in Revs /\ Remaining(p) = {}
        /\ listing[id].rev \in Revs
    BY DEF ListingInv, TypeOK, Holding, Remaining
  <1>2. r \in 1..listing[id].rev BY <1>1, ListingAssumption DEF NotAhead, Revs
  <1>3. Stored' = [Stored EXCEPT ![id] = Copy!Snapshot(r)]
    <2>1. members' = [members EXCEPT ![id] = MembersOf[r]]
      BY <1>1 DEF Store, Added
    <2>2. endpoint' = [endpoint EXCEPT ![id] = r] BY DEF Store
    <2> QED BY <1>1, <2>1, <2>2 DEF Stored, Copy!Snapshot, ListingInv, TypeOK
  <1>4. Published[id] = listing[id].rev /\ Published' = Published
    BY <1>1 DEF Published
  <1> QED BY <1>1, <1>2, <1>3, <1>4 DEF Copy!Replace

LEMMA CopyStep ==
  ListingInv /\ NotAhead /\ [Next]_vars => [Copy!Next]_<<Published, Stored>>
  <1> SUFFICES ASSUME ListingInv, NotAhead, [Next]_vars
               PROVE  Copy!Next \/ UNCHANGED <<Published, Stored>>
    OBVIOUS
  <1>a. ASSUME UNCHANGED <<listing, endpoint, members>>
        PROVE  UNCHANGED <<Published, Stored>>
    BY <1>a DEF Published, Stored
  <1>1. ASSUME NEW p \in Processes, ImportStep(p) \/ Abort(p) \/ CommitUnacked(p)
        PROVE  Copy!Next \/ UNCHANGED <<Published, Stored>>
    <2>1. CASE Commit(p) \/ CommitUnacked(p)
      BY <2>1, StoreReplaces DEF Commit, CommitUnacked, Copy!Next
    <2>2. CASE FetchServer(p) \/ UpsertRow(p) \/ DeleteMembers(p)
               \/ InsertMembers(p) \/ Abort(p)
      BY <2>2, <1>a DEF FetchServer, UpsertRow, DeleteMembers, InsertMembers, Abort
    <2> QED BY <1>1, <2>1, <2>2 DEF ImportStep
  <1>2. ASSUME NEW id \in Ids, Edit(id) PROVE Copy!Publish(id)
    <2>1. listing[id] \in [rev : Revs, is : Conditions] BY DEF ListingInv, TypeOK
    <2>2. Published' = [Published EXCEPT ![id] = @ + 1]
      BY <1>2, <2>1 DEF Edit, Published, ListingInv, TypeOK
    <2> QED BY <1>2, <2>2 DEF Edit, Stored, Copy!Publish
  <1>3. ASSUME NEW id \in Ids, ConditionChanges(id)
        PROVE  UNCHANGED <<Published, Stored>>
    <2>1. listing[id] \in [rev : Revs, is : Conditions] BY DEF ListingInv, TypeOK
    <2>2. Published' = Published
      BY <1>3, <2>1 DEF ConditionChanges, Published, ListingInv, TypeOK
    <2> QED BY <1>3, <2>2 DEF ConditionChanges, Stored
  <1>4. ASSUME (\E q \in Requests : ImportServer(q)) \/ SyncStart \/ SyncNext
               \/ UNCHANGED vars
        PROVE  UNCHANGED <<Published, Stored>>
    BY <1>4, <1>a DEF ImportServer, SyncStart, SyncNext, vars
  <1> QED BY <1>1, <1>2, <1>3, <1>4 DEF Next, Copy!Next

\* Any number of concurrent imports and refreshes, with any failures, are to
\* their readers whole replacements by published revisions (importer.go:23,
\* postgres.go:159).
THEOREM CopyRefinement == Spec => ImplementsCopy
  <1>1. Init => Copy!Init
    BY DEF Init, Copy!Init, Copy!Absent, Published, Stored, First
  <1>2. Init => NotAhead BY DEF Init, NotAhead
  <1> QED BY <1>1, <1>2, ListingInit, ListingStep, NotAheadStep, CopyStep, PTL
          DEF Spec, ImplementsCopy, Copy!Spec, Copy!copyVars

=============================================================================
