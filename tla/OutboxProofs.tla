---------------------------- MODULE OutboxProofs ----------------------------
(***************************************************************************)
(* Delivery of queued notices, for any number of rows, servers and faults. *)
(***************************************************************************)
EXTENDS Outbox, WellFoundedInduction, TLAPS

\* The loop of dispatchPendingNotifications has a next row while rows are left.
LEMMA FirstInBatch ==
  ASSUME batch \subseteq Ids, batch # {}
  PROVE  First \in batch
  <1>1. batch \subseteq Nat
    BY OutboxAssumption DEF Ids
  <1>2. \E i \in batch : \A j \in batch : ~(<<j, i>> \in OpToRel(<, Nat))
    BY <1>1, NatLessThanWellFounded, WFMin
  <1>3. \E i \in batch : \A j \in batch : i <= j
    <2>1. PICK i \in batch : \A j \in batch : ~(<<j, i>> \in OpToRel(<, Nat))
      BY <1>2
    <2>2. ASSUME NEW j \in batch PROVE i <= j
      <3>1. <<j, i>> \in Nat \X Nat BY <1>1
      <3>2. ~(j < i) BY <2>1, <3>1 DEF OpToRel
      <3> QED BY <1>1, <3>2
    <2> QED BY <2>2
  <1> QED BY <1>3 DEF First

LEMMA DuplicatesInit == Init => DuplicatesInv
  BY OutboxAssumption
  DEF Init, DuplicatesInv, TypeOK, RowState, Channel, Ids, Pending

LEMMA DuplicatesStep == DuplicatesInv /\ [Next]_vars => DuplicatesInv'
  <1> SUFFICES ASSUME DuplicatesInv, [Next]_vars PROVE DuplicatesInv'
    OBVIOUS
  <1>0. TypeOK BY DEF DuplicatesInv
  <1>1. batch # {} => First \in batch /\ First \in Ids
    BY FirstInBatch DEF DuplicatesInv, TypeOK
  <1>2. CASE Queue
    <2>1. /\ nextId \in Ids /\ nextId \in Nat /\ nextId + 1 \in 1..(MaxRows + 1)
          /\ row[nextId] = "absent"
      BY <1>2, OutboxAssumption DEF Queue, Ids, DuplicatesInv
    <2>2. TypeOK'
      BY <1>0, <1>2, <2>1 DEF Queue, TypeOK, RowState
    <2>3. /\ \A i \in Ids : i # nextId => row'[i] = row[i]
          /\ row'[nextId] = "uncommitted"
      BY <1>0, <1>2, <2>1 DEF Queue, TypeOK
    <2>4. batch' \subseteq Pending'
      BY <1>0, <1>2, <2>1, <2>3 DEF Queue, DuplicatesInv, Pending, TypeOK
    <2>5. \A i \in Ids : i >= nextId' => row'[i] = "absent"
      BY <1>2, <2>1, <2>3, OutboxAssumption DEF Queue, DuplicatesInv, Ids
    <2> QED BY <1>2, <2>1, <2>2, <2>3, <2>4, <2>5
        DEF Queue, DuplicatesInv, First, Pending
  <1>3. ASSUME NEW i \in Ids, EndTransaction(i) PROVE DuplicatesInv'
    <2>1. row[i] = "uncommitted" /\ posts[i] = 0
      BY <1>3 DEF EndTransaction, DuplicatesInv
    <2>2. /\ \A j \in Ids : j # i => row'[j] = row[j]
          /\ row'[i] \in {"pending", "aborted"}
      BY <1>0, <1>3 DEF EndTransaction, TypeOK
    <2>3. TypeOK'
      BY <1>0, <1>3, <2>2 DEF EndTransaction, TypeOK, RowState
    <2>4. batch' \subseteq Pending'
      BY <1>0, <1>3, <2>1, <2>2 DEF EndTransaction, DuplicatesInv, Pending, TypeOK
    <2>5. 0 <= faults BY <1>0, OutboxAssumption DEF TypeOK
    <2>6. pc = "mark" => First # i
      BY <1>1, <2>1 DEF DuplicatesInv, Pending
    <2> QED BY <1>3, <2>1, <2>2, <2>3, <2>4, <2>5, <2>6
        DEF EndTransaction, DuplicatesInv, First
  <1>4. CASE List
    BY <1>0, <1>4 DEF List, Listed, Pending, DuplicatesInv, TypeOK
  <1>5. CASE Finish
    BY <1>0, <1>5 DEF Finish, Pending, DuplicatesInv, TypeOK
  <1>6. CASE Send
    <2>1. First \in Ids /\ row[First] = "pending" /\ First' = First /\ pc = "send"
      BY <1>1, <1>6 DEF Send, DuplicatesInv, Pending, First
    <2>2. posts[First] <= faults /\ posts[First] \in Nat /\ faults \in Nat
      BY <1>0, <2>1, OutboxAssumption DEF DuplicatesInv, TypeOK
    <2>3. /\ \A i \in Ids : i # First => posts'[i] = posts[i]
          /\ posts'[First] \in {posts[First], posts[First] + 1}
          /\ posts' \in [Ids -> Nat]
      BY <1>0, <1>6, <2>1, <2>2 DEF Send, TypeOK
    <2>4. posts'[First] >= 1 \/ First \in unwanted'
      BY <1>0, <1>6, <2>1, <2>2 DEF Send, TypeOK
    <2>5. unwanted \subseteq unwanted' /\ unwanted' \subseteq Ids
      BY <1>0, <1>6, <2>1 DEF Send, TypeOK
    <2>6. TypeOK' BY <1>0, <1>6, <2>3, <2>5 DEF Send, TypeOK
    <2>7. \A i \in Ids :
            /\ i >= nextId' => row'[i] = "absent"
            /\ posts'[i] <= 1 + faults'
            /\ row'[i] \notin {"pending", "delivered"} => posts'[i] = 0
            /\ row'[i] = "pending" /\ ~(pc' = "mark" /\ i = First')
                 => posts'[i] <= faults'
            /\ row'[i] = "delivered" => posts'[i] >= 1 \/ i \in unwanted'
      BY <1>6, <2>1, <2>2, <2>3, <2>4, <2>5 DEF Send, DuplicatesInv
    <2> QED BY <1>6, <2>1, <2>4, <2>6, <2>7 DEF Send, DuplicatesInv, Pending
  <1>7. CASE SendFails
    BY <1>0, <1>7 DEF SendFails, Pending, DuplicatesInv, TypeOK
  <1>8. CASE Mark
    <2>1. /\ First \in batch /\ First \in Ids
          /\ posts[First] >= 1 \/ First \in unwanted
      BY <1>1, <1>8 DEF Mark, DuplicatesInv
    <2>2. /\ \A i \in Ids : i # First => row'[i] = row[i]
          /\ row'[First] = "delivered"
          /\ row[First] = "pending"
      BY <1>0, <1>8, <2>1 DEF Mark, TypeOK, DuplicatesInv, Pending
    <2>3. TypeOK' BY <1>0, <1>8, <2>2 DEF Mark, TypeOK, RowState
    <2>4. batch' \subseteq Pending'
      BY <1>8, <2>2 DEF Mark, DuplicatesInv, Pending
    <2> QED BY <1>8, <2>1, <2>2, <2>3, <2>4 DEF Mark, DuplicatesInv
  <1>9. CASE AnswerLost
    <2>1. First \in Ids /\ row[First] = "pending" /\ pc = "send"
      BY <1>1, <1>9 DEF AnswerLost, DuplicatesInv, Pending
    <2>2. /\ posts[First] <= faults /\ posts \in [Ids -> Nat]
          /\ faults \in Nat /\ faults' = faults + 1 /\ faults' \in 0..MaxFaults
      BY <1>0, <1>9, <2>1, OutboxAssumption
      DEF AnswerLost, Fault, DuplicatesInv, TypeOK
    <2>3. /\ \A i \in Ids : i # First => posts'[i] = posts[i]
          /\ posts'[First] = posts[First] + 1
          /\ posts' \in [Ids -> Nat]
      BY <1>9, <2>1, <2>2 DEF AnswerLost
    <2>4. TypeOK' BY <1>0, <1>9, <2>2, <2>3 DEF AnswerLost, TypeOK
    <2>5. \A i \in Ids :
            /\ posts'[i] <= faults'
            /\ row[i] \notin {"pending", "delivered"} => posts'[i] = 0
            /\ row[i] = "delivered" => posts'[i] >= 1 \/ i \in unwanted
      <3> SUFFICES ASSUME NEW i \in Ids
                   PROVE  /\ posts'[i] <= faults'
                          /\ row[i] \notin {"pending", "delivered"} => posts'[i] = 0
                          /\ row[i] = "delivered" => posts'[i] >= 1 \/ i \in unwanted
        OBVIOUS
      <3>1. posts[i] \in Nat /\ posts[i] <= 1 + faults
        BY <2>2 DEF DuplicatesInv
      <3>2. CASE i = First BY <2>1, <2>2, <2>3, <3>2
      <3>3. CASE i # First
        BY <2>1, <2>2, <2>3, <3>1, <3>3 DEF DuplicatesInv
      <3> QED BY <3>2, <3>3
    <2> QED BY <1>9, <2>1, <2>2, <2>3, <2>4, <2>5
        DEF AnswerLost, DuplicatesInv, Pending, TypeOK
  <1>10. CASE MarkFails \/ Crash
    <2>1. faults \in Nat /\ faults' = faults + 1 /\ faults' \in 0..MaxFaults
      BY <1>0, <1>10, OutboxAssumption DEF MarkFails, Crash, Fault, TypeOK
    <2>2. /\ batch' \subseteq batch /\ pc' \in {"send", "idle"}
          /\ UNCHANGED <<row, server, nextId, channel, posts, unwanted>>
      BY <1>10 DEF MarkFails, Crash
    <2>3. TypeOK' BY <1>0, <2>1, <2>2 DEF TypeOK
    <2>4. \A i \in Ids : posts[i] <= faults' /\ posts[i] <= 1 + faults'
      BY <1>0, <2>1 DEF DuplicatesInv, TypeOK
    <2> QED BY <2>2, <2>3, <2>4 DEF DuplicatesInv, Pending
  <1>11. ASSUME NEW s \in Servers, ChannelChanges(s) PROVE DuplicatesInv'
    BY <1>0, <1>11
    DEF ChannelChanges, DuplicatesInv, TypeOK, Pending, Channel, First
  <1>12. CASE UNCHANGED vars
    BY <1>0, <1>12 DEF vars, DuplicatesInv, TypeOK, Pending, First
  <1> QED
    BY <1>2, <1>3, <1>4, <1>5, <1>6, <1>7, <1>8, <1>9, <1>10, <1>11, <1>12
    DEF Next, DispatchStep

\* A notice is never posted more often than once plus once per fault.
THEOREM OncePerFault == Spec => []DuplicatesAreFaults
  <1>1. DuplicatesInv => DuplicatesAreFaults
    BY DEF DuplicatesInv, DuplicatesAreFaults
  <1> QED BY DuplicatesInit, DuplicatesStep, <1>1, PTL DEF Spec

\* A notice marked delivered was posted, or had no channel to go to.
THEOREM DeliveryIsReal == Spec => []DeliveredWasPosted
  <1>1. DuplicatesInv => DeliveredWasPosted
    BY DEF DuplicatesInv, DeliveredWasPosted
  <1> QED BY DuplicatesInit, DuplicatesStep, <1>1, PTL DEF Spec

\* The inductive invariant: every message beyond a row's first has its fault.
THEOREM DuplicatesInvariance == Spec => []DuplicatesInv
  BY DuplicatesInit, DuplicatesStep, PTL DEF Spec

=============================================================================
