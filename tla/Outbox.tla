------------------------------- MODULE Outbox -------------------------------
(***************************************************************************)
(* pending_state_notifications: the API queues the notice of a crowd-      *)
(* driven DEGRADED in the transaction that changes the status, the Worker  *)
(* alone delivers it (dispatchPendingNotifications, discord.StateChanged). *)
(* The notice is posted first and marked delivered afterwards, in two      *)
(* calls that can each fail.                                               *)
(***************************************************************************)
EXTENDS Naturals, FiniteSets

CONSTANTS
  Servers,
  MaxRows,    \* bound: rows ever queued
  Limit,      \* LIMIT of PendingStateNotifications, 100 in the code
  MaxFaults   \* bound: crashes and lost answers

ASSUME OutboxAssumption ==
  /\ MaxRows \in Nat
  /\ Limit \in Nat \ {0}
  /\ MaxFaults \in Nat

Ids == 1..MaxRows

VARIABLES
  row,       \* state of the row with this id
  server,    \* its server_id
  nextId,    \* the bigserial sequence
  channel,   \* the server's Discord channel
  pc,        \* where dispatchPendingNotifications is
  batch,     \* the listed rows it has still to handle
  posts,     \* history: messages posted for the row
  unwanted,  \* history: rows handled while the server had no channel
  faults

vars == <<row, server, nextId, channel, pc, batch, posts, unwanted, faults>>

RowState == {"absent", "uncommitted", "pending", "delivered", "aborted"}
Channel  == {"none", "open", "broken"}

Init ==
  /\ row = [i \in Ids |-> "absent"]
  /\ server \in [Ids -> Servers]
  /\ nextId = 1
  /\ channel \in [Servers -> Channel]
  /\ pc = "idle"
  /\ batch = {}
  /\ posts = [i \in Ids |-> 0]
  /\ unwanted = {}
  /\ faults = 0

-----------------------------------------------------------------------------
(* RecordUserReport: the id is taken before the commit, so rows may become *)
(* visible out of order                                                    *)

Queue ==
  /\ nextId \in Ids
  /\ row' = [row EXCEPT ![nextId] = "uncommitted"]
  /\ nextId' = nextId + 1
  /\ UNCHANGED <<server, channel, pc, batch, posts, unwanted, faults>>

EndTransaction(i) ==
  /\ row[i] = "uncommitted"
  /\ \E end \in {"pending", "aborted"} : row' = [row EXCEPT ![i] = end]
  /\ UNCHANGED <<server, nextId, channel, pc, batch, posts, unwanted, faults>>

-----------------------------------------------------------------------------
(* dispatchPendingNotifications *)

Pending == {i \in Ids : row[i] = "pending"}

\* ORDER BY n.id LIMIT $1
Listed == {i \in Pending : Cardinality({j \in Pending : j <= i}) <= Limit}

List ==
  /\ pc = "idle"
  /\ pc' = "send"
  /\ batch' = Listed
  /\ UNCHANGED <<row, server, nextId, channel, posts, unwanted, faults>>

First == CHOOSE i \in batch : \A j \in batch : i <= j

Finish ==
  /\ pc = "send"
  /\ batch = {}
  /\ pc' = "idle"
  /\ UNCHANGED <<row, server, nextId, channel, batch, posts, unwanted, faults>>

\* StateChanged returns nil: the message is posted, or there was no channel.
Send ==
  /\ pc = "send"
  /\ batch # {}
  /\ \/ /\ channel[server[First]] = "open"
        /\ posts' = [posts EXCEPT ![First] = @ + 1]
        /\ UNCHANGED unwanted
     \/ /\ channel[server[First]] = "none"
        /\ unwanted' = unwanted \cup {First}
        /\ UNCHANGED posts
  /\ pc' = "mark"
  /\ UNCHANGED <<row, server, nextId, channel, batch, faults>>

\* Mutant of SendFails: return in place of continue.
SendFailsReturns ==
  /\ pc = "send"
  /\ batch # {}
  /\ channel[server[First]] = "broken"
  /\ batch' = {}
  /\ UNCHANGED <<row, server, nextId, channel, pc, posts, unwanted, faults>>

\* StateChanged returns an error: `continue'.
SendFails ==
  /\ pc = "send"
  /\ batch # {}
  /\ channel[server[First]] = "broken"
  /\ batch' = batch \ {First}
  /\ UNCHANGED <<row, server, nextId, channel, pc, posts, unwanted, faults>>

\* Mutant of Mark: the whole batch is marked with its first row.
MarkBatch ==
  /\ pc = "mark"
  /\ row' = [i \in Ids |-> IF i \in batch THEN "delivered" ELSE row[i]]
  /\ batch' = {}
  /\ pc' = "send"
  /\ UNCHANGED <<server, nextId, channel, posts, unwanted, faults>>

\* Mutant of Mark: the row is not taken off the batch.
MarkStays ==
  /\ pc = "mark"
  /\ row' = [row EXCEPT ![First] = "delivered"]
  /\ pc' = "send"
  /\ UNCHANGED <<server, nextId, channel, batch, posts, unwanted, faults>>

\* MarkStateNotificationDelivered
Mark ==
  /\ pc = "mark"
  /\ row' = [row EXCEPT ![First] = "delivered"]
  /\ batch' = batch \ {First}
  /\ pc' = "send"
  /\ UNCHANGED <<server, nextId, channel, posts, unwanted, faults>>

DispatchStep == List \/ Finish \/ Send \/ SendFails \/ Mark

-----------------------------------------------------------------------------
(* Faults *)

Fault == faults < MaxFaults /\ faults' = faults + 1

\* Discord posts the message but the answer is lost.
AnswerLost ==
  /\ pc = "send"
  /\ batch # {}
  /\ channel[server[First]] = "open"
  /\ Fault
  /\ posts' = [posts EXCEPT ![First] = @ + 1]
  /\ batch' = batch \ {First}
  /\ UNCHANGED <<row, server, nextId, channel, pc, unwanted>>

\* Marking fails: the error is logged, the row stays pending.
MarkFails ==
  /\ pc = "mark"
  /\ Fault
  /\ batch' = batch \ {First}
  /\ pc' = "send"
  /\ UNCHANGED <<row, server, nextId, channel, posts, unwanted>>

\* The Worker stops; the next one lists again.
Crash ==
  /\ pc # "idle"
  /\ Fault
  /\ pc' = "idle"
  /\ batch' = {}
  /\ UNCHANGED <<row, server, nextId, channel, posts, unwanted>>

-----------------------------------------------------------------------------
(* SetNotificationChannelForDiscordMember, and channels Discord stops or   *)
(* starts accepting messages for.  A configured channel is never removed.  *)

ChannelChanges(s) ==
  /\ \E c \in {"open", "broken"} \ {channel[s]} :
       channel' = [channel EXCEPT ![s] = c]
  /\ UNCHANGED <<row, server, nextId, pc, batch, posts, unwanted, faults>>

Next ==
  \/ Queue
  \/ \E i \in Ids : EndTransaction(i)
  \/ DispatchStep
  \/ AnswerLost \/ MarkFails \/ Crash
  \/ \E s \in Servers : ChannelChanges(s)

\* The Worker dispatches after every pass; Discord and the database answer or
\* fail.
Spec     == Init /\ [][Next]_vars
FairSpec == Spec /\ WF_vars(DispatchStep)

-----------------------------------------------------------------------------
(* Properties *)

TypeOK ==
  /\ row \in [Ids -> RowState]
  /\ server \in [Ids -> Servers]
  /\ nextId \in 1..(MaxRows + 1)
  /\ channel \in [Servers -> Channel]
  /\ pc \in {"idle", "send", "mark"}
  /\ batch \subseteq Ids
  /\ posts \in [Ids -> Nat]
  /\ unwanted \subseteq Ids
  /\ faults \in 0..MaxFaults

\* A row is only marked delivered when its message was posted, or when its
\* server had no channel to post it to (worker.go:89-93).
DeliveredWasPosted ==
  \A i \in Ids : row[i] = "delivered" => posts[i] >= 1 \/ i \in unwanted

\* Every message beyond the first for a row is due to a fault of its own: a
\* crash or a lost answer between posting and marking.
DuplicatesAreFaults == \A i \in Ids : posts[i] <= 1 + faults

\* Rows the Worker cannot get rid of.
Stuck == {i \in Pending : channel[server[i]] = "broken"}

\* README.md:40: queued durably and delivered.  A queued notice whose channel
\* works is delivered in the end, as long as fewer than Limit rows are stuck
\* behind broken channels: those fill every listing (postgres.go:119).
EventuallyDelivered ==
  \A i \in Ids :
    <>[](/\ row[i] \in {"pending", "delivered"}
         /\ channel[server[i]] # "broken"
         /\ Cardinality(Stuck) < Limit)
      => <>(row[i] = "delivered")

\* Inductive: a message not yet accounted for by a mark stands for a fault.
DuplicatesInv ==
  /\ TypeOK
  /\ batch \subseteq Pending
  /\ pc = "mark" => batch # {}
  /\ \A i \in Ids :
       /\ i >= nextId => row[i] = "absent"
       /\ posts[i] <= 1 + faults
       /\ row[i] \notin {"pending", "delivered"} => posts[i] = 0
       /\ row[i] = "pending" /\ ~(pc = "mark" /\ i = First) => posts[i] <= faults
       /\ row[i] = "delivered" => posts[i] >= 1 \/ i \in unwanted
  /\ pc = "mark" => posts[First] >= 1 \/ First \in unwanted

=============================================================================
