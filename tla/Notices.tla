------------------------------ MODULE Notices ------------------------------
(***************************************************************************)
(* Worker composed with the delivery of its notices, for the messages that *)
(* a server's Discord channel receives.  Run is a loop of one goroutine: a *)
(* pass, then dispatchPendingNotifications, then the ticker.  During the   *)
(* pass check posts the changes it committed itself; the DEGRADED rows of  *)
(* RecordUserReport wait in the outbox for the dispatch behind the pass.   *)
(* A step of this module is a step of Worker or leaves its variables       *)
(* alone.  The listing's LIMIT and broken channels are module Outbox's.    *)
(***************************************************************************)
EXTENDS Worker

CONSTANT MaxMisses   \* bound: calls of Run's loop and of the dispatch that fail

ASSUME MissesAssumption == MaxMisses \in Nat

VARIABLES
  turn,     \* where Run is: its ticker, the pass, or a step of the dispatch
  queued,   \* undelivered rows of pending_state_notifications, per server
  batch,    \* the listed rows still to be sent
  item,     \* the server whose row was sent and is to be marked
  posted,   \* the latest message in the server's channel
  said,     \* history: how often the present status was posted, up to Often
  misses    \* failed calls so far

outbox      == <<queued, batch, item>>
channel     == <<posted, said>>
noticesVars == <<vars, turn, outbox, channel, misses>>

Often == 2

\* A new server is UNKNOWN, which is no news.
NoticesInit ==
  /\ Init
  /\ turn = "wait"
  /\ queued = [s \in Servers |-> 0]
  /\ batch = [s \in Servers |-> 0]
  /\ item = NoServer
  /\ posted = [s \in Servers |-> Unknown]
  /\ said = [s \in Servers |-> 1]
  /\ misses = 0

-----------------------------------------------------------------------------
(* The channel *)

\* StateChanged: the message names the state it is given.
Post(s, state) ==
  /\ posted' = [posted EXCEPT ![s] = state]
  /\ said' = IF status[s] = state /\ said[s] < Often
             THEN [said EXCEPT ![s] = @ + 1] ELSE said

\* A status that changes has not been posted yet.
Unsaid ==
  /\ said' = [s \in Servers |-> IF status'[s] = status[s] THEN said[s] ELSE 0]
  /\ UNCHANGED posted

-----------------------------------------------------------------------------
(* The pass *)

\* Mutant of PostChange: the message names what check started from.
PostPrevious == Post(cur, local)

\* notifier.StateChanged in check
PostChange == Post(cur, tx.state)

PassStep ==
  \/ turn = "wait" /\ RunOnce /\ turn' = "pass" /\ UNCHANGED channel
  \/ EndPass /\ turn' = "list" /\ UNCHANGED channel
  \/ Observe /\ UNCHANGED <<turn, channel>>
  \/ (\E s \in Servers : StartCheck(s)) /\ UNCHANGED <<turn, channel>>
  \/ Commit /\ Unsaid /\ UNCHANGED turn
  \/ Notify /\ PostChange /\ UNCHANGED turn

\* The channel may have got the message whose sending failed.
PassFault ==
  \/ RecordFails /\ UNCHANGED <<turn, channel>>
  \/ CommitUnacked /\ Unsaid /\ UNCHANGED turn
  \/ NotifyFails /\ PostChange /\ UNCHANGED turn
  \/ NotifyFails /\ UNCHANGED <<turn, channel>>
  \/ Crash /\ turn' = "wait" /\ UNCHANGED channel

-----------------------------------------------------------------------------
(* dispatchPendingNotifications, behind the pass *)

List ==
  /\ turn = "list"
  /\ turn' = "send"
  /\ batch' = queued
  /\ UNCHANGED <<queued, item, channel>>

Send(s) ==
  /\ turn = "send"
  /\ batch[s] > 0
  /\ Post(s, Degraded)
  /\ item' = s
  /\ turn' = "mark"
  /\ UNCHANGED <<queued, batch>>

Handled(s) == batch' = [batch EXCEPT ![s] = @ - 1]

\* Mutant of Mark: every row of the server is marked.
MarkServer ==
  /\ turn = "mark"
  /\ queued' = [queued EXCEPT ![item] = 0]
  /\ Handled(item)
  /\ item' = NoServer
  /\ turn' = "send"
  /\ UNCHANGED channel

Mark ==
  /\ turn = "mark"
  /\ queued' = [queued EXCEPT ![item] = @ - 1]
  /\ Handled(item)
  /\ item' = NoServer
  /\ turn' = "send"
  /\ UNCHANGED channel

Finish ==
  /\ turn = "send"
  /\ \A s \in Servers : batch[s] = 0
  /\ turn' = "wait"
  /\ UNCHANGED <<outbox, channel>>

DispatchStep == List \/ (\E s \in Servers : Send(s)) \/ Mark \/ Finish

\* EnabledServers or the listing fails: Run goes on behind it.  Sending fails,
\* with or without a message; marking fails; the process ends.
DispatchFault ==
  \/ turn = "wait" /\ turn' = "list" /\ UNCHANGED <<outbox, channel>>
  \/ turn = "list" /\ turn' = "wait" /\ UNCHANGED <<outbox, channel>>
  \/ /\ turn = "send"
     /\ \E s \in Servers :
          /\ batch[s] > 0
          /\ Handled(s)
          /\ Post(s, Degraded) \/ UNCHANGED channel
     /\ UNCHANGED <<turn, queued, item>>
  \/ /\ turn = "mark"
     /\ Handled(item)
     /\ item' = NoServer
     /\ turn' = "send"
     /\ UNCHANGED <<queued, channel>>
  \/ /\ turn \in {"send", "mark"}
     /\ batch' = [s \in Servers |-> 0]
     /\ item' = NoServer
     /\ turn' = "wait"
     /\ UNCHANGED <<queued, channel>>

-----------------------------------------------------------------------------
(* The API *)

\* The outbox row is written in the transaction that degrades the server.
ReportQueues ==
  /\ \E s \in Reporting :
       /\ CommitReport(s)
       /\ queued' = IF status'[s] = status[s] THEN queued
                    ELSE [queued EXCEPT ![s] = @ + 1]
  /\ Unsaid
  /\ UNCHANGED <<turn, batch, item>>

\* Everything else that Worker's environment does.
Elsewhere ==
  /\ \/ \E s \in Reporting : BeginReport(s) \/ AbortReport(s) \/ SignalChanges(s)
     \/ \E s \in Maintained : MaintenanceChanges(s)
     \/ \E s \in Switched : SetEnabled(s)
  /\ UNCHANGED <<turn, outbox, channel>>

-----------------------------------------------------------------------------
RunStep ==
  \/ PassStep /\ UNCHANGED <<outbox, misses>>
  \/ DispatchStep /\ UNCHANGED <<vars, misses>>

NoticesNext ==
  \/ RunStep
  \/ PassFault /\ UNCHANGED <<outbox, misses>>
  \/ /\ misses < MaxMisses
     /\ misses' = misses + 1
     /\ DispatchFault
     /\ UNCHANGED vars
  \/ (ReportQueues \/ Elsewhere) /\ UNCHANGED misses

NoticesSpec == NoticesInit /\ [][NoticesNext]_noticesVars

\* The same goroutine, its ticker and its timeouts.
NoticesFairSpec == NoticesSpec /\ WF_noticesVars(RunStep)

-----------------------------------------------------------------------------
(* Properties *)

NoticesTypeOK ==
  /\ turn \in {"wait", "pass", "list", "send", "mark"}
  /\ turn # "pass" => pc = "idle"
  /\ queued \in [Servers -> Nat]
  /\ batch \in [Servers -> Nat]
  /\ \A s \in Servers : batch[s] <= queued[s]
  /\ turn \notin {"send", "mark"} => \A s \in Servers : batch[s] = 0
  /\ item \in Servers \cup {NoServer}
  /\ turn = "mark" <=> item \in Servers
  /\ item \in Servers => batch[item] > 0
  /\ posted \in [Servers -> PublicStatus]
  /\ said \in [Servers -> 0..Often]
  /\ misses \in 0..MaxMisses

\* What Worker records as announced has been posted, or waits in the outbox in
\* the row RecordUserReport wrote for it (postgres.go:107).
NoticesAreReal ==
  \A s \in Servers : notices[s] = 1 => said[s] > 0 \/ queued[s] > 0

\* No call of the Worker has failed, Run waits for its ticker and the outbox
\* is empty.
AtRest(s) == faults = 0 /\ turn = "wait" /\ queued[s] = 0

\* Between two passes the status of a server has been posted.  Once it has, the
\* last message in its channel is that status, or a DEGRADED that was queued
\* before it and dispatched behind it: the rows of the API come after the
\* messages of the pass (worker.go:55-59), whatever has become of the server
\* since.
LastWord ==
  \A s \in Servers :
    /\ AtRest(s) => said[s] > 0
    /\ said[s] > 0 => posted[s] \in {status[s], Degraded}

\* Whatever fails, OUTAGE and OPERATIONAL are posted once at most each time they
\* are stored, although check decides and announces from a copy that may have
\* gone wrong by an attempt that stored nothing (worker.go:150).  The copy lets
\* UNKNOWN and DEGRADED be announced again (postgres.go:409, 443).
SaidOnce ==
  \A s \in Servers : status[s] \in {Outage, Operational} => said[s] <= 1

-----------------------------------------------------------------------------
(* Why they hold *)

\* A status that is announced and not posted is a DEGRADED of RecordUserReport,
\* and its row is not the one that is about to be marked.
RowIsKept ==
  \A s \in Servers :
    notices[s] = 1 /\ said[s] = 0 =>
      /\ status[s] = Degraded
      /\ queued[s] > 0
      /\ item = s => queued[s] > batch[s]

\* Nobody but the Worker moves a server out of UNKNOWN or DEGRADED, so a copy
\* that says one of them is right.
CopyIsRight ==
  /\ \A s \in Servers :
       todo[s] \in {Unknown, Degraded} => status[s] = todo[s]
  /\ pc \in {"probe", "commit"} /\ local \in {Unknown, Degraded} =>
       status[cur] = local

\* What StateChanged is about to post is stored and, if it is OUTAGE or
\* OPERATIONAL, not posted yet; or a report has degraded the server meanwhile.
NewsIsFresh ==
  pc = "notify" =>
    \/ /\ tx.state = status[cur]
       /\ status[cur] \in {Outage, Operational} => said[cur] = 0
    \/ tx.state = Operational /\ status[cur] = Degraded /\ said[cur] = 0

\* The inductive invariant of the channel, beside Worker's.
NoticesInv ==
  /\ NoticesTypeOK
  /\ RowIsKept
  /\ CopyIsRight
  /\ NewsIsFresh
  /\ SaidOnce
  /\ \A s \in Servers : said[s] > 0 => posted[s] \in {status[s], Degraded}

=============================================================================
