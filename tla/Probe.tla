------------------------------- MODULE Probe -------------------------------
(***************************************************************************)
(* One probe of the Worker and what becomes of it: the Java status ping    *)
(* (internal/minecraft), directly or through a cloudflared child process   *)
(* (internal/transport), up to the RecordCheck behind it.  The bytes of    *)
(* the answer are modelled where the program computes with them, the var-  *)
(* ints; the rest of the answer is whole, cut off or no JSON.              *)
(*                                                                         *)
(* Time is counted in ticks from the call of probe.  The context of the    *)
(* Worker may be cancelled at any time; that kills the child, while the    *)
(* ping itself does not look at the context.                               *)
(***************************************************************************)
EXTENDS Domain, Integers, Sequences

CONSTANTS
  Transports,   \* of the servers: "direct" (also Spectrum), "tunnel", "other"
  Replies,      \* what a server may answer
  Timeout,      \* STATUS_TIMEOUT, in ticks
  Startup,      \* CLOUDFLARED_STARTUP_TIMEOUT, in ticks
  MaxUnlucky    \* bound: ticks for which select prefers the poll to the timer

ASSUME TimeoutAssumption ==
  Timeout \in Nat \ {0} /\ Startup \in Nat \ {0} /\ MaxUnlucky \in Nat

VARIABLES
  pc,         \* the step of the probe that comes next
  transport,  \* server.Transport
  reply,      \* what the server answers
  elapsed,    \* ticks since probe was called
  began,      \* `now' of PingJavaEndpoint
  child,      \* the cloudflared process
  cancelled,  \* the Worker's context is done
  outcome,    \* the CheckResult
  cause,      \* history: the connection, the answer, or Monitor's own side
  killed,     \* history: the context took the child away during this probe
  cameUp,     \* history: somebody has listened on the port of this probe's tunnel
  stored      \* history: what RecordCheck stored of the latest probe

vars == <<pc, transport, reply, elapsed, began, child, cancelled, outcome, cause,
          killed, cameUp, stored>>

None == "none"

Init ==
  /\ pc = "idle"
  /\ transport \in Transports
  /\ reply \in Replies
  /\ elapsed = 0 /\ began = 0
  /\ child = None
  /\ cancelled = FALSE
  /\ outcome = None /\ cause = None
  /\ killed = FALSE /\ cameUp = FALSE
  /\ stored = {}

-----------------------------------------------------------------------------
(* varInt and readVarInt: seven bits a byte, least first, with a flag for  *)
(* more to come                                                            *)

\* What the group of seven bits at the i-th byte counts for.
Place(i) == <<1, 128, 16384, 2097152, 268435456>>[i]

Shifted(v, i) == v \div Place(i)

\* The bytes of a number of 35 bits at most, the last of them not flagged.
varInt(v) ==
  [i \in {j \in 1..5 : j = 1 \/ Shifted(v, j) # 0} |->
     (Shifted(v, i) % 128) + IF i < 5 /\ Shifted(v, i + 1) # 0 THEN 128 ELSE 0]

Flagged(bytes, i) == bytes[i] >= 128

\* What the i-th byte adds, if it is read at all.
Part(bytes, i) ==
  IF \A j \in 1..(i - 1) : Flagged(bytes, j) THEN (bytes[i] % 128) * Place(i) ELSE 0

\* The number read, none when the fifth byte is flagged too ("varint too long").
readVarInt(bytes) ==
  IF \A i \in 1..5 : i \in DOMAIN bytes /\ Flagged(bytes, i)
  THEN {}
  ELSE {Part(bytes, 1) + Part(bytes, 2) + Part(bytes, 3) + Part(bytes, 4)
          + Part(bytes, 5)}

\* Bytes of a number, however long: all but the last are flagged.
Encoded(bytes) ==
  /\ bytes \in Seq(0..255)
  /\ \A i \in 1..Len(bytes) : Flagged(bytes, i) <=> i < Len(bytes)

\* A server writes its numbers as the protocol says, or too long; the size is
\* that of the n bytes to come.
ASSUME ReplyAssumption ==
  \A r \in Replies :
    /\ r.n \in Nat /\ Shifted(r.n, 5) < 128
    /\ Len(r.length) > 0 /\ Encoded(r.length)
    /\ Encoded(r.size) /\ (r.size = varInt(r.n) \/ Len(r.size) > 5)

-----------------------------------------------------------------------------
(* PingJavaEndpoint *)

Steps == <<"dial", "hello", "ask", "length", "id", "size", "body">>

Outcomes == [dial |-> "CONNECT_TIMEOUT",
             hello |-> "CONNECTION_RESET", ask |-> "CONNECTION_RESET",
             length |-> "STATUS_TIMEOUT",
             id |-> "INVALID_STATUS_RESPONSE", size |-> "INVALID_STATUS_RESPONSE",
             body |-> "INVALID_STATUS_RESPONSE"]

Pinging == pc \in DOMAIN Outcomes

\* Mutant of Accepted: the largest size is refused.
AcceptedBelowLimit ==
  /\ pc = "length" => readVarInt(reply.length) # {}
  /\ pc = "size" => \E n \in readVarInt(reply.size) : n >= 1 /\ n < 2^20
  /\ pc = "body" => reply.body = "json"

\* The checks of what was read; the length and the packet ID are not compared
\* with anything.
Accepted ==
  /\ pc = "length" => readVarInt(reply.length) # {}
  /\ pc = "size" => \E n \in readVarInt(reply.size) : n >= 1 /\ n <= 2^20
  /\ pc = "body" => reply.body = "json"

\* Somebody is at the other end of the connection.
Connected == transport = "tunnel" => child \in {"listening", "displaced"}

\* The probe has its result; a child that was started is killed and waited for.
Result(o, why) ==
  /\ outcome' = o
  /\ cause' = why
  /\ pc' = "record"
  /\ child' = None
  /\ UNCHANGED <<transport, reply, elapsed, began, cancelled, killed, cameUp, stored>>

\* Mutant of Advance: the deadline is set when the connection is there.
AdvanceLate ==
  /\ Pinging /\ Connected /\ Accepted
  /\ \/ /\ pc = "body"
        /\ Result(Success, None)
     \/ \E i \in 1..6 :
          /\ pc = Steps[i]
          /\ pc' = Steps[i + 1]
          /\ began' = IF pc = "dial" THEN elapsed ELSE began
          /\ UNCHANGED <<transport, reply, elapsed, child, cancelled, outcome,
                         cause, killed, cameUp, stored>>

\* A step succeeds.
Advance ==
  /\ Pinging /\ Connected /\ Accepted
  /\ \/ /\ pc = "body"
        /\ Result(Success, None)
     \/ \E i \in 1..6 :
          /\ pc = Steps[i]
          /\ pc' = Steps[i + 1]
          /\ UNCHANGED <<transport, reply, elapsed, began, child, cancelled,
                         outcome, cause, killed, cameUp, stored>>

\* What was read is refused.
Refuse ==
  /\ Pinging /\ Connected /\ ~Accepted
  /\ Result(Outcomes[pc], IF child = "displaced" THEN "monitor" ELSE "answer")

\* The call fails: the deadline is over, or the connection is refused or lost.
\* Through a tunnel it may be the tunnel that refuses or loses it.
Break ==
  /\ Pinging
  /\ \E why \in (IF transport = "tunnel" THEN {"monitor"} ELSE {}) \cup
                (IF Connected /\ child # "displaced" THEN {"connection"} ELSE {}) :
       Result(Outcomes[pc], why)

-----------------------------------------------------------------------------
(* probe, and AccessTunnel.Ping *)

StartProbe ==
  /\ pc = "idle"
  /\ transport' \in Transports
  /\ reply' \in Replies
  /\ pc' = CASE transport' = "direct" -> "dial"
             [] transport' = "tunnel" -> "start"
             [] OTHER -> "unsupported"
  /\ elapsed' = 0 /\ began' = 0
  /\ outcome' = None /\ cause' = None
  /\ killed' = FALSE /\ cameUp' = FALSE
  /\ stored' = {}
  /\ UNCHANGED <<child, cancelled>>

Unsupported == pc = "unsupported" /\ Result(ProbeError, "monitor")

\* A free port is found and given up again, and cloudflared is started on it.
StartTunnel ==
  /\ pc = "start"
  /\ \/ Result(ProbeError, "monitor")
     \/ /\ ~cancelled
        /\ child' = "starting"
        /\ pc' = "await"
        /\ UNCHANGED <<transport, reply, elapsed, began, cancelled, outcome, cause,
                       killed, cameUp, stored>>

\* Mutant of Ready: the process has been started, so the ping begins.
ReadyEarly ==
  /\ pc = "await"
  /\ pc' = "dial"
  /\ began' = elapsed
  /\ UNCHANGED <<transport, reply, elapsed, child, cancelled, outcome, cause, killed,
                 cameUp, stored>>

\* waitForListener: whoever accepts a connection on the port will do.
Ready ==
  /\ pc = "await"
  /\ child \in {"listening", "displaced"}
  /\ pc' = "dial"
  /\ began' = elapsed
  /\ UNCHANGED <<transport, reply, elapsed, child, cancelled, outcome, cause, killed,
                 cameUp, stored>>

\* Mutant of NotReady: only the context ends the wait.
NotReadyUntimed ==
  /\ pc = "await"
  /\ cancelled
  /\ Result(ProbeError, "monitor")

\* The startup timeout is over, or the context is done.
NotReady ==
  /\ pc = "await"
  /\ cancelled \/ elapsed >= Startup
  /\ Result(ProbeError, "monitor")

\* Mutant of Record: the result is stored under a context of its own.
RecordAnyway ==
  /\ pc = "record"
  /\ stored' = {[outcome |-> outcome, killed |-> killed]}
  /\ pc' = "idle"
  /\ UNCHANGED <<transport, reply, elapsed, began, child, cancelled, outcome, cause,
                 killed, cameUp>>

\* RecordCheck cannot begin its transaction under a context that is done.
Record ==
  /\ pc = "record"
  /\ stored' = IF cancelled THEN {} ELSE {[outcome |-> outcome, killed |-> killed]}
  /\ pc' = "idle"
  /\ UNCHANGED <<transport, reply, elapsed, began, child, cancelled, outcome, cause,
                 killed, cameUp>>

ProbeStep ==
  \/ StartProbe \/ Unsupported \/ StartTunnel \/ Ready \/ NotReady
  \/ Advance \/ Refuse \/ Break \/ Record

-----------------------------------------------------------------------------
(* Time, cloudflared and the operating system *)

\* No call outlasts its timer.  waitForListener selects between the timer and
\* its poll at random when both are due.
Tick ==
  /\ \/ Pinging /\ elapsed < began + Timeout
     \/ pc = "await" /\ elapsed < Startup + MaxUnlucky
  /\ elapsed' = elapsed + 1
  /\ UNCHANGED <<pc, transport, reply, began, child, cancelled, outcome, cause, killed,
                 cameUp, stored>>

\* cloudflared listens, or finds its port taken by somebody else, or ends.
ChildStep ==
  /\ \/ child = "starting" /\ child' \in {"listening", "displaced"}
     \/ child \in {"starting", "listening"} /\ child' = "exited"
  /\ cameUp' = (cameUp \/ child' # "exited")
  /\ UNCHANGED <<pc, transport, reply, elapsed, began, cancelled, outcome, cause,
                 killed, stored>>

\* SIGTERM: the context is done, and a child is killed with it.
Cancel ==
  /\ ~cancelled
  /\ cancelled' = TRUE
  /\ killed' = (child # None)
  /\ child' = IF child = None THEN None ELSE "exited"
  /\ UNCHANGED <<pc, transport, reply, elapsed, began, outcome, cause, cameUp, stored>>

\* The process has ended and is started again.
Restart ==
  /\ cancelled /\ pc = "idle"
  /\ cancelled' = FALSE
  /\ UNCHANGED <<pc, transport, reply, elapsed, began, child, outcome, cause, killed,
                 cameUp, stored>>

Next == ProbeStep \/ Tick \/ ChildStep \/ Cancel \/ Restart

Spec == Init /\ [][Next]_vars

\* Every call of the probe has a timer, and the timers run.
Fairness == WF_vars(ProbeStep \/ Tick)

FairSpec == Spec /\ Fairness

-----------------------------------------------------------------------------
(* Properties *)

\* When a probe is over its child is gone, and it has taken no longer than the
\* two timeouts, however far the connection got: the deadline of the ping
\* counts from before the dial (java.go:29-38).
Contained ==
  /\ pc \in {"record", "idle"} => child = None
  /\ elapsed <= Startup + MaxUnlucky + Timeout
  /\ transport = "direct" => elapsed <= Timeout

WellFormed(r) ==
  /\ r.n >= 1 /\ r.n <= 2^20 /\ r.size = varInt(r.n)
  /\ Len(r.length) <= 5
  /\ r.body = "json"

\* A status answer whose parts all arrive is a SUCCESS exactly when it is well
\* formed: varInt and readVarInt agree on its size on both sides of the limits
\* (java.go:72), and what its length says does not matter, as long as it ends.
JudgedByContent ==
  outcome = Success \/ cause = "answer" => (outcome = Success <=> WellFormed(reply))

\* A server is never excused by UNKNOWN: PROBE_ERROR only comes from Monitor's
\* own side, whatever the server does and whenever it does it (java.go:32-86,
\* tunnel.go:30-48).  The other way round Monitor's own trouble is stored against
\* a server only after somebody has listened on the port of the tunnel; a tunnel
\* that never came up, or that ended before it did, is always PROBE_ERROR.
UnknownIsOurs ==
  /\ outcome = ProbeError => cause = "monitor"
  /\ cause = "monitor" /\ outcome # ProbeError => transport = "tunnel" /\ cameUp

\* A failure of the transport is classified as UNKNOWN (architecture.md:14): the
\* result of a ping whose cloudflared has ended by itself is PROBE_ERROR.  The
\* code does not look at the child again once its port has been listened on.
TransportIsUnknown ==
  [][cause = None /\ cause' # None /\ child = "exited" /\ ~cancelled
       => outcome' = ProbeError]_vars

\* A probe whose child the shutdown took away is never stored as a failure of
\* the server (worker.go:135, tunnel.go:36).
ShutdownStoresNothing == \A r \in stored : ~r.killed

\* Every probe comes to an end, whatever the server and cloudflared do, and so
\* does every pass.
EveryProbeEnds == pc # "idle" ~> pc = "idle"

-----------------------------------------------------------------------------
(* Why they hold *)

ProbeTypeOK ==
  /\ pc \in {"idle", "start", "unsupported", "await", "record"} \cup DOMAIN Outcomes
  /\ transport \in Transports /\ reply \in Replies
  /\ elapsed \in Nat /\ began \in Nat
  /\ child \in {None, "starting", "listening", "displaced", "exited"}
  /\ cancelled \in BOOLEAN /\ killed \in BOOLEAN /\ cameUp \in BOOLEAN
  /\ outcome \in Outcome \cup {None}
  /\ cause \in {None, "connection", "answer", "monitor"}
  /\ \A r \in stored : r.outcome \in Outcome

\* Only a tunnel has a child, from the start of the wait to the result, and the
\* ping through it begins when somebody listens on its port.
ChildSound ==
  /\ child # None => pc = "await" \/ Pinging
  /\ child # None \/ pc \in {"start", "await"} => transport = "tunnel"
  /\ child \in {"listening", "displaced"} => cameUp
  /\ Pinging /\ transport = "tunnel" => cameUp

\* The wait is before the ping, and each is within its timer.
TimersSound ==
  /\ began <= Startup + MaxUnlucky
  /\ transport # "tunnel" => began = 0
  /\ pc \in {"start", "unsupported"} => elapsed = 0
  /\ pc = "await" => elapsed <= Startup + MaxUnlucky
  /\ Pinging => elapsed <= began + Timeout
  /\ \/ elapsed <= began + Timeout
     \/ transport = "tunnel" /\ elapsed <= Startup + MaxUnlucky

\* What was read before the present step was accepted.
ReadSound ==
  /\ pc \in {"id", "size", "body"} => readVarInt(reply.length) # {}
  /\ pc = "body" => \E n \in readVarInt(reply.size) : n >= 1 /\ n <= 2^20

\* There is no result before the end, and a child is lost to the shutdown only.
ResultSound ==
  /\ pc \notin {"record", "idle"} => outcome = None /\ cause = None
  /\ pc = "record" => outcome # None
  /\ killed /\ pc # "idle" => cancelled

\* The inductive invariant of a probe.
ProbeInv ==
  /\ ProbeTypeOK /\ ChildSound /\ TimersSound /\ ReadSound /\ ResultSound
  /\ JudgedByContent /\ UnknownIsOurs /\ ShutdownStoresNothing

=============================================================================
