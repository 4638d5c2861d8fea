------------------------------ MODULE Console ------------------------------
(***************************************************************************)
(* The owner console of internal/web: the Discord login (login, callback), *)
(* the signed session (signSession, user) and the settings an owner may    *)
(* change (updateServer and the statements behind it).                     *)
(*                                                                         *)
(* net/http serves every request on a goroutine of its own.  The login     *)
(* states are a map of the process, under a mutex, and are gone when it    *)
(* restarts; a session is a cookie that only its expiry ends; who manages  *)
(* a server is what the last import of its listing stored, and an import   *)
(* may commit while a request is under way, even while its statement waits *)
(* for the lock of that very import.                                       *)
(***************************************************************************)
EXTENDS Naturals, FiniteSets

CONSTANTS
  Users,        \* Discord accounts
  Servers,      \* monitored_servers
  Channels,     \* Discord channels
  NoChannel,    \* the server has no row in discord_notification_channels
  States,       \* what randomToken draws, never the same twice
  Handlers,     \* requests served at the same time
  Forms,        \* what the forms of the page may be sent with
  StateLife,    \* 10 minutes
  SessionLife,  \* 24 hours
  MaxTime,      \* bound: the last tick
  MaxRestarts   \* bound: restarts of the API process

Time == 0..MaxTime

\* The three forms of the console page.
Form == [kind : {"enabled"}, value : BOOLEAN]
          \cup [kind : {"channel"}, value : Channels]
          \cup [kind : {"maintenance"}, value : Time \X Time]

ASSUME LifeAssumption ==
  /\ StateLife \in Nat /\ SessionLife \in Nat
  /\ MaxTime \in Nat \ {0} /\ MaxRestarts \in Nat
ASSUME FormsAssumption == Forms \subseteq Form /\ NoChannel \notin Channels

VARIABLES
  now,
  states,      \* App.states: when each login state expires
  drawn,       \* history: the states handed out so far
  presented,   \* history: the states some callback has brought back
  opened,      \* history: how many sessions each state led to
  request,     \* what each handler is doing
  managed,     \* history: handlers whose account has managed the server since the
               \* request came in
  session,     \* per account, when its latest session cookie expires
  role,        \* server_members
  settings,    \* enabled, notification channel and windows of each server
  restarts

login == <<states, drawn, presented, opened>>
vars  == <<now, login, request, managed, session, role, settings, restarts>>

Free      == [at |-> "free"]
NoSession == 0
Role      == {"owner", "manager", "viewer", "none"}

Init ==
  /\ now = 1
  /\ states = [s \in {} |-> 0]
  /\ drawn = {} /\ presented = {}
  /\ opened = [s \in States |-> 0]
  /\ request = [h \in Handlers |-> Free]
  /\ managed = {}
  /\ session = [u \in Users |-> NoSession]
  /\ role = [v \in Servers |-> [u \in Users |-> "owner"]]
  /\ settings = [v \in Servers |->
                   [enabled |-> TRUE, channel |-> NoChannel, windows |-> {}]]
  /\ restarts = 0

Becomes(h, r) == request' = [request EXCEPT ![h] = r]

-----------------------------------------------------------------------------
(* Login *)

\* A new state, good for StateLife.  Nothing removes it but its callback.
Login ==
  /\ \E s \in States \ drawn :
       /\ states' = [t \in DOMAIN states \cup {s} |->
                       IF t = s THEN now + StateLife ELSE states[t]]
       /\ drawn' = drawn \cup {s}
  /\ UNCHANGED <<now, presented, opened, request, managed, session, role, settings,
                 restarts>>

Fresh(s) == s \in DOMAIN states /\ now < states[s]

Remove(s) == states' = [t \in DOMAIN states \ {s} |-> states[t]]

\* Mutants of ConsumeState: the state stays; it is removed when it was good.
KeepState(s)    == UNCHANGED states
RemoveFresh(s)  == IF Fresh(s) THEN Remove(s) ELSE UNCHANGED states

\* consumeState: read and removed under the lock, expired or not.
ConsumeState(s) == Remove(s)

\* callback up to the exchange with Discord.  The same state may be brought
\* back by several requests; an expired state or a missing code ends this one.
Callback(h, s) ==
  /\ request[h] = Free
  /\ s \in drawn
  /\ ConsumeState(s)
  /\ presented' = presented \cup {s}
  /\ \/ Fresh(s) /\ Becomes(h, [at |-> "discord", state |-> s])
     \/ UNCHANGED request
  /\ UNCHANGED <<now, drawn, opened, managed, session, role, settings, restarts>>

\* discordUserID names the account that granted the code; signSession.
OpenSession(h, u) ==
  /\ request[h].at = "discord"
  /\ session' = [session EXCEPT ![u] = now + SessionLife]
  /\ opened' = [opened EXCEPT ![request[h].state] = @ + 1]
  /\ Becomes(h, Free)
  /\ UNCHANGED <<now, states, drawn, presented, managed, role, settings, restarts>>

-----------------------------------------------------------------------------
(* Settings *)

\* user: any signed cookie that has not expired.
SignedIn(u) == session[u] # NoSession /\ now <= session[u]

\* Mutant of Valid: an empty window passes.
ValidOrEmpty(form) == form.kind = "maintenance" => form.value[1] <= form.value[2]

\* The end of a maintenance window lies behind its start (the table's CHECK
\* says the same).
Valid(form) == form.kind = "maintenance" => form.value[1] < form.value[2]

\* EXISTS (SELECT 1 FROM server_members ... role IN ('owner', 'manager'))
Managing == {"owner", "manager"}

Manages(u, v) == role[v][u] \in Managing

\* updateServer up to its statement.
UpdateServer(h, u) ==
  /\ request[h] = Free
  /\ SignedIn(u)
  /\ \E v \in Servers, form \in Forms :
       /\ Valid(form)
       /\ Becomes(h, [at |-> "save", user |-> u, server |-> v, form |-> form])
       /\ managed' = IF Manages(u, v) THEN managed \cup {h} ELSE managed
  /\ UNCHANGED <<now, login, session, role, settings, restarts>>

\* SetEnabled-, SetNotificationChannel- and ScheduleMaintenanceForDiscordMember
Applied(row, form) ==
  CASE form.kind = "enabled"     -> [row EXCEPT !.enabled = form.value]
    [] form.kind = "channel"     -> [row EXCEPT !.channel = form.value]
    [] form.kind = "maintenance" -> [row EXCEPT !.windows = @ \cup {form.value}]

\* Mutant of Accepted: whoever is signed in is believed.
AcceptedSignedIn(u, v) == SignedIn(u)

\* The EXISTS of the statement.
Accepted(u, v) == Manages(u, v)

\* The statement takes its snapshot, server_members with it, and finds the role.
\* Without it no row is affected and the request ends (Fail).
Statement(h) ==
  /\ request[h].at = "save"
  /\ Accepted(request[h].user, request[h].server)
  /\ Becomes(h, [request[h] EXCEPT !.at = "write"])
  /\ UNCHANGED <<now, login, managed, session, role, settings, restarts>>

\* channel_id is UNIQUE.
Unused(v, form) ==
  form.kind = "channel" => \A w \in Servers \ {v} : settings[w].channel # form.value

\* It writes, when it has got the lock of the row.  PostgreSQL looks at the new
\* version of that row then, but at server_members through the old snapshot.
Save(h) ==
  /\ request[h].at = "write"
  /\ LET r == request[h]
     IN  /\ Unused(r.server, r.form)
         /\ settings' = [settings EXCEPT ![r.server] = Applied(@, r.form)]
  /\ Becomes(h, Free)
  /\ managed' = managed \ {h}
  /\ UNCHANGED <<now, login, session, role, restarts>>

\* Discord or the database refuses, or the browser goes away.
Fail(h) ==
  /\ request[h] # Free
  /\ Becomes(h, Free)
  /\ managed' = managed \ {h}
  /\ UNCHANGED <<now, login, session, role, settings, restarts>>

-----------------------------------------------------------------------------
(* The rest of the system *)

\* A request that is about to change the settings of a server.
Changes(h) == request[h].at \in {"save", "write"}

\* UpsertVoxelLinkServer commits (module Listing).
Import(v) ==
  /\ \E u \in Users, r \in Role : role' = [role EXCEPT ![v][u] = r]
  /\ managed' = managed \cup
       {h \in Handlers : /\ Changes(h)
                         /\ role'[request[h].server][request[h].user] \in Managing}
  /\ UNCHANGED <<now, login, request, session, settings, restarts>>

Tick ==
  /\ now < MaxTime
  /\ now' = now + 1
  /\ UNCHANGED <<login, request, managed, session, role, settings, restarts>>

Restart ==
  /\ restarts < MaxRestarts
  /\ restarts' = restarts + 1
  /\ states' = [s \in {} |-> 0]
  /\ request' = [h \in Handlers |-> Free]
  /\ managed' = {}
  /\ UNCHANGED <<now, drawn, presented, opened, session, role, settings>>

-----------------------------------------------------------------------------
Next ==
  \/ Login
  \/ \E h \in Handlers :
       \/ \E s \in States : Callback(h, s)
       \/ \E u \in Users : OpenSession(h, u) \/ UpdateServer(h, u)
       \/ Statement(h) \/ Save(h) \/ Fail(h)
  \/ \E v \in Servers : Import(v)
  \/ Tick
  \/ Restart

Spec == Init /\ [][Next]_vars

-----------------------------------------------------------------------------
(* Properties *)

Request ==
  {Free} \cup [at : {"discord"}, state : States]
         \cup [at : {"save", "write"}, user : Users, server : Servers, form : Form]

Settings == [enabled : BOOLEAN, channel : Channels \cup {NoChannel},
             windows : SUBSET (Time \X Time)]

TypeOK ==
  /\ now \in Time \ {0}
  /\ drawn \subseteq States /\ presented \subseteq drawn
  /\ DOMAIN states \subseteq drawn
  /\ opened \in [States -> Nat]
  /\ request \in [Handlers -> Request]
  /\ managed \subseteq Handlers
  /\ session \in [Users -> Nat]
  /\ role \in [Servers -> [Users -> Role]]
  /\ settings \in [Servers -> Settings]
  /\ \A v \in Servers : \A w \in settings[v].windows : w[1] < w[2]
  /\ restarts \in 0..MaxRestarts

Holders(s) == {h \in Handlers : request[h].at = "discord" /\ request[h].state = s}

\* A login state is good for one session, however many callbacks bring it back
\* at once and whatever Discord answers them (app.go:172, 349): it is in the
\* map, or with one handler, or spent.
SpentOnce ==
  \A s \in States :
    /\ opened[s] + Cardinality(Holders(s)) <= 1
    /\ s \in DOMAIN states => opened[s] = 0 /\ Holders(s) = {}

\* The map grows with every login and is never swept (app.go:164), so what
\* stays in it for ever is exactly what no browser brought back: a state that
\* came back too late is not left behind.
LeftBehind == DOMAIN states \cap presented = {}

\* A setting changes only by an account that has come through the login and
\* has managed the server since the request came in, although the session was
\* checked before, outlives the role and may have expired (postgres.go:345, 356,
\* 367).  The role need not be there any more when the setting changes: the
\* import that takes it away may commit while the statement waits for its lock.
ChangedByManager ==
  [][\A v \in Servers : settings'[v] # settings[v] =>
       \E h \in managed : /\ request[h].at = "write" /\ request[h].server = v
                          /\ session[request[h].user] # NoSession
                          /\ \E s \in States : opened[s] > 0]_vars

-----------------------------------------------------------------------------
(* Why they hold *)

\* Where a state is: not drawn, in the map, with one handler, or spent.
StateSound ==
  \A s \in States :
    /\ s \notin drawn \/ s \in DOMAIN states => opened[s] = 0 /\ Holders(s) = {}
    /\ opened[s] <= 1 /\ (opened[s] = 1 => Holders(s) = {})
    /\ \A g, h \in Holders(s) : g = h

\* A request that changes settings has a valid form and a session behind it,
\* and a session has a login behind it.
SaveSound ==
  /\ \A h \in Handlers : Changes(h) =>
       Valid(request[h].form) /\ session[request[h].user] # NoSession
  /\ \A u \in Users : session[u] # NoSession => \E s \in States : opened[s] > 0

\* A role that the statement finds, or has found, was there during the request.
RoleSound ==
  \A h \in Handlers :
    /\ h \in managed => Changes(h)
    /\ Changes(h) /\ Manages(request[h].user, request[h].server) => h \in managed
    /\ request[h].at = "write" => h \in managed

\* The inductive invariant.
ConsoleInv ==
  /\ TypeOK
  /\ StateSound
  /\ SaveSound
  /\ RoleSound
  /\ LeftBehind

=============================================================================
