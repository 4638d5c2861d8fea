--------------------------- MODULE ConsoleProofs ---------------------------
(***************************************************************************)
(* Proofs about Console, for any number of accounts, servers, channels,    *)
(* login states, requests at the same time, and restarts.                  *)
(***************************************************************************)
EXTENDS Console, FiniteSetTheorems, TLAPS

-----------------------------------------------------------------------------
(* Types *)

\* A form that passes the page's validation, applied to a row.
LEMMA AppliedType ==
  ASSUME NEW row \in Settings, NEW form \in Form, Valid(form),
         \A w \in row.windows : w[1] < w[2]
  PROVE  /\ Applied(row, form) \in Settings
         /\ \A w \in Applied(row, form).windows : w[1] < w[2]
  <1>1. CASE form.kind = "enabled"
    <2>1. form.value \in BOOLEAN BY <1>1 DEF Form
    <2>2. Applied(row, form) = [row EXCEPT !.enabled = form.value]
      BY <1>1 DEF Applied
    <2> QED BY <2>1, <2>2 DEF Settings
  <1>2. CASE form.kind = "channel"
    <2>1. form.value \in Channels BY <1>2 DEF Form
    <2>2. Applied(row, form) = [row EXCEPT !.channel = form.value]
      BY <1>2 DEF Applied
    <2> QED BY <1>2, <2>1, <2>2 DEF Settings
  <1>3. CASE form.kind = "maintenance"
    <2>1. form.value \in Time \X Time BY <1>3 DEF Form
    <2>2. Applied(row, form) = [row EXCEPT !.windows = @ \cup {form.value}]
      BY <1>3 DEF Applied
    <2>3. form.value[1] < form.value[2] BY <1>3 DEF Valid
    <2> QED BY <2>1, <2>2, <2>3 DEF Settings
  <1> QED BY <1>1, <1>2, <1>3 DEF Form

LEMMA InitConsole == Init => ConsoleInv
  <1> SUFFICES ASSUME Init PROVE ConsoleInv OBVIOUS
  <1>1. TypeOK
    BY LifeAssumption DEF Init, TypeOK, Time, Request, Role, Settings, NoSession
  <1>2. \A h \in Handlers : request[h] = Free /\ Free.at = "free"
    BY DEF Init, Free
  <1>3. \A s \in States : Holders(s) = {} BY <1>2 DEF Holders
  <1>4. StateSound BY <1>3 DEF Init, StateSound
  <1>5. SaveSound BY <1>2 DEF Init, SaveSound, Changes, NoSession
  <1>6. LeftBehind BY DEF Init, LeftBehind
  <1>7. RoleSound BY <1>2 DEF Init, RoleSound, Changes
  <1> QED BY <1>1, <1>4, <1>5, <1>6, <1>7 DEF ConsoleInv

\* What a request goes over to is a request, and the others stay.
LEMMA BecomesReq ==
  ASSUME TypeOK, NEW h \in Handlers, NEW r \in Request, Becomes(h, r)
  PROVE  /\ request' \in [Handlers -> Request]
         /\ request'[h] = r
         /\ \A g \in Handlers \ {h} : request'[g] = request[g]
  BY DEF TypeOK, Becomes

\* What a request that changes settings is about.
LEMMA ChangeReq ==
  ASSUME TypeOK, NEW h \in Handlers, Changes(h)
  PROVE  /\ request[h].user \in Users /\ request[h].server \in Servers
         /\ request[h].form \in Form
         /\ [request[h] EXCEPT !.at = "write"] \in Request
         /\ [request[h] EXCEPT !.at = "write"].at = "write"
         /\ [request[h] EXCEPT !.at = "write"].user = request[h].user
         /\ [request[h] EXCEPT !.at = "write"].server = request[h].server
         /\ [request[h] EXCEPT !.at = "write"].form = request[h].form
  <1>1. request[h] \in [at : {"save", "write"}, user : Users, server : Servers, form : Form]
    BY DEF TypeOK, Request, Free, Changes
  <1> QED BY <1>1 DEF Request

LEMMA TypeStep ==
  ASSUME ConsoleInv, [Next]_vars
  PROVE  TypeOK'
  <1>0. TypeOK /\ Free \in Request BY DEF ConsoleInv, Request
  <1> USE DEF login
  <1>1. CASE Login
    <2>1. PICK s \in States \ drawn :
            /\ states' = [t \in DOMAIN states \cup {s} |->
                            IF t = s THEN now + StateLife ELSE states[t]]
            /\ drawn' = drawn \cup {s}
      BY <1>1 DEF Login
    <2>2. DOMAIN states' = DOMAIN states \cup {s} BY <2>1
    <2> QED BY <1>0, <1>1, <2>1, <2>2 DEF Login, TypeOK
  <1>2. ASSUME NEW h \in Handlers, NEW s \in States, Callback(h, s) PROVE TypeOK'
    <2>1. request' \in [Handlers -> Request]
      <3>1. [at |-> "discord", state |-> s] \in Request BY DEF Request
      <3> QED BY <1>0, <1>2, <3>1, BecomesReq DEF Callback, TypeOK
    <2>2. DOMAIN states' = DOMAIN states \ {s}
      BY <1>2 DEF Callback, ConsumeState, Remove
    <2> QED BY <1>0, <1>2, <2>1, <2>2 DEF Callback, TypeOK
  <1>3. ASSUME NEW h \in Handlers, NEW u \in Users, OpenSession(h, u) PROVE TypeOK'
    <2>1. request' \in [Handlers -> Request]
      BY <1>0, <1>3, BecomesReq DEF OpenSession
    <2>2. session' \in [Users -> Nat]
      BY <1>0, <1>3, LifeAssumption DEF OpenSession, TypeOK, Time
    <2>3. opened' \in [States -> Nat]
      <3>1. request[h].state \in States
        BY <1>0, <1>3 DEF OpenSession, TypeOK, Request, Free
      <3> QED BY <1>0, <1>3, <3>1 DEF OpenSession, TypeOK
    <2> QED BY <1>0, <1>3, <2>1, <2>2, <2>3 DEF OpenSession, TypeOK
  <1>4. ASSUME NEW h \in Handlers, NEW u \in Users, UpdateServer(h, u) PROVE TypeOK'
    <2>1. PICK v \in Servers, form \in Forms :
            Becomes(h, [at |-> "save", user |-> u, server |-> v, form |-> form])
      BY <1>4 DEF UpdateServer
    <2>2. [at |-> "save", user |-> u, server |-> v, form |-> form] \in Request
      BY FormsAssumption DEF Request
    <2>3. request' \in [Handlers -> Request]
      BY <1>0, <2>1, <2>2, BecomesReq
    <2> QED BY <1>0, <1>4, <2>3 DEF UpdateServer, TypeOK
  <1>11. ASSUME NEW h \in Handlers, Statement(h) PROVE TypeOK'
    <2>1. request' \in [Handlers -> Request]
      BY <1>0, <1>11, ChangeReq, BecomesReq DEF Statement, Changes
    <2> QED BY <1>0, <1>11, <2>1 DEF Statement, TypeOK
  <1>5. ASSUME NEW h \in Handlers, Save(h) PROVE TypeOK'
    <2>1. request' \in [Handlers -> Request]
      BY <1>0, <1>5, BecomesReq DEF Save
    <2> DEFINE v == request[h].server
               row == Applied(settings[v], request[h].form)
    <2>2. v \in Servers /\ request[h].form \in Form /\ Valid(request[h].form)
      BY <1>0, <1>5, ChangeReq DEF Save, Changes, ConsoleInv, SaveSound
    <2>3. row \in Settings /\ \A w \in row.windows : w[1] < w[2]
      BY <1>0, <2>2, AppliedType DEF TypeOK
    <2>4. settings' = [settings EXCEPT ![v] = row] BY <1>5 DEF Save
    <2> HIDE DEF v, row
    <2>5. /\ settings' \in [Servers -> Settings]
          /\ \A x \in Servers : \A w \in settings'[x].windows : w[1] < w[2]
      BY <1>0, <2>2, <2>3, <2>4 DEF TypeOK
    <2> QED BY <1>0, <1>5, <2>1, <2>5 DEF Save, TypeOK
  <1>6. ASSUME NEW h \in Handlers, Fail(h) PROVE TypeOK'
    <2>1. request' \in [Handlers -> Request]
      BY <1>0, <1>6, BecomesReq DEF Fail
    <2> QED BY <1>0, <1>6, <2>1 DEF Fail, TypeOK
  <1>7. ASSUME NEW v \in Servers, Import(v) PROVE TypeOK'
    <2>1. role' \in [Servers -> [Users -> Role]]
      BY <1>0, <1>7 DEF Import, TypeOK
    <2> QED BY <1>0, <1>7, <2>1 DEF Import, TypeOK
  <1>8. CASE Tick
    <2>1. now' \in Time \ {0}
      BY <1>0, <1>8, LifeAssumption DEF Tick, TypeOK, Time
    <2> QED BY <1>0, <1>8, <2>1 DEF Tick, TypeOK
  <1>9. CASE Restart
    <2>1. restarts' \in 0..MaxRestarts
      BY <1>0, <1>9, LifeAssumption DEF Restart, TypeOK
    <2>2. DOMAIN states' = {} BY <1>9 DEF Restart
    <2> QED BY <1>0, <1>9, <2>1, <2>2 DEF Restart, TypeOK
  <1>10. CASE UNCHANGED vars BY <1>0, <1>10 DEF vars, TypeOK
  <1> QED BY <1>1, <1>2, <1>3, <1>4, <1>5, <1>6, <1>7, <1>8, <1>9, <1>10,
             <1>11 DEF Next

-----------------------------------------------------------------------------
(* Login states *)

\* Handlers that neither wait for Discord before nor after a step are no holders.
LEMMA SameHolders ==
  ASSUME NEW h \in Handlers, request[h].at # "discord", request'[h].at # "discord",
         \A g \in Handlers \ {h} : request'[g] = request[g]
  PROVE  \A s \in States : Holders(s)' = Holders(s)
  BY DEF Holders

LEMMA StateStep ==
  ASSUME ConsoleInv, TypeOK', [Next]_vars
  PROVE  StateSound' /\ LeftBehind'
  <1>0. TypeOK /\ StateSound /\ LeftBehind /\ Free \in Request /\ Free.at = "free"
    BY DEF ConsoleInv, Request, Free
  <1> USE DEF login
  <1>1. CASE Login
    <2>1. PICK s \in States \ drawn :
            /\ states' = [t \in DOMAIN states \cup {s} |->
                            IF t = s THEN now + StateLife ELSE states[t]]
            /\ drawn' = drawn \cup {s}
      BY <1>1 DEF Login
    <2>2. DOMAIN states' = DOMAIN states \cup {s} BY <2>1
    <2>3. UNCHANGED <<presented, opened, request>> BY <1>1 DEF Login
    <2>4. \A x \in States : Holders(x)' = Holders(x) BY <2>3 DEF Holders
    <2>5. StateSound' BY <1>0, <2>1, <2>2, <2>3, <2>4 DEF StateSound
    <2>6. LeftBehind' BY <1>0, <2>1, <2>2, <2>3 DEF LeftBehind, TypeOK
    <2> QED BY <2>5, <2>6
  <1>2. ASSUME NEW h \in Handlers, NEW s \in States, Callback(h, s)
        PROVE  StateSound' /\ LeftBehind'
    <2>1. /\ DOMAIN states' = DOMAIN states \ {s}
          /\ presented' = presented \cup {s}
          /\ UNCHANGED <<drawn, opened>>
          /\ s \in drawn /\ request[h] = Free
      BY <1>2 DEF Callback, ConsumeState, Remove
    <2>2. LeftBehind' BY <1>0, <2>1 DEF LeftBehind
    <2>3. CASE UNCHANGED request
      <3>1. \A x \in States : Holders(x)' = Holders(x) BY <2>3 DEF Holders
      <3> QED BY <1>0, <2>1, <2>2, <3>1 DEF StateSound
    <2>4. CASE Fresh(s) /\ Becomes(h, [at |-> "discord", state |-> s])
      <3>1. [at |-> "discord", state |-> s] \in Request BY DEF Request
      <3>2. /\ request'[h] = [at |-> "discord", state |-> s]
            /\ \A g \in Handlers \ {h} : request'[g] = request[g]
        BY <1>0, <2>4, <3>1, BecomesReq
      <3>3. Holders(s) = {} /\ opened[s] = 0
        BY <1>0, <2>4 DEF StateSound, Fresh
      <3>4. Holders(s)' = {h}
        BY <3>2, <3>3 DEF Holders
      <3>5. \A x \in States \ {s} : Holders(x)' = Holders(x)
        BY <1>0, <2>1, <3>2 DEF Holders
      <3>6. StateSound'
        BY <1>0, <2>1, <3>3, <3>4, <3>5 DEF StateSound
      <3> QED BY <2>2, <3>6
    <2> QED BY <1>2, <2>3, <2>4 DEF Callback
  <1>3. ASSUME NEW h \in Handlers, NEW u \in Users, OpenSession(h, u)
        PROVE  StateSound' /\ LeftBehind'
    <2>0. PICK s \in States : s = request[h].state
      BY <1>0, <1>3 DEF OpenSession, TypeOK, Request, Free
    <2>1. h \in Holders(s)
      BY <1>3, <2>0 DEF OpenSession, Holders
    <2>2. /\ request'[h] = Free
          /\ \A g \in Handlers \ {h} : request'[g] = request[g]
      BY <1>0, <1>3, BecomesReq DEF OpenSession
    <2>3. UNCHANGED <<states, drawn, presented>>
          /\ opened' = [opened EXCEPT ![s] = @ + 1]
      BY <1>3, <2>0 DEF OpenSession
    <2>4. opened[s] = 0 /\ s \in drawn /\ s \notin DOMAIN states
      <3>1. opened[s] <= 1 /\ opened[s] # 1 /\ opened[s] \in Nat
        BY <1>0, <2>1 DEF StateSound, TypeOK
      <3> QED BY <1>0, <2>1, <3>1 DEF StateSound
    <2>5. Holders(s)' = {}
      <3>1. \A g \in Handlers \ {h} : g \notin Holders(s)
        BY <1>0, <2>1 DEF StateSound
      <3> QED BY <1>0, <2>2, <3>1 DEF Holders
    <2>6. \A x \in States \ {s} : Holders(x)' = Holders(x)
      BY <1>0, <2>0, <2>2 DEF Holders
    <2>7. opened'[s] = 1 /\ \A x \in States \ {s} : opened'[x] = opened[x]
      BY <1>0, <2>1, <2>3, <2>4 DEF TypeOK
    <2>8. StateSound'
      BY <1>0, <2>1, <2>3, <2>4, <2>5, <2>6, <2>7 DEF StateSound
    <2> QED BY <1>0, <2>3, <2>8 DEF LeftBehind
  <1>4. ASSUME UNCHANGED login, \A s \in States : Holders(s)' \subseteq Holders(s)
        PROVE  StateSound' /\ LeftBehind'
    BY <1>0, <1>4 DEF StateSound, LeftBehind
  <1>5. ASSUME NEW h \in Handlers, NEW u \in Users, UpdateServer(h, u)
        PROVE  StateSound' /\ LeftBehind'
    <2>1. PICK v \in Servers, form \in Forms :
            Becomes(h, [at |-> "save", user |-> u, server |-> v, form |-> form])
      BY <1>5 DEF UpdateServer
    <2>2. [at |-> "save", user |-> u, server |-> v, form |-> form] \in Request
      BY FormsAssumption DEF Request
    <2>3. /\ request'[h].at = "save"
          /\ \A g \in Handlers \ {h} : request'[g] = request[g]
      BY <1>0, <2>1, <2>2, BecomesReq
    <2>4. request[h].at # "discord" BY <1>0, <1>5 DEF UpdateServer
    <2> QED BY <1>4, <1>5, <2>3, <2>4, SameHolders DEF UpdateServer
  <1>9. ASSUME NEW h \in Handlers, Statement(h) PROVE StateSound' /\ LeftBehind'
    <2>1. /\ request[h].at = "save" /\ request'[h].at = "write"
          /\ \A g \in Handlers \ {h} : request'[g] = request[g]
      BY <1>0, <1>9, ChangeReq, BecomesReq DEF Statement, Changes
    <2> QED BY <1>4, <1>9, <2>1, SameHolders DEF Statement
  <1>6. ASSUME NEW h \in Handlers, Save(h) \/ Fail(h)
        PROVE  StateSound' /\ LeftBehind'
    <2>1. /\ request'[h] = Free
          /\ \A g \in Handlers \ {h} : request'[g] = request[g]
      BY <1>0, <1>6, BecomesReq DEF Save, Fail
    <2>2. \A s \in States : Holders(s)' \subseteq Holders(s)
      BY <1>0, <2>1 DEF Holders
    <2> QED BY <1>4, <1>6, <2>2 DEF Save, Fail
  <1>7. ASSUME UNCHANGED <<login, request>> PROVE StateSound' /\ LeftBehind'
    BY <1>4, <1>7 DEF Holders
  <1>8. CASE Restart
    <2>1. /\ DOMAIN states' = {} /\ UNCHANGED <<drawn, presented, opened>>
          /\ \A h \in Handlers : request'[h] = Free
      BY <1>8 DEF Restart
    <2>2. \A s \in States : Holders(s)' = {} BY <1>0, <2>1 DEF Holders
    <2> QED BY <1>0, <2>1, <2>2 DEF StateSound, LeftBehind
  <1> QED BY <1>1, <1>2, <1>3, <1>5, <1>6, <1>7, <1>8, <1>9
      DEF Next, Import, Tick, vars

-----------------------------------------------------------------------------
(* Settings *)

LEMMA SaveStep ==
  ASSUME ConsoleInv, TypeOK', [Next]_vars
  PROVE  SaveSound'
  <1>0. /\ TypeOK /\ SaveSound /\ Free \in Request
        /\ Free.at = "free"
    BY DEF ConsoleInv, Request, Free
  <1> USE DEF login
  <1>1. ASSUME NEW h \in Handlers, UNCHANGED <<session, opened>>,
               request'[h].at \notin {"save", "write"},
               \A g \in Handlers \ {h} : request'[g] = request[g]
        PROVE  SaveSound'
    BY <1>0, <1>1 DEF SaveSound, Changes, Valid
  <1>2. ASSUME NEW h \in Handlers, NEW s \in States, Callback(h, s) PROVE SaveSound'
    <2>1. [at |-> "discord", state |-> s] \in Request BY DEF Request
    <2>2. /\ request'[h].at \notin {"save", "write"}
          /\ \A g \in Handlers \ {h} : request'[g] = request[g]
      BY <1>0, <1>2, <2>1, BecomesReq DEF Callback
    <2> QED BY <1>0, <1>1, <1>2, <2>2 DEF Callback
  <1>3. ASSUME NEW h \in Handlers, NEW u \in Users, OpenSession(h, u) PROVE SaveSound'
    <2>1. PICK s \in States : s = request[h].state
      BY <1>0, <1>3 DEF OpenSession, TypeOK, Request, Free
    <2>2. opened'[s] > 0
      BY <1>0, <1>3, <2>1 DEF OpenSession, TypeOK
    <2>3. /\ request'[h] = Free
          /\ \A g \in Handlers \ {h} : request'[g] = request[g]
      BY <1>0, <1>3, BecomesReq DEF OpenSession
    <2>4. \A x \in Users : session[x] # NoSession => session'[x] # NoSession
      BY <1>0, <1>3, LifeAssumption DEF OpenSession, TypeOK, Time, NoSession
    <2>5. \A g \in Handlers : Changes(g) => request[g].user \in Users
      BY <1>0, ChangeReq
    <2> QED BY <1>0, <2>1, <2>2, <2>3, <2>4, <2>5 DEF SaveSound, Changes, Valid
  <1>4. ASSUME NEW h \in Handlers, NEW u \in Users, UpdateServer(h, u) PROVE SaveSound'
    <2>1. PICK v \in Servers, form \in Forms :
            /\ Valid(form)
            /\ Becomes(h, [at |-> "save", user |-> u, server |-> v, form |-> form])
      BY <1>4 DEF UpdateServer
    <2>2. [at |-> "save", user |-> u, server |-> v, form |-> form] \in Request
      BY FormsAssumption DEF Request
    <2>3. /\ request'[h].user = u /\ request'[h].form = form
          /\ \A g \in Handlers \ {h} : request'[g] = request[g]
      BY <1>0, <2>1, <2>2, BecomesReq
    <2>4. session[u] # NoSession /\ UNCHANGED <<session, opened>>
      BY <1>4 DEF UpdateServer, SignedIn
    <2> QED BY <1>0, <2>1, <2>3, <2>4 DEF SaveSound, Changes, Valid
  <1>8. ASSUME NEW h \in Handlers, Statement(h) PROVE SaveSound'
    <2>1. /\ Changes(h)
          /\ request'[h].user = request[h].user /\ request'[h].form = request[h].form
          /\ \A g \in Handlers \ {h} : request'[g] = request[g]
      BY <1>0, <1>8, ChangeReq, BecomesReq DEF Statement, Changes
    <2> QED BY <1>0, <1>8, <2>1 DEF Statement, SaveSound, Changes, Valid
  <1>5. ASSUME NEW h \in Handlers, Save(h) \/ Fail(h) PROVE SaveSound'
    <2>1. /\ request'[h] = Free
          /\ \A g \in Handlers \ {h} : request'[g] = request[g]
      BY <1>0, <1>5, BecomesReq DEF Save, Fail
    <2> QED BY <1>0, <1>1, <1>5, <2>1 DEF Save, Fail
  <1>6. CASE Restart
    BY <1>0, <1>6 DEF Restart, SaveSound, Changes
  <1>7. ASSUME UNCHANGED <<session, opened, request>> PROVE SaveSound'
    BY <1>0, <1>7 DEF SaveSound, Changes, Valid
  <1> QED BY <1>2, <1>3, <1>4, <1>5, <1>6, <1>7, <1>8
      DEF Next, Login, Import, Tick, vars

\* What the statement finds of the role was so at some moment of the request.
LEMMA RoleStep ==
  ASSUME ConsoleInv, TypeOK', [Next]_vars
  PROVE  RoleSound'
  <1>0. /\ TypeOK /\ RoleSound /\ Free \in Request
        /\ Free.at = "free"
    BY DEF ConsoleInv, Request, Free
  <1> USE DEF login
  <1>1. ASSUME NEW h \in Handlers, UNCHANGED role,
               request'[h].at \notin {"save", "write"},
               h \notin managed', managed \ {h} = managed' \ {h},
               \A g \in Handlers \ {h} : request'[g] = request[g]
        PROVE  RoleSound'
    BY <1>0, <1>1 DEF RoleSound, Changes, Manages
  <1>2. ASSUME NEW h \in Handlers, NEW s \in States, Callback(h, s) PROVE RoleSound'
    <2>1. [at |-> "discord", state |-> s] \in Request BY DEF Request
    <2>2. /\ request[h] = Free /\ request'[h].at \notin {"save", "write"}
          /\ \A g \in Handlers \ {h} : request'[g] = request[g]
      BY <1>0, <1>2, <2>1, BecomesReq DEF Callback
    <2>3. h \notin managed /\ managed' = managed
      BY <1>0, <1>2, <2>2 DEF Callback, RoleSound, Changes
    <2> QED BY <1>1, <1>2, <2>2, <2>3 DEF Callback
  <1>3. ASSUME NEW h \in Handlers, NEW u \in Users, OpenSession(h, u) PROVE RoleSound'
    <2>1. /\ request[h].at = "discord" /\ request'[h] = Free
          /\ \A g \in Handlers \ {h} : request'[g] = request[g]
      BY <1>0, <1>3, BecomesReq DEF OpenSession
    <2>2. h \notin managed /\ managed' = managed
      BY <1>0, <1>3, <2>1 DEF OpenSession, RoleSound, Changes
    <2> QED BY <1>0, <1>1, <1>3, <2>1, <2>2 DEF OpenSession
  <1>4. ASSUME NEW h \in Handlers, NEW u \in Users, UpdateServer(h, u) PROVE RoleSound'
    <2>1. PICK v \in Servers, form \in Forms :
            /\ Becomes(h, [at |-> "save", user |-> u, server |-> v, form |-> form])
            /\ managed' = IF Manages(u, v) THEN managed \cup {h} ELSE managed
      BY <1>4 DEF UpdateServer
    <2>2. [at |-> "save", user |-> u, server |-> v, form |-> form] \in Request
      BY FormsAssumption DEF Request
    <2>3. /\ request'[h].at = "save" /\ request'[h].user = u /\ request'[h].server = v
          /\ \A g \in Handlers \ {h} : request'[g] = request[g]
      BY <1>0, <2>1, <2>2, BecomesReq
    <2>4. UNCHANGED role BY <1>4 DEF UpdateServer
    <2> QED BY <1>0, <2>1, <2>3, <2>4 DEF RoleSound, Changes, Manages
  <1>5. ASSUME NEW h \in Handlers, Statement(h) PROVE RoleSound'
    <2>1. /\ Changes(h) /\ request'[h].at = "write"
          /\ request'[h].user = request[h].user /\ request'[h].server = request[h].server
          /\ \A g \in Handlers \ {h} : request'[g] = request[g]
      BY <1>0, <1>5, ChangeReq, BecomesReq DEF Statement, Changes
    <2>2. h \in managed /\ UNCHANGED <<managed, role>>
      BY <1>0, <1>5, <2>1 DEF Statement, Accepted, RoleSound
    <2> QED BY <1>0, <2>1, <2>2 DEF RoleSound, Changes, Manages
  <1>6. ASSUME NEW h \in Handlers, Save(h) \/ Fail(h) PROVE RoleSound'
    <2>1. /\ request'[h] = Free
          /\ \A g \in Handlers \ {h} : request'[g] = request[g]
      BY <1>0, <1>6, BecomesReq DEF Save, Fail
    <2>2. managed' = managed \ {h} /\ UNCHANGED role BY <1>6 DEF Save, Fail
    <2> QED BY <1>0, <1>1, <2>1, <2>2
  <1>7. ASSUME NEW v \in Servers, Import(v) PROVE RoleSound'
    <2>1. /\ UNCHANGED request
          /\ managed' = managed \cup
               {h \in Handlers : /\ Changes(h)
                                 /\ role'[request[h].server][request[h].user] \in Managing}
      BY <1>7 DEF Import
    <2> QED BY <1>0, <2>1 DEF RoleSound, Changes, Manages
  <1>8. CASE Restart
    BY <1>0, <1>8 DEF Restart, RoleSound, Changes
  <1>9. ASSUME UNCHANGED <<request, managed, role>> PROVE RoleSound'
    BY <1>0, <1>9 DEF RoleSound, Changes, Manages
  <1> QED BY <1>2, <1>3, <1>4, <1>5, <1>6, <1>7, <1>8, <1>9
      DEF Next, Login, Tick, vars

\* The settings only ever change by a Save.
LEMMA OnlySaveChanges ==
  ASSUME [Next]_vars, settings' # settings
  PROVE  \E h \in Handlers : Save(h)
  BY DEF Next, Login, Callback, OpenSession, UpdateServer, Statement, Fail, Import, Tick,
         Restart, vars

LEMMA ConsoleStep == ConsoleInv /\ [Next]_vars => ConsoleInv'
  BY TypeStep, StateStep, SaveStep, RoleStep DEF ConsoleInv

-----------------------------------------------------------------------------
(* Theorems *)

\* The inductive invariant holds in every reachable state.
THEOREM ConsoleInvariance == Spec => []ConsoleInv
  BY InitConsole, ConsoleStep, PTL DEF Spec

\* The rows that the console writes are well-formed; no window is empty.
THEOREM ConsoleTypeCorrect == Spec => []TypeOK
  <1>1. ConsoleInv => TypeOK BY DEF ConsoleInv
  <1> QED BY <1>1, ConsoleInvariance, PTL

\* A login state leads to one session at most.
THEOREM StateSpentOnce == Spec => []SpentOnce
  <1>1. ConsoleInv => SpentOnce
    <2> SUFFICES ASSUME ConsoleInv, NEW s \in States
                 PROVE  /\ opened[s] + Cardinality(Holders(s)) <= 1
                        /\ s \in DOMAIN states => opened[s] = 0 /\ Holders(s) = {}
      BY DEF SpentOnce
    <2>1. opened[s] \in Nat /\ opened[s] <= 1
      BY DEF ConsoleInv, TypeOK, StateSound
    <2>2. CASE Holders(s) = {}
      <3>1. Cardinality(Holders(s)) = 0 BY <2>2, FS_EmptySet
      <3> QED BY <2>1, <2>2, <3>1 DEF ConsoleInv, StateSound
    <2>3. CASE Holders(s) # {}
      <3>1. PICK h : h \in Holders(s) BY <2>3
      <3>2. Holders(s) = {h} BY <3>1 DEF ConsoleInv, StateSound
      <3>3. Cardinality(Holders(s)) = 1 BY <3>2, FS_Singleton
      <3>4. opened[s] = 0 BY <2>1, <2>3 DEF ConsoleInv, StateSound
      <3> QED BY <2>3, <3>3, <3>4 DEF ConsoleInv, StateSound
    <2> QED BY <2>2, <2>3
  <1> QED BY <1>1, ConsoleInvariance, PTL

\* What stays in the map is what no browser brought back.
THEOREM StatesLeftBehind == Spec => []LeftBehind
  <1>1. ConsoleInv => LeftBehind BY DEF ConsoleInv
  <1> QED BY <1>1, ConsoleInvariance, PTL

\* Every change of a server's settings is made by an account that has come
\* through the login and has managed the server since its request came in.
THEOREM ManagersChange == Spec => ChangedByManager
  <1>1. ASSUME ConsoleInv, [Next]_vars, NEW v \in Servers, settings'[v] # settings[v]
        PROVE  \E h \in managed : /\ request[h].at = "write" /\ request[h].server = v
                                  /\ session[request[h].user] # NoSession
                                  /\ \E s \in States : opened[s] > 0
    <2>1. PICK h \in Handlers : Save(h) BY <1>1, OnlySaveChanges
    <2>2. request[h].at = "write" /\ Changes(h) BY <2>1 DEF Save, Changes
    <2>3. h \in managed BY <1>1, <2>2 DEF ConsoleInv, RoleSound
    <2>4. request[h].server = v
      BY <1>1, <2>1 DEF Save, ConsoleInv, TypeOK
    <2>5. request[h].user \in Users BY <1>1, <2>2, ChangeReq DEF ConsoleInv
    <2>6. /\ session[request[h].user] # NoSession
          /\ \E s \in States : opened[s] > 0
      BY <1>1, <2>2, <2>5 DEF ConsoleInv, SaveSound
    <2> QED BY <2>2, <2>3, <2>4, <2>6
  <1>2. ConsoleInv /\ [Next]_vars =>
          [\A v \in Servers : settings'[v] # settings[v] =>
             \E h \in managed : /\ request[h].at = "write" /\ request[h].server = v
                                /\ session[request[h].user] # NoSession
                                /\ \E s \in States : opened[s] > 0]_vars
    BY <1>1
  <1> QED BY <1>2, ConsoleInvariance, PTL DEF Spec, ChangedByManager

=============================================================================
