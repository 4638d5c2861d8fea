SPECIFICATION Spec
CONSTANTS
  c1 = c1
  Users = {u1, u2}
  Servers = {v1}
  Channels = {c1}
  NoChannel = NoChannel
  States = {t1, t2}
  Handlers = {h1, h2}
  Forms <- OneOfEach
  StateLife = 1
  SessionLife = 1
  MaxTime = 3
  MaxRestarts = 1
SYMMETRY Interchangeable
INVARIANTS TypeOK SpentOnce LeftBehind
PROPERTY ChangedByManager
