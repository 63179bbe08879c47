SPECIFICATION Spec
CONSTANTS
  q1 = q1
  q2 = q2
  a1 = a1
  k0 = k0
  k1 = k1
  Request = {q1, q2}
  Caller = {q1, q2}
  Token = {t1}
  Router = {a1, a2}
  Workloads <- MCWorkloads
  MaxFails = 2
  FailWindow = 2
  LockoutTime = 2
  SessionTTL = 1
  ReachCacheTTL = 2
  ReachTimeout = 1
  Keys = {k0, k1}
  Addrs <- MCAddrs
  Bodies <- MCBodies
  MaxId = 4
  InitTables <- Varied
  Nil = Nil
  None = None
INVARIANTS AuthTypeOK GuessesBounded AnswerTruthful ImportInOrder OneConnection
PROPERTIES AccessJustified CallsKept PanelOpens RequestsAnswered
CHECK_DEADLOCK FALSE
