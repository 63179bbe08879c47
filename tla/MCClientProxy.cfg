SPECIFICATION FairSpec
CONSTANTS
  t1 = t1
  t2 = t2
  t3 = t3
  t4 = t4
  h1 = h1
  h2 = h2
  h3 = h3
  h4 = h4
  x = x
  p1 = p1
  p2 = p2
  e1 = e1
  e2 = e2
  k1 = k1
  k2 = k2
  r1 = r1
  r2 = r2
  Word <- MCWord
  InitT = t1
  ResponseT = t2
  CookieT = t3
  TransportT = t4
  Key <- MCKey
  MacAt <- MCMacAt
  ParamSet <- MCParams
  Jc = 1
  Noise = {h1, h4, x}
  Payload = {x}
  Peer = {p1, p2}
  Ep = {e1, e2}
  OwnKey <- MCOwnKey
  Start <- MCStart
  RouterKey = {r1, r2}
  Src = {s1, s2}
  MaxChanges = 1
  MaxMoves = 1
  Nil = Nil
INVARIANTS
  ClientTypeOK
  SentAsPicked
  RepliesFaithful
PROPERTIES
  ClientHandshakeCompletes
