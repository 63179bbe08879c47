\* One save, which may name another router.
SPECIFICATION FairSpec
CHECK_DEADLOCK FALSE
CONSTANTS
  Nil = Nil
  Empty = Empty
  Garbled = Garbled
  r1 = r1
  r2 = r2
  wg1 = wg1
  wg2 = wg2
  pass = pass
  veth = veth
  hostname = hostname
  veth6 = veth6
  listen = listen
  admin = admin
  Texts <- MCTexts
  Addresses <- MCAddresses
  Addresses6 <- MCAddresses6
  Endpoints <- MCEndpoints
  DefListen = listen
  DefUser = admin
  Doc = {"on", "r2"}
  Offered <- MCOffered
  Writer = {p}
  MaxSaves = 1
  MaxFaults = 0
  MaxCrashes = 0
PROPERTY StaleRulesGone
